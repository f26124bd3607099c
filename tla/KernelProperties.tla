-------------------------- MODULE KernelProperties ---------------------------
(***************************************************************************)
(* What makes the kernel of module Kernel correct.  The state predicates   *)
(* take the kernel state s, so that module KernelProofs can speak of the   *)
(* states inside a system call; the invariants TLC checks apply them to K. *)
(***************************************************************************)
EXTENDS Kernel, FiniteSets

Calls == {"user", "waitpid", "preceive", "psend"}
States == PS_DEAD .. PS_WAIT_QUEUE_FULL
MessageArrays == UNION {[0 .. n - 1 -> Messages \cup {Uninit}] : n \in 0 .. MAXCOUNT}
QueueStructs ==
  [front : Nat, rear : Int, size : Int, capacity : 0 .. MAXCOUNT,
   messages : MessageArrays]

KernelStates ==
  [state : [Pids -> States], prio : [Pids -> Int],
   parent : [Pids -> Pids \cup {NOPID}], attr : [Pids -> Int],
   call : [Pids -> Calls], local : [Pids -> Int],
   message : [Pids -> Messages \cup {Uninit}],
   active_process : Pids,
   runnable : Seq(Pids), dead : Seq(Pids), asleep : Seq(Pids),
   queues : [Fids -> QueueStructs],
   waiting : [Fids \X WaitStates -> Seq(Pids)],
   pit_count : 0 .. ClockSpan - 1, mode : {"run", "panic"}]

(* The fields of the kernel keep the types of their C declarations. *)
TypeOK == K \in KernelStates

-----------------------------------------------------------------------------
(* Lists. *)

InState(s, X, st) == {p \in Pids \ X : s.state[p] = st}
WaitingOn(s, X, fid, st) == {p \in InState(s, X, st) : s.attr[p] = fid}

(* Every process outside X is on exactly the intrusive list its state      *)
(* names, once, and the processes of X are on none: no process is on two   *)
(* lists threaded through the same union.                                  *)
ListsBut(s, X) ==
  /\ IsListOf(s.runnable, InState(s, X, PS_RUNNABLE))
  /\ IsListOf(s.asleep, InState(s, X, PS_ASLEEP))
  /\ \A fid \in Fids, st \in WaitStates :
       IsListOf(s.waiting[<<fid, st>>], WaitingOn(s, X, fid, st))
  /\ \A st \in WaitStates : \A p \in InState(s, X, st) : s.attr[p] \in Fids
  /\ IsInjective(s.dead) /\ Range(s.dead) \subseteq InState(s, X, PS_DEAD)

(* Invariant: remove_runnable, push_runnable, push_dead, the wake-up loops *)
(* and the queue lists keep the list of a process and its state in step.   *)
ListsMatchStates == ListsBut(K, {})

(* Invariant: no pid is lost.  A process that is PS_DEAD ("Reusable") is   *)
(* on the stack start pops, however it ended.                              *)
PidsKept(s) == \A p \in Pids : s.state[p] = PS_DEAD => p \in Range(s.dead)
PidsConserved == PidsKept(K)

(* Invariant: the runnable and waiting lists are sorted by decreasing      *)
(* priority and the asleep list by wake-up time, after chprio too.         *)
Falling(list, key) ==
  \A i, j \in 1 .. Len(list) : i < j => key[list[i]] >= key[list[j]]
Rising(list, key) ==
  \A i, j \in 1 .. Len(list) : i < j => key[list[i]] <= key[list[j]]
Sorted(s) ==
  /\ Falling(s.runnable, s.prio) /\ Rising(s.asleep, s.attr)
  /\ \A fid \in Fids, st \in WaitStates : Falling(s.waiting[<<fid, st>>], s.prio)
ListsSorted == Sorted(K)

Precedes(list, p, q) ==
  \E i, j \in 1 .. Len(list) : i < j /\ list[i] = p /\ list[j] = q

(* p is ahead of q in the new list only by a higher priority, or because   *)
(* it was ahead already and its priority did not change.                   *)
NoOvertakingIn(old, new) ==
  \A p, q \in Pids :
    (/\ Precedes(new, p, q) /\ prio'[p] = prio'[q]
     /\ q \in Range(old) /\ prio'[q] = prio[q])
    => Precedes(old, p, q) /\ prio'[p] = prio[p]

(* Action property: processes of equal priority are served in arrival      *)
(* order, in the runnable list and in both waiting lists of every queue;   *)
(* a process given the priority of others by chprio goes behind them.      *)
NoOvertaking ==
  [][ /\ NoOvertakingIn(runnable, runnable')
      /\ \A w \in Fids \X WaitStates : NoOvertakingIn(waiting[w], waiting'[w]) ]_vars

-----------------------------------------------------------------------------
(* Scheduling. *)

(* Invariant: no assert of scheduler.c or queues.c fails, and the context  *)
(* switch never finds the runnable list empty.                             *)
NoPanic == mode = "run"

(* Invariant: the active process is the one and only PS_RUNNING process,   *)
(* and the idle process is always there to be elected.                     *)
OneRunning ==
  /\ \A p \in Pids : state[p] = PS_RUNNING <=> p = active_process
  /\ state[IDLE] \in {PS_RUNNING, PS_RUNNABLE}

(* Invariant: the idle process, "Lowest priority halt process", is below   *)
(* every process that can run.                                             *)
IdleLowest == \A p \in Pids : state[p] >= PS_RUNNABLE => prio[IDLE] <= prio[p]

TopRuns(s) ==
  \A p \in Pids : s.state[p] = PS_RUNNABLE => s.prio[p] <= s.prio[s.active_process]
TopPriorityRuns == TopRuns(K)

(* Action property: once the first tick has left the boot state, control   *)
(* never comes back to a process while a runnable one has a higher         *)
(* priority; every call that wakes, starts or demotes one ends in          *)
(* fix_scheduler or tick_scheduler.                                        *)
PriorityKept == [][TopPriorityRuns => TopPriorityRuns']_vars

-----------------------------------------------------------------------------
(* Parents and children. *)

(* Invariant: the parent of a process that is not dead is alive; stop      *)
(* leaves no child bound to a pid that start can give to another process.  *)
LiveParents(s) ==
  \A p \in Pids : s.state[p] > PS_DEAD /\ s.parent[p] # NOPID
                    => s.state[s.parent[p]] >= PS_RUNNABLE
ParentsAlive == LiveParents(K)

(* Invariant: a process suspended in waitpid has something left to wait    *)
(* for: "Trigger waiting parent" in stop misses no child.                  *)
ChildrenLeft(s, X) ==
  \A p \in Pids \ X : s.state[p] = PS_WAIT_CHILD
    => Reapable(s, p, s.local[p]) = {} /\ CanWait(s, p, s.local[p])
NoLostChild == ChildrenLeft(K, {})

(* The pid stop wrote for a parent is still a zombie child of that parent  *)
(* when the parent runs again.                                             *)
ChildWritten(s) ==
  \A p \in Pids : s.call[p] = "waitpid" /\ s.state[p] # PS_WAIT_CHILD
    => /\ s.local[p] \in Pids
       /\ s.state[s.local[p]] = PS_ZOMBIE /\ s.parent[s.local[p]] = p

(* Invariant: what waitpid asserts when it resumes, from the wake-up on.   *)
WokenParentHasChild == ChildWritten(K)

(* Action property: a zombie keeps its exit code and its parent until it   *)
(* is reaped, and it is reaped only by that parent or by the parent's end. *)
ZombiesKept ==
  [][ \A c \in Pids : state[c] = PS_ZOMBIE =>
        \/ /\ state'[c] = PS_ZOMBIE
           /\ attr'[c] = attr[c] /\ parent'[c] = parent[c]
        \/ /\ state'[c] = PS_DEAD
           /\ \/ parent[c] = active_process
              \/ state'[parent[c]] < PS_RUNNABLE ]_vars

-----------------------------------------------------------------------------
(* Queues. *)

(* Invariant: receivers wait only on an empty queue and senders only on a  *)
(* full one, and nobody waits on a deleted queue.                          *)
Justified(s) ==
  \A p \in Pids : s.state[p] \in WaitStates =>
    /\ VALID_FID(s, s.attr[p])
    /\ IF s.state[p] = PS_WAIT_QUEUE_EMPTY THEN is_queue_empty(s.queues[s.attr[p]])
       ELSE is_queue_full(s.queues[s.attr[p]])
WaitersJustified == Justified(K)

(* The messages of a queue, oldest first. *)
Contents(q) ==
  [i \in 1 .. q.size |-> q.messages[(q.front + i - 1) % q.capacity]]

(* Invariant: front, rear and size describe the same part of the ring, and *)
(* every slot in it has been written.                                      *)
Ring(q) ==
  ~is_queue_free(q) =>
    /\ q.size \in 0 .. q.capacity
    /\ q.rear = (q.front + q.size + q.capacity - 1) % q.capacity
    /\ \A i \in 1 .. q.size : Contents(q)[i] \in Messages
RingConsistent == \A fid \in Fids : Ring(queues[fid])

(* The number of processes blocked on fid in state st. *)
Blocked(fid, st) == Cardinality({p \in Pids : state[p] = st /\ attr[p] = fid})

(* Invariant: pcount is what queues.h documents: messages plus blocked     *)
(* senders, or the opposite of the number of blocked receivers.            *)
PcountDocumented ==
  \A fid \in Fids : ~is_queue_free(queues[fid]) =>
    pcount(K, fid) = IF Blocked(fid, PS_WAIT_QUEUE_EMPTY) > 0
                     THEN -Blocked(fid, PS_WAIT_QUEUE_EMPTY)
                     ELSE queues[fid].size + Blocked(fid, PS_WAIT_QUEUE_FULL)

(* Invariant: the ring and the waiting lists hold what the calls put there *)
(* and pcount tells both.                                                  *)
QueuesCounted == RingConsistent /\ PcountDocumented

(* Invariant: a preceive that was suspended returns 0 exactly when a       *)
(* sender handed it a message, and -1 when preset or pdelete woke it.      *)
Truthful(s) ==
  \A p \in Pids : s.call[p] = "preceive" =>
    IF s.state[p] = PS_WAIT_QUEUE_EMPTY THEN s.local[p] = 0 /\ s.message[p] = Uninit
    ELSE s.local[p] = IF s.message[p] \in Messages THEN 0 ELSE -1
ReceiveTruthful == Truthful(K)

-----------------------------------------------------------------------------
(* The inductive invariant of module KernelProofs. *)

IdleReady(s) == s.state[IDLE] \in {PS_RUNNING, PS_RUNNABLE}
OnlyActive(s) == \A p \in Pids : s.state[p] = PS_RUNNING => p = s.active_process

QueueCallers(s) ==
  \A p \in Pids : s.state[p] \in WaitStates => s.call[p] # "waitpid"

(* The kernel state inside a system call, before the scheduler runs. *)
Sound(s) ==
  /\ s \in KernelStates /\ ListsBut(s, {})
  /\ IdleReady(s) /\ OnlyActive(s) /\ ChildWritten(s) /\ QueueCallers(s)

(* The kernel state between two steps. *)
Stable(s) == Sound(s) /\ s.state[s.active_process] = PS_RUNNING

(* Indices inside the ring, and an array as long as the capacity. *)
RingOK(q) ==
  q.capacity # 0 =>
    /\ q.front \in 0 .. q.capacity - 1 /\ q.rear \in 0 .. q.capacity - 1
    /\ q.size \in 0 .. q.capacity
    /\ DOMAIN q.messages = 0 .. q.capacity - 1

SafeRings(s) == s.mode = "run" /\ \A fid \in Fids : RingOK(s.queues[fid])

(* Invariant, inductive: the kernel is stable between two steps, and while *)
(* mem_alloc finds room no assert has failed and every ring is well formed. *)
KernelInv == Stable(K) /\ (~MemAllocMayFail => SafeRings(K))

-----------------------------------------------------------------------------
(* Liveness.  The timer interrupts at 200 Hz whatever the programs do; a   *)
(* request that comes while interrupts are masked is kept by the 8259 and  *)
(* served once they are not, so TicPIT is taken if it is possible again    *)
(* and again.  TicPIT steps are those of Ticks, which is possible when     *)
(* TicPIT is, but cheaper to evaluate.  A suspended call goes on as        *)
(* soon as its process is elected.                                         *)

Ticks == Interruptible /\ pit_count' = (pit_count + 1) % ClockSpan

Fairness ==
  SF_pit_count(Ticks) /\ WF_vars(WaitpidResume) /\ WF_vars(QueueCallResume)

FairSpec == Spec /\ Fairness

(* Largest clock at which the timer calls tick_scheduler. *)
LastTick == ((ClockSpan - 1) \div SchedPeriod) * SchedPeriod

Overdue(p) == state[p] = PS_ASLEEP /\ attr[p] <= LastTick

(* Liveness: a process in wait_clock is woken, or killed, even when the    *)
(* processor never goes idle and nobody makes a system call.               *)
SleepersWake == \A p \in Pids : []<>~Overdue(p)

Overlooked(p) ==
  state[p] = PS_RUNNABLE /\
  \A q \in Pids : state[q] \in {PS_RUNNABLE, PS_RUNNING} => prio[q] <= prio[p]

(* Liveness: a runnable process of the highest priority is not passed over *)
(* forever; processes of equal priority share the processor.               *)
RoundRobin == \A p \in Pids : []<>~Overlooked(p)

=============================================================================
