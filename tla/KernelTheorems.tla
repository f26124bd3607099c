--------------------------- MODULE KernelTheorems ----------------------------
(***************************************************************************)
(* Theorems about families, messages and the order of the lists.           *)
(*                                                                         *)
(* The first part says what every call changes, field by field.  The three *)
(* that follow have an invariant each that is inductive together with      *)
(* KernelInv, and a lemma for each kind of change.                         *)
(***************************************************************************)
EXTENDS KernelProofs, FiniteSetTheorems

-----------------------------------------------------------------------------
(***************************************************************************)
(* What every call of the kernel changes, field by field.                  *)
(*                                                                         *)
(* KernelProofs knows that every state inside a call is Sound.  Here each  *)
(* call is described by the change it makes before the scheduler runs: a   *)
(* predicate on the states before and after (Reprioritised, Started,       *)
(* Stopped, Slept, ...) that names every field.  StepKinds says that every *)
(* step of Next is one of these changes followed by the scheduler, and     *)
(* TickQuiet and FixQuiet what the scheduler leaves alone: families,       *)
(* messages and the order of lists are then proved change by change.       *)
(***************************************************************************)

Live == {PS_RUNNABLE, PS_RUNNING, PS_ASLEEP}
Busy == Live \cup WaitStates

(* A process keeps its state and what is attached to it, or moves between  *)
(* the processor, the runnable list and the asleep list.                   *)
Rests(s, t, q) ==
  \/ t.state[q] = s.state[q] /\ t.attr[q] = s.attr[q]
  \/ s.state[q] \in Live /\ t.state[q] \in Live

(* What the scheduler leaves alone. *)
Quiet(s, t) ==
  /\ t.parent = s.parent /\ t.call = s.call /\ t.local = s.local
  /\ t.message = s.message /\ t.queues = s.queues /\ t.dead = s.dead
  /\ \A q \in Pids : Rests(s, t, q)

(* Being quiet is transitive. *)
LEMMA QuietTrans ==
  ASSUME NEW s, NEW t, NEW u, Quiet(s, t), Quiet(t, u)
  PROVE  Quiet(s, u)
BY DEF Quiet, Rests

(* A state is quiet with respect to itself. *)
LEMMA QuietSelf ==
  ASSUME NEW s
  PROVE  Quiet(s, s)
BY DEF Quiet, Rests

(* The states of Live and Busy, and the others. *)
LEMMA BusyStates ==
  /\ PS_RUNNABLE \in Live /\ PS_RUNNING \in Live /\ PS_ASLEEP \in Live
  /\ Live \subseteq Busy /\ WaitStates \subseteq Busy
  /\ \A st \in Busy : st >= PS_RUNNABLE /\ st \notin {PS_DEAD, PS_ZOMBIE, PS_WAIT_CHILD}
  /\ \A st \in Live : st \notin WaitStates
  /\ \A st \in States : /\ st \in {PS_DEAD, PS_ZOMBIE, PS_WAIT_CHILD} \cup Busy
                        /\ st > PS_DEAD <=> st # PS_DEAD
                        /\ st >= PS_RUNNABLE <=> st \notin {PS_DEAD, PS_ZOMBIE}
BY DEF Live, Busy, States, WaitStates, PS_DEAD, PS_ZOMBIE, PS_RUNNABLE, PS_RUNNING,
       PS_ASLEEP, PS_WAIT_CHILD, PS_WAIT_QUEUE_EMPTY, PS_WAIT_QUEUE_FULL

-----------------------------------------------------------------------------
(* The scheduler. *)

(* push_runnable on a process that was live already. *)
LEMMA PushRunnableQuiet ==
  ASSUME NEW s \in KernelStates, NEW p \in Pids, s.state[p] \in Live
  PROVE  Quiet(s, push_runnable(s, p))
<1> DEFINE t == push_runnable(s, p)
<1>1. /\ t.state = With(s.state, p, PS_RUNNABLE) /\ t.attr = With(s.attr, p, 0)
      /\ t.dead = s.dead /\ t.queues = s.queues /\ SameBlocks(s, t)
  BY PushRunnableFields
<1> HIDE DEF t
<1>2. s.state \in [Pids -> States] /\ s.attr \in [Pids -> Int]
  BY DEF KernelStates
<1>3. \A q \in Pids : Rests(s, t, q)
  BY <1>1, <1>2, BusyStates DEF Rests, With
<1> QED BY <1>1, <1>3 DEF Quiet, SameBlocks, t

(* One turn of the loop that wakes sleepers. *)
LEMMA WakeFirstQuiet ==
  ASSUME NEW s, Sound(s), s.asleep # <<>>
  PROVE  Quiet(s, WakeFirst(s))
<1> DEFINE p == Head(s.asleep)
           z == Tail(s.asleep)
           u == [s EXCEPT !.asleep = z]
<1>1. s \in KernelStates /\ s.asleep \in Seq(Pids)
      /\ IsListOf(s.asleep, InState(s, {}, PS_ASLEEP))
  BY DEF Sound, KernelStates, ListsBut
<1>2. p \in Pids /\ s.state[p] = PS_ASLEEP /\ z \in Seq(Pids)
  <2>1. p \in Pids /\ p \in InState(s, {}, PS_ASLEEP) /\ z \in Seq(Pids)
    BY <1>1, TailList
  <2> QED BY <2>1 DEF InState
<1>3. WakeFirst(s) = push_runnable(u, p)
  BY <1>2 DEF WakeFirst, assert
<1> HIDE DEF p, z
<1>4. u \in KernelStates /\ u.state = s.state /\ Quiet(s, u)
  BY <1>1, <1>2 DEF KernelStates, Quiet, Rests
<1> HIDE DEF u
<1>5. Quiet(u, push_runnable(u, p))
  BY <1>2, <1>4, PushRunnableQuiet, BusyStates
<1> QED BY <1>3, <1>4, <1>5, QuietTrans

(* The loop. *)
LEMMA WakeDueQuiet ==
  ASSUME NEW s, Sound(s)
  PROVE  Quiet(s, WakeDue(s))
<1> DEFINE G == {t \in KernelStates : Sound(t) /\ Quiet(s, t)}
<1>1. s \in G
  BY QuietSelf DEF Sound
<1>2. ASSUME NEW t \in G, t.asleep # <<>>
      PROVE  WakeFirst(t) \in G
  <2> DEFINE u == WakeFirst(t)
  <2>1. Sound(u) /\ Quiet(t, u)
    BY <1>2, WakeFirstSound, WakeFirstQuiet
  <2> HIDE DEF u
  <2>2. u \in G
    BY <2>1, QuietTrans DEF Sound
  <2> QED BY <2>2 DEF u
<1> HIDE DEF G
<1>3. WakeDue(s) \in G
  BY <1>1, <1>2, WakeDueKeeps
<1> QED BY <1>3 DEF G

(* The context switch, field by field. *)
LEMMA ElectFields ==
  ASSUME NEW s, Sound(s), s.runnable # <<>>
  PROVE  LET t    == Elect(s)
             prev == s.active_process
             next == Head(s.runnable)
             rest == Tail(s.runnable)
             runs == s.state[prev] = PS_RUNNING
         IN
         /\ next \in Pids /\ prev \in Pids /\ rest \in Seq(Pids)
         /\ s.state[next] = PS_RUNNABLE
         /\ t.state = With(IF runs THEN With(s.state, prev, PS_RUNNABLE) ELSE s.state,
                           next, PS_RUNNING)
         /\ t.attr = IF runs THEN With(s.attr, prev, 0) ELSE s.attr
         /\ t.runnable = IF runs THEN InsertAt(rest, PrioSlot(rest, s.prio, prev), prev)
                         ELSE rest
         /\ t.asleep = s.asleep /\ t.waiting = s.waiting /\ t.dead = s.dead
         /\ t.active_process = next /\ t.queues = s.queues /\ SameBlocks(s, t)
<1> DEFINE prev == s.active_process
           next == Head(s.runnable)
           rest == Tail(s.runnable)
           runs == s.state[prev] = PS_RUNNING
           popped == [s EXCEPT !.active_process = next, !.runnable = rest]
           queued == IF runs THEN push_runnable(popped, prev) ELSE popped
           x == With(queued.state, next, PS_RUNNING)
           t == Elect(s)
<1>1. s \in KernelStates /\ s.runnable \in Seq(Pids) /\ prev \in Pids
      /\ IsListOf(s.runnable, InState(s, {}, PS_RUNNABLE))
  BY DEF Sound, KernelStates, ListsBut
<1>2. next \in Pids /\ s.state[next] = PS_RUNNABLE /\ rest \in Seq(Pids)
  <2>1. next \in Pids /\ next \in InState(s, {}, PS_RUNNABLE) /\ rest \in Seq(Pids)
    BY <1>1, TailList
  <2> QED BY <2>1 DEF InState
<1>3. t = [queued EXCEPT !.state = x]
  BY DEF Elect, With
<1> HIDE DEF prev, next, rest, t, x
<1>4. /\ popped \in KernelStates /\ popped.state = s.state /\ popped.attr = s.attr
      /\ popped.runnable = rest /\ popped.asleep = s.asleep
      /\ popped.waiting = s.waiting /\ popped.dead = s.dead
      /\ popped.active_process = next /\ popped.queues = s.queues
      /\ SameBlocks(s, popped)
  BY <1>1, <1>2 DEF KernelStates, SameBlocks
<1> HIDE DEF popped
<1>5. /\ queued \in KernelStates
      /\ queued.state = IF runs THEN With(s.state, prev, PS_RUNNABLE) ELSE s.state
      /\ queued.attr = IF runs THEN With(s.attr, prev, 0) ELSE s.attr
      /\ queued.runnable = IF runs THEN InsertAt(rest, PrioSlot(rest, s.prio, prev), prev)
                           ELSE rest
      /\ queued.asleep = s.asleep /\ queued.waiting = s.waiting /\ queued.dead = s.dead
      /\ queued.active_process = next /\ queued.queues = s.queues
      /\ SameBlocks(s, queued)
  <2>1. CASE runs
    <3>1. queued = push_runnable(popped, prev)
      BY <2>1
    <3> HIDE DEF queued
    <3>2. /\ queued \in KernelStates
          /\ queued.state = With(popped.state, prev, PS_RUNNABLE)
          /\ queued.attr = With(popped.attr, prev, 0)
          /\ queued.runnable = InsertAt(popped.runnable,
                                 PrioSlot(popped.runnable, popped.prio, prev), prev)
          /\ queued.asleep = popped.asleep /\ queued.waiting = popped.waiting
          /\ queued.dead = popped.dead /\ queued.active_process = popped.active_process
          /\ queued.queues = popped.queues /\ SameBlocks(popped, queued)
      BY <1>1, <1>4, <3>1, PushRunnableFields
    <3> QED BY <1>4, <2>1, <3>2 DEF SameBlocks
  <2>2. CASE ~runs
    BY <1>4, <2>2
  <2> QED BY <2>1, <2>2
<1> HIDE DEF queued, runs
<1>6. /\ t.state = x /\ t.attr = queued.attr /\ t.runnable = queued.runnable
      /\ t.asleep = queued.asleep /\ t.waiting = queued.waiting /\ t.dead = queued.dead
      /\ t.active_process = queued.active_process /\ t.queues = queued.queues
      /\ SameBlocks(queued, t)
  BY <1>3, <1>5 DEF KernelStates, SameBlocks
<1>7. SameBlocks(s, t)
  BY <1>5, <1>6 DEF SameBlocks
<1> QED BY <1>1, <1>2, <1>5, <1>6, <1>7 DEF x, t, prev, next, rest, runs

(* The context switch is quiet. *)
LEMMA ElectQuiet ==
  ASSUME NEW s, Sound(s), s.runnable # <<>>
  PROVE  Quiet(s, Elect(s))
<1> DEFINE t == Elect(s)
           prev == s.active_process
           next == Head(s.runnable)
           runs == s.state[prev] = PS_RUNNING
<1>1. /\ next \in Pids /\ prev \in Pids /\ s.state[next] = PS_RUNNABLE
      /\ t.state = With(IF runs THEN With(s.state, prev, PS_RUNNABLE) ELSE s.state,
                        next, PS_RUNNING)
      /\ t.attr = IF runs THEN With(s.attr, prev, 0) ELSE s.attr
      /\ t.dead = s.dead /\ t.queues = s.queues /\ SameBlocks(s, t)
  BY ElectFields
<1>2. s.state \in [Pids -> States] /\ s.attr \in [Pids -> Int]
  BY DEF Sound, KernelStates
<1> HIDE DEF t, prev, next
<1>3. \A q \in Pids : Rests(s, t, q)
  BY <1>1, <1>2, BusyStates DEF Rests, With
<1> QED BY <1>1, <1>3 DEF Quiet, SameBlocks, t

(* When a process must be elected, one is runnable. *)
LEMMA SomeRunnable ==
  ASSUME NEW s, Sound(s), MustElect(s)
  PROVE  s.runnable # <<>>
<1> SUFFICES ASSUME s.state[s.active_process] # PS_RUNNING, s.runnable = <<>>
             PROVE  FALSE
  BY DEF MustElect
<1>1. s.state[IDLE] = PS_RUNNABLE
  BY IdlePid DEF Sound, IdleReady, OnlyActive
<1>2. IDLE \in Range(s.runnable)
  BY <1>1, IdlePid DEF Sound, ListsBut, IsListOf, InState
<1> QED BY <1>2 DEF Range

(* tick_scheduler is quiet. *)
LEMMA TickQuiet ==
  ASSUME NEW s, Sound(s)
  PROVE  Quiet(s, tick_scheduler(s))
<1> DEFINE awake == WakeDue(s)
<1>1. Sound(awake) /\ Quiet(s, awake)
  BY WakeDueSound, WakeDueQuiet
<1>2. tick_scheduler(s) = IF MustElect(awake) THEN Elect(awake) ELSE awake
  BY DEF tick_scheduler
<1> HIDE DEF awake
<1>3. MustElect(awake) => Quiet(awake, Elect(awake))
  BY <1>1, SomeRunnable, ElectQuiet
<1> QED BY <1>1, <1>2, <1>3, QuietTrans

(* fix_scheduler is quiet. *)
LEMMA FixQuiet ==
  ASSUME NEW s, Sound(s)
  PROVE  Quiet(s, fix_scheduler(s))
BY TickQuiet, QuietSelf DEF fix_scheduler

-----------------------------------------------------------------------------
(* What the other primitives change. *)

(* The process table is left alone. *)
SameTable(s, t) == t.state = s.state /\ t.attr = s.attr /\ SameBlocks(s, t)

(* push_dead, field by field. *)
LEMMA PushDeadFields ==
  ASSUME NEW s \in KernelStates, NEW p \in Pids
  PROVE  LET t == push_dead(s, p) IN
         /\ t.state = With(s.state, p, PS_DEAD) /\ t.attr = With(s.attr, p, 0)
         /\ t.dead = <<p>> \o s.dead /\ t.runnable = s.runnable
         /\ t.asleep = s.asleep /\ t.waiting = s.waiting
         /\ t.active_process = s.active_process /\ t.pit_count = s.pit_count
         /\ t.queues = s.queues /\ SameBlocks(s, t)
<1> DEFINE u == assert(s, s.state[p] # PS_DEAD)
           x == With(s.state, p, PS_DEAD)
           y == With(s.attr, p, 0)
           z == <<p>> \o s.dead
           t == push_dead(s, p)
<1>1. /\ u \in KernelStates /\ SameTable(s, u) /\ u.runnable = s.runnable
      /\ u.asleep = s.asleep /\ u.waiting = s.waiting
      /\ u.dead = s.dead /\ u.active_process = s.active_process
      /\ u.pit_count = s.pit_count /\ u.queues = s.queues
  BY DEF assert, panic, KernelStates, SameBlocks, SameTable
<1>2. t = [u EXCEPT !.state[p] = PS_DEAD, !.attr[p] = 0, !.dead = <<p>> \o @]
  BY DEF push_dead
<1> HIDE DEF u, t
<1>3. t = [u EXCEPT !.state = x, !.attr = y, !.dead = z]
  BY <1>1, <1>2 DEF With, SameTable
<1> HIDE DEF x, y, z
<1>4. /\ t.state = x /\ t.attr = y /\ t.dead = z /\ t.runnable = u.runnable
      /\ t.asleep = u.asleep /\ t.waiting = u.waiting
      /\ t.active_process = u.active_process /\ t.pit_count = u.pit_count
      /\ t.queues = u.queues /\ SameBlocks(u, t)
  BY <1>1, <1>3 DEF KernelStates, SameBlocks
<1> QED BY <1>1, <1>4 DEF SameBlocks, SameTable, x, y, z, t

(* remove_runnable, field by field. *)
LEMMA RemoveRunnableFields ==
  ASSUME NEW s \in KernelStates, NEW p \in Pids
  PROVE  LET t == remove_runnable(s, p) IN
         /\ SameTable(s, t) /\ t.dead = s.dead
         /\ t.runnable = IF s.state[p] = PS_RUNNABLE THEN RemoveFirst(s.runnable, p)
                         ELSE s.runnable
         /\ t.asleep = s.asleep /\ t.waiting = s.waiting
         /\ t.active_process = s.active_process /\ t.pit_count = s.pit_count
         /\ t.queues = s.queues
BY DEF remove_runnable, KernelStates, SameTable, SameBlocks

(* An update of one waiting list behind an assert. *)
LEMMA ListUpdate ==
  ASSUME NEW s \in KernelStates, NEW u, u = s \/ u = panic(s), NEW w, NEW z, NEW t,
         t = [u EXCEPT !.waiting = With(s.waiting, w, z)]
  PROVE  /\ SameTable(s, t) /\ t.dead = s.dead
         /\ t.waiting = With(s.waiting, w, z)
         /\ t.runnable = s.runnable /\ t.asleep = s.asleep
         /\ t.active_process = s.active_process /\ t.pit_count = s.pit_count
         /\ t.queues = s.queues
<1> DEFINE y == With(s.waiting, w, z)
<1>1. /\ u \in KernelStates /\ SameTable(s, u) /\ u.runnable = s.runnable
      /\ u.asleep = s.asleep /\ u.dead = s.dead /\ u.active_process = s.active_process
      /\ u.pit_count = s.pit_count /\ u.queues = s.queues
  BY DEF panic, KernelStates, SameBlocks, SameTable
<1> HIDE DEF y
<1>2. t = [u EXCEPT !.waiting = y]
  BY DEF y
<1>3. /\ SameTable(u, t) /\ t.waiting = y /\ t.runnable = u.runnable
      /\ t.asleep = u.asleep /\ t.dead = u.dead
      /\ t.active_process = u.active_process /\ t.pit_count = u.pit_count
      /\ t.queues = u.queues
  BY <1>1, <1>2 DEF KernelStates, SameBlocks, SameTable
<1> QED BY <1>1, <1>3 DEF SameBlocks, SameTable, y

(* push_waiting_process, field by field. *)
LEMMA PushWaitingFields ==
  ASSUME NEW s \in KernelStates, NEW fid \in Fids, NEW st \in WaitStates, NEW p \in Pids
  PROVE  LET t    == push_waiting_process(s, fid, st, p)
             list == s.waiting[<<fid, st>>]
         IN
         /\ SameTable(s, t) /\ t.dead = s.dead
         /\ t.waiting = With(s.waiting, <<fid, st>>,
                             InsertAt(list, PrioSlot(list, s.prio, p), p))
         /\ t.runnable = s.runnable /\ t.asleep = s.asleep
         /\ t.active_process = s.active_process /\ t.pit_count = s.pit_count
         /\ t.queues = s.queues
<1> DEFINE b == s.state[p] \in WaitStates
           list == s.waiting[<<fid, st>>]
           z == InsertAt(list, PrioSlot(list, s.prio, p), p)
           u == assert(s, b)
           t == push_waiting_process(s, fid, st, p)
<1>1. u \in KernelStates /\ u.waiting = s.waiting /\ (u = s \/ u = panic(s))
  BY DEF assert, panic, KernelStates
<1>2. t = [u EXCEPT !.waiting[<<fid, st>>] = InsertAt(@, PrioSlot(@, s.prio, p), p)]
  BY DEF push_waiting_process
<1> HIDE DEF u, t
<1>3. t = [u EXCEPT !.waiting = With(s.waiting, <<fid, st>>, z)]
  BY <1>1, <1>2 DEF With
<1> HIDE DEF z
<1> QED BY <1>1, <1>3, ListUpdate DEF t, z

(* pop_waiting_process, field by field. *)
LEMMA PopWaitingFields ==
  ASSUME NEW s \in KernelStates, NEW fid \in Fids, NEW st \in WaitStates, NEW p \in Pids
  PROVE  LET t    == pop_waiting_process(s, fid, st, p)
             list == s.waiting[<<fid, st>>]
         IN
         /\ SameTable(s, t) /\ t.dead = s.dead
         /\ t.waiting = With(s.waiting, <<fid, st>>, RemoveFirst(list, p))
         /\ t.runnable = s.runnable /\ t.asleep = s.asleep
         /\ t.active_process = s.active_process /\ t.pit_count = s.pit_count
         /\ t.queues = s.queues
<1> DEFINE list == s.waiting[<<fid, st>>]
           b == s.state[p] \in WaitStates /\ list # <<>>
           z == RemoveFirst(list, p)
           u == assert(s, b)
           t == pop_waiting_process(s, fid, st, p)
<1>1. u \in KernelStates /\ u.waiting = s.waiting /\ (u = s \/ u = panic(s))
  BY DEF assert, panic, KernelStates
<1>2. t = [u EXCEPT !.waiting[<<fid, st>>] = RemoveFirst(@, p)]
  BY DEF pop_waiting_process
<1> HIDE DEF u, t
<1>3. t = [u EXCEPT !.waiting = With(s.waiting, <<fid, st>>, z)]
  BY <1>1, <1>2 DEF With
<1> HIDE DEF z
<1> QED BY <1>1, <1>3, ListUpdate DEF t, z

(* The active process blocks on a queue. *)
LEMMA BlockFields ==
  ASSUME NEW s, Stable(s), NEW fid \in Fids, NEW st \in WaitStates,
         NEW c \in Calls, NEW m \in Messages \cup {Uninit}
  PROVE  LET t    == BlockOnQueue(s, fid, st, c, m)
             p    == s.active_process
             list == s.waiting[<<fid, st>>]
         IN
         /\ t.state = With(s.state, p, st) /\ t.attr = With(s.attr, p, fid)
         /\ t.call = With(s.call, p, c) /\ t.local = With(s.local, p, 0)
         /\ t.message = With(s.message, p, m)
         /\ t.parent = s.parent /\ t.prio = s.prio /\ t.dead = s.dead
         /\ t.waiting = With(s.waiting, <<fid, st>>,
                             InsertAt(list, PrioSlot(list, s.prio, p), p))
         /\ t.runnable = s.runnable /\ t.asleep = s.asleep
         /\ t.active_process = p /\ t.pit_count = s.pit_count /\ t.queues = s.queues
<1> DEFINE p == s.active_process
           list == s.waiting[<<fid, st>>]
           a == With(s.state, p, st)
           b == With(s.attr, p, fid)
           d == With(s.call, p, c)
           e == With(s.local, p, 0)
           f == With(s.message, p, m)
           u == [s EXCEPT !.state = a, !.attr = b, !.call = d, !.local = e, !.message = f]
           t == BlockOnQueue(s, fid, st, c, m)
<1>1. /\ s \in KernelStates /\ p \in Pids /\ s.state[p] = PS_RUNNING
      /\ s.state \in [Pids -> States] /\ s.attr \in [Pids -> Int]
      /\ s.call \in [Pids -> Calls] /\ s.local \in [Pids -> Int]
      /\ s.message \in [Pids -> Messages \cup {Uninit}]
  BY DEF Stable, Sound, KernelStates
<1>2. remove_runnable(s, p) = s
  BY <1>1, DistinctStates DEF remove_runnable
<1>3. t = push_waiting_process(u, fid, st, p)
  BY <1>2 DEF BlockOnQueue, With
<1>4. /\ a \in [Pids -> States] /\ b \in [Pids -> Int] /\ d \in [Pids -> Calls]
      /\ e \in [Pids -> Int] /\ f \in [Pids -> Messages \cup {Uninit}]
  <2>1. fid \in Int /\ st \in States
    BY SizesAssumption, DistinctStates DEF Fids
  <2> QED BY <1>1, <2>1 DEF With
<1> HIDE DEF p, a, b, d, e, f, t
<1>5. /\ u \in KernelStates /\ u.state = a /\ u.attr = b /\ u.call = d /\ u.local = e
      /\ u.message = f /\ u.parent = s.parent /\ u.prio = s.prio /\ u.dead = s.dead
      /\ u.waiting = s.waiting /\ u.runnable = s.runnable /\ u.asleep = s.asleep
      /\ u.active_process = p /\ u.pit_count = s.pit_count /\ u.queues = s.queues
  BY <1>1, <1>4 DEF KernelStates, p
<1> HIDE DEF u
<1>6. /\ SameTable(u, t) /\ t.dead = u.dead
      /\ t.waiting = With(u.waiting, <<fid, st>>,
                          InsertAt(list, PrioSlot(list, u.prio, p), p))
      /\ t.runnable = u.runnable /\ t.asleep = u.asleep
      /\ t.active_process = u.active_process /\ t.pit_count = u.pit_count
      /\ t.queues = u.queues
  BY <1>1, <1>3, <1>5, PushWaitingFields
<1> QED BY <1>5, <1>6 DEF SameTable, SameBlocks, a, b, d, e, f, p, t

(* The first process of a waiting list, taken off it. *)
LEMMA TakenFields ==
  ASSUME NEW s, Sound(s), NEW fid \in Fids, NEW st \in WaitStates,
         s.waiting[<<fid, st>>] # <<>>
  PROVE  LET list == s.waiting[<<fid, st>>]
             p    == Head(list)
             t    == PutWaiting(s, fid, st, Tail(list))
         IN
         /\ p \in Pids /\ s.state[p] = st /\ s.attr[p] = fid
         /\ list \in Seq(Pids) /\ Tail(list) \in Seq(Pids)
         /\ t \in KernelStates /\ SameTable(s, t) /\ t.dead = s.dead
         /\ t.waiting = With(s.waiting, <<fid, st>>, Tail(list))
         /\ t.runnable = s.runnable /\ t.asleep = s.asleep
         /\ t.active_process = s.active_process /\ t.pit_count = s.pit_count
         /\ t.queues = s.queues
<1> DEFINE list == s.waiting[<<fid, st>>]
           p == Head(list)
           z == Tail(list)
           y == With(s.waiting, <<fid, st>>, z)
           t == PutWaiting(s, fid, st, z)
<1>1. FirstTaken(s, fid, st, p, t)
  BY DEF FirstTaken
<1>2. t = [s EXCEPT !.waiting = y]
  BY DEF PutWaiting
<1>3. s \in KernelStates /\ list \in Seq(Pids) /\ list # <<>>
  BY WaitingSeq DEF Sound
<1>4. z \in Seq(Pids)
  <2> HIDE DEF list
  <2> QED BY <1>3
<1> HIDE DEF p, z, y, t
<1>5. p \in Pids /\ s.state[p] = st /\ s.attr[p] = fid /\ t \in KernelStates
  <2>1. /\ p \in Pids /\ s.state[p] = st /\ s.attr[p] = fid
        /\ t \in KernelStates /\ ListsBut(t, {p})
        /\ t.state = s.state /\ t.attr = s.attr
        /\ t.active_process = s.active_process
        /\ SameBlocks(s, t) /\ SameQueues(s, t)
    BY <1>1, TakeWaiter, Zenon
  <2> QED BY <2>1
<1>6. /\ SameTable(s, t) /\ t.dead = s.dead /\ t.waiting = y
      /\ t.runnable = s.runnable /\ t.asleep = s.asleep
      /\ t.active_process = s.active_process /\ t.pit_count = s.pit_count
      /\ t.queues = s.queues
  BY <1>2, <1>3 DEF KernelStates, SameTable, SameBlocks
<1> QED BY <1>3, <1>4, <1>5, <1>6 DEF p, z, y, t

(* A process p of a waiting list becomes runnable, and the list is z. *)
Notified(s, t, fid, st, p, z) ==
  /\ p \in Pids /\ s.state[p] = st /\ s.attr[p] = fid
  /\ t.state = With(s.state, p, PS_RUNNABLE) /\ t.attr = With(s.attr, p, 0)
  /\ t.runnable = InsertAt(s.runnable, PrioSlot(s.runnable, s.prio, p), p)
  /\ t.waiting = With(s.waiting, <<fid, st>>, z)
  /\ t.asleep = s.asleep /\ t.dead = s.dead
  /\ t.active_process = s.active_process /\ t.pit_count = s.pit_count
  /\ t.queues = s.queues
  /\ t.prio = s.prio /\ t.parent = s.parent /\ t.call = s.call /\ t.message = s.message

(* wakeup_first_process, up to the scheduler, field by field. *)
LEMMA WakeupFirstFields ==
  ASSUME NEW s, Sound(s), NEW fid \in Fids, NEW st \in WaitStates,
         s.waiting[<<fid, st>>] # <<>>
  PROVE  LET list == s.waiting[<<fid, st>>]
             t    == push_runnable(PutWaiting(s, fid, st, Tail(list)), Head(list))
         IN Notified(s, t, fid, st, Head(list), Tail(list)) /\ t.local = s.local
<1> DEFINE list == s.waiting[<<fid, st>>]
           p == Head(list)
           z == Tail(list)
           u == PutWaiting(s, fid, st, z)
           t == push_runnable(u, p)
<1>1. /\ p \in Pids /\ s.state[p] = st /\ s.attr[p] = fid
      /\ u \in KernelStates /\ SameTable(s, u) /\ u.dead = s.dead
      /\ u.waiting = With(s.waiting, <<fid, st>>, z)
      /\ u.runnable = s.runnable /\ u.asleep = s.asleep
      /\ u.active_process = s.active_process /\ u.pit_count = s.pit_count
      /\ u.queues = s.queues
  BY TakenFields
<1> HIDE DEF p, z, u
<1>2. /\ t.state = With(u.state, p, PS_RUNNABLE) /\ t.attr = With(u.attr, p, 0)
      /\ t.runnable = InsertAt(u.runnable, PrioSlot(u.runnable, u.prio, p), p)
      /\ t.asleep = u.asleep /\ t.waiting = u.waiting /\ t.dead = u.dead
      /\ t.active_process = u.active_process /\ t.pit_count = u.pit_count
      /\ t.queues = u.queues /\ SameBlocks(u, t)
  BY <1>1, PushRunnableFields
<1> HIDE DEF t
<1>3. Notified(s, t, fid, st, p, z) /\ t.local = s.local
  BY <1>1, <1>2 DEF Notified, SameTable, SameBlocks
<1> QED BY <1>3 DEF t, u, p, z

(* One turn of wakeup_all_processes, field by field. *)
LEMMA FailFirstFields ==
  ASSUME NEW s, Sound(s), NEW fid \in Fids, NEW st \in WaitStates,
         s.waiting[<<fid, st>>] # <<>>
  PROVE  LET list == s.waiting[<<fid, st>>]
             t    == FailFirst(s, fid, st)
         IN /\ Notified(s, t, fid, st, Head(list), Tail(list))
            /\ t.local = With(s.local, Head(list), -1)
<1> DEFINE list == s.waiting[<<fid, st>>]
           p == Head(list)
           z == Tail(list)
           u == PutWaiting(s, fid, st, z)
           x == With(s.local, p, -1)
           v == [u EXCEPT !.local = x]
           t == FailFirst(s, fid, st)
<1>0. t = push_runnable(v, p)
  <2> DEFINE y == [s EXCEPT !.local[p] = -1, !.waiting[<<fid, st>>] = Tail(@)]
  <2>1. v = y
    BY DEF With, PutWaiting
  <2>2. t = push_runnable(y, p)
    BY DEF FailFirst
  <2> HIDE DEF v, y
  <2> QED BY <2>1, <2>2
<1>1. /\ p \in Pids /\ s.state[p] = st /\ s.attr[p] = fid
      /\ u \in KernelStates /\ SameTable(s, u) /\ u.dead = s.dead
      /\ u.waiting = With(s.waiting, <<fid, st>>, z)
      /\ u.runnable = s.runnable /\ u.asleep = s.asleep
      /\ u.active_process = s.active_process /\ u.pit_count = s.pit_count
      /\ u.queues = s.queues
  BY TakenFields
<1>2. x \in [Pids -> Int]
  <2>1. s.local \in [Pids -> Int]
    BY DEF Sound, KernelStates
  <2> HIDE DEF p
  <2> QED BY <1>1, <2>1 DEF With
<1> HIDE DEF p, z, u, x
<1>3. /\ v \in KernelStates /\ v.local = x /\ v.state = u.state /\ v.attr = u.attr
      /\ v.prio = u.prio /\ v.parent = u.parent /\ v.call = u.call /\ v.message = u.message
      /\ v.runnable = u.runnable /\ v.asleep = u.asleep /\ v.waiting = u.waiting
      /\ v.dead = u.dead /\ v.active_process = u.active_process
      /\ v.pit_count = u.pit_count /\ v.queues = u.queues
  BY <1>1, <1>2 DEF KernelStates
<1> HIDE DEF v
<1>4. /\ t.state = With(v.state, p, PS_RUNNABLE) /\ t.attr = With(v.attr, p, 0)
      /\ t.runnable = InsertAt(v.runnable, PrioSlot(v.runnable, v.prio, p), p)
      /\ t.asleep = v.asleep /\ t.waiting = v.waiting /\ t.dead = v.dead
      /\ t.active_process = v.active_process /\ t.pit_count = v.pit_count
      /\ t.queues = v.queues /\ SameBlocks(v, t)
  BY <1>0, <1>1, <1>3, PushRunnableFields
<1> HIDE DEF t
<1>5. Notified(s, t, fid, st, p, z) /\ t.local = x
  BY <1>1, <1>3, <1>4 DEF Notified, SameTable, SameBlocks
<1> QED BY <1>5 DEF t, p, z, x

-----------------------------------------------------------------------------
(* The changes, and the scheduler behind them. *)

SameLists(s, t) ==
  /\ t.runnable = s.runnable /\ t.asleep = s.asleep
  /\ t.waiting = s.waiting /\ t.dead = s.dead
SameCore(s, t) == t.active_process = s.active_process /\ t.pit_count = s.pit_count

(* Nobody has a reason to take the processor. *)
Unmoved(s, u) ==
  u.prio = s.prio /\ u.runnable = s.runnable /\ u.active_process = s.active_process

(* After the change from s to u, the call ends in t: the scheduler runs    *)
(* unless the change moved nobody.                                         *)
Scheduled(s, u, t) ==
  /\ Sound(u)
  /\ \/ t = tick_scheduler(u)
     \/ t = fix_scheduler(u)
     \/ t = u /\ Stable(u) /\ Unmoved(s, u)

(* The clock moved. *)
Ticked(s, u) ==
  /\ SameTable(s, u) /\ SameLists(s, u) /\ u.queues = s.queues
  /\ u.active_process = s.active_process

(* Process p has priority n and its place in its list. *)
Reprioritised(s, u, p, n) ==
  LET st   == s.state[p]
      w    == <<s.attr[p], st>>
      list == RemoveFirst(IF st = PS_RUNNABLE THEN s.runnable ELSE s.waiting[w], p)
      new  == InsertAt(list, PrioSlot(list, u.prio, p), p)
  IN
  /\ p \in Pids /\ u.prio = With(s.prio, p, n)
  /\ u.state = s.state
  /\ u.attr = IF st = PS_RUNNABLE THEN With(s.attr, p, 0) ELSE s.attr
  /\ u.runnable = IF st = PS_RUNNABLE THEN new ELSE s.runnable
  /\ u.waiting = IF st \in WaitStates THEN With(s.waiting, w, new) ELSE s.waiting
  /\ u.parent = s.parent /\ u.call = s.call /\ u.local = s.local
  /\ u.message = s.message /\ u.asleep = s.asleep /\ u.dead = s.dead
  /\ u.queues = s.queues /\ SameCore(s, u)

(* chprio of a runnable process, field by field. *)
LEMMA RequeueFields ==
  ASSUME NEW s, Sound(s), NEW p \in Pids, s.state[p] = PS_RUNNABLE
  PROVE  LET t == push_runnable([remove_runnable(s, p) EXCEPT !.state[p] = PS_ZOMBIE], p)
             list == RemoveFirst(s.runnable, p)
         IN
         /\ t.state = s.state /\ t.attr = With(s.attr, p, 0)
         /\ t.runnable = InsertAt(list, PrioSlot(list, s.prio, p), p)
         /\ t.waiting = s.waiting /\ t.asleep = s.asleep /\ t.dead = s.dead
         /\ t.queues = s.queues /\ SameCore(s, t) /\ SameBlocks(s, t)
<1> DEFINE r == remove_runnable(s, p)
           x == With(r.state, p, PS_ZOMBIE)
           u == [r EXCEPT !.state = x]
           t == push_runnable(u, p)
           list == RemoveFirst(s.runnable, p)
           X == {}
<1>1. u = [remove_runnable(s, p) EXCEPT !.state[p] = PS_ZOMBIE]
  BY DEF With
<1>2. s \in KernelStates /\ ListsBut(s, X) /\ s.state \in [Pids -> States]
  BY DEF Sound, KernelStates
<1> HIDE DEF X
<1>3. r \in KernelStates
  BY <1>2, RemoveRunnable
<1>4. /\ SameTable(s, r) /\ r.dead = s.dead /\ r.runnable = list
      /\ r.asleep = s.asleep /\ r.waiting = s.waiting
      /\ SameCore(s, r) /\ r.queues = s.queues
  BY <1>2, RemoveRunnableFields DEF SameCore
<1> HIDE DEF r, list
<1>5. x \in [Pids -> States] /\ With(x, p, PS_RUNNABLE) = s.state
  BY <1>2, <1>4, DistinctStates DEF With, SameTable
<1> HIDE DEF x
<1>6. /\ u \in KernelStates /\ u.state = x /\ u.attr = r.attr
      /\ u.runnable = r.runnable /\ u.asleep = r.asleep /\ u.waiting = r.waiting
      /\ u.dead = r.dead /\ SameCore(r, u) /\ u.queues = r.queues /\ SameBlocks(r, u)
  BY <1>3, <1>5 DEF KernelStates, SameBlocks, SameCore
<1> HIDE DEF u
<1>7. /\ t.state = With(u.state, p, PS_RUNNABLE) /\ t.attr = With(u.attr, p, 0)
      /\ t.runnable = InsertAt(u.runnable, PrioSlot(u.runnable, u.prio, p), p)
      /\ t.asleep = u.asleep /\ t.waiting = u.waiting /\ t.dead = u.dead
      /\ SameCore(u, t) /\ t.queues = u.queues /\ SameBlocks(u, t)
  BY <1>6, PushRunnableFields DEF SameCore
<1> HIDE DEF t
<1>8. /\ t.state = s.state /\ t.attr = With(s.attr, p, 0)
      /\ t.runnable = InsertAt(list, PrioSlot(list, s.prio, p), p)
      /\ t.waiting = s.waiting /\ t.asleep = s.asleep /\ t.dead = s.dead
      /\ t.queues = s.queues /\ SameCore(s, t) /\ SameBlocks(s, t)
  BY <1>4, <1>5, <1>6, <1>7 DEF SameTable, SameBlocks, SameCore
<1> QED BY <1>1, <1>8 DEF t, list

(* chprio of a waiting process, field by field. *)
LEMMA ReorderFields ==
  ASSUME NEW s, Sound(s), NEW p \in Pids, s.state[p] \in WaitStates
  PROVE  LET t == queue_reorder(s, p)
             w == <<s.attr[p], s.state[p]>>
             list == RemoveFirst(s.waiting[w], p)
         IN
         /\ SameTable(s, t) /\ t.runnable = s.runnable
         /\ t.waiting = With(s.waiting, w, InsertAt(list, PrioSlot(list, s.prio, p), p))
         /\ t.asleep = s.asleep /\ t.dead = s.dead
         /\ t.queues = s.queues /\ SameCore(s, t)
<1> DEFINE fid == s.attr[p]
           st == s.state[p]
           w == <<fid, st>>
           list == RemoveFirst(s.waiting[w], p)
           u == pop_waiting_process(s, fid, st, p)
           t == push_waiting_process(u, fid, st, p)
           X == {}
<1>1. queue_reorder(s, p) = t
  BY DEF queue_reorder
<1>2. s \in KernelStates /\ ListsBut(s, X) /\ p \in Pids \ X
      /\ s.waiting \in [Fids \X WaitStates -> Seq(Pids)]
  BY DEF Sound, KernelStates
<1>3. fid \in Fids /\ w \in Fids \X WaitStates
  BY <1>2 DEF ListsBut, InState
<1>4. s.state[p] = st /\ s.attr[p] = fid /\ st \in WaitStates /\ w = <<fid, st>>
  OBVIOUS
<1> HIDE DEF X, fid, st, list, w
<1>5. u \in KernelStates
  BY <1>2, <1>3, <1>4, PopWaiting
<1>6. /\ SameTable(s, u) /\ u.dead = s.dead /\ u.waiting = With(s.waiting, w, list)
      /\ u.runnable = s.runnable /\ u.asleep = s.asleep
      /\ SameCore(s, u) /\ u.queues = s.queues
  BY <1>2, <1>3, <1>4, PopWaitingFields DEF SameCore, list
<1> HIDE DEF u
<1>7. u.waiting[w] = list
  BY <1>2, <1>3, <1>6 DEF With
<1>8. /\ SameTable(u, t) /\ t.dead = u.dead
      /\ t.waiting = With(u.waiting, w, InsertAt(list, PrioSlot(list, u.prio, p), p))
      /\ t.runnable = u.runnable /\ t.asleep = u.asleep
      /\ SameCore(u, t) /\ t.queues = u.queues
  BY <1>3, <1>4, <1>5, <1>7, PushWaitingFields DEF SameCore
<1> HIDE DEF t
<1>9. With(u.waiting, w, InsertAt(list, PrioSlot(list, u.prio, p), p))
        = With(s.waiting, w, InsertAt(list, PrioSlot(list, s.prio, p), p))
  BY <1>2, <1>3, <1>6 DEF With, SameTable, SameBlocks
<1> QED BY <1>1, <1>6, <1>8, <1>9 DEF SameTable, SameBlocks, SameCore, list, w, fid, st

(* chprio is a new priority and a new place, then fix_scheduler. *)
LEMMA ChprioKind ==
  ASSUME NEW s, Stable(s), NEW p \in Pids, NEW newprio \in Int
  PROVE  \E u : Scheduled(s, u, chprio(s, p, newprio)) /\ Reprioritised(s, u, p, newprio)
<1> DEFINE x == With(s.prio, p, newprio)
           u == [s EXCEPT !.prio = x]
           v == IF s.state[p] = PS_RUNNABLE
                THEN push_runnable([remove_runnable(u, p) EXCEPT !.state[p] = PS_ZOMBIE], p)
                ELSE IF s.state[p] \in WaitStates THEN queue_reorder(u, p)
                ELSE u
<1>1. chprio(s, p, newprio) = fix_scheduler(v)
  BY DEF chprio, With
<1>2. s \in KernelStates /\ ListsBut(s, {}) /\ s.prio \in [Pids -> Int] /\ Sound(s)
  BY DEF Stable, Sound, KernelStates
<1>3. x \in [Pids -> Int]
  BY <1>2 DEF With
<1> HIDE DEF x
<1>4. /\ u \in KernelStates /\ u.state = s.state /\ u.attr = s.attr
      /\ SameLists(s, u) /\ SameCore(s, u) /\ u.prio = x
      /\ u.call = s.call /\ u.local = s.local /\ u.parent = s.parent
      /\ u.message = s.message /\ u.queues = s.queues
  BY <1>2, <1>3 DEF KernelStates, SameLists, SameCore
<1> HIDE DEF u
<1>5. Sound(u)
  <2>1. ListsBut(u, {})
    BY <1>2, <1>4, ListsKept DEF SameLists
  <2> QED BY <1>2, <1>4, <2>1, SoundKept DEF SameCore
<1>6. Sound(v) /\ Reprioritised(s, v, p, newprio)
  <2>1. CASE s.state[p] = PS_RUNNABLE
    <3> DEFINE list == RemoveFirst(u.runnable, p)
    <3>1. u.state[p] = PS_RUNNABLE /\ s.state[p] \notin WaitStates
      BY <1>4, <2>1, DistinctStates
    <3>2. v = push_runnable([remove_runnable(u, p) EXCEPT !.state[p] = PS_ZOMBIE], p)
      BY <2>1
    <3> HIDE DEF v
    <3>3. Sound(v)
      BY <1>5, <3>1, <3>2, RequeueSound
    <3>4. /\ v.state = u.state /\ v.attr = With(u.attr, p, 0)
          /\ v.runnable = InsertAt(list, PrioSlot(list, u.prio, p), p)
          /\ v.waiting = u.waiting /\ v.asleep = u.asleep /\ v.dead = u.dead
          /\ v.queues = u.queues /\ SameCore(u, v) /\ SameBlocks(u, v)
      BY <1>5, <3>1, <3>2, RequeueFields
    <3> QED BY <1>4, <2>1, <3>1, <3>3, <3>4
            DEF Reprioritised, SameLists, SameCore, SameBlocks, x
  <2>2. CASE s.state[p] # PS_RUNNABLE /\ s.state[p] \in WaitStates
    <3> DEFINE w == <<u.attr[p], u.state[p]>>
               list == RemoveFirst(u.waiting[w], p)
    <3>1. u.state[p] \in WaitStates /\ v = queue_reorder(u, p)
      BY <1>4, <2>2
    <3> HIDE DEF v
    <3>2. Sound(v)
      BY <1>5, <3>1, ReorderSound
    <3>3. /\ SameTable(u, v) /\ v.runnable = u.runnable
          /\ v.waiting = With(u.waiting, w, InsertAt(list, PrioSlot(list, u.prio, p), p))
          /\ v.asleep = u.asleep /\ v.dead = u.dead
          /\ v.queues = u.queues /\ SameCore(u, v)
      BY <1>5, <3>1, ReorderFields
    <3> QED BY <1>4, <2>2, <3>2, <3>3
            DEF Reprioritised, SameLists, SameCore, SameTable, SameBlocks, x
  <2>3. CASE s.state[p] # PS_RUNNABLE /\ s.state[p] \notin WaitStates
    <3>1. v = u
      BY <2>3
    <3> HIDE DEF v
    <3> QED BY <1>4, <1>5, <2>3, <3>1 DEF Reprioritised, SameLists, SameCore, x
  <2> QED BY <2>1, <2>2, <2>3
<1> HIDE DEF v
<1> QED BY <1>1, <1>6 DEF Scheduled

(* Process p has left the stack of free pids; it is runnable if allocated. *)
Started(s, u, p, n, allocated) ==
  /\ p \in Pids /\ s.dead # <<>> /\ p = Head(s.dead) /\ s.state[p] = PS_DEAD
  /\ u.dead = Tail(s.dead) /\ u.prio = With(s.prio, p, n)
  /\ u.parent = With(s.parent, p, s.active_process)
  /\ u.state = IF allocated THEN With(s.state, p, PS_RUNNABLE) ELSE s.state
  /\ u.attr = IF allocated THEN With(s.attr, p, 0) ELSE s.attr
  /\ u.runnable = IF allocated
                  THEN InsertAt(s.runnable, PrioSlot(s.runnable, u.prio, p), p)
                  ELSE s.runnable
  /\ u.call = s.call /\ u.local = s.local /\ u.message = s.message
  /\ u.asleep = s.asleep /\ u.waiting = s.waiting
  /\ u.queues = s.queues /\ SameCore(s, u)

(* start_user_background, field by field. *)
LEMMA StartFields ==
  ASSUME NEW s, Sound(s), s.dead # <<>>, NEW newprio \in Int, NEW allocated \in BOOLEAN
  PROVE  Started(s, start_user_background(s, newprio, allocated),
                 Head(s.dead), newprio, allocated)
<1> DEFINE p == Head(s.dead)
           z == Tail(s.dead)
           x == With(s.prio, p, newprio)
           y == With(s.parent, p, s.active_process)
           u == [s EXCEPT !.dead = z, !.prio = x, !.parent = y]
           t == start_user_background(s, newprio, allocated)
           X == {}
<1>1. /\ s \in KernelStates /\ ListsBut(s, X)
      /\ s.prio \in [Pids -> Int] /\ s.parent \in [Pids -> Pids \cup {NOPID}]
      /\ s.active_process \in Pids /\ s.dead \in Seq(Pids)
  BY DEF Sound, KernelStates
<1>2. p \in Pids /\ s.state[p] = PS_DEAD /\ z \in Seq(Pids)
  <2>1. IsListOf(s.dead, Range(s.dead)) /\ Range(s.dead) \subseteq InState(s, X, PS_DEAD)
    BY <1>1 DEF ListsBut, IsListOf
  <2>2. p \in Pids /\ p \in Range(s.dead) /\ z \in Seq(Pids)
    BY <1>1, <2>1, TailList
  <2> QED BY <2>1, <2>2 DEF InState
<1>3. t = IF allocated THEN push_runnable(u, p) ELSE u
  <2> DEFINE w == [assert(s, s.state[p] = PS_DEAD) EXCEPT
                     !.dead = Tail(@), !.prio[p] = newprio,
                     !.parent[p] = s.active_process]
  <2>1. t = IF allocated THEN push_runnable(w, p) ELSE w
    BY DEF start_user_background
  <2>2. assert(s, s.state[p] = PS_DEAD) = s
    BY <1>2 DEF assert
  <2>3. w = u
    BY <2>2 DEF With
  <2> HIDE DEF w, u
  <2> QED BY <2>1, <2>3
<1> HIDE DEF p, z, t, X
<1>4. x \in [Pids -> Int] /\ y \in [Pids -> Pids \cup {NOPID}]
  BY <1>1, <1>2 DEF With
<1> HIDE DEF x, y
<1>5. /\ u \in KernelStates /\ u.state = s.state /\ u.attr = s.attr
      /\ u.runnable = s.runnable /\ u.asleep = s.asleep /\ u.waiting = s.waiting
      /\ u.dead = z /\ SameCore(s, u) /\ u.queues = s.queues
      /\ u.call = s.call /\ u.local = s.local /\ u.message = s.message
      /\ u.parent = y /\ u.prio = x
  BY <1>1, <1>2, <1>4 DEF KernelStates, SameCore
<1> HIDE DEF u
<1>6. Started(s, t, p, newprio, allocated)
  <2>1. CASE allocated
    <3>1. t = push_runnable(u, p)
      BY <1>3, <2>1
    <3>2. /\ t.state = With(u.state, p, PS_RUNNABLE) /\ t.attr = With(u.attr, p, 0)
          /\ t.runnable = InsertAt(u.runnable, PrioSlot(u.runnable, u.prio, p), p)
          /\ t.asleep = u.asleep /\ t.waiting = u.waiting /\ t.dead = u.dead
          /\ SameCore(u, t) /\ t.queues = u.queues /\ SameBlocks(u, t)
      BY <1>2, <1>5, <3>1, PushRunnableFields DEF SameCore
    <3> QED BY <1>2, <1>5, <2>1, <3>2 DEF Started, SameCore, SameBlocks, p, x, y, z
  <2>2. CASE ~allocated
    <3>1. t = u
      BY <1>3, <2>2
    <3> QED BY <1>2, <1>5, <2>2, <3>1 DEF Started, SameCore, p, x, y, z
  <2> QED BY <2>1, <2>2
<1> QED BY <1>6 DEF t, p

(* start_user is a new process, then fix_scheduler. *)
LEMMA StartKind ==
  ASSUME NEW s, Sound(s), s.dead # <<>>, NEW newprio \in Int, NEW allocated \in BOOLEAN
  PROVE  \E u, p : /\ Scheduled(s, u, start_user(s, newprio, allocated))
                   /\ Started(s, u, p, newprio, allocated)
<1> DEFINE u == start_user_background(s, newprio, allocated)
<1>1. Sound(u)
  BY StartSound
<1>2. Started(s, u, Head(s.dead), newprio, allocated)
  BY StartFields
<1>3. start_user(s, newprio, allocated) = fix_scheduler(u)
  BY DEF start_user
<1> HIDE DEF u
<1> QED BY <1>1, <1>2, <1>3 DEF Scheduled

-----------------------------------------------------------------------------
(* Blocking calls and the timer. *)

(* The active process sleeps until clock. *)
Slept(s, u, clock) ==
  LET p == s.active_process IN
  /\ u.state = With(s.state, p, PS_ASLEEP) /\ u.attr = With(s.attr, p, clock)
  /\ u.asleep = InsertAt(s.asleep, ClockSlot(s.asleep, s.attr, clock), p)
  /\ SameBlocks(s, u) /\ u.runnable = s.runnable /\ u.waiting = s.waiting
  /\ u.dead = s.dead /\ u.queues = s.queues /\ SameCore(s, u)

(* wait_clock is a sleep, then tick_scheduler. *)
LEMMA WaitClockKind ==
  ASSUME NEW s, Stable(s), s.active_process # IDLE, s.call[s.active_process] = "user",
         NEW clock \in Int
  PROVE  \E u : Scheduled(s, u, wait_clock(s, clock)) /\ Slept(s, u, clock)
<1> DEFINE p == s.active_process
           a == With(s.state, p, PS_ASLEEP)
           b == With(s.attr, p, clock)
           z == InsertAt(s.asleep, ClockSlot(s.asleep, s.attr, clock), p)
           u == [s EXCEPT !.state = a, !.attr = b, !.asleep = z]
<1>1. wait_clock(s, clock) = tick_scheduler(u) /\ Sound(u)
  BY WaitClockSound
<1>2. s \in KernelStates
  BY DEF Stable, Sound
<1> HIDE DEF a, b, z
<1>3. /\ u.state = a /\ u.attr = b /\ u.asleep = z
      /\ SameBlocks(s, u) /\ u.runnable = s.runnable /\ u.waiting = s.waiting
      /\ u.dead = s.dead /\ u.queues = s.queues /\ SameCore(s, u)
  BY <1>2 DEF KernelStates, SameBlocks, SameCore
<1> HIDE DEF u
<1>4. Slept(s, u, clock)
  BY <1>3 DEF Slept, a, b, z
<1> QED BY <1>1, <1>4 DEF Scheduled

(* The active process waits for its child pid, or for any. *)
AwaitsChild(s, u, pid) ==
  LET p == s.active_process IN
  /\ Reapable(s, p, pid) = {}
  /\ u.state = With(s.state, p, PS_WAIT_CHILD) /\ u.attr = With(s.attr, p, 0)
  /\ u.call = With(s.call, p, "waitpid") /\ u.local = With(s.local, p, pid)
  /\ u.message = s.message /\ u.prio = s.prio /\ u.parent = s.parent
  /\ SameLists(s, u) /\ u.queues = s.queues /\ SameCore(s, u)

(* A zombie child c of the active process is freed; the active process is  *)
(* then in no call.                                                        *)
Reaped(s, u, c) ==
  LET p == s.active_process IN
  /\ c \in Pids /\ s.state[c] = PS_ZOMBIE /\ s.parent[c] = p
  /\ u.state = With(s.state, c, PS_DEAD) /\ u.attr = With(s.attr, c, 0)
  /\ u.dead = <<c>> \o s.dead
  /\ u.call[p] = "user"
  /\ \A q \in Pids \ {p} : /\ u.call[q] = s.call[q] /\ u.local[q] = s.local[q]
                           /\ u.message[q] = s.message[q]
  /\ u.prio = s.prio /\ u.parent = s.parent
  /\ u.runnable = s.runnable /\ u.asleep = s.asleep /\ u.waiting = s.waiting
  /\ u.queues = s.queues /\ SameCore(s, u)

(* waitpid reaps, or suspends its caller and calls tick_scheduler. *)
LEMMA WaitpidKind ==
  ASSUME NEW s, Stable(s), s.active_process # IDLE, s.call[s.active_process] = "user",
         NEW pid \in Int
  PROVE  \E u : /\ Scheduled(s, u, waitpid(s, pid))
                /\ AwaitsChild(s, u, pid) \/ \E c : Reaped(s, u, c)
<1> DEFINE p == s.active_process
           ready == Reapable(s, p, pid)
<1>1. Sound(s) /\ s \in KernelStates /\ p \in Pids /\ s.call[p] = "user"
  BY DEF Stable, Sound, KernelStates
<1>2. CASE ready # {}
  <2> DEFINE c == Min(ready)
             u == push_dead(s, c)
  <2>1. waitpid(s, pid) = u
    BY <1>2 DEF waitpid
  <2>2. c \in Pids /\ s.state[c] = PS_ZOMBIE /\ s.parent[c] = p
    BY <1>2, ReapableZombie
  <2> HIDE DEF c, ready
  <2>3. \A q \in Pids : s.parent[c] = q => s.call[q] # "waitpid"
    BY <1>1, <2>2
  <2>4. Stable(u)
    BY <1>1, <2>2, <2>3, FreeZombie
  <2>5. /\ u.state = With(s.state, c, PS_DEAD) /\ u.attr = With(s.attr, c, 0)
        /\ u.dead = <<c>> \o s.dead /\ u.runnable = s.runnable
        /\ u.asleep = s.asleep /\ u.waiting = s.waiting
        /\ SameCore(s, u) /\ u.queues = s.queues /\ SameBlocks(s, u)
    BY <1>1, <2>2, PushDeadFields DEF SameCore
  <2> HIDE DEF u
  <2>6. Reaped(s, u, c)
    BY <1>1, <2>2, <2>5 DEF Reaped, SameBlocks
  <2>7. Unmoved(s, u)
    BY <2>5 DEF Unmoved, SameCore, SameBlocks
  <2> QED BY <2>1, <2>4, <2>6, <2>7 DEF Scheduled, Stable
<1>3. CASE ready = {}
  <2> DEFINE a == With(s.state, p, PS_WAIT_CHILD)
             b == With(s.attr, p, 0)
             d == With(s.call, p, "waitpid")
             e == With(s.local, p, pid)
             u == [s EXCEPT !.state = a, !.attr = b, !.call = d, !.local = e]
  <2>1. waitpid(s, pid) = tick_scheduler(u) /\ Sound(u)
    BY <1>3, WaitpidBlockSound
  <2> HIDE DEF a, b, d, e
  <2>2. /\ u.state = a /\ u.attr = b /\ u.call = d /\ u.local = e
        /\ u.message = s.message /\ u.prio = s.prio /\ u.parent = s.parent
        /\ SameLists(s, u) /\ u.queues = s.queues /\ SameCore(s, u)
    BY <1>1 DEF KernelStates, SameLists, SameCore
  <2> HIDE DEF u
  <2>3. AwaitsChild(s, u, pid)
    BY <1>3, <2>2 DEF AwaitsChild, a, b, d, e
  <2> QED BY <2>1, <2>3 DEF Scheduled
<1> QED BY <1>2, <1>3

(* Process p is in no call. *)
Left(s, u, p) ==
  /\ u.call = With(s.call, p, "user") /\ u.local = With(s.local, p, 0)
  /\ u.message = With(s.message, p, Uninit)
  /\ u.state = s.state /\ u.attr = s.attr /\ u.prio = s.prio /\ u.parent = s.parent
  /\ SameLists(s, u) /\ u.queues = s.queues /\ SameCore(s, u)

(* Forget, field by field. *)
LEMMA ForgetFields ==
  ASSUME NEW s \in KernelStates, NEW p \in Pids
  PROVE  Left(s, Forget(s, p), p)
<1> DEFINE x == With(s.call, p, "user")
           y == With(s.local, p, 0)
           z == With(s.message, p, Uninit)
           t == Forget(s, p)
<1>1. t = [s EXCEPT !.call = x, !.local = y, !.message = z]
  BY DEF Forget, With
<1> HIDE DEF t, x, y, z
<1>2. /\ t.call = x /\ t.local = y /\ t.message = z
      /\ t.state = s.state /\ t.attr = s.attr /\ t.prio = s.prio /\ t.parent = s.parent
      /\ SameLists(s, t) /\ t.queues = s.queues /\ SameCore(s, t)
  BY <1>1 DEF KernelStates, SameLists, SameCore
<1> QED BY <1>2 DEF Left, x, y, z, t

(* A suspended psend or preceive returns. *)
LEMMA QueueCallResumeKind ==
  ASSUME NEW s, Stable(s)
  PROVE  \E u : /\ Scheduled(s, u, Forget(s, s.active_process))
                /\ Left(s, u, s.active_process)
<1> DEFINE u == Forget(s, s.active_process)
<1>1. Sound(s) /\ s \in KernelStates /\ s.active_process \in Pids
  BY DEF Stable, Sound, KernelStates
<1>2. Stable(u) /\ Left(s, u, s.active_process)
  BY <1>1, ForgetSound, ForgetFields
<1> HIDE DEF u
<1>3. Unmoved(s, u)
  BY <1>2 DEF Unmoved, Left, SameLists, SameCore
<1> QED BY <1>2, <1>3 DEF Scheduled, Stable, u

(* A suspended waitpid returns. *)
LEMMA WaitpidResumeKind ==
  ASSUME NEW s, Stable(s), s.call[s.active_process] = "waitpid"
  PROVE  \E u, c : Scheduled(s, u, waitpid_resume(s)) /\ Reaped(s, u, c)
<1> DEFINE p == s.active_process
           c == s.local[p]
           w == Forget(s, p)
           t == push_dead(w, c)
<1>1. /\ Sound(s) /\ s \in KernelStates /\ p \in Pids /\ s.state[p] = PS_RUNNING
      /\ s.call[p] = "waitpid" /\ s.call \in [Pids -> Calls] /\ s.local \in [Pids -> Int]
      /\ s.message \in [Pids -> Messages \cup {Uninit}]
  BY DEF Stable, Sound, KernelStates
<1>2. c \in Pids /\ s.state[c] = PS_ZOMBIE /\ s.parent[c] = p
  BY <1>1, DistinctStates DEF Sound, ChildWritten
<1>3. waitpid_resume(s) = t
  BY <1>2, DistinctStates DEF waitpid_resume, IS_VALID_PID
<1>4. p = s.active_process
  OBVIOUS
<1> HIDE DEF p, c
<1>5. Left(s, w, p)
  BY <1>1, ForgetFields
<1>6. /\ Sound(w) /\ Stable(w) /\ w \in KernelStates
      /\ w.state = s.state /\ w.parent = s.parent /\ w.call[p] = "user"
  BY <1>1, ForgetSound DEF Sound
<1> HIDE DEF w
<1>7. w.state[c] = PS_ZOMBIE /\ \A q \in Pids : w.parent[c] = q => w.call[q] # "waitpid"
  BY <1>2, <1>6
<1>8. Stable(t)
  BY <1>2, <1>6, <1>7, FreeZombie
<1>9. /\ t.state = With(w.state, c, PS_DEAD) /\ t.attr = With(w.attr, c, 0)
      /\ t.dead = <<c>> \o w.dead /\ t.runnable = w.runnable
      /\ t.asleep = w.asleep /\ t.waiting = w.waiting
      /\ SameCore(w, t) /\ t.queues = w.queues /\ SameBlocks(w, t)
  BY <1>2, <1>6, PushDeadFields DEF SameCore
<1> HIDE DEF t
<1>10. /\ t.call[p] = "user"
       /\ \A q \in Pids \ {p} : /\ t.call[q] = s.call[q] /\ t.local[q] = s.local[q]
                                /\ t.message[q] = s.message[q]
  BY <1>1, <1>5, <1>6, <1>9 DEF Left, SameBlocks, With
<1>11. Reaped(s, t, c)
  BY <1>2, <1>4, <1>5, <1>9, <1>10 DEF Reaped, Left, SameBlocks, SameLists, SameCore
<1>12. Unmoved(s, t)
  BY <1>11 DEF Unmoved, Reaped, SameCore
<1> QED BY <1>3, <1>8, <1>11, <1>12 DEF Scheduled, Stable

(* The timer interrupt moves the clock; the scheduler may run. *)
LEMMA TicKind ==
  ASSUME NEW s, Stable(s)
  PROVE  \E u : Scheduled(s, u, tic_PIT(s)) /\ Ticked(s, u)
<1> DEFINE count == (s.pit_count + 1) % ClockSpan
           u == [s EXCEPT !.pit_count = count]
<1>1. count \in 0 .. ClockSpan - 1
  <2>1. s.pit_count \in Int /\ ClockSpan \in Nat /\ ClockSpan > 0
    BY SizesAssumption DEF Stable, Sound, KernelStates
  <2>2. s.pit_count + 1 \in Int
    BY <2>1
  <2> QED BY <2>1, <2>2, ModRange
<1>2. tic_PIT(s) = IF count % SchedPeriod = 0 THEN tick_scheduler(u) ELSE u
  BY DEF tic_PIT
<1> HIDE DEF count
<1>3. /\ u \in KernelStates /\ SameTable(s, u) /\ SameLists(s, u)
      /\ u.active_process = s.active_process /\ u.queues = s.queues
  BY <1>1 DEF Stable, Sound, KernelStates, SameTable, SameBlocks, SameLists
<1> HIDE DEF u
<1>4. Stable(u)
  <2>1. Sound(s) /\ ListsBut(s, {})
    BY DEF Stable, Sound
  <2>2. ListsBut(u, {})
    BY <1>3, <2>1, ListsKept DEF SameTable, SameLists
  <2>3. Sound(u)
    BY <1>3, <2>1, <2>2, SoundKept DEF SameTable, SameBlocks
  <2> QED BY <1>3, <2>3 DEF Stable, SameTable
<1>5. Unmoved(s, u)
  BY <1>3 DEF Unmoved, SameTable, SameBlocks, SameLists
<1> QED BY <1>2, <1>3, <1>4, <1>5 DEF Scheduled, Ticked, Stable

-----------------------------------------------------------------------------
(* stop. *)

(* The zombie children of pid, and the others. *)
Freed(s, pid) == {c \in Pids : s.parent[c] = pid /\ s.state[c] = PS_ZOMBIE}
Orphaned(s, pid) == {c \in Pids : s.parent[c] = pid /\ s.state[c] # PS_ZOMBIE}

(* The children of pid below i have been unbound. *)
Unbound(s, w, pid, i) ==
  LET done == {c \in Pids : c < i} IN
  /\ \A c \in Pids :
       /\ w.state[c] = IF c \in done \cap Freed(s, pid) THEN PS_DEAD ELSE s.state[c]
       /\ c \notin Freed(s, pid) => w.attr[c] = s.attr[c]
       /\ c \notin done => w.attr[c] = s.attr[c]
       /\ w.parent[c] = IF c \in done \cap Orphaned(s, pid) THEN NOPID ELSE s.parent[c]
  /\ \A c \in Pids : c \in Range(s.dead) \cup (done \cap Freed(s, pid))
                       => c \in Range(w.dead)
  /\ w.prio = s.prio /\ w.call = s.call /\ w.local = s.local /\ w.message = s.message
  /\ w.runnable = s.runnable /\ w.asleep = s.asleep /\ w.waiting = s.waiting
  /\ w.queues = s.queues /\ SameCore(s, w)

(* push_dead on a process that is not dead adds its pid to the stack. *)
LEMMA PushDeadRange ==
  ASSUME NEW X, NEW s \in KernelStates, ListsBut(s, X), NEW c \in Pids, s.state[c] # PS_DEAD
  PROVE  Range(<<c>> \o s.dead) = Range(s.dead) \cup {c}
<1>1. /\ s.dead \in Seq(Pids) /\ IsListOf(s.dead, Range(s.dead))
      /\ Range(s.dead) \subseteq InState(s, X, PS_DEAD)
  BY DEF KernelStates, ListsBut, IsListOf
<1>2. c \notin Range(s.dead)
  BY <1>1 DEF InState
<1>3. IsListOf(<<c>> \o s.dead, Range(s.dead) \cup {c})
  BY <1>1, <1>2, PushList
<1> QED BY <1>3 DEF IsListOf

(* One child is unbound. *)
LEMMA UnbindOne ==
  ASSUME NEW s, NEW pid \in Pids, NEW w, Sound(w), NEW c \in Pids, Unbound(s, w, pid, c)
  PROVE  Unbound(s, Unbind(w, pid, c), pid, c + 1)
<1> DEFINE t == Unbind(w, pid, c)
<1>1. /\ w \in KernelStates /\ w.state \in [Pids -> States] /\ w.attr \in [Pids -> Int]
      /\ w.parent \in [Pids -> Pids \cup {NOPID}]
  BY DEF Sound, KernelStates
<1>2. w.state[c] = s.state[c] /\ w.attr[c] = s.attr[c] /\ w.parent[c] = s.parent[c]
  <2>1. ~(c < c)
    BY SizesAssumption DEF Pids
  <2> QED BY <2>1 DEF Unbound
<1>3. {x \in Pids : x < c + 1} = {x \in Pids : x < c} \cup {c}
  BY SizesAssumption DEF Pids
<1>4. CASE w.parent[c] # pid
  <2>1. t = w /\ c \notin Freed(s, pid) /\ c \notin Orphaned(s, pid)
    BY <1>2, <1>4 DEF Unbind, Freed, Orphaned
  <2> HIDE DEF t
  <2>2. Unbound(s, t, pid, c + 1)
    BY <1>3, <2>1 DEF Unbound
  <2> QED BY <2>2 DEF t
<1>5. CASE w.parent[c] = pid /\ w.state[c] = PS_ZOMBIE
  <2>1. t = push_dead(w, c) /\ c \in Freed(s, pid) /\ c \notin Orphaned(s, pid)
    BY <1>2, <1>5 DEF Unbind, Freed, Orphaned
  <2> HIDE DEF t
  <2>2. /\ t.state = With(w.state, c, PS_DEAD) /\ t.attr = With(w.attr, c, 0)
        /\ t.dead = <<c>> \o w.dead /\ t.runnable = w.runnable
        /\ t.asleep = w.asleep /\ t.waiting = w.waiting
        /\ SameCore(w, t) /\ t.queues = w.queues /\ SameBlocks(w, t)
    BY <1>1, <2>1, PushDeadFields DEF SameCore
  <2>3. Range(t.dead) = Range(w.dead) \cup {c}
    BY <1>1, <1>5, <2>2, PushDeadRange, DistinctStates DEF Sound
  <2>4. \A x \in Pids : /\ t.state[x] = IF x = c THEN PS_DEAD ELSE w.state[x]
                        /\ x # c => t.attr[x] = w.attr[x]
    BY <1>1, <2>2 DEF With
  <2>5. Unbound(s, t, pid, c + 1)
    BY <1>3, <2>1, <2>2, <2>3, <2>4 DEF Unbound, SameBlocks, SameCore
  <2> QED BY <2>5 DEF t
<1>6. CASE w.parent[c] = pid /\ w.state[c] # PS_ZOMBIE
  <2> DEFINE x == With(w.parent, c, NOPID)
  <2>1. t = [w EXCEPT !.parent = x] /\ c \notin Freed(s, pid) /\ c \in Orphaned(s, pid)
    BY <1>2, <1>6 DEF Unbind, With, Freed, Orphaned
  <2>2. \A q \in Pids : x[q] = IF q = c THEN NOPID ELSE w.parent[q]
    BY <1>1 DEF With
  <2> HIDE DEF t, x
  <2>3. /\ t.parent = x /\ t.state = w.state /\ t.attr = w.attr
        /\ t.prio = w.prio /\ t.call = w.call /\ t.local = w.local
        /\ t.message = w.message /\ SameLists(w, t)
        /\ t.queues = w.queues /\ SameCore(w, t)
    BY <1>1, <2>1 DEF KernelStates, SameLists, SameCore
  <2>4. Unbound(s, t, pid, c + 1)
    BY <1>3, <2>1, <2>2, <2>3 DEF Unbound, SameLists, SameCore
  <2> QED BY <2>4 DEF t
<1> QED BY <1>4, <1>5, <1>6

(* The loop of stop over the process table. *)
LEMMA UnbindAll ==
  ASSUME NEW s, NEW pid \in Pids, NEW st, st # PS_ZOMBIE, NEW a, NEW w,
         Ending(s, pid, st, a, w)
  PROVE  Unbound(w, UnbindTurns(w, pid)[NBPROC], pid, NBPROC)
<1> DEFINE G == {x \in Int \X KernelStates : /\ Ending(s, pid, st, a, x[2])
                                             /\ Unbound(w, x[2], pid, x[1])}
<1>1. <<0, w>> \in G
  <2>1. Unbound(w, w, pid, 0)
    <3>1. {c \in Pids : c < 0} = {}
      BY SizesAssumption DEF Pids
    <3> QED BY <3>1 DEF Unbound, SameCore
  <2> QED BY <2>1 DEF Ending, Sound
<1>2. ASSUME NEW c \in Pids, NEW t, <<c, t>> \in G
      PROVE  <<c + 1, Unbind(t, pid, c)>> \in G
  <2> DEFINE u == Unbind(t, pid, c)
  <2>1. /\ Ending(s, pid, st, a, t) /\ c + 1 \in Int /\ Unbound(w, t, pid, c)
        /\ Sound(t)
    BY <1>2, SizesAssumption DEF Pids, Ending
  <2>2. Ending(s, pid, st, a, u) /\ Unbound(w, u, pid, c + 1)
    BY <2>1, UnbindEnding, UnbindOne
  <2> HIDE DEF u
  <2>3. <<c + 1, u>> \in G
    BY <2>1, <2>2 DEF Ending, Sound
  <2> QED BY <2>3 DEF u
<1> HIDE DEF G
<1>3. <<NBPROC, UnbindTurns(w, pid)[NBPROC]>> \in G
  BY <1>1, <1>2, UnbindAllKeeps
<1> QED BY <1>3 DEF G

(* Detach, field by field. *)
Detached(s, t, pid) ==
  LET st == s.state[pid]
      w  == <<s.attr[pid], st>>
  IN
  /\ SameTable(s, t) /\ t.dead = s.dead
  /\ t.runnable = IF st = PS_RUNNABLE THEN RemoveFirst(s.runnable, pid) ELSE s.runnable
  /\ t.asleep = IF st = PS_ASLEEP THEN RemoveFirst(s.asleep, pid) ELSE s.asleep
  /\ t.waiting = IF st \in WaitStates
                 THEN With(s.waiting, w, RemoveFirst(s.waiting[w], pid)) ELSE s.waiting
  /\ t.queues = s.queues /\ SameCore(s, t)

(* What Detach does is Detached. *)
LEMMA DetachFields ==
  ASSUME NEW s, Sound(s), NEW p \in Pids
  PROVE  Detached(s, Detach(s, p), p)
<1> DEFINE t == Detach(s, p)
<1>1. s \in KernelStates /\ ListsBut(s, {})
  BY DEF Sound
<1>2. CASE s.state[p] = PS_ASLEEP
  <2> DEFINE z == RemoveFirst(s.asleep, p)
             u == assert(s, s.asleep # <<>>)
  <2>1. /\ u \in KernelStates /\ SameTable(s, u) /\ SameLists(s, u)
        /\ u.queues = s.queues /\ SameCore(s, u)
    BY <1>1 DEF assert, panic, KernelStates, SameTable, SameBlocks, SameLists, SameCore
  <2>2. t = [u EXCEPT !.asleep = RemoveFirst(@, p)]
    BY <1>2 DEF Detach
  <2> HIDE DEF u, t
  <2>3. t = [u EXCEPT !.asleep = z]
    BY <2>1, <2>2 DEF SameLists
  <2> HIDE DEF z
  <2>4. /\ SameTable(u, t) /\ t.dead = u.dead /\ t.runnable = u.runnable
        /\ t.asleep = z /\ t.waiting = u.waiting /\ t.queues = u.queues /\ SameCore(u, t)
    BY <2>1, <2>3 DEF KernelStates, SameTable, SameBlocks, SameCore
  <2>5. Detached(s, t, p)
    BY <1>2, <2>1, <2>4, DistinctStates
       DEF Detached, SameTable, SameBlocks, SameLists, SameCore, z
  <2> QED BY <2>5 DEF t
<1>3. CASE s.state[p] # PS_ASLEEP /\ s.state[p] \in WaitStates
  <2> DEFINE fid == s.attr[p]
             st == s.state[p]
  <2>1. t = pop_waiting_process(s, fid, st, p) /\ st \in WaitStates /\ st # PS_ASLEEP
    BY <1>3 DEF Detach, queue_remove
  <2>2. fid \in Fids
    BY <1>1, <1>3 DEF ListsBut, InState
  <2> HIDE DEF t
  <2>3. /\ SameTable(s, t) /\ t.dead = s.dead
        /\ t.waiting = With(s.waiting, <<fid, st>>, RemoveFirst(s.waiting[<<fid, st>>], p))
        /\ t.runnable = s.runnable /\ t.asleep = s.asleep
        /\ SameCore(s, t) /\ t.queues = s.queues
    BY <1>1, <2>1, <2>2, PopWaitingFields DEF SameCore
  <2>4. Detached(s, t, p)
    BY <2>1, <2>3, DistinctStates DEF Detached
  <2> QED BY <2>4 DEF t
<1>4. CASE s.state[p] # PS_ASLEEP /\ s.state[p] \notin WaitStates
  <2>1. t = remove_runnable(s, p)
    BY <1>4 DEF Detach
  <2> HIDE DEF t
  <2>2. Detached(s, t, p)
    BY <1>1, <1>4, <2>1, RemoveRunnableFields DEF Detached, SameCore
  <2> QED BY <2>2 DEF t
<1> QED BY <1>2, <1>3, <1>4

(* A parent waiting for pid is told of it. *)
Told(s, pid) ==
  LET father == s.parent[pid] IN
  s.state[father] = PS_WAIT_CHILD /\ s.local[father] \in {NOPID, pid}

(* TriggerParent, field by field. *)
LEMMA TriggerFields ==
  ASSUME NEW s \in KernelStates, NEW pid \in Pids, s.parent[pid] \in Pids
  PROVE  LET t      == TriggerParent(s, pid)
             father == s.parent[pid]
             told   == Told(s, pid)
         IN
         /\ t.state = IF told THEN With(s.state, father, PS_RUNNABLE) ELSE s.state
         /\ t.attr = IF told THEN With(s.attr, father, 0) ELSE s.attr
         /\ t.local = IF told THEN With(s.local, father, pid) ELSE s.local
         /\ t.runnable = IF told
                         THEN InsertAt(s.runnable, PrioSlot(s.runnable, s.prio, father), father)
                         ELSE s.runnable
         /\ t.parent = s.parent /\ t.prio = s.prio /\ t.call = s.call
         /\ t.message = s.message /\ t.asleep = s.asleep /\ t.waiting = s.waiting
         /\ t.dead = s.dead /\ t.queues = s.queues /\ SameCore(s, t)
<1> DEFINE father == s.parent[pid]
           told == Told(s, pid)
           x == With(s.local, father, pid)
           u == [s EXCEPT !.local = x]
           t == TriggerParent(s, pid)
<1>1. t = IF told THEN push_runnable(u, father) ELSE s
  BY DEF TriggerParent, With, Told
<1>2. father \in Pids
  OBVIOUS
<1>3. x \in [Pids -> Int]
  <2>1. pid \in Int
    BY SizesAssumption DEF Pids
  <2> QED BY <2>1 DEF With, KernelStates
<1> HIDE DEF father, told, x, t
<1>4. /\ u \in KernelStates /\ u.local = x /\ u.state = s.state /\ u.attr = s.attr
      /\ u.prio = s.prio /\ u.parent = s.parent /\ u.call = s.call /\ u.message = s.message
      /\ SameLists(s, u) /\ SameCore(s, u) /\ u.queues = s.queues
  BY <1>3 DEF KernelStates, SameLists, SameCore
<1> HIDE DEF u
<1>5. CASE told
  <2>1. t = push_runnable(u, father)
    BY <1>1, <1>5
  <2>2. /\ t.state = With(u.state, father, PS_RUNNABLE) /\ t.attr = With(u.attr, father, 0)
        /\ t.runnable = InsertAt(u.runnable, PrioSlot(u.runnable, u.prio, father), father)
        /\ t.asleep = u.asleep /\ t.waiting = u.waiting /\ t.dead = u.dead
        /\ SameCore(u, t) /\ t.queues = u.queues /\ SameBlocks(u, t)
    BY <1>2, <1>4, <2>1, PushRunnableFields DEF SameCore
  <2> QED BY <1>4, <1>5, <2>2
          DEF SameLists, SameCore, SameBlocks, father, told, x, t
<1>6. CASE ~told
  BY <1>1, <1>6 DEF SameCore, told, t
<1> QED BY <1>5, <1>6

(* Process pid has ended: freed, or a zombie of its parent; its zombies are *)
(* freed and its other children are orphans.                                *)
Stopped(s, u, pid) ==
  LET father == s.parent[pid]
      bound  == father \notin {NOPID, pid}
      told   == bound /\ Told(s, pid)
      st     == s.state[pid]
      w      == <<s.attr[pid], st>>
      left   == IF st = PS_RUNNABLE THEN RemoveFirst(s.runnable, pid) ELSE s.runnable
  IN
  /\ pid \in Pids /\ st \notin {PS_DEAD, PS_ZOMBIE}
  /\ \A c \in Pids :
       /\ u.state[c] = IF c = pid THEN (IF bound THEN PS_ZOMBIE ELSE PS_DEAD)
                       ELSE IF c \in Freed(s, pid) THEN PS_DEAD
                       ELSE IF told /\ c = father THEN PS_RUNNABLE
                       ELSE s.state[c]
       /\ c \notin Freed(s, pid) \cup {pid} /\ ~(told /\ c = father)
            => u.attr[c] = s.attr[c]
       /\ u.parent[c] = IF c \in Orphaned(s, pid) THEN NOPID ELSE s.parent[c]
       /\ u.call[c] = IF c = pid THEN "user" ELSE s.call[c]
       /\ c # pid => /\ u.message[c] = s.message[c]
                     /\ u.local[c] = IF told /\ c = father THEN pid ELSE s.local[c]
       /\ \/ c \in Range(s.dead) \cup Freed(s, pid)
          \/ c = pid /\ ~bound
          => c \in Range(u.dead)
  /\ u.runnable = IF told THEN InsertAt(left, PrioSlot(left, s.prio, father), father)
                  ELSE left
  /\ u.asleep = IF st = PS_ASLEEP THEN RemoveFirst(s.asleep, pid) ELSE s.asleep
  /\ u.waiting = IF st \in WaitStates
                 THEN With(s.waiting, w, RemoveFirst(s.waiting[w], pid)) ELSE s.waiting
  /\ u.prio = s.prio /\ u.queues = s.queues /\ SameCore(s, u)

(* stop, before its last part: pid is on no list and its children are      *)
(* unbound.                                                                *)
Unlinked(s, d, pid) ==
  LET st == s.state[pid]
      w  == <<s.attr[pid], st>>
  IN
  /\ \A c \in Pids :
       /\ d.state[c] = IF c \in Freed(s, pid) THEN PS_DEAD ELSE s.state[c]
       /\ c \notin Freed(s, pid) => d.attr[c] = s.attr[c]
       /\ d.parent[c] = IF c \in Orphaned(s, pid) THEN NOPID ELSE s.parent[c]
       /\ d.call[c] = IF c = pid THEN "user" ELSE s.call[c]
       /\ c # pid => d.message[c] = s.message[c] /\ d.local[c] = s.local[c]
       /\ c \in Range(s.dead) \cup Freed(s, pid) => c \in Range(d.dead)
  /\ d.runnable = IF st = PS_RUNNABLE THEN RemoveFirst(s.runnable, pid) ELSE s.runnable
  /\ d.asleep = IF st = PS_ASLEEP THEN RemoveFirst(s.asleep, pid) ELSE s.asleep
  /\ d.waiting = IF st \in WaitStates
                 THEN With(s.waiting, w, RemoveFirst(s.waiting[w], pid)) ELSE s.waiting
  /\ d.prio = s.prio /\ d.queues = s.queues /\ SameCore(s, d)

(* Forget, the loop over the children and Detach lead to Unlinked. *)
LEMMA StopUnlinks ==
  ASSUME NEW s, Sound(s), NEW pid \in Pids, s.state[pid] \notin {PS_DEAD, PS_ZOMBIE}
  PROVE  LET d == Detach(UnbindTurns(Forget(s, pid), pid)[NBPROC], pid)
         IN d \in KernelStates /\ ListsBut(d, {pid}) /\ Unlinked(s, d, pid)
<1> DEFINE forgot == Forget(s, pid)
           unbound == UnbindTurns(forgot, pid)[NBPROC]
           d == Detach(unbound, pid)
<1>1. /\ s \in KernelStates /\ s.call \in [Pids -> Calls] /\ s.local \in [Pids -> Int]
      /\ s.message \in [Pids -> Messages \cup {Uninit}]
      /\ s.state[pid] # PS_ZOMBIE
  BY DEF Sound, KernelStates
<1>2. Ending(s, pid, s.state[pid], s.attr[pid], forgot)
  <2>1. /\ Sound(forgot) /\ SameQueues(s, forgot)
        /\ forgot.active_process = s.active_process
        /\ forgot.state = s.state /\ forgot.attr = s.attr
        /\ forgot.call[pid] = "user"
    BY ForgetSound
  <2> HIDE DEF forgot
  <2> QED BY <2>1 DEF Ending
<1>3. Left(s, forgot, pid)
  BY <1>1, ForgetFields
<1> HIDE DEF forgot
<1>4. /\ Ending(s, pid, s.state[pid], s.attr[pid], unbound)
      /\ Unbound(forgot, unbound, pid, NBPROC)
  BY <1>1, <1>2, UnbindAllEnding, UnbindAll
<1> HIDE DEF unbound
<1>5. /\ Sound(unbound) /\ unbound.state[pid] \notin {PS_DEAD, PS_ZOMBIE}
      /\ unbound.state[pid] = s.state[pid] /\ unbound.attr[pid] = s.attr[pid]
  BY <1>4 DEF Ending
<1>6. d \in KernelStates /\ ListsBut(d, {pid}) /\ Detached(unbound, d, pid)
  BY <1>5, DetachLists, DetachFields
<1> HIDE DEF d
<1>7. /\ Freed(forgot, pid) = Freed(s, pid) /\ Orphaned(forgot, pid) = Orphaned(s, pid)
      /\ {c \in Pids : c < NBPROC} = Pids
  <2>1. {c \in Pids : c < NBPROC} = Pids
    BY SizesAssumption DEF Pids
  <2> QED BY <1>3, <2>1 DEF Left, Freed, Orphaned
<1>8. ASSUME NEW c \in Pids
      PROVE  /\ d.state[c] = IF c \in Freed(s, pid) THEN PS_DEAD ELSE s.state[c]
             /\ c \notin Freed(s, pid) => d.attr[c] = s.attr[c]
             /\ d.parent[c] = IF c \in Orphaned(s, pid) THEN NOPID ELSE s.parent[c]
             /\ c \in Range(s.dead) \cup Freed(s, pid) => c \in Range(d.dead)
             /\ d.call[c] = forgot.call[c] /\ d.local[c] = forgot.local[c]
             /\ d.message[c] = forgot.message[c]
  BY <1>3, <1>4, <1>6, <1>7 DEF Left, Unbound, Detached, SameTable, SameBlocks, SameLists
<1>9. ASSUME NEW c \in Pids
      PROVE  /\ forgot.call[c] = IF c = pid THEN "user" ELSE s.call[c]
             /\ c # pid => forgot.message[c] = s.message[c] /\ forgot.local[c] = s.local[c]
  BY <1>1, <1>3 DEF Left, With
<1>10. /\ unbound.runnable = s.runnable /\ unbound.asleep = s.asleep
       /\ unbound.waiting = s.waiting /\ unbound.prio = s.prio
       /\ unbound.queues = s.queues /\ SameCore(s, unbound)
  BY <1>3, <1>4 DEF Left, Unbound, SameLists, SameCore
<1>11. Unlinked(s, d, pid)
  BY <1>5, <1>6, <1>8, <1>9, <1>10
     DEF Unlinked, Detached, SameTable, SameBlocks, SameCore
<1> QED BY <1>6, <1>11 DEF d, unbound, forgot

(* The last part of stop. *)
LEMMA EndedFields ==
  ASSUME NEW s, Sound(s), NEW pid \in Pids, s.state[pid] \notin {PS_DEAD, PS_ZOMBIE},
         NEW d \in KernelStates, ListsBut(d, {pid}), Unlinked(s, d, pid), NEW retval \in Int
  PROVE  Stopped(s, Ended(d, pid, retval), pid)
<1> DEFINE u == Ended(d, pid, retval)
           father == s.parent[pid]
           bound == father \notin {NOPID, pid}
<1>1. /\ d.state \in [Pids -> States] /\ d.attr \in [Pids -> Int]
      /\ d.parent \in [Pids -> Pids \cup {NOPID}] /\ d.local \in [Pids -> Int]
      /\ s.parent \in [Pids -> Pids \cup {NOPID}]
      /\ pid # NOPID
  <2>1. pid # NOPID
    BY SizesAssumption DEF NOPID, Pids
  <2> QED BY <2>1 DEF Sound, KernelStates
<1>2. pid \notin Freed(s, pid) /\ (pid \in Orphaned(s, pid) <=> father = pid)
  BY DEF Freed, Orphaned
<1>3. /\ d.parent[pid] = IF bound THEN father ELSE NOPID
      /\ d.state[pid] = s.state[pid] /\ d.attr[pid] = s.attr[pid]
      /\ bound => father \in Pids
  BY <1>1, <1>2 DEF Unlinked
<1>4. CASE ~bound
  <2>1. u = push_dead(d, pid)
    BY <1>3, <1>4 DEF Ended
  <2> HIDE DEF u
  <2>2. /\ u.state = With(d.state, pid, PS_DEAD) /\ u.attr = With(d.attr, pid, 0)
        /\ u.dead = <<pid>> \o d.dead /\ u.runnable = d.runnable
        /\ u.asleep = d.asleep /\ u.waiting = d.waiting
        /\ SameCore(d, u) /\ u.queues = d.queues /\ SameBlocks(d, u)
    BY <2>1, PushDeadFields DEF SameCore
  <2>3. Range(u.dead) = Range(d.dead) \cup {pid}
    BY <1>3, <2>2, PushDeadRange
  <2>4. \A c \in Pids : /\ u.state[c] = IF c = pid THEN PS_DEAD ELSE d.state[c]
                        /\ c # pid => u.attr[c] = d.attr[c]
    BY <1>1, <2>2 DEF With
  <2>5. Stopped(s, u, pid)
    BY <1>2, <1>4, <2>2, <2>3, <2>4 DEF Stopped, Unlinked, SameCore, SameBlocks
  <2> QED BY <2>5 DEF u
<1>5. CASE bound
  <2> DEFINE x == With(d.state, pid, PS_ZOMBIE)
             y == With(d.attr, pid, retval)
             z == [d EXCEPT !.state = x, !.attr = y]
             told == Told(z, pid)
  <2>1. u = TriggerParent(z, pid)
    <3>1. d.parent[pid] # NOPID
      BY <1>1, <1>3, <1>5
    <3> QED BY <3>1 DEF Ended
  <2>2. /\ x \in [Pids -> States] /\ y \in [Pids -> Int]
        /\ \A c \in Pids : /\ x[c] = IF c = pid THEN PS_ZOMBIE ELSE d.state[c]
                           /\ c # pid => y[c] = d.attr[c]
    BY <1>1, DistinctStates DEF With
  <2> HIDE DEF u, x, y
  <2>3. /\ z \in KernelStates /\ z.state = x /\ z.attr = y /\ SameBlocks(d, z)
        /\ SameLists(d, z) /\ z.queues = d.queues /\ SameCore(d, z)
    BY <2>2 DEF KernelStates, SameBlocks, SameLists, SameCore
  <2> HIDE DEF z, told
  <2>4. z.parent[pid] = father /\ father \in Pids /\ father # pid
    BY <1>3, <1>5, <2>3 DEF SameBlocks
  <2>5. told <=> Told(s, pid)
    <3>1. z.state[father] = PS_WAIT_CHILD <=> s.state[father] = PS_WAIT_CHILD
      BY <2>2, <2>3, <2>4, DistinctStates DEF Unlinked, Freed
    <3>2. z.local[father] = s.local[father]
      BY <2>3, <2>4 DEF Unlinked, SameBlocks
    <3> QED BY <2>4, <3>1, <3>2 DEF Told, told
  <2>6. /\ u.state = IF told THEN With(z.state, father, PS_RUNNABLE) ELSE z.state
        /\ u.attr = IF told THEN With(z.attr, father, 0) ELSE z.attr
        /\ u.local = IF told THEN With(z.local, father, pid) ELSE z.local
        /\ u.runnable = IF told
                        THEN InsertAt(z.runnable, PrioSlot(z.runnable, z.prio, father), father)
                        ELSE z.runnable
        /\ u.parent = z.parent /\ u.prio = z.prio /\ u.call = z.call
        /\ u.message = z.message /\ u.asleep = z.asleep /\ u.waiting = z.waiting
        /\ u.dead = z.dead /\ u.queues = z.queues /\ SameCore(z, u)
    BY <2>1, <2>3, <2>4, TriggerFields DEF told
  <2>7. \A c \in Pids :
          /\ u.state[c] = IF c = pid THEN PS_ZOMBIE
                          ELSE IF told /\ c = father THEN PS_RUNNABLE ELSE d.state[c]
          /\ c # pid /\ ~(told /\ c = father) => u.attr[c] = d.attr[c]
          /\ u.local[c] = IF told /\ c = father THEN pid ELSE d.local[c]
    BY <1>1, <2>2, <2>3, <2>4, <2>6 DEF With, SameBlocks
  <2>8. told => father \notin Freed(s, pid)
    BY <2>5, DistinctStates DEF Told, Freed
  <2>9. ASSUME NEW c \in Pids
        PROVE  /\ u.state[c] = IF c = pid THEN PS_ZOMBIE
                               ELSE IF c \in Freed(s, pid) THEN PS_DEAD
                               ELSE IF told /\ c = father THEN PS_RUNNABLE
                               ELSE s.state[c]
               /\ c \notin Freed(s, pid) \cup {pid} /\ ~(told /\ c = father)
                    => u.attr[c] = s.attr[c]
               /\ u.parent[c] = IF c \in Orphaned(s, pid) THEN NOPID ELSE s.parent[c]
               /\ u.call[c] = IF c = pid THEN "user" ELSE s.call[c]
               /\ c # pid => /\ u.message[c] = s.message[c]
                             /\ u.local[c] = IF told /\ c = father THEN pid ELSE s.local[c]
               /\ c \in Range(s.dead) \cup Freed(s, pid) => c \in Range(u.dead)
    BY <2>3, <2>6, <2>7, <2>8 DEF Unlinked, SameBlocks, SameLists
  <2>10. /\ u.runnable = LET left == d.runnable IN
                         IF told THEN InsertAt(left, PrioSlot(left, s.prio, father), father)
                         ELSE left
         /\ u.asleep = d.asleep /\ u.waiting = d.waiting /\ u.prio = s.prio
         /\ u.queues = s.queues /\ SameCore(s, u)
    BY <2>3, <2>6 DEF Unlinked, SameBlocks, SameLists, SameCore
  <2>11. Stopped(s, u, pid)
    BY <1>5, <2>5, <2>9, <2>10 DEF Stopped, Unlinked
  <2> QED BY <2>11 DEF u
<1> QED BY <1>4, <1>5

(* stop is the end of a process, then fix_scheduler. *)
LEMMA StopKind ==
  ASSUME NEW s, Sound(s), NEW pid \in Pids, pid # IDLE,
         s.state[pid] \notin {PS_DEAD, PS_ZOMBIE}, NEW retval \in Int
  PROVE  \E u : Scheduled(s, u, stop(s, pid, retval)) /\ Stopped(s, u, pid)
<1> DEFINE d == Detach(UnbindTurns(Forget(s, pid), pid)[NBPROC], pid)
           u == Ended(d, pid, retval)
<1>1. stop(s, pid, retval) = fix_scheduler(u) /\ Sound(u)
  BY StopSound
<1>2. d \in KernelStates /\ ListsBut(d, {pid}) /\ Unlinked(s, d, pid)
  BY StopUnlinks
<1> HIDE DEF d
<1>3. Stopped(s, u, pid)
  BY <1>2, EndedFields
<1> HIDE DEF u
<1> QED BY <1>1, <1>3 DEF Scheduled

-----------------------------------------------------------------------------
(* Lists that grow in order. *)

(* new holds the processes of old and more: if old was sorted so is new,   *)
(* and no process of old was overtaken by one of its priority.             *)
Grown(old, new, key) ==
  Falling(old, key) =>
    /\ Falling(new, key) /\ Range(old) \subseteq Range(new)
    /\ \A p, q \in Pids : Precedes(new, p, q) /\ key[p] = key[q] /\ q \in Range(old)
                            => Precedes(old, p, q)

(* Growing is transitive. *)
LEMMA GrownTrans ==
  ASSUME NEW a, NEW b, NEW c, NEW key, Grown(a, b, key), Grown(b, c, key)
  PROVE  Grown(a, c, key)
BY DEF Grown

(* A list has grown out of itself. *)
LEMMA GrownSelf ==
  ASSUME NEW a, NEW key
  PROVE  Grown(a, a, key)
BY DEF Grown

(* Ordered insertion of a process that is not in the list. *)
LEMMA InsertGrown ==
  ASSUME NEW list \in Seq(Pids), NEW key \in [Pids -> Int], NEW p \in Pids,
         p \notin Range(list)
  PROVE  Grown(list, InsertAt(list, PrioSlot(list, key, p), p), key)
<1> DEFINE i == PrioSlot(list, key, p)
           t == InsertAt(list, i, p)
<1>1. /\ i \in 1 .. Len(list) + 1
      /\ \A j \in 1 .. Len(list) : j < i => key[list[j]] >= key[p]
      /\ i <= Len(list) => key[p] > key[list[i]]
  BY PrioSlotPlace
<1> HIDE DEF i
<1>2. /\ t \in Seq(Pids) /\ Len(t) = Len(list) + 1
      /\ \A j \in 1 .. Len(list) + 1 :
           t[j] = IF j < i THEN list[j] ELSE IF j = i THEN p ELSE list[j - 1]
  BY <1>1, InsertAtElements
<1> HIDE DEF t
<1>3. /\ Len(list) \in Nat /\ DOMAIN list = 1 .. Len(list) /\ DOMAIN t = 1 .. Len(list) + 1
      /\ \A j \in 1 .. Len(list) : list[j] \in Pids /\ key[list[j]] \in Int
      /\ key[p] \in Int
  BY <1>2
<1> SUFFICES ASSUME Falling(list, key)
             PROVE  /\ Falling(t, key) /\ Range(list) \subseteq Range(t)
                    /\ \A a, b \in Pids : Precedes(t, a, b) /\ key[a] = key[b]
                                            /\ b \in Range(list) => Precedes(list, a, b)
  BY DEF Grown, i, t
<1>4. \A j, k \in 1 .. Len(list) : j < k => key[list[j]] >= key[list[k]]
  BY DEF Falling
<1>5. \A j \in 1 .. Len(list) : j >= i => key[p] > key[list[j]]
  <2> TAKE j \in 1 .. Len(list)
  <2> HAVE j >= i
  <2>1. i \in 1 .. Len(list) /\ key[p] > key[list[i]]
    BY <1>1, <1>3
  <2>2. key[list[i]] >= key[list[j]]
    BY <1>3, <1>4, <2>1
  <2> QED BY <1>3, <2>1, <2>2
<1>6. ASSUME NEW j \in 1 .. Len(t), NEW k \in 1 .. Len(t), j < k
      PROVE  key[t[j]] >= key[t[k]]
  <2>1. CASE k < i
    BY <1>1, <1>2, <1>3, <1>4, <1>6, <2>1
  <2>2. CASE k = i
    BY <1>1, <1>2, <1>3, <1>6, <2>2
  <2>3. CASE k > i /\ j = i
    <3>1. k - 1 \in 1 .. Len(list) /\ k - 1 >= i /\ t[k] = list[k - 1] /\ t[j] = p
      BY <1>1, <1>2, <1>3, <1>6, <2>3
    <3> QED BY <1>3, <1>5, <3>1
  <2>4. CASE k > i /\ j < i
    <3>1. k - 1 \in 1 .. Len(list) /\ j < k - 1 /\ t[k] = list[k - 1] /\ t[j] = list[j]
          /\ j \in 1 .. Len(list)
      BY <1>1, <1>2, <1>3, <1>6, <2>4
    <3> QED BY <1>4, <3>1
  <2>5. CASE k > i /\ j > i
    <3>1. /\ k - 1 \in 1 .. Len(list) /\ j - 1 < k - 1 /\ t[k] = list[k - 1]
          /\ t[j] = list[j - 1] /\ j - 1 \in 1 .. Len(list)
      BY <1>1, <1>2, <1>3, <1>6, <2>5
    <3> QED BY <1>4, <3>1
  <2> QED BY <1>1, <1>2, <1>3, <1>6, <2>1, <2>2, <2>3, <2>4, <2>5
<1>7. Range(list) \subseteq Range(t)
  <2> SUFFICES ASSUME NEW j \in 1 .. Len(list)
               PROVE  \E k \in 1 .. Len(list) + 1 : t[k] = list[j]
    BY <1>3 DEF Range
  <2>0. j \in 1 .. Len(list) + 1 /\ j + 1 \in 1 .. Len(list) + 1 /\ (j + 1) - 1 = j
    BY <1>3
  <2>1. CASE j < i
    <3>1. t[j] = list[j]
      BY <1>2, <2>0, <2>1
    <3> QED BY <2>0, <3>1
  <2>2. CASE j >= i
    <3>1. t[j + 1] = list[(j + 1) - 1]
      <4>1. ~(j + 1 < i) /\ j + 1 # i
        BY <1>1, <1>3, <2>2
      <4> QED BY <1>2, <2>0, <4>1
    <3> QED BY <2>0, <3>1
  <2> QED BY <1>1, <1>3, <2>1, <2>2
<1>8. ASSUME NEW a \in Pids, NEW b \in Pids, Precedes(t, a, b), key[a] = key[b],
             b \in Range(list)
      PROVE  Precedes(list, a, b)
  <2>1. PICK j, k \in 1 .. Len(t) : j < k /\ t[j] = a /\ t[k] = b
    BY <1>8 DEF Precedes
  <2>2. b # p
    BY <1>8
  <2>3. k # i
    BY <1>1, <1>2, <1>3, <2>1, <2>2
  <2>4. CASE k < i
    <3>1. j \in 1 .. Len(list) /\ k \in 1 .. Len(list) /\ list[j] = a /\ list[k] = b
      BY <1>1, <1>2, <1>3, <2>1, <2>4
    <3> QED BY <2>1, <3>1 DEF Precedes
  <2>5. CASE k > i /\ j = i
    <3>1. k - 1 \in 1 .. Len(list) /\ k - 1 >= i /\ t[k] = list[k - 1] /\ t[j] = p
      BY <1>1, <1>2, <1>3, <2>1, <2>5
    <3>2. key[p] > key[list[k - 1]]
      BY <1>5, <3>1
    <3> QED BY <1>3, <1>8, <2>1, <3>1, <3>2
  <2>6. CASE k > i /\ j < i
    <3>1. k - 1 \in 1 .. Len(list) /\ j < k - 1 /\ list[k - 1] = b /\ list[j] = a
          /\ j \in 1 .. Len(list)
      BY <1>1, <1>2, <1>3, <2>1, <2>6
    <3> QED BY <3>1 DEF Precedes
  <2>7. CASE k > i /\ j > i
    <3>1. /\ k - 1 \in 1 .. Len(list) /\ j - 1 < k - 1 /\ list[k - 1] = b
          /\ list[j - 1] = a /\ j - 1 \in 1 .. Len(list)
      BY <1>1, <1>2, <1>3, <2>1, <2>7
    <3> QED BY <3>1 DEF Precedes
  <2> QED BY <1>1, <1>2, <1>3, <2>1, <2>3, <2>4, <2>5, <2>6, <2>7
<1> QED BY <1>6, <1>7, <1>8 DEF Falling

-----------------------------------------------------------------------------
(* preset and pdelete fail every blocked call. *)

(* The call p was suspended in on queue fid will return -1. *)
Fails(s, t, fid, p) ==
  /\ s.state[p] \in WaitStates /\ s.attr[p] = fid
  /\ t.state[p] = PS_RUNNABLE /\ t.attr[p] = 0 /\ t.local[p] = -1

(* Some of the processes blocked on fid have been woken. *)
Flushing(s, t, fid) ==
  /\ \A p \in Pids :
       \/ /\ t.state[p] = s.state[p] /\ t.attr[p] = s.attr[p] /\ t.local[p] = s.local[p]
       \/ Fails(s, t, fid, p)
  /\ \A f \in Fids, st \in WaitStates :
       f # fid \/ s.waiting[<<f, st>>] = <<>> => t.waiting[<<f, st>>] = s.waiting[<<f, st>>]
  /\ Grown(s.runnable, t.runnable, s.prio)
  /\ t.asleep = s.asleep /\ t.dead = s.dead /\ SameCore(s, t)
  /\ t.prio = s.prio /\ t.parent = s.parent /\ t.call = s.call /\ t.message = s.message

(* Waking is transitive: a process is woken once. *)
LEMMA FlushingTrans ==
  ASSUME NEW s, NEW t, NEW u, NEW fid, Flushing(s, t, fid), Flushing(t, u, fid)
  PROVE  Flushing(s, u, fid)
<1>1. ASSUME NEW p \in Pids
      PROVE  \/ /\ u.state[p] = s.state[p] /\ u.attr[p] = s.attr[p]
                /\ u.local[p] = s.local[p]
             \/ Fails(s, u, fid, p)
  <2>1. CASE Fails(s, t, fid, p)
    <3>1. ~Fails(t, u, fid, p)
      BY <2>1, DistinctStates DEF Fails
    <3>2. u.state[p] = t.state[p] /\ u.attr[p] = t.attr[p] /\ u.local[p] = t.local[p]
      BY <3>1 DEF Flushing
    <3> QED BY <2>1, <3>2 DEF Fails
  <2>2. CASE ~Fails(s, t, fid, p)
    <3>1. t.state[p] = s.state[p] /\ t.attr[p] = s.attr[p] /\ t.local[p] = s.local[p]
      BY <2>2 DEF Flushing
    <3>2. \/ u.state[p] = t.state[p] /\ u.attr[p] = t.attr[p] /\ u.local[p] = t.local[p]
          \/ Fails(t, u, fid, p)
      BY DEF Flushing
    <3> QED BY <3>1, <3>2 DEF Fails
  <2> QED BY <2>1, <2>2
<1>2. Grown(s.runnable, u.runnable, s.prio)
  BY GrownTrans DEF Flushing
<1>3. ASSUME NEW f \in Fids, NEW st \in WaitStates,
             f # fid \/ s.waiting[<<f, st>>] = <<>>
      PROVE  u.waiting[<<f, st>>] = s.waiting[<<f, st>>]
  <2>1. t.waiting[<<f, st>>] = s.waiting[<<f, st>>]
    BY <1>3 DEF Flushing
  <2> QED BY <1>3, <2>1 DEF Flushing
<1> QED BY <1>1, <1>2, <1>3 DEF Flushing, SameCore

(* One blocked call fails. *)
LEMMA FailFirstFlushing ==
  ASSUME NEW s, Sound(s), NEW fid \in Fids, NEW st \in WaitStates,
         s.waiting[<<fid, st>>] # <<>>
  PROVE  Flushing(s, FailFirst(s, fid, st), fid)
<1> DEFINE list == s.waiting[<<fid, st>>]
           p == Head(list)
           z == Tail(list)
           t == FailFirst(s, fid, st)
<1>1. Notified(s, t, fid, st, p, z) /\ t.local = With(s.local, p, -1)
  BY FailFirstFields
<1>2. /\ s.state \in [Pids -> States] /\ s.attr \in [Pids -> Int]
      /\ s.local \in [Pids -> Int] /\ s.prio \in [Pids -> Int]
      /\ s.runnable \in Seq(Pids) /\ s.waiting \in [Fids \X WaitStates -> Seq(Pids)]
      /\ Range(s.runnable) = InState(s, {}, PS_RUNNABLE)
  BY DEF Sound, KernelStates, ListsBut, IsListOf
<1> HIDE DEF t, p, z
<1>3. p \in Pids /\ s.state[p] = st /\ s.attr[p] = fid /\ st # PS_RUNNABLE
  BY <1>1, DistinctStates DEF Notified
<1>4. \A q \in Pids : \/ /\ t.state[q] = s.state[q] /\ t.attr[q] = s.attr[q]
                         /\ t.local[q] = s.local[q]
                      \/ Fails(s, t, fid, q)
  <2>1. /\ t.state = With(s.state, p, PS_RUNNABLE) /\ t.attr = With(s.attr, p, 0)
        /\ t.local = With(s.local, p, -1)
    BY <1>1 DEF Notified
  <2>2. /\ t.state[p] = PS_RUNNABLE /\ t.attr[p] = 0 /\ t.local[p] = -1
        /\ \A q \in Pids \ {p} : /\ t.state[q] = s.state[q] /\ t.attr[q] = s.attr[q]
                                 /\ t.local[q] = s.local[q]
    BY <1>2, <1>3, <2>1 DEF With
  <2>3. Fails(s, t, fid, p)
    BY <1>3, <2>2 DEF Fails
  <2> QED BY <2>2, <2>3
<1>5. ASSUME NEW f \in Fids, NEW w \in WaitStates, f # fid \/ s.waiting[<<f, w>>] = <<>>
      PROVE  t.waiting[<<f, w>>] = s.waiting[<<f, w>>]
  <2>1. <<f, w>> # <<fid, st>>
    BY <1>5
  <2>2. <<f, w>> \in Fids \X WaitStates
    OBVIOUS
  <2> QED BY <1>1, <1>2, <2>1, <2>2 DEF Notified, With
<1>6. Grown(s.runnable, t.runnable, s.prio)
  <2>1. p \notin Range(s.runnable)
    BY <1>2, <1>3 DEF InState
  <2>2. t.runnable = InsertAt(s.runnable, PrioSlot(s.runnable, s.prio, p), p)
    BY <1>1 DEF Notified
  <2>3. s.runnable \in Seq(Pids) /\ s.prio \in [Pids -> Int] /\ p \in Pids
    BY <1>2, <1>3
  <2>4. Grown(s.runnable, InsertAt(s.runnable, PrioSlot(s.runnable, s.prio, p), p), s.prio)
    BY <2>1, <2>3, InsertGrown
  <2> QED BY <2>2, <2>4
<1>7. /\ t.asleep = s.asleep /\ t.dead = s.dead /\ SameCore(s, t)
      /\ t.prio = s.prio /\ t.parent = s.parent /\ t.call = s.call /\ t.message = s.message
  BY <1>1 DEF Notified, SameCore
<1>8. Flushing(s, t, fid)
  BY <1>4, <1>5, <1>6, <1>7 DEF Flushing
<1> QED BY <1>8 DEF t

(* All calls blocked on one list fail. *)
LEMMA WakeupAllFlushes ==
  ASSUME NEW s, Sound(s), NEW fid \in Fids, NEW st \in WaitStates
  PROVE  LET t == wakeup_all_processes(s, fid, st) IN
         /\ Sound(t) /\ SameQueues(s, t) /\ Flushing(s, t, fid)
         /\ t.waiting[<<fid, st>>] = <<>>
<1> DEFINE G == {t \in KernelStates : Sound(t) /\ SameQueues(s, t) /\ Flushing(s, t, fid)}
<1>1. s \in G
  <2>1. Flushing(s, s, fid)
    BY GrownSelf DEF Flushing, SameCore
  <2> QED BY <2>1 DEF Sound, SameQueues
<1>2. \A t \in G : t.waiting[<<fid, st>>] \in Seq(Pids)
  BY WaitingSeq
<1>3. \A t \in G : t.waiting[<<fid, st>>] # <<>> =>
        /\ FailFirst(t, fid, st) \in G
        /\ FailFirst(t, fid, st).waiting[<<fid, st>>] = Tail(t.waiting[<<fid, st>>])
  <2> TAKE t \in G
  <2> HAVE t.waiting[<<fid, st>>] # <<>>
  <2> DEFINE u == FailFirst(t, fid, st)
  <2>1. Sound(u) /\ SameQueues(t, u) /\ u.waiting[<<fid, st>>] = Tail(t.waiting[<<fid, st>>])
    BY FailFirstSound
  <2>2. Flushing(t, u, fid)
    BY FailFirstFlushing
  <2> HIDE DEF u
  <2>3. Flushing(s, u, fid)
    BY <2>2, FlushingTrans
  <2>4. u \in G
    BY <2>1, <2>3 DEF Sound, SameQueues
  <2> QED BY <2>1, <2>4 DEF u
<1> HIDE DEF G
<1>4. LET t == wakeup_all_processes(s, fid, st) IN
      t \in G /\ t.waiting[<<fid, st>>] = <<>>
  BY <1>1, <1>2, <1>3, WakeupAllKeeps
<1> QED BY <1>4 DEF G

(* Nobody waits on fid any more. *)
Emptied(t, fid) ==
  /\ \A st \in WaitStates : t.waiting[<<fid, st>>] = <<>>
  /\ \A p \in Pids : t.state[p] \in WaitStates => t.attr[p] # fid

(* Both lists of a queue are emptied, then the scheduler is fixed. *)
LEMMA WakeupBothKind ==
  ASSUME NEW s, Sound(s), NEW fid \in Fids
  PROVE  \E u : /\ \A x : Scheduled(x, u, WakeupBoth(s, fid))
                /\ u.queues = s.queues
                /\ Flushing(s, u, fid) /\ Emptied(u, fid)
<1> DEFINE u == wakeup_all_processes(s, fid, PS_WAIT_QUEUE_EMPTY)
           v == wakeup_all_processes(u, fid, PS_WAIT_QUEUE_FULL)
<1>1. /\ Sound(u) /\ SameQueues(s, u) /\ Flushing(s, u, fid)
      /\ u.waiting[<<fid, PS_WAIT_QUEUE_EMPTY>>] = <<>>
  BY TwoWaitStates, WakeupAllFlushes
<1>2. /\ Sound(v) /\ SameQueues(u, v) /\ Flushing(u, v, fid)
      /\ v.waiting[<<fid, PS_WAIT_QUEUE_FULL>>] = <<>>
  <2> HIDE DEF u
  <2> QED BY <1>1, TwoWaitStates, WakeupAllFlushes
<1>3. WakeupBoth(s, fid) = fix_scheduler(v)
  BY DEF WakeupBoth
<1> HIDE DEF u, v
<1>4. Flushing(s, v, fid) /\ v.queues = s.queues
  BY <1>1, <1>2, FlushingTrans DEF SameQueues
<1>5. \A st \in WaitStates : v.waiting[<<fid, st>>] = <<>>
  <2>1. v.waiting[<<fid, PS_WAIT_QUEUE_EMPTY>>] = <<>>
    BY <1>1, <1>2, TwoWaitStates DEF Flushing
  <2> QED BY <1>2, <2>1 DEF WaitStates
<1>6. ASSUME NEW p \in Pids, v.state[p] \in WaitStates, v.attr[p] = fid
      PROVE  FALSE
  <2> DEFINE st == v.state[p]
  <2>1. Range(v.waiting[<<fid, st>>]) = WaitingOn(v, {}, fid, st)
    BY <1>2, <1>6 DEF Sound, ListsBut, IsListOf
  <2>2. p \in WaitingOn(v, {}, fid, st)
    BY <1>6 DEF WaitingOn, InState
  <2>3. v.waiting[<<fid, st>>] = <<>>
    BY <1>5, <1>6
  <2> HIDE DEF st
  <2>4. Range(<<>>) = {}
    BY DEF Range
  <2> QED BY <2>1, <2>2, <2>3, <2>4
<1> QED BY <1>2, <1>3, <1>4, <1>5, <1>6 DEF Scheduled, Emptied

-----------------------------------------------------------------------------
(* The queue calls. *)

(* Only queue fid changed: it is now q. *)
Put(s, u, fid, q) ==
  /\ fid \in Fids /\ u.queues = With(s.queues, fid, q)
  /\ SameTable(s, u) /\ SameLists(s, u) /\ SameCore(s, u)

(* The ring after push_message and after pop_message. *)
Pushed(q, val) ==
  LET rear == (q.rear + 1) % q.capacity
  IN [q EXCEPT !.rear = rear, !.size = q.size + 1,
               !.messages = [q.messages EXCEPT ![rear] = val]]
Popped(q) == [q EXCEPT !.front = (q.front + 1) % q.capacity, !.size = q.size - 1]

(* The structure pcreate, preset and pdelete leave. *)
NewQueue(q, count, allocated) ==
  IF allocated
  THEN [front |-> 0, rear |-> count - 1, size |-> 0, capacity |-> count,
        messages |-> [i \in 0 .. count - 1 |-> Uninit]]
  ELSE [q EXCEPT !.capacity = count, !.messages = <<>>]
ResetQueue(q) == [q EXCEPT !.front = 0, !.rear = q.capacity - 1, !.size = 0]
DeletedQueue(q) == [q EXCEPT !.capacity = 0, !.messages = <<>>]

(* The changes of the queue calls. *)
Created(s, u, fid, count, allocated) ==
  /\ fid \in Fids /\ is_queue_free(s.queues[fid]) /\ count \in 1 .. MAXCOUNT
  /\ Put(s, u, fid, NewQueue(s.queues[fid], count, allocated))

Flushed(s, u, fid, q) ==
  /\ fid \in Fids /\ ~is_queue_free(s.queues[fid])
  /\ u.queues = With(s.queues, fid, q)
  /\ Flushing(s, u, fid) /\ Emptied(u, fid)

Blocks(s, u, fid, st, c, m) ==
  LET p    == s.active_process
      list == s.waiting[<<fid, st>>]
      q    == s.queues[fid]
  IN
  /\ fid \in Fids /\ ~is_queue_free(q)
  /\ \/ st = PS_WAIT_QUEUE_EMPTY /\ c = "preceive" /\ m = Uninit /\ is_queue_empty(q)
     \/ st = PS_WAIT_QUEUE_FULL /\ c = "psend" /\ m \in Messages /\ is_queue_full(q)
  /\ u.state = With(s.state, p, st) /\ u.attr = With(s.attr, p, fid)
  /\ u.call = With(s.call, p, c) /\ u.local = With(s.local, p, 0)
  /\ u.message = With(s.message, p, m)
  /\ u.parent = s.parent /\ u.prio = s.prio /\ u.dead = s.dead
  /\ u.waiting = With(s.waiting, <<fid, st>>,
                      InsertAt(list, PrioSlot(list, s.prio, p), p))
  /\ u.runnable = s.runnable /\ u.asleep = s.asleep
  /\ u.queues = s.queues /\ SameCore(s, u)

(* psend in the ring, and to the first blocked receiver. *)
Sent(s, u, fid, m) ==
  LET q == s.queues[fid] IN
  /\ fid \in Fids /\ m \in Messages /\ ~is_queue_free(q) /\ ~is_queue_full(q)
  /\ ~is_queue_empty(q) \/ s.waiting[<<fid, PS_WAIT_QUEUE_EMPTY>>] = <<>>
  /\ Put(s, u, fid, Pushed(q, m))

Handed(s, u, fid, p, m) ==
  LET st == PS_WAIT_QUEUE_EMPTY IN
  \E v : /\ m \in Messages /\ fid \in Fids
         /\ SameLists(s, v) /\ v.queues = s.queues /\ SameCore(s, v)
         /\ v.state = s.state /\ v.attr = s.attr /\ v.prio = s.prio
         /\ v.parent = s.parent /\ v.call = s.call /\ v.local = s.local
         /\ v.message = With(s.message, p, m)
         /\ s.waiting[<<fid, st>>] # <<>> /\ p = Head(s.waiting[<<fid, st>>])
         /\ Notified(v, u, fid, st, p, Tail(s.waiting[<<fid, st>>])) /\ u.local = s.local

(* preceive from the ring, without and with a blocked sender. *)
Received(s, u, fid) ==
  LET q == s.queues[fid] IN
  /\ fid \in Fids /\ ~is_queue_free(q) /\ ~is_queue_empty(q)
  /\ q.size # q.capacity \/ s.waiting[<<fid, PS_WAIT_QUEUE_FULL>>] = <<>>
  /\ Put(s, u, fid, Popped(q))

Refilled(s, u, fid, p) ==
  LET st == PS_WAIT_QUEUE_FULL
      q  == s.queues[fid]
  IN
  \E v : /\ fid \in Fids /\ ~is_queue_free(q) /\ ~is_queue_empty(q) /\ is_queue_full(q)
         /\ s.waiting[<<fid, st>>] # <<>> /\ p = Head(s.waiting[<<fid, st>>])
         /\ Put(s, v, fid, Pushed(Popped(q), s.message[p]))
         /\ Notified(v, u, fid, st, p, Tail(s.waiting[<<fid, st>>])) /\ u.local = s.local

(* Writing a queue structure, after an assert or not. *)
LEMMA PutFields ==
  ASSUME NEW s \in KernelStates, NEW v, v = s \/ v = panic(s), NEW fid \in Fids, NEW q
  PROVE  Put(s, PutQueue(v, fid, q), fid, q)
<1> DEFINE x == With(v.queues, fid, q)
           t == [v EXCEPT !.queues = x]
<1>1. PutQueue(v, fid, q) = t
  BY DEF PutQueue
<1>2. /\ SameTable(s, v) /\ SameLists(s, v) /\ SameCore(s, v) /\ v.queues = s.queues
      /\ v \in KernelStates
  BY DEF panic, KernelStates, SameTable, SameBlocks, SameLists, SameCore
<1>3. x = With(s.queues, fid, q)
  BY <1>2
<1> HIDE DEF x
<1>4. SameTable(v, t) /\ SameLists(v, t) /\ SameCore(v, t) /\ t.queues = x
  BY <1>2 DEF KernelStates, SameTable, SameBlocks, SameLists, SameCore
<1> HIDE DEF t
<1> QED BY <1>1, <1>2, <1>3, <1>4 DEF Put, SameTable, SameBlocks, SameLists, SameCore

(* push_message and pop_message write the ring of one queue. *)
LEMMA PushMessagePut ==
  ASSUME NEW s \in KernelStates, NEW fid \in Fids, NEW val
  PROVE  Put(s, push_message(s, fid, val), fid, Pushed(s.queues[fid], val))
<1> DEFINE q == s.queues[fid]
           rear == (q.rear + 1) % q.capacity
           v == assert(s, ~is_queue_full(q) /\ rear \in DOMAIN q.messages)
<1>1. push_message(s, fid, val) = PutQueue(v, fid, Pushed(q, val))
  BY DEF push_message, PutQueue, With, Pushed
<1>2. v = s \/ v = panic(s)
  BY DEF assert
<1> HIDE DEF v
<1> QED BY <1>1, <1>2, PutFields

(* See PushMessagePut. *)
LEMMA PopMessagePut ==
  ASSUME NEW s \in KernelStates, NEW fid \in Fids
  PROVE  Put(s, pop_message(s, fid), fid, Popped(s.queues[fid]))
<1> DEFINE q == s.queues[fid]
           v == assert(s, ~is_queue_empty(q) /\ q.front \in DOMAIN q.messages)
<1>1. pop_message(s, fid) = PutQueue(v, fid, Popped(q))
  BY DEF pop_message, PutQueue, With, Popped
<1>2. v = s \/ v = panic(s)
  BY DEF assert
<1> HIDE DEF v
<1> QED BY <1>1, <1>2, PutFields

(* Two changes of the same queue. *)
LEMMA PutTwice ==
  ASSUME NEW s \in KernelStates, NEW t, NEW u, NEW fid, NEW q, NEW r,
         Put(s, t, fid, q), Put(t, u, fid, r)
  PROVE  Put(s, u, fid, r) /\ t.queues[fid] = q /\ u.queues[fid] = r
<1>1. s.queues \in [Fids -> QueueStructs] /\ fid \in Fids
  BY DEF KernelStates, Put
<1>2. /\ With(With(s.queues, fid, q), fid, r) = With(s.queues, fid, r)
      /\ With(s.queues, fid, q)[fid] = q /\ With(s.queues, fid, r)[fid] = r
  BY <1>1 DEF With
<1> QED BY <1>2 DEF Put, SameTable, SameBlocks, SameLists, SameCore

(* pcreate. *)
LEMMA PcreateKind ==
  ASSUME NEW s, Stable(s), FreeFids(s) # {}, NEW count \in 1 .. MAXCOUNT,
         NEW allocated \in BOOLEAN
  PROVE  \E u, fid : /\ Scheduled(s, u, pcreate(s, count, allocated))
                     /\ Created(s, u, fid, count, allocated)
<1> DEFINE fid == Min(FreeFids(s))
           q == s.queues[fid]
           u == pcreate(s, count, allocated)
<1>1. fid \in Fids /\ is_queue_free(s.queues[fid])
  <2>1. FreeFids(s) \in SUBSET Nat
    BY SizesAssumption DEF FreeFids, Fids
  <2>2. fid \in FreeFids(s)
    BY <2>1, MinProperty
  <2> HIDE DEF fid
  <2> QED BY <2>2 DEF FreeFids
<1>2. u = PutQueue(s, fid, NewQueue(q, count, allocated))
  BY DEF pcreate, PutQueue, With, NewQueue
<1>3. Stable(u) /\ s \in KernelStates
  BY PcreateKeeps DEF Stable, Sound
<1> HIDE DEF fid, u
<1>4. Put(s, u, fid, NewQueue(q, count, allocated))
  BY <1>1, <1>2, <1>3, PutFields
<1>5. Unmoved(s, u)
  BY <1>4 DEF Put, Unmoved, SameTable, SameBlocks, SameLists, SameCore
<1> QED BY <1>1, <1>3, <1>4, <1>5 DEF Created, Scheduled, u, Stable

(* preset. *)
LEMMA PresetKind ==
  ASSUME NEW s, Stable(s), NEW fid \in Fids, s.queues[fid].capacity # 0
  PROVE  \E u : Scheduled(s, u, preset(s, fid)) /\ Flushed(s, u, fid, ResetQueue(s.queues[fid]))
<1> DEFINE r == ResetQueue(s.queues[fid])
           v == PutQueue(s, fid, r)
<1>1. preset(s, fid) = WakeupBoth(v, fid)
  BY DEF preset, PutQueue, With, ResetQueue
<1>2. Sound(s) /\ s \in KernelStates /\ s.queues[fid] \in QueueStructs
  BY DEF Stable, Sound, KernelStates
<1>3. r \in QueueStructs
  <2> DEFINE q == s.queues[fid]
             zero == 0
             rear == q.capacity - 1
  <2>1. r = [q EXCEPT !.front = zero, !.rear = rear, !.size = zero]
    BY DEF ResetQueue
  <2>2. zero \in Nat /\ zero \in Int
    OBVIOUS
  <2>3. q \in QueueStructs
    BY <1>2
  <2> HIDE DEF q, zero, r
  <2>4. rear \in Int
    BY <2>3, SizesAssumption DEF QueueStructs
  <2> HIDE DEF rear
  <2> QED BY <2>1, <2>2, <2>3, <2>4 DEF QueueStructs
<1> HIDE DEF r
<1>4. Sound(v)
  BY <1>2, <1>3, PutQueueSound
<1>5. Put(s, v, fid, r)
  BY <1>2, PutFields
<1> HIDE DEF v
<1>6. PICK u : /\ \A x : Scheduled(x, u, WakeupBoth(v, fid)) /\ u.queues = v.queues
               /\ Flushing(v, u, fid) /\ Emptied(u, fid)
  BY <1>4, WakeupBothKind
<1>7. Flushing(s, u, fid)
  BY <1>5, <1>6 DEF Put, Flushing, SameTable, SameBlocks, SameLists, SameCore, Fails
<1> QED BY <1>1, <1>5, <1>6, <1>7 DEF Flushed, Put, is_queue_free, r

(* pdelete. *)
LEMMA PdeleteKind ==
  ASSUME NEW s, Stable(s), NEW fid \in Fids, s.queues[fid].capacity # 0
  PROVE  \E u : Scheduled(s, u, pdelete(s, fid)) /\ Flushed(s, u, fid, DeletedQueue(s.queues[fid]))
<1> DEFINE r == DeletedQueue(s.queues[fid])
           v == PutQueue(s, fid, r)
<1>1. pdelete(s, fid) = WakeupBoth(v, fid)
  BY DEF pdelete, PutQueue, With, DeletedQueue
<1>2. Sound(s) /\ s \in KernelStates /\ s.queues[fid] \in QueueStructs
  BY DEF Stable, Sound, KernelStates
<1>3. r \in QueueStructs
  <2> DEFINE q == s.queues[fid]
             e == <<>>
  <2>1. r = [q EXCEPT !.capacity = 0, !.messages = e]
    BY DEF DeletedQueue
  <2>2. e \in MessageArrays /\ 0 \in 0 .. MAXCOUNT
    <3>1. 0 \in 0 .. MAXCOUNT /\ 0 .. 0 - 1 = {}
      BY SizesAssumption
    <3>2. <<>> \in [0 .. 0 - 1 -> Messages \cup {Uninit}]
      BY <3>1
    <3> QED BY <3>1, <3>2 DEF MessageArrays
  <2>3. q \in QueueStructs
    BY <1>2
  <2> HIDE DEF q, e, r
  <2> QED BY <2>1, <2>2, <2>3 DEF QueueStructs
<1> HIDE DEF r
<1>4. Sound(v)
  BY <1>2, <1>3, PutQueueSound
<1>5. Put(s, v, fid, r)
  BY <1>2, PutFields
<1> HIDE DEF v
<1>6. PICK u : /\ \A x : Scheduled(x, u, WakeupBoth(v, fid)) /\ u.queues = v.queues
               /\ Flushing(v, u, fid) /\ Emptied(u, fid)
  BY <1>4, WakeupBothKind
<1>7. Flushing(s, u, fid)
  BY <1>5, <1>6 DEF Put, Flushing, SameTable, SameBlocks, SameLists, SameCore, Fails
<1> QED BY <1>1, <1>5, <1>6, <1>7 DEF Flushed, Put, is_queue_free, r

(* A blocking psend or preceive. *)
LEMMA BlocksKind ==
  ASSUME NEW s, Stable(s), s.active_process # IDLE, NEW fid \in Fids,
         ~is_queue_free(s.queues[fid]), NEW st, NEW c, NEW m,
         \/ /\ st = PS_WAIT_QUEUE_EMPTY /\ c = "preceive" /\ m = Uninit
            /\ is_queue_empty(s.queues[fid])
         \/ /\ st = PS_WAIT_QUEUE_FULL /\ c = "psend" /\ m \in Messages
            /\ is_queue_full(s.queues[fid])
  PROVE  \E u : /\ Scheduled(s, u, tick_scheduler(BlockOnQueue(s, fid, st, c, m)))
                /\ Blocks(s, u, fid, st, c, m)
<1> DEFINE u == BlockOnQueue(s, fid, st, c, m)
           p == s.active_process
           list == s.waiting[<<fid, st>>]
<1>1. /\ st \in WaitStates /\ c \in {"preceive", "psend"} /\ c \in Calls
      /\ m \in Messages \cup {Uninit}
  BY TwoWaitStates DEF Calls
<1>2. Sound(u)
  BY <1>1, BlockSound
<1>3. /\ u.state = With(s.state, p, st) /\ u.attr = With(s.attr, p, fid)
      /\ u.call = With(s.call, p, c) /\ u.local = With(s.local, p, 0)
      /\ u.message = With(s.message, p, m)
      /\ u.parent = s.parent /\ u.prio = s.prio /\ u.dead = s.dead
      /\ u.waiting = With(s.waiting, <<fid, st>>,
                          InsertAt(list, PrioSlot(list, s.prio, p), p))
      /\ u.runnable = s.runnable /\ u.asleep = s.asleep
      /\ u.active_process = p /\ u.pit_count = s.pit_count /\ u.queues = s.queues
  BY <1>1, BlockFields
<1> HIDE DEF u
<1>4. Blocks(s, u, fid, st, c, m)
  BY <1>3 DEF Blocks, SameCore
<1> QED BY <1>2, <1>4 DEF Scheduled, u

(* psend to a receiver that waits. *)
LEMMA HandedKind ==
  ASSUME NEW s, Stable(s), NEW fid \in Fids, NEW m \in Messages,
         s.waiting[<<fid, PS_WAIT_QUEUE_EMPTY>>] # <<>>
  PROVE  LET p == Head(s.waiting[<<fid, PS_WAIT_QUEUE_EMPTY>>])
             v == [s EXCEPT !.message = With(s.message, p, m)]
         IN \E u : /\ Scheduled(s, u, wakeup_first_process(v, fid, PS_WAIT_QUEUE_EMPTY))
                   /\ Handed(s, u, fid, p, m)
<1> DEFINE st == PS_WAIT_QUEUE_EMPTY
           list == s.waiting[<<fid, st>>]
           p == Head(list)
           x == With(s.message, p, m)
           v == [s EXCEPT !.message = x]
           u == push_runnable(PutWaiting(v, fid, st, Tail(v.waiting[<<fid, st>>])),
                              Head(v.waiting[<<fid, st>>]))
<1>0. st \in WaitStates
  BY TwoWaitStates
<1>1. p \in Pids
  <2>1. list \in Seq(Pids) /\ list # <<>>
    BY <1>0, WaitingSeq DEF Stable, Sound
  <2> HIDE DEF list
  <2> QED BY <2>1
<1> HIDE DEF p, st
<1>3. /\ s \in KernelStates /\ s.message \in [Pids -> Messages \cup {Uninit}]
      /\ Sound(s)
  BY DEF Stable, Sound, KernelStates
<1>4. x \in [Pids -> Messages \cup {Uninit}]
  BY <1>1, <1>3 DEF With
<1> HIDE DEF x
<1>5. /\ v \in KernelStates /\ v.message = x
      /\ v.state = s.state /\ v.attr = s.attr /\ SameCore(s, v)
      /\ SameLists(s, v) /\ v.queues = s.queues /\ v.prio = s.prio
      /\ v.call = s.call /\ v.local = s.local /\ v.parent = s.parent
  BY <1>3, <1>4 DEF KernelStates, SameCore, SameLists
<1> HIDE DEF v
<1>6. ListsBut(v, {})
  BY <1>3, <1>5, ListsKept DEF Sound, SameLists
<1>7. Sound(v)
  BY <1>3, <1>5, <1>6, SoundKept DEF SameCore
<1>8. v.waiting[<<fid, st>>] # <<>> /\ v.waiting = s.waiting
  BY <1>5 DEF SameLists, st
<1>9. wakeup_first_process(v, fid, st) = fix_scheduler(u) /\ Sound(u)
  BY <1>0, <1>7, <1>8, WakeupFirstSound
<1>10. /\ Notified(v, u, fid, st, Head(v.waiting[<<fid, st>>]), Tail(v.waiting[<<fid, st>>]))
       /\ u.local = v.local
  BY <1>0, <1>7, <1>8, WakeupFirstFields
<1> HIDE DEF u
<1>11. Notified(v, u, fid, st, p, Tail(list)) /\ u.local = s.local
  BY <1>5, <1>8, <1>10 DEF p
<1>12. Handed(s, u, fid, p, m)
  <2>1. list # <<>> /\ p = Head(list)
    BY DEF p, st
  <2> HIDE DEF list
  <2> QED BY <1>5, <1>11, <2>1 DEF Handed, x, list, st
<1>13. Scheduled(s, u, wakeup_first_process(v, fid, st))
  BY <1>9 DEF Scheduled
<1> QED BY <1>12, <1>13 DEF v, x, p, st

(* psend. *)
LEMMA PsendKind ==
  ASSUME NEW s, Stable(s), s.active_process # IDLE, NEW fid \in Fids,
         s.queues[fid].capacity # 0, NEW m \in Messages
  PROVE  \E u : /\ Scheduled(s, u, psend(s, fid, m))
                /\ \/ Blocks(s, u, fid, PS_WAIT_QUEUE_FULL, "psend", m)
                   \/ \E p : Handed(s, u, fid, p, m)
                   \/ Sent(s, u, fid, m)
<1> DEFINE q == s.queues[fid]
           receivers == s.waiting[<<fid, PS_WAIT_QUEUE_EMPTY>>]
<1>0. Sound(s) /\ s \in KernelStates /\ ~is_queue_free(q)
  BY DEF Stable, Sound, is_queue_free
<1>1. CASE is_queue_full(q)
  <2>1. psend(s, fid, m)
          = tick_scheduler(BlockOnQueue(s, fid, PS_WAIT_QUEUE_FULL, "psend", m))
    BY <1>1 DEF psend
  <2>2. \E u : /\ Scheduled(s, u, tick_scheduler(
                                 BlockOnQueue(s, fid, PS_WAIT_QUEUE_FULL, "psend", m)))
               /\ Blocks(s, u, fid, PS_WAIT_QUEUE_FULL, "psend", m)
    BY <1>0, <1>1, BlocksKind
  <2> QED BY <2>1, <2>2
<1>2. CASE ~is_queue_full(q) /\ is_queue_empty(q) /\ receivers # <<>>
  <2> DEFINE p == Head(receivers)
             v == [s EXCEPT !.message = With(s.message, p, m)]
  <2>1. psend(s, fid, m) = wakeup_first_process(v, fid, PS_WAIT_QUEUE_EMPTY)
    BY <1>2 DEF psend, With
  <2>2. \E u : /\ Scheduled(s, u, wakeup_first_process(v, fid, PS_WAIT_QUEUE_EMPTY))
               /\ Handed(s, u, fid, p, m)
    BY <1>2, HandedKind
  <2> HIDE DEF v, p
  <2> QED BY <2>1, <2>2
<1>3. CASE ~is_queue_full(q) /\ ~(is_queue_empty(q) /\ receivers # <<>>)
  <2> DEFINE u == push_message(s, fid, m)
  <2>1. psend(s, fid, m) = u
    BY <1>3 DEF psend
  <2>2. Stable(u)
    BY <1>0, PushMessage
  <2>3. Put(s, u, fid, Pushed(q, m))
    BY <1>0, PushMessagePut
  <2> HIDE DEF u
  <2>4. Sent(s, u, fid, m)
    BY <1>0, <1>3, <2>3 DEF Sent
  <2>5. Unmoved(s, u)
    BY <2>3 DEF Put, Unmoved, SameTable, SameBlocks, SameLists, SameCore
  <2> QED BY <2>1, <2>2, <2>4, <2>5 DEF Scheduled, Stable
<1> QED BY <1>1, <1>2, <1>3

(* preceive. *)
LEMMA PreceiveKind ==
  ASSUME NEW s, Stable(s), s.active_process # IDLE, NEW fid \in Fids,
         s.queues[fid].capacity # 0
  PROVE  \E u : /\ Scheduled(s, u, preceive(s, fid))
                /\ \/ Blocks(s, u, fid, PS_WAIT_QUEUE_EMPTY, "preceive", Uninit)
                   \/ \E p : Refilled(s, u, fid, p)
                   \/ Received(s, u, fid)
<1> DEFINE st == PS_WAIT_QUEUE_FULL
           q == s.queues[fid]
           popped == pop_message(s, fid)
           senders == s.waiting[<<fid, st>>]
<1>0. Sound(s) /\ s \in KernelStates /\ ~is_queue_free(q) /\ st \in WaitStates
  BY TwoWaitStates DEF Stable, Sound, is_queue_free
<1>1. CASE is_queue_empty(q)
  <2>1. preceive(s, fid)
          = tick_scheduler(BlockOnQueue(s, fid, PS_WAIT_QUEUE_EMPTY, "preceive", Uninit))
    BY <1>1 DEF preceive
  <2>2. \E u : /\ Scheduled(s, u, tick_scheduler(
                       BlockOnQueue(s, fid, PS_WAIT_QUEUE_EMPTY, "preceive", Uninit)))
               /\ Blocks(s, u, fid, PS_WAIT_QUEUE_EMPTY, "preceive", Uninit)
    BY <1>0, <1>1, BlocksKind
  <2> QED BY <2>1, <2>2
<1>2. CASE ~is_queue_empty(q)
  <2>1. s.queues[fid].size # 0
    BY <1>2 DEF is_queue_empty
  <2>2. /\ Sound(popped) /\ Stable(popped) /\ popped.waiting = s.waiting
        /\ popped.queues[fid].capacity = s.queues[fid].capacity
    BY <1>0, <2>1, PopMessage
  <2>3. Put(s, popped, fid, Popped(q))
    BY <1>0, PopMessagePut
  <2>4. preceive(s, fid) = IF popped.queues[fid].size = q.capacity - 1 /\ senders # <<>>
                           THEN wakeup_first_process(
                                  push_message(popped, fid, s.message[Head(senders)]),
                                  fid, st)
                           ELSE popped
    BY <1>2 DEF preceive
  <2> HIDE DEF popped
  <2>5. popped.queues[fid].size = q.capacity - 1 <=> is_queue_full(q)
    <3>1. q \in QueueStructs /\ s.queues \in [Fids -> QueueStructs]
      BY <1>0 DEF KernelStates
    <3>2. popped.queues[fid] = Popped(q)
      BY <2>3, <3>1 DEF Put, With
    <3> HIDE DEF q
    <3>3. Popped(q).size = q.size - 1 /\ q.size \in Int /\ q.capacity \in Int
      BY <3>1, SizesAssumption DEF Popped, QueueStructs
    <3> QED BY <3>2, <3>3 DEF is_queue_full
  <2>6. CASE ~(is_queue_full(q) /\ senders # <<>>)
    <3>1. preceive(s, fid) = popped
      BY <2>4, <2>5, <2>6
    <3>2. Received(s, popped, fid)
      BY <1>0, <1>2, <2>3, <2>6 DEF Received, is_queue_full
    <3>3. Unmoved(s, popped)
      BY <2>3 DEF Put, Unmoved, SameTable, SameBlocks, SameLists, SameCore
    <3> QED BY <2>2, <3>1, <3>2, <3>3 DEF Scheduled
  <2>7. CASE is_queue_full(q) /\ senders # <<>>
    <3> DEFINE p == Head(senders)
               m == s.message[p]
               v == push_message(popped, fid, m)
               u == push_runnable(PutWaiting(v, fid, st, Tail(v.waiting[<<fid, st>>])),
                                  Head(v.waiting[<<fid, st>>]))
    <3>1. preceive(s, fid) = wakeup_first_process(v, fid, st)
      BY <2>4, <2>5, <2>7
    <3>2. m \in Messages \cup {Uninit}
      <4>1. s.message \in [Pids -> Messages \cup {Uninit}]
        BY <1>0 DEF KernelStates
      <4>2. senders \in Seq(Pids) /\ senders # <<>>
        BY <1>0, <2>7, WaitingSeq
      <4> HIDE DEF senders
      <4> QED BY <4>1, <4>2
    <3>3. popped.queues[fid].capacity # 0 /\ popped \in KernelStates
      BY <2>2 DEF Sound
    <3> HIDE DEF m
    <3>4. Sound(v) /\ v.waiting = s.waiting
      BY <2>2, <3>2, <3>3, PushMessage
    <3>5. Put(popped, v, fid, Pushed(popped.queues[fid], m))
      BY <3>3, PushMessagePut
    <3> HIDE DEF v
    <3>6. Put(s, v, fid, Pushed(Popped(q), m))
      <4>1. popped.queues[fid] = Popped(q)
        BY <1>0, <2>3, <3>5, PutTwice
      <4> QED BY <1>0, <2>3, <3>5, <4>1, PutTwice
    <3>7. v.waiting[<<fid, st>>] # <<>>
      BY <2>7, <3>4
    <3>8. wakeup_first_process(v, fid, st) = fix_scheduler(u) /\ Sound(u)
      BY <1>0, <3>4, <3>7, WakeupFirstSound
    <3>9. /\ Notified(v, u, fid, st, Head(v.waiting[<<fid, st>>]), Tail(v.waiting[<<fid, st>>]))
          /\ u.local = v.local
      BY <1>0, <3>4, <3>7, WakeupFirstFields
    <3> HIDE DEF u
    <3>10. /\ Notified(v, u, fid, st, p, Tail(senders)) /\ u.local = s.local
      BY <3>4, <3>6, <3>9 DEF Put, SameTable, SameBlocks
    <3>11. Refilled(s, u, fid, p)
      <4>1. senders # <<>> /\ p = Head(senders) /\ is_queue_full(q)
        BY <2>7
      <4> HIDE DEF senders, p
      <4> QED BY <1>0, <1>2, <3>6, <3>10, <4>1 DEF Refilled, m, senders
    <3> QED BY <3>1, <3>8, <3>11 DEF Scheduled
  <2> QED BY <2>6, <2>7
<1> QED BY <1>1, <1>2

-----------------------------------------------------------------------------
(* Steps. *)

(* The change a process call makes before the scheduler runs. *)
ProcessChange(s, u) ==
  \/ \E p \in Pids, n \in Int : Reprioritised(s, u, p, n) /\ s.prio[p] # n
  \/ \E p \in Pids, n \in Int, allocated \in BOOLEAN :
       Started(s, u, p, n, allocated) /\ (allocated \/ StackAllocMayFail)
  \/ \E pid \in Pids : Stopped(s, u, pid)
  \/ \E clock \in Int : Slept(s, u, clock)
  \/ \E pid \in WaitPids : CanWait(s, s.active_process, pid) /\ AwaitsChild(s, u, pid)
  \/ \E c \in Pids : Reaped(s, u, c)

(* The change a queue call makes. *)
QueueChange(s, u) ==
  \/ \E fid \in Fids, count \in 1 .. MAXCOUNT, allocated \in BOOLEAN :
       Created(s, u, fid, count, allocated) /\ (allocated \/ MemAllocMayFail)
  \/ \E fid \in Fids :
       \/ Flushed(s, u, fid, ResetQueue(s.queues[fid]))
       \/ Flushed(s, u, fid, DeletedQueue(s.queues[fid]))
       \/ \E st \in WaitStates, c \in Calls, m \in Messages \cup {Uninit} :
            Blocks(s, u, fid, st, c, m)
       \/ \E m \in Messages : Sent(s, u, fid, m) \/ \E p \in Pids : Handed(s, u, fid, p, m)
       \/ Received(s, u, fid)
       \/ \E p \in Pids : Refilled(s, u, fid, p)

(* The change any step makes. *)
Change(s, u) ==
  \/ ProcessChange(s, u) \/ QueueChange(s, u)
  \/ Left(s, u, s.active_process) \/ Ticked(s, u)

(* A call that ends in a stable state gives that state to the variables. *)
LEMMA StepState ==
  ASSUME NEW t, Becomes(t), NEW s, NEW u, Scheduled(s, u, t)
  PROVE  K' = t /\ Stable(t)
<1>1. Stable(t)
  BY TickStable, FixStable DEF Scheduled
<1> QED BY <1>1, BecomesState DEF Stable, Sound

(* Process calls. *)
LEMMA ProcessKinds ==
  ASSUME KernelInv, ProcessCall
  PROVE  \E u : Scheduled(K, u, K') /\ ProcessChange(K, u)
<1>0. UserMode
  BY DEF ProcessCall, Chprio, Start, Exit, Kill, WaitClock, Waitpid
<1>1. /\ Stable(K) /\ Sound(K) /\ K.active_process # IDLE
      /\ K.call[K.active_process] = "user" /\ K.active_process \in Pids
  BY <1>0, UserModeState
<1>2. ASSUME NEW pid \in Pids, NEW newprio \in NewPrios, Chprio(pid, newprio)
      PROVE  \E u : Scheduled(K, u, K') /\ ProcessChange(K, u)
  <2>1. Becomes(chprio(K, pid, newprio)) /\ newprio \in Int /\ K.prio[pid] # newprio
    BY <1>2, InputsAssumption DEF Chprio, K
  <2>2. PICK u : /\ Scheduled(K, u, chprio(K, pid, newprio))
                 /\ Reprioritised(K, u, pid, newprio)
    BY <1>1, <2>1, ChprioKind
  <2>3. Scheduled(K, u, K')
    BY <2>1, <2>2, StepState
  <2> QED BY <2>1, <2>2, <2>3 DEF ProcessChange
<1>3. ASSUME NEW newprio \in Prios, NEW allocated \in BOOLEAN, Start(newprio, allocated)
      PROVE  \E u : Scheduled(K, u, K') /\ ProcessChange(K, u)
  <2>1. /\ Becomes(start_user(K, newprio, allocated)) /\ newprio \in Int /\ K.dead # <<>>
        /\ allocated \/ StackAllocMayFail
    BY <1>3, InputsAssumption DEF Start, K
  <2>2. PICK u, p : /\ Scheduled(K, u, start_user(K, newprio, allocated))
                    /\ Started(K, u, p, newprio, allocated)
    BY <1>1, <2>1, StartKind
  <2>3. Scheduled(K, u, K')
    BY <2>1, <2>2, StepState
  <2>4. p \in Pids
    BY <2>2 DEF Started
  <2> QED BY <2>1, <2>2, <2>3, <2>4 DEF ProcessChange
<1>4. ASSUME NEW retval \in RetVals, Exit(retval)
      PROVE  \E u : Scheduled(K, u, K') /\ ProcessChange(K, u)
  <2> DEFINE p == K.active_process
  <2>1. Becomes(stop(K, p, retval)) /\ retval \in Int
    BY <1>4, InputsAssumption DEF Exit, K
  <2>2. p \in Pids /\ p # IDLE /\ K.state[p] \notin {PS_DEAD, PS_ZOMBIE}
    BY <1>1, DistinctStates DEF Stable
  <2> HIDE DEF p
  <2>3. PICK u : Scheduled(K, u, stop(K, p, retval)) /\ Stopped(K, u, p)
    BY <1>1, <2>1, <2>2, StopKind
  <2>4. Scheduled(K, u, K')
    BY <2>1, <2>3, StepState
  <2> QED BY <2>2, <2>3, <2>4 DEF ProcessChange
<1>5. ASSUME NEW pid \in Pids, Kill(pid)
      PROVE  \E u : Scheduled(K, u, K') /\ ProcessChange(K, u)
  <2>1. Becomes(stop(K, pid, 0)) /\ 0 \in Int
    BY <1>5 DEF Kill
  <2>2. pid # IDLE /\ ALIVE_PID(K, pid)
    BY <1>5 DEF Kill, IDLE
  <2>3. K.state[pid] \notin {PS_DEAD, PS_ZOMBIE}
    BY <1>1, <2>2, AliveState DEF Sound
  <2>4. PICK u : Scheduled(K, u, stop(K, pid, 0)) /\ Stopped(K, u, pid)
    BY <1>1, <2>1, <2>2, <2>3, StopKind
  <2>5. Scheduled(K, u, K')
    BY <2>1, <2>4, StepState
  <2> QED BY <2>4, <2>5 DEF ProcessChange
<1>6. ASSUME NEW clock \in SleepClocks, WaitClock(clock)
      PROVE  \E u : Scheduled(K, u, K') /\ ProcessChange(K, u)
  <2>1. Becomes(wait_clock(K, clock)) /\ clock \in Int
    BY <1>6, InputsAssumption, SizesAssumption DEF WaitClock
  <2>2. PICK u : Scheduled(K, u, wait_clock(K, clock)) /\ Slept(K, u, clock)
    BY <1>1, <2>1, WaitClockKind
  <2>3. Scheduled(K, u, K')
    BY <2>1, <2>2, StepState
  <2> QED BY <2>1, <2>2, <2>3 DEF ProcessChange
<1>7. ASSUME NEW pid \in WaitPids, Waitpid(pid)
      PROVE  \E u : Scheduled(K, u, K') /\ ProcessChange(K, u)
  <2>1. /\ Becomes(waitpid(K, pid)) /\ pid \in Int
        /\ CanWait(K, K.active_process, pid)
    BY <1>7, InputsAssumption DEF Waitpid, K
  <2>2. PICK u : /\ Scheduled(K, u, waitpid(K, pid))
                 /\ AwaitsChild(K, u, pid) \/ \E c : Reaped(K, u, c)
    BY <1>1, <2>1, WaitpidKind
  <2>3. Scheduled(K, u, K')
    BY <2>1, <2>2, StepState
  <2>4. \A c : Reaped(K, u, c) => c \in Pids
    BY DEF Reaped
  <2>5. ProcessChange(K, u)
    BY <2>1, <2>2, <2>4 DEF ProcessChange
  <2> QED BY <2>3, <2>5
<1> QED BY <1>2, <1>3, <1>4, <1>5, <1>6, <1>7 DEF ProcessCall

(* Queue calls. *)
LEMMA QueueKinds ==
  ASSUME KernelInv, QueueCall
  PROVE  \E u : Scheduled(K, u, K') /\ QueueChange(K, u)
<1>0. UserMode
  BY DEF QueueCall, Pcreate, Pdelete, Preset, Psend, Preceive
<1>1. Stable(K) /\ K.active_process # IDLE
  BY <1>0, UserModeState
<1>2. ASSUME NEW count \in Counts, NEW allocated \in BOOLEAN, Pcreate(count, allocated)
      PROVE  \E u : Scheduled(K, u, K') /\ QueueChange(K, u)
  <2>1. /\ Becomes(pcreate(K, count, allocated)) /\ FreeFids(K) # {}
        /\ allocated \/ MemAllocMayFail
    BY <1>2 DEF Pcreate
  <2>2. count \in 1 .. MAXCOUNT
    BY <1>2, InputsAssumption, SizesAssumption DEF Pcreate
  <2>3. PICK u, fid : /\ Scheduled(K, u, pcreate(K, count, allocated))
                      /\ Created(K, u, fid, count, allocated)
    BY <1>1, <2>1, <2>2, PcreateKind
  <2>4. Scheduled(K, u, K')
    BY <2>1, <2>3, StepState
  <2>5. fid \in Fids
    BY <2>3 DEF Created
  <2>6. QueueChange(K, u)
    BY <2>1, <2>2, <2>3, <2>5 DEF QueueChange
  <2> QED BY <2>4, <2>6
<1>3. ASSUME NEW fid \in UserFids, Pdelete(fid)
      PROVE  \E u : Scheduled(K, u, K') /\ QueueChange(K, u)
  <2>1. Becomes(pdelete(K, fid)) /\ fid \in Fids /\ K.queues[fid].capacity # 0
    BY <1>3 DEF Pdelete, VALID_FID, is_queue_free
  <2>2. PICK u : /\ Scheduled(K, u, pdelete(K, fid))
                 /\ Flushed(K, u, fid, DeletedQueue(K.queues[fid]))
    BY <1>1, <2>1, PdeleteKind
  <2>3. Scheduled(K, u, K')
    BY <2>1, <2>2, StepState
  <2>4. QueueChange(K, u)
    BY <2>1, <2>2 DEF QueueChange
  <2> QED BY <2>3, <2>4
<1>4. ASSUME NEW fid \in UserFids, Preset(fid)
      PROVE  \E u : Scheduled(K, u, K') /\ QueueChange(K, u)
  <2>1. Becomes(preset(K, fid)) /\ fid \in Fids /\ K.queues[fid].capacity # 0
    BY <1>4 DEF Preset, VALID_FID, is_queue_free
  <2>2. PICK u : /\ Scheduled(K, u, preset(K, fid))
                 /\ Flushed(K, u, fid, ResetQueue(K.queues[fid]))
    BY <1>1, <2>1, PresetKind
  <2>3. Scheduled(K, u, K')
    BY <2>1, <2>2, StepState
  <2>4. QueueChange(K, u)
    BY <2>1, <2>2 DEF QueueChange
  <2> QED BY <2>3, <2>4
<1>5. ASSUME NEW fid \in UserFids, NEW m \in Messages, Psend(fid, m)
      PROVE  \E u : Scheduled(K, u, K') /\ QueueChange(K, u)
  <2>1. Becomes(psend(K, fid, m)) /\ fid \in Fids /\ K.queues[fid].capacity # 0
    BY <1>5 DEF Psend, VALID_FID, is_queue_free
  <2>2. PICK u : /\ Scheduled(K, u, psend(K, fid, m))
                 /\ \/ Blocks(K, u, fid, PS_WAIT_QUEUE_FULL, "psend", m)
                    \/ \E p : Handed(K, u, fid, p, m)
                    \/ Sent(K, u, fid, m)
    BY <1>1, <2>1, PsendKind
  <2>3. Scheduled(K, u, K')
    BY <2>1, <2>2, StepState
  <2>4. \A p : Handed(K, u, fid, p, m) => p \in Pids
    BY DEF Handed, Notified
  <2>5. PS_WAIT_QUEUE_FULL \in WaitStates /\ "psend" \in Calls
        /\ m \in Messages \cup {Uninit}
    BY TwoWaitStates DEF Calls
  <2>6. QueueChange(K, u)
    BY <2>1, <2>2, <2>4, <2>5 DEF QueueChange
  <2> QED BY <2>3, <2>6
<1>6. ASSUME NEW fid \in UserFids, Preceive(fid)
      PROVE  \E u : Scheduled(K, u, K') /\ QueueChange(K, u)
  <2>1. Becomes(preceive(K, fid)) /\ fid \in Fids /\ K.queues[fid].capacity # 0
    BY <1>6 DEF Preceive, VALID_FID, is_queue_free
  <2>2. PICK u : /\ Scheduled(K, u, preceive(K, fid))
                 /\ \/ Blocks(K, u, fid, PS_WAIT_QUEUE_EMPTY, "preceive", Uninit)
                    \/ \E p : Refilled(K, u, fid, p)
                    \/ Received(K, u, fid)
    BY <1>1, <2>1, PreceiveKind
  <2>3. Scheduled(K, u, K')
    BY <2>1, <2>2, StepState
  <2>4. \A p : Refilled(K, u, fid, p) => p \in Pids
    BY DEF Refilled, Notified
  <2>5. PS_WAIT_QUEUE_EMPTY \in WaitStates /\ "preceive" \in Calls
        /\ Uninit \in Messages \cup {Uninit}
    BY TwoWaitStates DEF Calls
  <2>6. QueueChange(K, u)
    BY <2>1, <2>2, <2>4, <2>5 DEF QueueChange
  <2> QED BY <2>3, <2>6
<1> QED BY <1>2, <1>3, <1>4, <1>5, <1>6 DEF QueueCall

(* Every step is one of the changes above, then the scheduler. *)
LEMMA StepKinds ==
  ASSUME KernelInv, Next
  PROVE  /\ Stable(K)
         /\ \E u : Scheduled(K, u, K') /\ Change(K, u)
<1>1. Stable(K)
  BY DEF KernelInv
<1>2. CASE ProcessCall
  BY <1>1, <1>2, ProcessKinds DEF Change
<1>3. CASE QueueCall
  BY <1>1, <1>3, QueueKinds DEF Change
<1>4. CASE WaitpidResume
  <2>1. Becomes(waitpid_resume(K)) /\ K.call[K.active_process] = "waitpid"
    BY <1>4 DEF WaitpidResume, K
  <2>2. PICK u, c : Scheduled(K, u, waitpid_resume(K)) /\ Reaped(K, u, c)
    BY <1>1, <2>1, WaitpidResumeKind
  <2>3. Scheduled(K, u, K')
    BY <2>1, <2>2, StepState
  <2>4. c \in Pids
    BY <2>2 DEF Reaped
  <2>5. Change(K, u)
    BY <2>2, <2>4 DEF Change, ProcessChange
  <2> QED BY <1>1, <2>3, <2>5
<1>5. CASE QueueCallResume
  <2>1. Becomes(Forget(K, K.active_process))
    BY <1>5 DEF QueueCallResume, K
  <2>2. PICK u : /\ Scheduled(K, u, Forget(K, K.active_process))
                 /\ Left(K, u, K.active_process)
    BY <1>1, QueueCallResumeKind
  <2>3. Scheduled(K, u, K')
    BY <2>1, <2>2, StepState
  <2> QED BY <1>1, <2>2, <2>3 DEF Change
<1>6. CASE TicPIT
  <2>1. Becomes(tic_PIT(K))
    BY <1>6 DEF TicPIT
  <2>2. PICK u : Scheduled(K, u, tic_PIT(K)) /\ Ticked(K, u)
    BY <1>1, TicKind
  <2>3. Scheduled(K, u, K')
    BY <2>1, <2>2, StepState
  <2> QED BY <1>1, <2>2, <2>3 DEF Change
<1> QED BY <1>2, <1>3, <1>4, <1>5, <1>6 DEF Next

(* What the scheduler leaves alone at the end of a step. *)
LEMMA ScheduledQuiet ==
  ASSUME NEW s, NEW u, NEW t, Scheduled(s, u, t)
  PROVE  Stable(t) /\ Quiet(u, t)
<1>1. Stable(t)
  BY TickStable, FixStable DEF Scheduled
<1> QED BY <1>1, TickQuiet, FixQuiet, QuietSelf DEF Scheduled

-----------------------------------------------------------------------------
(***************************************************************************)
(* Parents, children and pids: theorems about start, stop and waitpid.     *)
(*                                                                         *)
(* Three facts are inductive together with KernelInv: the parent of a      *)
(* process that is not dead is alive, a process suspended in waitpid has a *)
(* child that will wake it (Awaiting), and a dead pid is on the stack      *)
(* start pops.  Most changes of the first part touch none of them          *)
(* (SameFamily); start, stop and waitpid are taken one by one.             *)
(***************************************************************************)

(* Programs pass waitpid a pid or -1, as its documentation asks. *)
DocumentedWaits == \A pid \in WaitPids : pid >= NOPID

(* What p waits for can still end, and nothing it waits for has ended. *)
WaitsFor(s, p) ==
  \/ /\ s.local[p] \in Pids /\ s.parent[s.local[p]] = p
     /\ s.state[s.local[p]] \notin {PS_DEAD, PS_ZOMBIE}
  \/ /\ s.local[p] = NOPID
     /\ \E c \in Pids : s.parent[c] = p /\ s.state[c] # PS_DEAD
     /\ \A c \in Pids : s.parent[c] = p => s.state[c] # PS_ZOMBIE
Awaiting(s) == \A p \in Pids : s.state[p] = PS_WAIT_CHILD => WaitsFor(s, p)

Family(s) ==
  /\ LiveParents(s)
  /\ DocumentedWaits => Awaiting(s)
  /\ ~StackAllocMayFail => PidsKept(s)

(* Nobody is born, ends or starts to wait for a child. *)
SameFamily(s, t) ==
  /\ t.parent = s.parent /\ t.dead = s.dead
  /\ \A q \in Pids :
       /\ t.state[q] = PS_DEAD <=> s.state[q] = PS_DEAD
       /\ t.state[q] = PS_ZOMBIE <=> s.state[q] = PS_ZOMBIE
       /\ s.state[q] = PS_ZOMBIE => t.attr[q] = s.attr[q]
       /\ t.state[q] = PS_WAIT_CHILD
            => s.state[q] = PS_WAIT_CHILD /\ t.local[q] = s.local[q]

(* A zombie stays one until its parent reaps it or ends. *)
Kept(s, t, c) ==
  \/ t.state[c] = PS_ZOMBIE /\ t.attr[c] = s.attr[c] /\ t.parent[c] = s.parent[c]
  \/ /\ t.state[c] = PS_DEAD
     /\ \/ s.parent[c] = s.active_process
        \/ s.parent[c] \in Pids /\ t.state[s.parent[c]] < PS_RUNNABLE
AllKept(s, t) == \A c \in Pids : s.state[c] = PS_ZOMBIE => Kept(s, t, c)

(* The states of a process as the code compares them. *)
LEMMA StateOrder ==
  ASSUME NEW s \in KernelStates, NEW p \in Pids
  PROVE  /\ s.state[p] \in States
         /\ s.state[p] > PS_DEAD <=> s.state[p] # PS_DEAD
         /\ s.state[p] >= PS_RUNNABLE <=> s.state[p] \notin {PS_DEAD, PS_ZOMBIE}
         /\ s.state[p] < PS_RUNNABLE <=> s.state[p] \in {PS_DEAD, PS_ZOMBIE}
<1>1. s.state[p] \in States
  BY DEF KernelStates
<1> QED BY <1>1 DEF States, PS_DEAD, PS_ZOMBIE, PS_RUNNABLE, PS_WAIT_QUEUE_FULL

(* LiveParents without arithmetic. *)
LEMMA LiveParentsStates ==
  ASSUME NEW s \in KernelStates
  PROVE  LiveParents(s) <=>
           \A p \in Pids : s.state[p] # PS_DEAD /\ s.parent[p] # NOPID
                             => s.state[s.parent[p]] \notin {PS_DEAD, PS_ZOMBIE}
<1>1. \A p \in Pids : s.parent[p] \in Pids \cup {NOPID}
  BY DEF KernelStates
<1> QED BY <1>1, StateOrder DEF LiveParents

(* Changes that leave families alone keep the invariant. *)
LEMMA SameFamilyKeeps ==
  ASSUME NEW s \in KernelStates, NEW t \in KernelStates, SameFamily(s, t), Family(s)
  PROVE  Family(t)
<1>1. \A p \in Pids : t.parent[p] = s.parent[p] /\ s.parent[p] \in Pids \cup {NOPID}
  BY DEF KernelStates, SameFamily
<1>2. LiveParents(t)
  <2> SUFFICES ASSUME NEW p \in Pids, t.state[p] # PS_DEAD, t.parent[p] # NOPID
               PROVE  t.state[t.parent[p]] \notin {PS_DEAD, PS_ZOMBIE}
    BY LiveParentsStates
  <2>1. s.state[s.parent[p]] \notin {PS_DEAD, PS_ZOMBIE} /\ s.parent[p] \in Pids
    BY <1>1, LiveParentsStates DEF SameFamily, Family
  <2> QED BY <1>1, <2>1 DEF SameFamily
<1>3. ASSUME Awaiting(s)
      PROVE  Awaiting(t)
  <2> SUFFICES ASSUME NEW p \in Pids, t.state[p] = PS_WAIT_CHILD
               PROVE  WaitsFor(t, p)
    BY DEF Awaiting
  <2>1. WaitsFor(s, p) /\ t.local[p] = s.local[p]
    BY <1>3 DEF Awaiting, SameFamily
  <2> QED BY <1>1, <2>1 DEF WaitsFor, SameFamily
<1>4. PidsKept(s) => PidsKept(t)
  BY DEF PidsKept, SameFamily
<1> QED BY <1>2, <1>3, <1>4 DEF Family

(* They keep zombies too. *)
LEMMA SameFamilyZombies ==
  ASSUME NEW s, NEW t, SameFamily(s, t)
  PROVE  AllKept(s, t)
BY DEF SameFamily, AllKept, Kept

(* The scheduler leaves families alone. *)
LEMMA QuietFamily ==
  ASSUME NEW s \in KernelStates, NEW t \in KernelStates, Quiet(s, t)
  PROVE  SameFamily(s, t)
<1>1. \A st \in Live : st \notin {PS_DEAD, PS_ZOMBIE, PS_WAIT_CHILD}
  BY BusyStates
<1> QED BY <1>1 DEF Quiet, Rests, SameFamily

(* What a change keeps the scheduler keeps. *)
LEMMA QuietKept ==
  ASSUME NEW s \in KernelStates, NEW u \in KernelStates, NEW t \in KernelStates,
         Quiet(u, t), AllKept(s, u)
  PROVE  AllKept(s, t)
<1> SUFFICES ASSUME NEW c \in Pids, s.state[c] = PS_ZOMBIE
             PROVE  Kept(s, t, c)
  BY DEF AllKept
<1>1. SameFamily(u, t)
  BY QuietFamily
<1>2. Kept(s, u, c)
  BY DEF AllKept
<1>3. CASE u.state[c] = PS_ZOMBIE /\ u.attr[c] = s.attr[c] /\ u.parent[c] = s.parent[c]
  BY <1>1, <1>3 DEF SameFamily, Kept
<1>4. CASE u.state[c] = PS_DEAD /\ s.parent[c] = s.active_process
  BY <1>1, <1>4 DEF SameFamily, Kept
<1>5. CASE u.state[c] = PS_DEAD /\ u.state[s.parent[c]] < PS_RUNNABLE /\ s.parent[c] \in Pids
  <2>1. u.state[s.parent[c]] \in {PS_DEAD, PS_ZOMBIE}
    BY <1>5, StateOrder
  <2>2. t.state[s.parent[c]] \in {PS_DEAD, PS_ZOMBIE} /\ t.state[c] = PS_DEAD
    BY <1>1, <1>5, <2>1 DEF SameFamily
  <2>3. t.state[s.parent[c]] < PS_RUNNABLE
    BY <1>5, <2>2, StateOrder
  <2> QED BY <1>5, <2>2, <2>3 DEF Kept
<1> QED BY <1>2, <1>3, <1>4, <1>5 DEF Kept

-----------------------------------------------------------------------------
(* Changes that leave families alone. *)

(* The running process is neither dead, nor a zombie, nor waiting. *)
LEMMA ActiveRuns ==
  ASSUME NEW s, Stable(s)
  PROVE  /\ s \in KernelStates /\ s.active_process \in Pids
         /\ s.state[s.active_process] = PS_RUNNING
         /\ s.state \in [Pids -> States] /\ s.attr \in [Pids -> Int]
         /\ s.local \in [Pids -> Int] /\ s.parent \in [Pids -> Pids \cup {NOPID}]
         /\ \A st \in {PS_RUNNING, PS_RUNNABLE, PS_ASLEEP} \cup WaitStates :
              st \notin {PS_DEAD, PS_ZOMBIE, PS_WAIT_CHILD}
<1>1. s \in KernelStates /\ s.state[s.active_process] = PS_RUNNING
  BY DEF Stable, Sound
<1>2. \A st \in {PS_RUNNING, PS_RUNNABLE, PS_ASLEEP} \cup WaitStates :
        st \notin {PS_DEAD, PS_ZOMBIE, PS_WAIT_CHILD}
  BY DistinctStates
<1> QED BY <1>1, <1>2 DEF KernelStates

(* The process calls that leave families alone. *)
LEMMA ProcessFamily ==
  ASSUME NEW s, Stable(s), NEW u,
         \/ \E p \in Pids, n \in Int : Reprioritised(s, u, p, n)
         \/ \E clock \in Int : Slept(s, u, clock)
         \/ Left(s, u, s.active_process) \/ Ticked(s, u)
  PROVE  SameFamily(s, u)
<1> DEFINE p == s.active_process
<1>1. /\ s \in KernelStates /\ p \in Pids /\ s.state[p] = PS_RUNNING
      /\ s.state \in [Pids -> States] /\ s.attr \in [Pids -> Int]
      /\ s.local \in [Pids -> Int]
      /\ \A st \in {PS_RUNNING, PS_RUNNABLE, PS_ASLEEP} \cup WaitStates :
           st \notin {PS_DEAD, PS_ZOMBIE, PS_WAIT_CHILD}
  BY ActiveRuns
<1>2. ASSUME NEW q \in Pids, NEW n \in Int, Reprioritised(s, u, q, n)
      PROVE  SameFamily(s, u)
  <2>1. /\ u.state = s.state /\ u.parent = s.parent /\ u.local = s.local /\ u.dead = s.dead
        /\ u.attr = IF s.state[q] = PS_RUNNABLE THEN With(s.attr, q, 0) ELSE s.attr
    BY <1>2 DEF Reprioritised
  <2>2. \A r \in Pids : s.state[r] = PS_ZOMBIE => u.attr[r] = s.attr[r]
    BY <1>1, <2>1 DEF With
  <2> QED BY <2>1, <2>2 DEF SameFamily
<1>3. ASSUME NEW clock \in Int, Slept(s, u, clock)
      PROVE  SameFamily(s, u)
  <2>1. /\ u.state = With(s.state, p, PS_ASLEEP) /\ u.attr = With(s.attr, p, clock)
        /\ u.parent = s.parent /\ u.local = s.local /\ u.dead = s.dead
    BY <1>3 DEF Slept, SameBlocks
  <2>2. \A r \in Pids : /\ u.state[r] = IF r = p THEN PS_ASLEEP ELSE s.state[r]
                        /\ r # p => u.attr[r] = s.attr[r]
    BY <1>1, <2>1 DEF With
  <2> QED BY <1>1, <2>1, <2>2 DEF SameFamily
<1>4. CASE Left(s, u, p)
  <2>1. /\ u.state = s.state /\ u.attr = s.attr /\ u.parent = s.parent /\ u.dead = s.dead
        /\ u.local = With(s.local, p, 0)
    BY <1>4 DEF Left, SameLists
  <2>2. \A r \in Pids : r # p => u.local[r] = s.local[r]
    BY <1>1, <2>1 DEF With
  <2> QED BY <1>1, <2>1, <2>2 DEF SameFamily
<1>5. CASE Ticked(s, u)
  BY <1>5 DEF Ticked, SameTable, SameBlocks, SameLists, SameFamily
<1> QED BY <1>2, <1>3, <1>4, <1>5

(* A process woken from a queue. *)
LEMMA NotifiedFamily ==
  ASSUME NEW s, NEW u, NEW v, NEW fid, NEW st \in WaitStates, NEW p, NEW z,
         Stable(s), v.state = s.state, v.attr = s.attr, v.parent = s.parent,
         v.dead = s.dead, Notified(v, u, fid, st, p, z), u.local = s.local
  PROVE  SameFamily(s, u)
<1>1. /\ s.state \in [Pids -> States] /\ s.attr \in [Pids -> Int]
      /\ \A x \in {PS_RUNNING, PS_RUNNABLE, PS_ASLEEP} \cup WaitStates :
           x \notin {PS_DEAD, PS_ZOMBIE, PS_WAIT_CHILD}
  BY ActiveRuns
<1>2. /\ p \in Pids /\ s.state[p] = st
      /\ u.state = With(s.state, p, PS_RUNNABLE) /\ u.attr = With(s.attr, p, 0)
      /\ u.parent = s.parent /\ u.dead = s.dead
  BY DEF Notified
<1>3. \A r \in Pids : /\ u.state[r] = IF r = p THEN PS_RUNNABLE ELSE s.state[r]
                      /\ r # p => u.attr[r] = s.attr[r]
  BY <1>1, <1>2 DEF With
<1> QED BY <1>1, <1>2, <1>3 DEF SameFamily

(* The queue calls leave families alone. *)
LEMMA QueueFamily ==
  ASSUME NEW s, Stable(s), NEW u, QueueChange(s, u)
  PROVE  SameFamily(s, u)
<1> DEFINE p == s.active_process
<1>1. /\ s \in KernelStates /\ p \in Pids /\ s.state[p] = PS_RUNNING
      /\ s.state \in [Pids -> States] /\ s.attr \in [Pids -> Int]
      /\ s.local \in [Pids -> Int]
      /\ \A st \in {PS_RUNNING, PS_RUNNABLE, PS_ASLEEP} \cup WaitStates :
           st \notin {PS_DEAD, PS_ZOMBIE, PS_WAIT_CHILD}
  BY ActiveRuns
<1>2. ASSUME NEW fid, NEW q, Put(s, u, fid, q)
      PROVE  SameFamily(s, u)
  BY <1>2 DEF Put, SameTable, SameBlocks, SameLists, SameFamily
<1>3. ASSUME NEW fid, NEW q, Flushed(s, u, fid, q)
      PROVE  SameFamily(s, u)
  <2>1. /\ u.parent = s.parent /\ u.dead = s.dead
        /\ \A r \in Pids :
             \/ /\ u.state[r] = s.state[r] /\ u.attr[r] = s.attr[r]
                /\ u.local[r] = s.local[r]
             \/ s.state[r] \in WaitStates /\ u.state[r] = PS_RUNNABLE
    BY <1>3 DEF Flushed, Flushing, Fails
  <2> QED BY <1>1, <2>1 DEF SameFamily
<1>4. ASSUME NEW fid, NEW st, NEW c, NEW m, Blocks(s, u, fid, st, c, m)
      PROVE  SameFamily(s, u)
  <2>1. /\ u.state = With(s.state, p, st) /\ u.attr = With(s.attr, p, fid)
        /\ u.local = With(s.local, p, 0) /\ u.parent = s.parent /\ u.dead = s.dead
        /\ st \in WaitStates
    BY <1>4, TwoWaitStates DEF Blocks
  <2>2. \A r \in Pids : /\ u.state[r] = IF r = p THEN st ELSE s.state[r]
                        /\ r # p => u.attr[r] = s.attr[r] /\ u.local[r] = s.local[r]
    BY <1>1, <2>1 DEF With
  <2> QED BY <1>1, <2>1, <2>2 DEF SameFamily
<1>5. ASSUME NEW fid, NEW q, NEW m, Handed(s, u, fid, q, m)
      PROVE  SameFamily(s, u)
  <2> DEFINE st == PS_WAIT_QUEUE_EMPTY
             z == Tail(s.waiting[<<fid, st>>])
  <2>1. PICK v : /\ v.state = s.state /\ v.attr = s.attr /\ v.parent = s.parent
                 /\ v.dead = s.dead /\ Notified(v, u, fid, st, q, z) /\ u.local = s.local
    BY <1>5 DEF Handed, SameLists
  <2>2. st \in WaitStates
    BY TwoWaitStates
  <2> HIDE DEF st, z
  <2> QED BY <2>1, <2>2, NotifiedFamily
<1>6. ASSUME NEW fid, NEW q, Refilled(s, u, fid, q)
      PROVE  SameFamily(s, u)
  <2> DEFINE st == PS_WAIT_QUEUE_FULL
             z == Tail(s.waiting[<<fid, st>>])
  <2>1. PICK v : /\ v.state = s.state /\ v.attr = s.attr /\ v.parent = s.parent
                 /\ v.dead = s.dead /\ Notified(v, u, fid, st, q, z) /\ u.local = s.local
    BY <1>6 DEF Refilled, Put, SameTable, SameBlocks, SameLists
  <2>2. st \in WaitStates
    BY TwoWaitStates
  <2> HIDE DEF st, z
  <2> QED BY <2>1, <2>2, NotifiedFamily
<1>7. CASE \E fid \in Fids, count \in 1 .. MAXCOUNT, allocated \in BOOLEAN :
             Created(s, u, fid, count, allocated)
  BY <1>2, <1>7 DEF Created
<1>8. CASE \E fid \in Fids, m \in Messages : Sent(s, u, fid, m)
  BY <1>2, <1>8 DEF Sent
<1>9. CASE \E fid \in Fids : Received(s, u, fid)
  BY <1>2, <1>9 DEF Received
<1> QED BY <1>3, <1>4, <1>5, <1>6, <1>7, <1>8, <1>9 DEF QueueChange

-----------------------------------------------------------------------------
(* start. *)

(* A new process: its parent runs, and its pid leaves the stack. *)
LEMMA StartedFamily ==
  ASSUME NEW s, Stable(s), NEW u \in KernelStates, NEW p, NEW n, NEW allocated \in BOOLEAN,
         Started(s, u, p, n, allocated), allocated \/ StackAllocMayFail, Family(s)
  PROVE  Family(u) /\ AllKept(s, u)
<1> DEFINE me == s.active_process
<1>1. /\ s \in KernelStates /\ me \in Pids /\ s.state[me] = PS_RUNNING
      /\ s.state \in [Pids -> States] /\ s.attr \in [Pids -> Int]
      /\ s.parent \in [Pids -> Pids \cup {NOPID}]
      /\ \A st \in {PS_RUNNING, PS_RUNNABLE, PS_ASLEEP} \cup WaitStates :
           st \notin {PS_DEAD, PS_ZOMBIE, PS_WAIT_CHILD}
      /\ PS_DEAD # PS_ZOMBIE /\ PS_DEAD # PS_WAIT_CHILD
  BY ActiveRuns, DistinctStates
<1>2. /\ p \in Pids /\ s.dead # <<>> /\ p = Head(s.dead) /\ s.state[p] = PS_DEAD
      /\ u.dead = Tail(s.dead) /\ u.parent = With(s.parent, p, me) /\ u.local = s.local
      /\ u.state = IF allocated THEN With(s.state, p, PS_RUNNABLE) ELSE s.state
      /\ u.attr = IF allocated THEN With(s.attr, p, 0) ELSE s.attr
  BY DEF Started
<1> HIDE DEF me
<1>3. ASSUME NEW q \in Pids
      PROVE  /\ u.parent[q] = IF q = p THEN me ELSE s.parent[q]
             /\ u.state[q] = IF q = p /\ allocated THEN PS_RUNNABLE ELSE s.state[q]
             /\ q # p => u.attr[q] = s.attr[q]
  BY <1>1, <1>2 DEF With
<1>4. me # p
  BY <1>1, <1>2
<1>5. LiveParents(u)
  <2> SUFFICES ASSUME NEW q \in Pids, u.state[q] # PS_DEAD, u.parent[q] # NOPID
               PROVE  u.state[u.parent[q]] \notin {PS_DEAD, PS_ZOMBIE}
    BY LiveParentsStates
  <2>1. CASE q = p
    BY <1>1, <1>3, <1>4, <2>1
  <2>2. CASE q # p
    <3>1. /\ s.state[q] # PS_DEAD /\ s.parent[q] # NOPID /\ u.parent[q] = s.parent[q]
          /\ s.parent[q] \in Pids
      BY <1>1, <1>3, <2>2
    <3>2. s.state[s.parent[q]] \notin {PS_DEAD, PS_ZOMBIE}
      BY <1>1, <3>1, LiveParentsStates DEF Family
    <3> QED BY <1>1, <1>3, <3>1, <3>2
  <2> QED BY <2>1, <2>2
<1>6. ASSUME Awaiting(s)
      PROVE  Awaiting(u)
  <2> SUFFICES ASSUME NEW q \in Pids, u.state[q] = PS_WAIT_CHILD
               PROVE  WaitsFor(u, q)
    BY DEF Awaiting
  <2>1. s.state[q] = PS_WAIT_CHILD /\ u.local[q] = s.local[q] /\ q # me
    BY <1>1, <1>2, <1>3, DistinctStates
  <2>2. WaitsFor(s, q)
    BY <1>6, <2>1 DEF Awaiting
  <2>3. \A c \in Pids : u.parent[c] = q => c # p /\ s.parent[c] = q /\ u.state[c] = s.state[c]
    BY <1>3, <2>1
  <2>4. \A c \in Pids : s.parent[c] = q /\ s.state[c] # PS_DEAD
                          => u.parent[c] = q /\ u.state[c] = s.state[c]
    BY <1>2, <1>3
  <2> QED BY <2>1, <2>2, <2>3, <2>4 DEF WaitsFor
<1>7. ASSUME ~StackAllocMayFail, PidsKept(s)
      PROVE  PidsKept(u)
  <2> SUFFICES ASSUME NEW q \in Pids, u.state[q] = PS_DEAD
               PROVE  q \in Range(u.dead)
    BY DEF PidsKept
  <2>1. allocated
    BY <1>7
  <2>2. q # p /\ s.state[q] = PS_DEAD
    BY <1>1, <1>3, <2>1
  <2>3. q \in Range(s.dead) /\ s.dead \in Seq(Pids)
    BY <1>1, <1>7, <2>2 DEF PidsKept, KernelStates
  <2>4. PICK i \in 1 .. Len(s.dead) : s.dead[i] = q
    BY <2>3 DEF Range
  <2>5. i # 1
    BY <1>2, <2>2, <2>3, <2>4
  <2>6. i - 1 \in 1 .. Len(u.dead) /\ u.dead[i - 1] = q /\ u.dead \in Seq(Pids)
    BY <1>2, <2>3, <2>4, <2>5
  <2>7. i - 1 \in DOMAIN u.dead
    BY <2>6
  <2> QED BY <2>6, <2>7 DEF Range
<1>8. AllKept(s, u)
  BY <1>1, <1>2, <1>3 DEF AllKept, Kept
<1> QED BY <1>5, <1>6, <1>7, <1>8 DEF Family

-----------------------------------------------------------------------------
(* waitpid. *)

(* The active process waits for a child that has not ended. *)
LEMMA AwaitsFamily ==
  ASSUME NEW s, Stable(s), NEW u \in KernelStates, NEW pid \in WaitPids,
         CanWait(s, s.active_process, pid), AwaitsChild(s, u, pid), Family(s)
  PROVE  Family(u) /\ AllKept(s, u)
<1> DEFINE me == s.active_process
<1>1. /\ s \in KernelStates /\ me \in Pids /\ s.state[me] = PS_RUNNING
      /\ s.state \in [Pids -> States] /\ s.attr \in [Pids -> Int]
      /\ s.local \in [Pids -> Int] /\ s.parent \in [Pids -> Pids \cup {NOPID}]
      /\ PS_DEAD # PS_ZOMBIE /\ PS_WAIT_CHILD \notin {PS_DEAD, PS_ZOMBIE}
      /\ PS_RUNNING \notin {PS_DEAD, PS_ZOMBIE}
  BY ActiveRuns, DistinctStates
<1>2. /\ u.state = With(s.state, me, PS_WAIT_CHILD) /\ u.attr = With(s.attr, me, 0)
      /\ u.local = With(s.local, me, pid) /\ u.parent = s.parent /\ u.dead = s.dead
      /\ Reapable(s, me, pid) = {} /\ CanWait(s, me, pid)
  BY DEF AwaitsChild, SameLists
<1> HIDE DEF me
<1>3. ASSUME NEW q \in Pids
      PROVE  /\ u.state[q] = IF q = me THEN PS_WAIT_CHILD ELSE s.state[q]
             /\ u.local[q] = IF q = me THEN pid ELSE s.local[q]
             /\ q # me => u.attr[q] = s.attr[q]
             /\ u.parent[q] = s.parent[q] /\ s.parent[q] \in Pids \cup {NOPID}
             /\ u.state[q] = PS_DEAD <=> s.state[q] = PS_DEAD
             /\ u.state[q] = PS_ZOMBIE <=> s.state[q] = PS_ZOMBIE
  BY <1>1, <1>2 DEF With
<1>4. LiveParents(u)
  <2> SUFFICES ASSUME NEW q \in Pids, u.state[q] # PS_DEAD, u.parent[q] # NOPID
               PROVE  u.state[u.parent[q]] \notin {PS_DEAD, PS_ZOMBIE}
    BY LiveParentsStates
  <2>1. s.state[s.parent[q]] \notin {PS_DEAD, PS_ZOMBIE} /\ s.parent[q] \in Pids
    BY <1>1, <1>3, LiveParentsStates DEF Family
  <2> QED BY <1>3, <2>1
<1>5. ASSUME Awaiting(s), DocumentedWaits
      PROVE  Awaiting(u)
  <2> SUFFICES ASSUME NEW q \in Pids, u.state[q] = PS_WAIT_CHILD
               PROVE  WaitsFor(u, q)
    BY DEF Awaiting
  <2>1. CASE q # me
    <3>1. WaitsFor(s, q) /\ u.local[q] = s.local[q]
      BY <1>3, <1>5, <2>1 DEF Awaiting
    <3> QED BY <1>3, <3>1 DEF WaitsFor
  <2>2. CASE q = me /\ pid >= 0
    <3>1. pid \in Pids /\ s.state[pid] # PS_DEAD /\ s.parent[pid] = me
      BY <1>2, <2>2 DEF CanWait, IS_VALID_PID
    <3>2. s.state[pid] # PS_ZOMBIE
      <4>1. pid \notin Zombies(s, me)
        BY <1>2, <2>2 DEF Reapable
      <4>2. s.state[pid] > PS_DEAD
        BY <1>1, <3>1, StateOrder
      <4> QED BY <3>1, <4>1, <4>2 DEF Zombies, Children
    <3> QED BY <1>3, <2>2, <3>1, <3>2 DEF WaitsFor
  <2>3. CASE q = me /\ ~(pid >= 0)
    <3>1. pid = NOPID
      BY <1>5, <2>3, InputsAssumption DEF DocumentedWaits, NOPID
    <3>2. Children(s, me) # {} /\ Zombies(s, me) = {}
      BY <1>2, <2>3 DEF CanWait, Reapable
    <3>3. \A c \in Pids : s.state[c] > PS_DEAD <=> s.state[c] # PS_DEAD
      BY <1>1, StateOrder
    <3>4. \E c \in Pids : s.parent[c] = me /\ s.state[c] # PS_DEAD
      BY <3>2, <3>3 DEF Children
    <3>5. \A c \in Pids : s.parent[c] = me => s.state[c] # PS_ZOMBIE
      BY <1>1, <3>2, <3>3 DEF Zombies, Children
    <3> QED BY <1>3, <2>3, <3>1, <3>4, <3>5 DEF WaitsFor
  <2> QED BY <2>1, <2>2, <2>3
<1>6. PidsKept(s) => PidsKept(u)
  BY <1>2, <1>3 DEF PidsKept
<1>7. AllKept(s, u)
  BY <1>1, <1>3 DEF AllKept, Kept
<1> QED BY <1>4, <1>5, <1>6, <1>7 DEF Family

(* The active process reaps a zombie child. *)
LEMMA ReapedFamily ==
  ASSUME NEW s, Stable(s), NEW u \in KernelStates, NEW c, Reaped(s, u, c), Family(s)
  PROVE  Family(u) /\ AllKept(s, u)
<1> DEFINE me == s.active_process
<1>1. /\ s \in KernelStates /\ me \in Pids /\ s.state[me] = PS_RUNNING
      /\ s.state \in [Pids -> States] /\ s.attr \in [Pids -> Int]
      /\ s.parent \in [Pids -> Pids \cup {NOPID}]
      /\ PS_DEAD # PS_ZOMBIE /\ PS_WAIT_CHILD \notin {PS_DEAD, PS_ZOMBIE, PS_RUNNING}
      /\ PS_RUNNING \notin {PS_DEAD, PS_ZOMBIE}
      /\ ListsBut(s, {}) /\ s.dead \in Seq(Pids)
  BY ActiveRuns, DistinctStates DEF Stable, Sound, KernelStates
<1>2. /\ c \in Pids /\ s.state[c] = PS_ZOMBIE /\ s.parent[c] = me
      /\ u.state = With(s.state, c, PS_DEAD) /\ u.attr = With(s.attr, c, 0)
      /\ u.dead = <<c>> \o s.dead /\ u.parent = s.parent
      /\ \A q \in Pids \ {me} : u.local[q] = s.local[q]
  BY DEF Reaped
<1> HIDE DEF me
<1>3. ASSUME NEW q \in Pids
      PROVE  /\ u.state[q] = IF q = c THEN PS_DEAD ELSE s.state[q]
             /\ q # c => u.attr[q] = s.attr[q]
             /\ u.parent[q] = s.parent[q] /\ s.parent[q] \in Pids \cup {NOPID}
  BY <1>1, <1>2 DEF With
<1>4. LiveParents(u)
  <2> SUFFICES ASSUME NEW q \in Pids, u.state[q] # PS_DEAD, u.parent[q] # NOPID
               PROVE  u.state[u.parent[q]] \notin {PS_DEAD, PS_ZOMBIE}
    BY LiveParentsStates
  <2>1. s.state[s.parent[q]] \notin {PS_DEAD, PS_ZOMBIE} /\ s.parent[q] \in Pids
    BY <1>1, <1>3, LiveParentsStates DEF Family
  <2> QED BY <1>2, <1>3, <2>1
<1>5. ASSUME Awaiting(s)
      PROVE  Awaiting(u)
  <2> SUFFICES ASSUME NEW q \in Pids, u.state[q] = PS_WAIT_CHILD
               PROVE  WaitsFor(u, q)
    BY DEF Awaiting
  <2>1. q # c /\ s.state[q] = PS_WAIT_CHILD /\ q # me
    BY <1>1, <1>3
  <2>2. WaitsFor(s, q) /\ u.local[q] = s.local[q]
    BY <1>2, <1>5, <2>1 DEF Awaiting
  <2>3. \A r \in Pids : s.parent[r] = q => u.state[r] = s.state[r]
    BY <1>2, <1>3, <2>1
  <2> QED BY <1>3, <2>2, <2>3 DEF WaitsFor
<1>6. PidsKept(s) => PidsKept(u)
  <2>1. Range(u.dead) = Range(s.dead) \cup {c}
    BY <1>1, <1>2, PushDeadRange
  <2> QED BY <1>3, <2>1 DEF PidsKept
<1>7. AllKept(s, u)
  BY <1>1, <1>2, <1>3 DEF AllKept, Kept, me
<1> QED BY <1>4, <1>5, <1>6, <1>7 DEF Family

-----------------------------------------------------------------------------
(* stop. *)

(* A process ends: its zombies are freed, its other children orphaned and  *)
(* a parent that waits for it is told.                                     *)
LEMMA StoppedFamily ==
  ASSUME NEW s, Stable(s), NEW u \in KernelStates, NEW pid, Stopped(s, u, pid), Family(s)
  PROVE  Family(u) /\ AllKept(s, u)
<1> DEFINE father == s.parent[pid]
           bound == father \notin {NOPID, pid}
           told == bound /\ Told(s, pid)
<1>1. /\ s \in KernelStates /\ s.parent \in [Pids -> Pids \cup {NOPID}]
      /\ PS_DEAD # PS_ZOMBIE /\ PS_WAIT_CHILD \notin {PS_DEAD, PS_ZOMBIE, PS_RUNNABLE}
      /\ PS_RUNNABLE \notin {PS_DEAD, PS_ZOMBIE}
  BY ActiveRuns, DistinctStates
<1>2. pid \in Pids /\ s.state[pid] \notin {PS_DEAD, PS_ZOMBIE}
  BY DEF Stopped
<1>3. ASSUME NEW c \in Pids
      PROVE  /\ u.state[c] = IF c = pid THEN (IF bound THEN PS_ZOMBIE ELSE PS_DEAD)
                             ELSE IF c \in Freed(s, pid) THEN PS_DEAD
                             ELSE IF told /\ c = father THEN PS_RUNNABLE
                             ELSE s.state[c]
             /\ c \notin Freed(s, pid) \cup {pid} /\ ~(told /\ c = father)
                  => u.attr[c] = s.attr[c]
             /\ u.parent[c] = IF c \in Orphaned(s, pid) THEN NOPID ELSE s.parent[c]
             /\ c # pid => u.local[c] = IF told /\ c = father THEN pid ELSE s.local[c]
             /\ \/ c \in Range(s.dead) \cup Freed(s, pid)
                \/ c = pid /\ ~bound
                => c \in Range(u.dead)
  BY DEF Stopped
<1>4. \A c \in Pids : /\ c \in Freed(s, pid) <=> s.parent[c] = pid /\ s.state[c] = PS_ZOMBIE
                      /\ c \in Orphaned(s, pid) <=> s.parent[c] = pid /\ s.state[c] # PS_ZOMBIE
                      /\ s.parent[c] \in Pids \cup {NOPID}
  BY <1>1 DEF Freed, Orphaned
<1>5. pid # NOPID
  BY <1>2, SizesAssumption DEF Pids, NOPID
<1>6. told => s.state[father] = PS_WAIT_CHILD /\ s.local[father] \in {NOPID, pid}
  BY DEF Told
<1>7. s.state[father] = PS_WAIT_CHILD /\ s.local[father] \in {NOPID, pid} /\ bound => told
  BY DEF Told
<1>8. LiveParents(u)
  <2> SUFFICES ASSUME NEW q \in Pids, u.state[q] # PS_DEAD, u.parent[q] # NOPID
               PROVE  u.state[u.parent[q]] \notin {PS_DEAD, PS_ZOMBIE}
    BY LiveParentsStates
  <2>1. /\ u.parent[q] = s.parent[q] /\ q \notin Orphaned(s, pid) /\ s.parent[q] \in Pids
        /\ s.parent[q] # NOPID
    BY <1>3, <1>4
  <2>2. s.state[q] # PS_DEAD
    BY <1>1, <1>2, <1>3, <1>6, <1>4
  <2>3. s.parent[q] # pid
    BY <1>2, <1>3, <1>4, <2>1
  <2>4. s.state[s.parent[q]] \notin {PS_DEAD, PS_ZOMBIE}
    BY <1>1, <2>1, <2>2, LiveParentsStates DEF Family
  <2>5. s.parent[q] \notin Freed(s, pid)
    BY <1>4, <2>1, <2>4
  <2> HIDE DEF bound, told, father
  <2> QED BY <1>1, <1>3, <2>1, <2>3, <2>4, <2>5
<1>9. ASSUME Awaiting(s)
      PROVE  Awaiting(u)
  <2> SUFFICES ASSUME NEW q \in Pids, u.state[q] = PS_WAIT_CHILD
               PROVE  WaitsFor(u, q)
    BY DEF Awaiting
  <2>1. /\ q # pid /\ q \notin Freed(s, pid) /\ ~(told /\ q = father)
        /\ s.state[q] = PS_WAIT_CHILD
    <3> HIDE DEF bound, told, father
    <3> QED BY <1>1, <1>3
  <2>2. WaitsFor(s, q) /\ u.local[q] = s.local[q]
    BY <1>3, <1>9, <2>1 DEF Awaiting
  <2>3. q # NOPID
    BY SizesAssumption DEF Pids, NOPID
  <2>4. father = q => s.local[q] \notin {NOPID, pid}
    BY <1>7, <2>1, <2>3
  <2>5. ASSUME NEW c \in Pids, s.parent[c] = q, c # pid
        PROVE  /\ u.parent[c] = q /\ c \notin Freed(s, pid)
               /\ u.state[c] = s.state[c] \/ u.state[c] = PS_RUNNABLE
    <3>1. c \notin Freed(s, pid) /\ c \notin Orphaned(s, pid)
      BY <1>4, <2>1, <2>5
    <3> HIDE DEF bound, told, father
    <3> QED BY <1>3, <2>5, <3>1
  <2>6. ASSUME NEW c \in Pids, u.parent[c] = q
        PROVE  s.parent[c] = q
    BY <1>3, <2>3, <2>6
  <2>7. CASE s.local[q] \in Pids /\ s.parent[s.local[q]] = q
             /\ s.state[s.local[q]] \notin {PS_DEAD, PS_ZOMBIE}
    <3>1. s.local[q] # pid
      BY <2>4, <2>7
    <3>2. /\ u.parent[s.local[q]] = q
          /\ u.state[s.local[q]] = s.state[s.local[q]] \/ u.state[s.local[q]] = PS_RUNNABLE
      BY <2>5, <2>7, <3>1
    <3> QED BY <1>1, <2>2, <2>7, <3>2 DEF WaitsFor
  <2>8. CASE /\ s.local[q] = NOPID
             /\ \E c \in Pids : s.parent[c] = q /\ s.state[c] # PS_DEAD
             /\ \A c \in Pids : s.parent[c] = q => s.state[c] # PS_ZOMBIE
    <3>1. father # q
      BY <2>4, <2>8
    <3>2. PICK c \in Pids : s.parent[c] = q /\ s.state[c] # PS_DEAD
      BY <2>8
    <3>3. u.parent[c] = q /\ u.state[c] # PS_DEAD
      BY <1>1, <2>5, <3>1, <3>2
    <3>4. ASSUME NEW d \in Pids, u.parent[d] = q
          PROVE  u.state[d] # PS_ZOMBIE
      <4>1. s.parent[d] = q /\ d # pid
        BY <2>6, <3>1, <3>4
      <4> QED BY <1>1, <2>5, <2>8, <4>1
    <3> QED BY <2>2, <2>8, <3>3, <3>4 DEF WaitsFor
  <2> QED BY <2>2, <2>7, <2>8 DEF WaitsFor
<1>10. ASSUME PidsKept(s)
       PROVE  PidsKept(u)
  <2> SUFFICES ASSUME NEW q \in Pids, u.state[q] = PS_DEAD
               PROVE  q \in Range(u.dead)
    BY DEF PidsKept
  <2>1. s.state[q] = PS_DEAD => q \in Range(s.dead)
    BY <1>10 DEF PidsKept
  <2> HIDE DEF bound, told, father
  <2> QED BY <1>1, <1>3, <2>1
<1>11. AllKept(s, u)
  <2> SUFFICES ASSUME NEW c \in Pids, s.state[c] = PS_ZOMBIE
               PROVE  Kept(s, u, c)
    BY DEF AllKept
  <2>1. c # pid /\ ~(told /\ c = father) /\ c \notin Orphaned(s, pid)
    BY <1>1, <1>2, <1>4, <1>6
  <2>2. CASE c \in Freed(s, pid)
    <3>1. s.parent[c] = pid /\ u.state[c] = PS_DEAD
      BY <1>3, <1>4, <2>1, <2>2
    <3>2. u.state[pid] \in {PS_DEAD, PS_ZOMBIE}
      BY <1>2, <1>3
    <3>3. u.state[pid] < PS_RUNNABLE
      BY <1>2, <3>2, StateOrder
    <3> QED BY <1>2, <3>1, <3>3 DEF Kept
  <2>3. CASE c \notin Freed(s, pid)
    <3> HIDE DEF bound, told, father
    <3> QED BY <1>3, <2>1, <2>3 DEF Kept
  <2> QED BY <2>2, <2>3
<1> QED BY <1>8, <1>9, <1>10, <1>11 DEF Family

-----------------------------------------------------------------------------
(* Steps. *)

(* Every change keeps the invariant and the zombies. *)
LEMMA ChangeFamily ==
  ASSUME NEW s, Stable(s), NEW u \in KernelStates, Change(s, u), Family(s)
  PROVE  Family(u) /\ AllKept(s, u)
<1>0. s \in KernelStates
  BY DEF Stable, Sound
<1>1. CASE SameFamily(s, u)
  BY <1>0, <1>1, SameFamilyKeeps, SameFamilyZombies
<1>2. CASE QueueChange(s, u)
  BY <1>1, <1>2, QueueFamily
<1>3. CASE Left(s, u, s.active_process) \/ Ticked(s, u)
  BY <1>1, <1>3, ProcessFamily
<1>4. CASE ProcessChange(s, u)
  <2>1. CASE \/ \E p \in Pids, n \in Int : Reprioritised(s, u, p, n) /\ s.prio[p] # n
             \/ \E clock \in Int : Slept(s, u, clock)
    BY <1>1, <2>1, ProcessFamily
  <2>2. CASE \E p \in Pids, n \in Int, allocated \in BOOLEAN :
               Started(s, u, p, n, allocated) /\ (allocated \/ StackAllocMayFail)
    BY <2>2, StartedFamily
  <2>3. CASE \E pid \in Pids : Stopped(s, u, pid)
    BY <2>3, StoppedFamily
  <2>4. CASE \E pid \in WaitPids : CanWait(s, s.active_process, pid) /\ AwaitsChild(s, u, pid)
    BY <2>4, AwaitsFamily
  <2>5. CASE \E c \in Pids : Reaped(s, u, c)
    BY <2>5, ReapedFamily
  <2> QED BY <1>4, <2>1, <2>2, <2>3, <2>4, <2>5 DEF ProcessChange
<1> QED BY <1>2, <1>3, <1>4 DEF Change

(* Every step does. *)
LEMMA StepFamily ==
  ASSUME KernelInv, Family(K), Next
  PROVE  Family(K') /\ AllKept(K, K') /\ K \in KernelStates /\ K' \in KernelStates
<1>1. Stable(K)
  BY StepKinds
<1>2. PICK u : Scheduled(K, u, K') /\ Change(K, u)
  BY StepKinds
<1>3. u \in KernelStates /\ K \in KernelStates
  BY <1>1, <1>2 DEF Scheduled, Sound, Stable
<1>4. Family(u) /\ AllKept(K, u)
  BY <1>1, <1>2, <1>3, ChangeFamily
<1>5. Quiet(u, K') /\ K' \in KernelStates
  BY <1>2, ScheduledQuiet DEF Stable, Sound
<1>6. Family(K')
  BY <1>3, <1>4, <1>5, QuietFamily, SameFamilyKeeps
<1> QED BY <1>3, <1>4, <1>5, <1>6, QuietKept

(* setup_scheduler and the first process. *)
LEMMA BootFamily == Family(Boot)
<1> DEFINE s == setup_scheduler
           t == pcreate(s, BUFFER_SIZE, TRUE)
<1>0. start_user_background(t, 1, TRUE) = Boot
  BY DEF Boot
<1>1. Family(s)
  <2>1. /\ \A p \in Pids : s.state[p] = IF p = IDLE THEN PS_RUNNING ELSE PS_DEAD
        /\ s.parent[IDLE] = NOPID
        /\ s.dead = [i \in 1 .. NBPROC - 1 |-> i]
    BY IdlePid DEF setup_scheduler
  <2>2. s \in KernelStates
    BY SetupTyped
  <2> HIDE DEF s
  <2>3. LiveParents(s)
    BY <2>1, <2>2, LiveParentsStates
  <2>4. Awaiting(s)
    BY <2>1, DistinctStates DEF Awaiting
  <2>5. PidsKept(s)
    <3> SUFFICES ASSUME NEW p \in Pids, s.state[p] = PS_DEAD
                 PROVE  p \in Range(s.dead)
      BY DEF PidsKept
    <3>1. p # IDLE
      BY <2>1, DistinctStates
    <3>2. p \in 1 .. NBPROC - 1
      BY <3>1, SizesAssumption DEF Pids, IDLE
    <3> QED BY <2>1, <3>2 DEF Range
  <2> QED BY <2>3, <2>4, <2>5 DEF Family
<1>2. Stable(s) /\ s.dead # <<>> /\ FreeFids(s) # {}
  <2>1. 0 \in FreeFids(s)
    BY SizesAssumption DEF FreeFids, Fids, setup_scheduler, FreeQueue, is_queue_free
  <2> QED BY <2>1, SetupStable
<1> HIDE DEF s
<1>3. PICK u, fid : /\ Scheduled(s, u, t) /\ Created(s, u, fid, BUFFER_SIZE, TRUE)
                    /\ fid \in Fids
  <2>1. BUFFER_SIZE \in 1 .. MAXCOUNT
    BY InputsAssumption
  <2>2. PICK u, fid : Scheduled(s, u, t) /\ Created(s, u, fid, BUFFER_SIZE, TRUE)
    BY <1>2, <2>1, PcreateKind
  <2> QED BY <2>2 DEF Created
<1>4. Stable(t) /\ t \in KernelStates
  BY <1>3, ScheduledQuiet DEF Stable, Sound
<1>5. Family(t) /\ t.dead = s.dead
  <2>1. SameFamily(s, u) /\ u \in KernelStates /\ s \in KernelStates
    BY <1>2, <1>3 DEF Created, Put, SameTable, SameBlocks, SameLists, SameFamily,
                      Scheduled, Sound, Stable
  <2>2. SameFamily(u, t)
    BY <1>3, <1>4, <2>1, ScheduledQuiet, QuietFamily
  <2> QED BY <1>1, <1>4, <2>1, <2>2, SameFamilyKeeps DEF SameFamily
<1> HIDE DEF t
<1>6. Started(t, start_user_background(t, 1, TRUE), Head(t.dead), 1, TRUE)
  <2>1. Sound(t) /\ t.dead # <<>>
    BY <1>2, <1>4, <1>5 DEF Stable
  <2>2. 1 \in Int /\ TRUE \in BOOLEAN
    OBVIOUS
  <2> QED BY <2>1, <2>2, StartFields, Zenon
<1>7. Boot \in KernelStates
  BY BootStable DEF Stable, Sound
<1> HIDE DEF Boot
<1> QED BY <1>0, <1>4, <1>5, <1>6, <1>7, StartedFamily

-----------------------------------------------------------------------------
(* Theorems. *)

(* Family is kept by every step of the kernel, with KernelInv. *)
THEOREM FamilyInvariant == Spec => [](KernelInv /\ Family(K))
<1>1. Init => Family(K)
  BY InitState, BootFamily
<1>2. KernelInv /\ Family(K) /\ [Next]_vars => Family(K)'
  <2> SUFFICES ASSUME KernelInv, Family(K), [Next]_vars
               PROVE  Family(K)'
    OBVIOUS
  <2>1. CASE Next
    <3>1. Family(K')
      BY <2>1, StepFamily
    <3> QED BY <3>1 DEF Family, LiveParents, Awaiting, WaitsFor, PidsKept, DocumentedWaits
  <2>2. CASE UNCHANGED vars
    BY <2>2 DEF Family, LiveParents, Awaiting, WaitsFor, PidsKept, DocumentedWaits, K, vars
  <2> QED BY <2>1, <2>2
<1> QED BY <1>1, <1>2, KernelInvariant, PTL DEF Spec

(* stop leaves no child bound to a pid that start can give to another      *)
(* process: the parent of a process that is not dead is alive.             *)
THEOREM ParentsStayAlive == Spec => []ParentsAlive
<1>1. Family(K) => ParentsAlive
  BY DEF Family, ParentsAlive
<1> QED BY <1>1, FamilyInvariant, PTL

(* Every pid that is not in use can be started again, however its process  *)
(* ended, as long as the stack allocator finds room for new processes: a   *)
(* start that fails after it popped the pid is the only way to lose one.   *)
THEOREM PidsNeverLost ==
  ASSUME ~StackAllocMayFail
  PROVE  Spec => []PidsConserved
<1>1. Family(K) => PidsConserved
  BY DEF Family, PidsConserved
<1> QED BY <1>1, FamilyInvariant, PTL

(* The loop of stop that triggers a waiting parent misses no child: if     *)
(* programs pass waitpid a pid or -1, a process suspended in it has a      *)
(* child left to wait for, and none that has ended already.                *)
THEOREM WaitersKeepAChild ==
  ASSUME DocumentedWaits
  PROVE  Spec => []NoLostChild
<1>1. KernelInv /\ Family(K) => NoLostChild
  <2> SUFFICES ASSUME KernelInv, Family(K), NEW p \in Pids, K.state[p] = PS_WAIT_CHILD
               PROVE  Reapable(K, p, K.local[p]) = {} /\ CanWait(K, p, K.local[p])
    BY DEF NoLostChild, ChildrenLeft
  <2> DEFINE s == K
  <2>1. WaitsFor(s, p) /\ s \in KernelStates
    BY DEF Family, Awaiting, KernelInv, Stable, Sound
  <2> HIDE DEF s
  <2>2. \A c \in Pids : s.state[c] > PS_DEAD <=> s.state[c] # PS_DEAD
    BY <2>1, StateOrder
  <2>3. CASE s.local[p] = NOPID
    <3>1. \E c \in Pids : s.parent[c] = p /\ s.state[c] # PS_DEAD
      BY <2>1, <2>3, SizesAssumption DEF WaitsFor, Pids, NOPID
    <3>2. \A c \in Pids : s.parent[c] = p => s.state[c] # PS_ZOMBIE
      BY <2>1, <2>3, SizesAssumption DEF WaitsFor, Pids, NOPID
    <3>3. Children(s, p) # {} /\ Zombies(s, p) = {} /\ ~(s.local[p] >= 0)
      BY <2>2, <2>3, <3>1, <3>2 DEF Children, Zombies, NOPID
    <3> QED BY <3>3 DEF Reapable, CanWait, s
  <2>4. CASE s.local[p] # NOPID
    <3>1. /\ s.local[p] \in Pids /\ s.parent[s.local[p]] = p
          /\ s.state[s.local[p]] \notin {PS_DEAD, PS_ZOMBIE}
      BY <2>1, <2>4 DEF WaitsFor
    <3>2. s.local[p] >= 0
      BY <3>1, SizesAssumption DEF Pids
    <3>3. s.local[p] \notin Zombies(s, p)
      BY <3>1 DEF Zombies
    <3> QED BY <3>1, <3>2, <3>3 DEF Reapable, CanWait, IS_VALID_PID, s
  <2> QED BY <2>3, <2>4
<1> QED BY <1>1, FamilyInvariant, PTL

(* A zombie keeps its exit code and its parent until waitpid of that       *)
(* parent, or the end of that parent, frees it.                            *)
THEOREM ZombiesWait == Spec => ZombiesKept
<1> DEFINE A == \A c \in Pids : state[c] = PS_ZOMBIE =>
                  \/ /\ state'[c] = PS_ZOMBIE
                     /\ attr'[c] = attr[c] /\ parent'[c] = parent[c]
                  \/ /\ state'[c] = PS_DEAD
                     /\ \/ parent[c] = active_process
                        \/ state'[parent[c]] < PS_RUNNABLE
<1>1. KernelInv /\ Family(K) /\ [Next]_vars => [A]_vars
  <2> SUFFICES ASSUME KernelInv, Family(K), Next
               PROVE  A
    OBVIOUS
  <2>1. AllKept(K, K')
    BY StepFamily
  <2> QED BY <2>1 DEF AllKept, Kept, K
<1>2. Spec => [][A]_vars
  BY <1>1, FamilyInvariant, PTL DEF Spec
<1> QED BY <1>2 DEF ZombiesKept

-----------------------------------------------------------------------------
(***************************************************************************)
(* Message queues: theorems about psend, preceive, preset and pdelete.     *)
(*                                                                         *)
(* A process suspended in a call is in the state, and holds the retval and *)
(* the message, of that call (Letter); receivers wait only on empty queues *)
(* and senders only on full ones (Justified); and, as long as mem_alloc    *)
(* finds room, front, rear and size of every ring describe slots that have *)
(* been written (Ring).  The three are inductive with KernelInv.  Most     *)
(* processes do not notice a change of the first part (Still); the ones    *)
(* it blocks or wakes are taken one by one.                                *)
(***************************************************************************)

Suspended == WaitStates \cup {PS_WAIT_CHILD}

(* The call q is suspended in, or was woken from, and its locals. *)
Letter(s, q) ==
  /\ s.state[q] = PS_WAIT_CHILD => s.call[q] = "waitpid"
  /\ s.state[q] = PS_WAIT_QUEUE_EMPTY => s.call[q] = "preceive"
  /\ s.state[q] = PS_WAIT_QUEUE_FULL => s.call[q] = "psend" /\ s.message[q] \in Messages
  /\ s.call[q] = "preceive" =>
       IF s.state[q] = PS_WAIT_QUEUE_EMPTY THEN s.local[q] = 0 /\ s.message[q] = Uninit
       ELSE s.local[q] = IF s.message[q] \in Messages THEN 0 ELSE -1
Letters(s) == \A q \in Pids : Letter(s, q)

(* q waits on an open queue that it must wait on. *)
Stuck(s, q) ==
  /\ VALID_FID(s, s.attr[q])
  /\ IF s.state[q] = PS_WAIT_QUEUE_EMPTY THEN is_queue_empty(s.queues[s.attr[q]])
     ELSE is_queue_full(s.queues[s.attr[q]])

Rings(s) == \A fid \in Fids : Ring(s.queues[fid])

Post(s) == Letters(s) /\ Justified(s) /\ (~MemAllocMayFail => Rings(s))

(* q does not notice the change. *)
Still(s, u, q) ==
  /\ u.call[q] = s.call[q] /\ u.local[q] = s.local[q] /\ u.message[q] = s.message[q]
  /\ \/ u.state[q] = s.state[q] /\ u.attr[q] = s.attr[q]
     \/ s.state[q] \notin Suspended /\ u.state[q] \notin Suspended

(* q is not waiting on a queue nor coming back from a preceive. *)
Clear(u, q) ==
  /\ u.state[q] \notin WaitStates /\ u.call[q] # "preceive"
  /\ u.state[q] = PS_WAIT_CHILD => u.call[q] = "waitpid"

(* Nobody is blocked on a queue or woken from one. *)
Unnoticed(s, u) ==
  /\ u.queues = s.queues
  /\ \A q \in Pids : Still(s, u, q) \/ Clear(u, q)

(* The states of suspended processes, and the others. *)
LEMMA SuspendedStates ==
  /\ PS_WAIT_QUEUE_EMPTY \in WaitStates /\ PS_WAIT_QUEUE_FULL \in WaitStates
  /\ WaitStates = {PS_WAIT_QUEUE_EMPTY, PS_WAIT_QUEUE_FULL}
  /\ PS_WAIT_QUEUE_EMPTY # PS_WAIT_QUEUE_FULL
  /\ WaitStates \subseteq Suspended /\ PS_WAIT_CHILD \in Suspended
  /\ PS_WAIT_CHILD \notin WaitStates
  /\ \A st \in {PS_DEAD, PS_ZOMBIE, PS_RUNNABLE, PS_RUNNING, PS_ASLEEP} : st \notin Suspended
  /\ \A st \in Live : st \notin Suspended
BY DEF Suspended, WaitStates, Live, PS_DEAD, PS_ZOMBIE, PS_RUNNABLE, PS_RUNNING,
       PS_ASLEEP, PS_WAIT_CHILD, PS_WAIT_QUEUE_EMPTY, PS_WAIT_QUEUE_FULL

(* The letter of a process that does not notice. *)
LEMMA StillLetter ==
  ASSUME NEW s, NEW u, NEW q, Still(s, u, q), Letter(s, q)
  PROVE  Letter(u, q)
BY SuspendedStates DEF Still, Letter

(* The letter of a process that is in no queue call. *)
LEMMA ClearLetter ==
  ASSUME NEW u, NEW q, Clear(u, q)
  PROVE  Letter(u, q)
BY SuspendedStates DEF Clear, Letter

(* The running process, and the types of the fields below. *)
LEMMA ActiveTyped ==
  ASSUME NEW s, Stable(s)
  PROVE  /\ s \in KernelStates /\ s.active_process \in Pids
         /\ s.state[s.active_process] = PS_RUNNING
         /\ s.state \in [Pids -> States] /\ s.attr \in [Pids -> Int]
         /\ s.local \in [Pids -> Int] /\ s.call \in [Pids -> Calls]
         /\ s.message \in [Pids -> Messages \cup {Uninit}]
         /\ s.queues \in [Fids -> QueueStructs]
<1>1. s \in KernelStates /\ s.state[s.active_process] = PS_RUNNING
  BY DEF Stable, Sound
<1> QED BY <1>1 DEF KernelStates

(* The scheduler is not noticed. *)
LEMMA QuietUnnoticed ==
  ASSUME NEW s, NEW t, Quiet(s, t)
  PROVE  Unnoticed(s, t)
<1>1. \A q \in Pids : Still(s, t, q)
  BY SuspendedStates DEF Quiet, Rests, Still
<1> QED BY <1>1 DEF Unnoticed, Quiet

(* The letters and the reasons to wait survive a change that leaves the    *)
(* queues alone and wakes or blocks nobody on them.                        *)
LEMMA StillPost ==
  ASSUME NEW s, NEW u, Post(s), Unnoticed(s, u)
  PROVE  Post(u)
<1>0. u.queues = s.queues /\ \A q \in Pids : Still(s, u, q) \/ Clear(u, q)
  BY DEF Unnoticed
<1>1. Letters(u)
  BY <1>0, StillLetter, ClearLetter DEF Letters, Post
<1>2. Justified(u)
  <2> SUFFICES ASSUME NEW q \in Pids, u.state[q] \in WaitStates
               PROVE  Stuck(u, q)
    BY DEF Justified, Stuck
  <2>1. u.state[q] = s.state[q] /\ u.attr[q] = s.attr[q]
    BY <1>0, SuspendedStates DEF Still, Clear
  <2>2. Stuck(s, q)
    BY <2>1 DEF Justified, Stuck, Post
  <2> QED BY <1>0, <2>1, <2>2 DEF Stuck, VALID_FID
<1> QED BY <1>0, <1>1, <1>2 DEF Post, Rings

(* The process calls. *)
LEMMA ProcessUnnoticed ==
  ASSUME NEW s, Stable(s), NEW u, Letters(s),
         ProcessChange(s, u) \/ Left(s, u, s.active_process) \/ Ticked(s, u)
  PROVE  Unnoticed(s, u)
<1> SUFFICES ASSUME NEW q \in Pids
             PROVE  (Still(s, u, q) \/ Clear(u, q)) /\ u.queues = s.queues
  BY IdlePid DEF Unnoticed
<1> DEFINE me == s.active_process
<1>1. /\ s \in KernelStates /\ me \in Pids /\ s.state[me] = PS_RUNNING
      /\ s.state \in [Pids -> States] /\ s.attr \in [Pids -> Int]
      /\ s.local \in [Pids -> Int] /\ s.call \in [Pids -> Calls]
      /\ s.message \in [Pids -> Messages \cup {Uninit}]
  BY ActiveTyped
<1> HIDE DEF me
<1>2. ASSUME NEW p \in Pids, NEW n \in Int, Reprioritised(s, u, p, n)
      PROVE  Still(s, u, q) /\ u.queues = s.queues
  <2>1. /\ u.state = s.state /\ u.call = s.call /\ u.local = s.local
        /\ u.message = s.message /\ u.queues = s.queues
        /\ u.attr = IF s.state[p] = PS_RUNNABLE THEN With(s.attr, p, 0) ELSE s.attr
    BY <1>2 DEF Reprioritised
  <2>2. u.attr[q] = s.attr[q] \/ s.state[q] = PS_RUNNABLE
    BY <1>1, <2>1 DEF With
  <2> QED BY <2>1, <2>2, SuspendedStates DEF Still
<1>3. ASSUME NEW p \in Pids, NEW n \in Int, NEW allocated \in BOOLEAN,
             Started(s, u, p, n, allocated)
      PROVE  Still(s, u, q) /\ u.queues = s.queues
  <2>1. /\ s.state[p] = PS_DEAD
        /\ u.state = IF allocated THEN With(s.state, p, PS_RUNNABLE) ELSE s.state
        /\ u.attr = IF allocated THEN With(s.attr, p, 0) ELSE s.attr
        /\ u.call = s.call /\ u.local = s.local
        /\ u.message = s.message /\ u.queues = s.queues
    BY <1>3 DEF Started
  <2>2. \/ u.state[q] = s.state[q] /\ u.attr[q] = s.attr[q]
        \/ s.state[q] = PS_DEAD /\ u.state[q] = PS_RUNNABLE
    BY <1>1, <2>1 DEF With
  <2> QED BY <2>1, <2>2, SuspendedStates DEF Still
<1>4. ASSUME NEW pid \in Pids, Stopped(s, u, pid)
      PROVE  (Still(s, u, q) \/ Clear(u, q)) /\ u.queues = s.queues
  <2> DEFINE father == s.parent[pid]
             bound  == father \notin {NOPID, pid}
             told   == bound /\ Told(s, pid)
  <2>1. /\ u.state[q] = IF q = pid THEN (IF bound THEN PS_ZOMBIE ELSE PS_DEAD)
                        ELSE IF q \in Freed(s, pid) THEN PS_DEAD
                        ELSE IF told /\ q = father THEN PS_RUNNABLE
                        ELSE s.state[q]
        /\ q \notin Freed(s, pid) \cup {pid} /\ ~(told /\ q = father)
             => u.attr[q] = s.attr[q]
        /\ u.call[q] = IF q = pid THEN "user" ELSE s.call[q]
        /\ q # pid => /\ u.message[q] = s.message[q]
                      /\ u.local[q] = IF told /\ q = father THEN pid ELSE s.local[q]
        /\ u.queues = s.queues
    BY <1>4 DEF Stopped
  <2>2. q \in Freed(s, pid) => s.state[q] = PS_ZOMBIE
    BY DEF Freed
  <2>3. told => s.state[father] = PS_WAIT_CHILD
    BY DEF Told
  <2>4. told /\ q = father => s.call[q] = "waitpid"
    BY <2>3 DEF Letters, Letter
  <2> HIDE DEF bound, told, father
  <2>5. CASE q = pid
    <3>1. u.state[q] \in {PS_ZOMBIE, PS_DEAD} /\ u.call[q] = "user"
      BY <2>1, <2>5
    <3> QED BY <2>1, <3>1, SuspendedStates DEF Clear
  <2>6. CASE q # pid /\ q \in Freed(s, pid)
    <3>1. ~(told /\ q = father)
      BY <2>2, <2>3, <2>6, DistinctStates
    <3>2. Still(s, u, q)
      BY <2>1, <2>2, <2>6, <3>1, SuspendedStates DEF Still
    <3> QED BY <2>1, <3>2
  <2>7. CASE q # pid /\ q \notin Freed(s, pid) /\ told /\ q = father
    <3>1. u.state[q] = PS_RUNNABLE /\ u.call[q] = "waitpid"
      BY <2>1, <2>4, <2>7
    <3> QED BY <2>1, <3>1, SuspendedStates DEF Clear
  <2>8. CASE q # pid /\ q \notin Freed(s, pid) /\ ~(told /\ q = father)
    <3>1. Still(s, u, q)
      BY <2>1, <2>8 DEF Still
    <3> QED BY <2>1, <3>1
  <2> QED BY <2>5, <2>6, <2>7, <2>8
<1>5. ASSUME NEW clock \in Int, Slept(s, u, clock)
      PROVE  Still(s, u, q) /\ u.queues = s.queues
  <2>1. /\ u.state = With(s.state, me, PS_ASLEEP) /\ u.attr = With(s.attr, me, clock)
        /\ u.call = s.call /\ u.local = s.local
        /\ u.message = s.message /\ u.queues = s.queues
    BY <1>5 DEF Slept, SameBlocks, me
  <2>2. \/ u.state[q] = s.state[q] /\ u.attr[q] = s.attr[q]
        \/ s.state[q] = PS_RUNNING /\ u.state[q] = PS_ASLEEP
    BY <1>1, <2>1 DEF With
  <2> QED BY <2>1, <2>2, SuspendedStates DEF Still
<1>6. ASSUME NEW pid \in WaitPids, AwaitsChild(s, u, pid)
      PROVE  (Still(s, u, q) \/ Clear(u, q)) /\ u.queues = s.queues
  <2>1. /\ u.state = With(s.state, me, PS_WAIT_CHILD) /\ u.attr = With(s.attr, me, 0)
        /\ u.call = With(s.call, me, "waitpid") /\ u.local = With(s.local, me, pid)
        /\ u.message = s.message /\ u.queues = s.queues
    BY <1>6 DEF AwaitsChild, me
  <2>2. IF q = me THEN u.state[q] = PS_WAIT_CHILD /\ u.call[q] = "waitpid"
        ELSE /\ u.state[q] = s.state[q] /\ u.attr[q] = s.attr[q]
             /\ u.call[q] = s.call[q] /\ u.local[q] = s.local[q]
    BY <1>1, <2>1 DEF With
  <2>3. q = me => Clear(u, q)
    BY <2>2, SuspendedStates DEF Clear
  <2>4. q # me => Still(s, u, q)
    BY <2>1, <2>2 DEF Still
  <2> QED BY <2>1, <2>3, <2>4
<1>7. ASSUME NEW c \in Pids, Reaped(s, u, c)
      PROVE  (Still(s, u, q) \/ Clear(u, q)) /\ u.queues = s.queues
  <2>1. /\ s.state[c] = PS_ZOMBIE
        /\ u.state = With(s.state, c, PS_DEAD) /\ u.attr = With(s.attr, c, 0)
        /\ u.call[me] = "user" /\ u.queues = s.queues
        /\ q # me => /\ u.call[q] = s.call[q] /\ u.local[q] = s.local[q]
                     /\ u.message[q] = s.message[q]
    BY <1>7 DEF Reaped, me
  <2>2. IF q = c THEN u.state[q] = PS_DEAD
        ELSE u.state[q] = s.state[q] /\ u.attr[q] = s.attr[q]
    BY <1>1, <2>1 DEF With
  <2>3. c # me
    BY <1>1, <2>1, DistinctStates
  <2>4. q = me => Clear(u, q)
    BY <1>1, <2>1, <2>2, <2>3, SuspendedStates DEF Clear
  <2>5. q # me => Still(s, u, q)
    BY <2>1, <2>2, SuspendedStates DEF Still
  <2> QED BY <2>1, <2>4, <2>5
<1>8. CASE Left(s, u, me)
  <2>1. /\ u.call = With(s.call, me, "user") /\ u.local = With(s.local, me, 0)
        /\ u.message = With(s.message, me, Uninit)
        /\ u.state = s.state /\ u.attr = s.attr /\ u.queues = s.queues
    BY <1>8 DEF Left
  <2>2. IF q = me THEN u.call[q] = "user"
        ELSE /\ u.call[q] = s.call[q] /\ u.local[q] = s.local[q]
             /\ u.message[q] = s.message[q]
    BY <1>1, <2>1 DEF With
  <2>3. q = me => Clear(u, q)
    BY <1>1, <2>1, <2>2, SuspendedStates DEF Clear
  <2>4. q # me => Still(s, u, q)
    BY <2>1, <2>2 DEF Still
  <2> QED BY <2>1, <2>3, <2>4
<1>9. CASE Ticked(s, u)
  BY <1>9 DEF Ticked, SameTable, SameBlocks, Still
<1>10. CASE ProcessChange(s, u)
  BY <1>2, <1>3, <1>4, <1>5, <1>6, <1>7, <1>10 DEF ProcessChange
<1> QED BY <1>8, <1>9, <1>10 DEF me
-----------------------------------------------------------------------------
(* Who blocks and who is woken. *)

(* A process that does not notice waits on the same queue. *)
LEMMA StillWaits ==
  ASSUME NEW s, NEW u, NEW q, Still(s, u, q), u.state[q] \in WaitStates
  PROVE  s.state[q] = u.state[q] /\ s.attr[q] = u.attr[q]
BY SuspendedStates DEF Still

(* Before p is woken from the list of st, a receiver gets its message. *)
Addressed(s, v, st, p) ==
  /\ v.state = s.state /\ v.attr = s.attr /\ v.call = s.call /\ v.local = s.local
  /\ \A q \in Pids \ {p} : v.message[q] = s.message[q]
  /\ st = PS_WAIT_QUEUE_EMPTY => v.message[p] \in Messages

(* A process woken from a queue has its letter; the others do not notice.  *)
LEMMA WokenLetters ==
  ASSUME NEW s, Stable(s), NEW u, NEW v, NEW fid, NEW st \in WaitStates, NEW p, NEW z,
         Letters(s), Addressed(s, v, st, p), Notified(v, u, fid, st, p, z),
         u.local = s.local
  PROVE  /\ Letters(u) /\ u.queues = v.queues
         /\ p \in Pids /\ s.state[p] = st /\ s.attr[p] = fid /\ u.state[p] = PS_RUNNABLE
         /\ \A q \in Pids \ {p} : Still(s, u, q)
<1>1. s.state \in [Pids -> States] /\ s.attr \in [Pids -> Int]
  BY ActiveTyped
<1>2. /\ p \in Pids /\ s.state[p] = st /\ s.attr[p] = fid
      /\ u.state = With(s.state, p, PS_RUNNABLE) /\ u.attr = With(s.attr, p, 0)
      /\ u.queues = v.queues /\ u.call = s.call /\ u.message = v.message
      /\ \A q \in Pids \ {p} : v.message[q] = s.message[q]
      /\ st = PS_WAIT_QUEUE_EMPTY => v.message[p] \in Messages
  BY DEF Notified, Addressed
<1>3. /\ u.state[p] = PS_RUNNABLE
      /\ \A q \in Pids \ {p} : u.state[q] = s.state[q] /\ u.attr[q] = s.attr[q]
  BY <1>1, <1>2 DEF With
<1>4. \A q \in Pids \ {p} : Still(s, u, q)
  BY <1>2, <1>3 DEF Still
<1>5. Letter(s, p)
  BY <1>2 DEF Letters
<1>6. Letter(u, p)
  <2>1. u.state[p] \notin Suspended
    BY <1>3, SuspendedStates
  <2>2. CASE st = PS_WAIT_QUEUE_EMPTY
    BY <1>2, <1>5, <2>1, <2>2, SuspendedStates DEF Letter
  <2>3. CASE st = PS_WAIT_QUEUE_FULL
    BY <1>2, <1>5, <2>1, <2>3, SuspendedStates DEF Letter
  <2> QED BY <2>2, <2>3, SuspendedStates
<1>7. Letters(u)
  BY <1>4, <1>6, StillLetter DEF Letters
<1> QED BY <1>2, <1>3, <1>4, <1>7

(* psend to a blocked receiver. *)
LEMMA HandedLetters ==
  ASSUME NEW s, Stable(s), NEW u, NEW fid, NEW p, NEW m, Letters(s), Handed(s, u, fid, p, m)
  PROVE  /\ Letters(u) /\ u.queues = s.queues
         /\ p \in Pids /\ u.state[p] = PS_RUNNABLE
         /\ \A q \in Pids \ {p} : Still(s, u, q)
<1> DEFINE st == PS_WAIT_QUEUE_EMPTY
           z == Tail(s.waiting[<<fid, st>>])
<1>1. PICK v : /\ m \in Messages /\ v.queues = s.queues
               /\ v.state = s.state /\ v.attr = s.attr /\ v.call = s.call
               /\ v.local = s.local /\ v.message = With(s.message, p, m)
               /\ Notified(v, u, fid, st, p, z) /\ u.local = s.local
  BY DEF Handed
<1>2. p \in Pids
  BY <1>1 DEF Notified
<1>3. s.message \in [Pids -> Messages \cup {Uninit}]
  BY ActiveTyped
<1>4. v.message[p] = m /\ \A q \in Pids \ {p} : v.message[q] = s.message[q]
  BY <1>1, <1>2, <1>3 DEF With
<1>5. st \in WaitStates
  BY TwoWaitStates
<1> HIDE DEF st, z
<1>6. Addressed(s, v, st, p) /\ Notified(v, u, fid, st, p, z) /\ u.local = s.local
  BY <1>1, <1>4 DEF Addressed
<1>7. /\ Letters(u) /\ u.queues = v.queues /\ u.state[p] = PS_RUNNABLE
      /\ \A q \in Pids \ {p} : Still(s, u, q)
  BY <1>5, <1>6, WokenLetters
<1> QED BY <1>1, <1>2, <1>7

(* preceive with a blocked sender. *)
LEMMA RefilledLetters ==
  ASSUME NEW s, Stable(s), NEW u, NEW fid, NEW p, Letters(s), Refilled(s, u, fid, p)
  PROVE  /\ Letters(u) /\ s.message[p] \in Messages
         /\ u.queues = With(s.queues, fid, Pushed(Popped(s.queues[fid]), s.message[p]))
         /\ p \in Pids /\ u.state[p] = PS_RUNNABLE
         /\ \A q \in Pids \ {p} : Still(s, u, q)
<1> DEFINE st == PS_WAIT_QUEUE_FULL
           z == Tail(s.waiting[<<fid, st>>])
<1>1. PICK v : /\ v.state = s.state /\ v.attr = s.attr /\ v.call = s.call
               /\ v.local = s.local /\ v.message = s.message
               /\ v.queues = With(s.queues, fid, Pushed(Popped(s.queues[fid]), s.message[p]))
               /\ Notified(v, u, fid, st, p, z) /\ u.local = s.local
  BY DEF Refilled, Put, SameTable, SameBlocks
<1>2. st \in WaitStates /\ st # PS_WAIT_QUEUE_EMPTY
  BY SuspendedStates
<1> HIDE DEF z
<1>3. p \in Pids /\ s.state[p] = st
  BY <1>1 DEF Notified
<1>4. s.message[p] \in Messages
  BY <1>3 DEF Letters, Letter
<1> HIDE DEF st
<1>5. Addressed(s, v, st, p) /\ Notified(v, u, fid, st, p, z) /\ u.local = s.local
  BY <1>1, <1>2 DEF Addressed
<1>6. /\ Letters(u) /\ u.queues = v.queues /\ u.state[p] = PS_RUNNABLE
      /\ \A q \in Pids \ {p} : Still(s, u, q)
  BY <1>2, <1>5, WokenLetters
<1> QED BY <1>1, <1>3, <1>4, <1>6

(* preset and pdelete. *)
LEMMA FlushedLetters ==
  ASSUME NEW s, NEW u, NEW fid, NEW r, Letters(s), Flushed(s, u, fid, r)
  PROVE  /\ Letters(u)
         /\ \A q \in Pids : Still(s, u, q) \/ u.state[q] = PS_RUNNABLE
<1> SUFFICES ASSUME NEW q \in Pids
             PROVE  Letter(u, q) /\ (Still(s, u, q) \/ u.state[q] = PS_RUNNABLE)
  BY DEF Letters
<1>1. /\ u.call[q] = s.call[q] /\ u.message[q] = s.message[q]
      /\ \/ /\ u.state[q] = s.state[q] /\ u.attr[q] = s.attr[q] /\ u.local[q] = s.local[q]
         \/ Fails(s, u, fid, q)
  BY DEF Flushed, Flushing
<1>2. Letter(s, q)
  BY DEF Letters
<1>3. CASE u.state[q] = s.state[q] /\ u.attr[q] = s.attr[q] /\ u.local[q] = s.local[q]
  <2>1. Still(s, u, q)
    BY <1>1, <1>3 DEF Still
  <2> QED BY <1>2, <2>1, StillLetter
<1>4. CASE Fails(s, u, fid, q)
  <2>1. /\ s.state[q] \in WaitStates
        /\ u.state[q] = PS_RUNNABLE /\ u.local[q] = -1 /\ u.state[q] \notin Suspended
    BY <1>4, SuspendedStates DEF Fails
  <2>2. s.call[q] = "preceive" => s.message[q] = Uninit
    BY <1>2, <2>1, SuspendedStates DEF Letter
  <2>3. Letter(u, q)
    BY <1>1, <2>1, <2>2, SuspendedStates, UninitAssumption DEF Letter
  <2> QED BY <2>1, <2>3
<1> QED BY <1>1, <1>3, <1>4

(* A call that blocks. *)
LEMMA BlocksLetters ==
  ASSUME NEW s, Stable(s), NEW u, NEW fid, NEW st, NEW c, NEW m, Letters(s),
         Blocks(s, u, fid, st, c, m)
  PROVE  LET p == s.active_process
             q == s.queues[fid]
         IN
         /\ Letters(u) /\ u.queues = s.queues /\ p \in Pids /\ fid \in Fids
         /\ ~is_queue_free(q) /\ u.state[p] = st /\ u.attr[p] = fid
         /\ \/ st = PS_WAIT_QUEUE_EMPTY /\ is_queue_empty(q)
            \/ st = PS_WAIT_QUEUE_FULL /\ is_queue_full(q)
         /\ \A r \in Pids \ {p} : Still(s, u, r)
<1> DEFINE p == s.active_process
           q == s.queues[fid]
<1>1. /\ p \in Pids /\ s.state \in [Pids -> States] /\ s.attr \in [Pids -> Int]
      /\ s.local \in [Pids -> Int] /\ s.call \in [Pids -> Calls]
      /\ s.message \in [Pids -> Messages \cup {Uninit}]
  BY ActiveTyped
<1>2. /\ fid \in Fids /\ ~is_queue_free(q) /\ u.queues = s.queues
      /\ \/ st = PS_WAIT_QUEUE_EMPTY /\ c = "preceive" /\ m = Uninit /\ is_queue_empty(q)
         \/ st = PS_WAIT_QUEUE_FULL /\ c = "psend" /\ m \in Messages /\ is_queue_full(q)
      /\ u.state = With(s.state, p, st) /\ u.attr = With(s.attr, p, fid)
      /\ u.call = With(s.call, p, c) /\ u.local = With(s.local, p, 0)
      /\ u.message = With(s.message, p, m)
  BY DEF Blocks
<1> HIDE DEF p, q
<1>3. \A r \in Pids : IF r = p
        THEN /\ u.state[r] = st /\ u.attr[r] = fid /\ u.call[r] = c
             /\ u.local[r] = 0 /\ u.message[r] = m
        ELSE /\ u.state[r] = s.state[r] /\ u.attr[r] = s.attr[r] /\ u.call[r] = s.call[r]
             /\ u.local[r] = s.local[r] /\ u.message[r] = s.message[r]
  BY <1>1, <1>2 DEF With
<1>4. Letter(u, p)
  BY <1>1, <1>2, <1>3, SuspendedStates DEF Letter
<1>5. \A r \in Pids \ {p} : Still(s, u, r)
  BY <1>3 DEF Still
<1>6. Letters(u)
  BY <1>4, <1>5, StillLetter DEF Letters
<1> QED BY <1>1, <1>2, <1>3, <1>5, <1>6 DEF p, q

(* A change of a ring alone. *)
LEMMA PutStill ==
  ASSUME NEW s, NEW u, NEW fid, NEW r, Put(s, u, fid, r), NEW q \in Pids
  PROVE  Still(s, u, q)
BY DEF Put, SameTable, SameBlocks, Still
(* Nobody waits on a list that is empty. *)
LEMMA NobodyWaits ==
  ASSUME NEW s, Stable(s), NEW fid \in Fids, NEW st \in WaitStates,
         s.waiting[<<fid, st>>] = <<>>, NEW q \in Pids, s.state[q] = st
  PROVE  s.attr[q] # fid
<1>1. Range(s.waiting[<<fid, st>>]) = WaitingOn(s, {}, fid, st)
  BY DEF Stable, Sound, ListsBut, IsListOf
<1>2. Range(<<>>) = {}
  BY DEF Range
<1> QED BY <1>1, <1>2 DEF WaitingOn, InState

(* A process that does not notice is stuck as long as its queue is alike. *)
LEMMA StillStuck ==
  ASSUME NEW s, NEW u, NEW q \in Pids, Still(s, u, q), u.state[q] \in WaitStates,
         Justified(s), u.queues[s.attr[q]] = s.queues[s.attr[q]]
  PROVE  Stuck(u, q)
<1>1. u.state[q] = s.state[q] /\ u.attr[q] = s.attr[q]
  BY StillWaits
<1>2. Stuck(s, q)
  BY <1>1 DEF Justified, Stuck
<1> QED BY <1>1, <1>2 DEF Stuck, VALID_FID

(* Everybody stuck is justified. *)
LEMMA StuckJustified ==
  ASSUME NEW u, \A q \in Pids : u.state[q] \in WaitStates => Stuck(u, q)
  PROVE  Justified(u)
BY DEF Justified, Stuck

(* A queue nobody waits on may change. *)
LEMMA AloneJustified ==
  ASSUME NEW s, Stable(s), NEW u, NEW fid \in Fids, NEW r, Justified(s),
         u.queues = With(s.queues, fid, r),
         \A q \in Pids : Still(s, u, q) \/ u.state[q] = PS_RUNNABLE,
         \A q \in Pids : u.state[q] \in WaitStates => u.attr[q] # fid
  PROVE  Justified(u)
<1> SUFFICES ASSUME NEW q \in Pids, u.state[q] \in WaitStates
             PROVE  Stuck(u, q)
  BY StuckJustified
<1>1. Still(s, u, q)
  BY SuspendedStates
<1>2. u.state[q] = s.state[q] /\ u.attr[q] = s.attr[q]
  BY <1>1, StillWaits
<1>3. Stuck(s, q)
  BY <1>2 DEF Justified, Stuck
<1>4. s.attr[q] \in Fids /\ s.attr[q] # fid
  BY <1>2, <1>3 DEF Stuck, VALID_FID
<1>5. s.queues \in [Fids -> QueueStructs]
  BY ActiveTyped
<1>6. u.queues[s.attr[q]] = s.queues[s.attr[q]]
  BY <1>4, <1>5 DEF With
<1> QED BY <1>1, <1>6, StillStuck

(* The queue calls wake whom they must. *)
LEMMA QueueJustified ==
  ASSUME NEW s, Stable(s), NEW u, Letters(s), Justified(s), QueueChange(s, u)
  PROVE  Justified(u) /\ Letters(u)
<1>0. /\ \A st \in WaitStates : st \in {PS_WAIT_QUEUE_EMPTY, PS_WAIT_QUEUE_FULL}
      /\ PS_WAIT_QUEUE_EMPTY # PS_WAIT_QUEUE_FULL
      /\ PS_WAIT_QUEUE_EMPTY \in WaitStates /\ PS_WAIT_QUEUE_FULL \in WaitStates
      /\ PS_RUNNABLE \notin WaitStates
  BY SuspendedStates
<1>1. ASSUME NEW fid \in Fids, NEW r, Put(s, u, fid, r),
             \A q \in Pids : s.state[q] \in WaitStates => s.attr[q] # fid
      PROVE  Justified(u) /\ Letters(u)
  <2>1. \A q \in Pids : Still(s, u, q)
    BY <1>1, PutStill
  <2>2. Letters(u)
    BY <2>1, StillLetter DEF Letters
  <2>3. u.state = s.state /\ u.attr = s.attr /\ u.queues = With(s.queues, fid, r)
    BY <1>1 DEF Put, SameTable
  <2>4. \A q \in Pids : u.state[q] \in WaitStates => u.attr[q] # fid
    BY <1>1, <2>3
  <2> QED BY <2>1, <2>2, <2>3, <2>4, AloneJustified
<1>2. ASSUME NEW fid \in Fids, NEW count, NEW allocated, Created(s, u, fid, count, allocated)
      PROVE  Justified(u) /\ Letters(u)
  <2>1. is_queue_free(s.queues[fid]) /\ Put(s, u, fid, NewQueue(s.queues[fid], count, allocated))
    BY <1>2 DEF Created
  <2>2. \A q \in Pids : s.state[q] \in WaitStates => s.attr[q] # fid
    BY <2>1 DEF Justified, VALID_FID
  <2> QED BY <1>1, <2>1, <2>2
<1>3. ASSUME NEW fid \in Fids, NEW m \in Messages, Sent(s, u, fid, m)
      PROVE  Justified(u) /\ Letters(u)
  <2> DEFINE q == s.queues[fid]
  <2>1. /\ ~is_queue_full(q)
        /\ ~is_queue_empty(q) \/ s.waiting[<<fid, PS_WAIT_QUEUE_EMPTY>>] = <<>>
        /\ Put(s, u, fid, Pushed(q, m))
    BY <1>3 DEF Sent
  <2> HIDE DEF q
  <2>2. ASSUME NEW p \in Pids, s.state[p] \in WaitStates, s.attr[p] = fid
        PROVE  FALSE
    <3>1. IF s.state[p] = PS_WAIT_QUEUE_EMPTY THEN is_queue_empty(q) ELSE is_queue_full(q)
      BY <2>2 DEF Justified, q
    <3> QED BY <1>0, <2>1, <2>2, <3>1, NobodyWaits
  <2> QED BY <1>1, <2>1, <2>2
<1>4. ASSUME NEW fid \in Fids, Received(s, u, fid)
      PROVE  Justified(u) /\ Letters(u)
  <2> DEFINE q == s.queues[fid]
  <2>1. /\ ~is_queue_empty(q)
        /\ ~is_queue_full(q) \/ s.waiting[<<fid, PS_WAIT_QUEUE_FULL>>] = <<>>
        /\ Put(s, u, fid, Popped(q))
    BY <1>4 DEF Received, is_queue_full
  <2> HIDE DEF q
  <2>2. ASSUME NEW p \in Pids, s.state[p] \in WaitStates, s.attr[p] = fid
        PROVE  FALSE
    <3>1. IF s.state[p] = PS_WAIT_QUEUE_EMPTY THEN is_queue_empty(q) ELSE is_queue_full(q)
      BY <2>2 DEF Justified, q
    <3> QED BY <1>0, <2>1, <2>2, <3>1, NobodyWaits
  <2> QED BY <1>1, <2>1, <2>2
<1>5. ASSUME NEW fid \in Fids, NEW r, Flushed(s, u, fid, r)
      PROVE  Justified(u) /\ Letters(u)
  <2>1. Letters(u) /\ \A q \in Pids : Still(s, u, q) \/ u.state[q] = PS_RUNNABLE
    BY <1>5, FlushedLetters
  <2>2. /\ u.queues = With(s.queues, fid, r)
        /\ \A q \in Pids : u.state[q] \in WaitStates => u.attr[q] # fid
    BY <1>5 DEF Flushed, Emptied
  <2> QED BY <2>1, <2>2, AloneJustified
<1>6. ASSUME NEW fid \in Fids, NEW st, NEW c, NEW m, Blocks(s, u, fid, st, c, m)
      PROVE  Justified(u) /\ Letters(u)
  <2> DEFINE p == s.active_process
  <2>1. /\ Letters(u) /\ u.queues = s.queues /\ p \in Pids
        /\ ~is_queue_free(s.queues[fid]) /\ u.state[p] = st /\ u.attr[p] = fid
        /\ \/ st = PS_WAIT_QUEUE_EMPTY /\ is_queue_empty(s.queues[fid])
           \/ st = PS_WAIT_QUEUE_FULL /\ is_queue_full(s.queues[fid])
        /\ \A q \in Pids \ {p} : Still(s, u, q)
    BY <1>6, BlocksLetters
  <2> HIDE DEF p
  <2>2. Stuck(u, p)
    BY <1>0, <2>1 DEF Stuck, VALID_FID
  <2>3. \A q \in Pids \ {p} : u.state[q] \in WaitStates => Stuck(u, q)
    BY <2>1, StillStuck
  <2> QED BY <2>1, <2>2, <2>3, StuckJustified
<1>7. ASSUME NEW fid \in Fids, NEW m \in Messages, NEW p \in Pids, Handed(s, u, fid, p, m)
      PROVE  Justified(u) /\ Letters(u)
  <2>1. /\ Letters(u) /\ u.queues = s.queues /\ u.state[p] = PS_RUNNABLE
        /\ \A q \in Pids \ {p} : Still(s, u, q)
    BY <1>7, HandedLetters
  <2>2. \A q \in Pids : u.state[q] \in WaitStates => Stuck(u, q)
    BY <1>0, <2>1, StillStuck
  <2> QED BY <2>1, <2>2, StuckJustified
<1>8. ASSUME NEW fid \in Fids, NEW p \in Pids, Refilled(s, u, fid, p)
      PROVE  Justified(u) /\ Letters(u)
  <2> DEFINE q == s.queues[fid]
             r == Pushed(Popped(q), s.message[p])
  <2>1. /\ Letters(u) /\ u.queues = With(s.queues, fid, r)
        /\ u.state[p] = PS_RUNNABLE
        /\ \A x \in Pids \ {p} : Still(s, u, x)
    BY <1>8, RefilledLetters
  <2>2. s.queues \in [Fids -> QueueStructs] /\ q \in QueueStructs
    BY ActiveTyped
  <2>3. ~is_queue_empty(q) /\ ~is_queue_free(q) /\ is_queue_full(q)
    BY <1>8 DEF Refilled
  <2>4. r.size = q.size /\ r.capacity = q.capacity
    <3> HIDE DEF q
    <3>1. q.size \in Int
      BY <2>2 DEF QueueStructs
    <3> QED BY <2>2, <3>1 DEF Pushed, Popped, QueueStructs
  <2> HIDE DEF r
  <2>5. \A f \in Fids : u.queues[f] = IF f = fid THEN r ELSE s.queues[f]
    BY <2>1, <2>2 DEF With
  <2>6. ASSUME NEW x \in Pids, u.state[x] \in WaitStates
        PROVE  Stuck(u, x)
    <3>1. x # p /\ Still(s, u, x)
      BY <1>0, <2>1, <2>6
    <3>2. u.state[x] = s.state[x] /\ u.attr[x] = s.attr[x]
      BY <2>6, <3>1, StillWaits
    <3>3. Stuck(s, x)
      BY <2>6, <3>2 DEF Justified, Stuck
    <3>4. CASE s.attr[x] = fid
      <4>1. u.queues[u.attr[x]] = r
        BY <2>5, <3>2, <3>4
      <4>2. s.state[x] # PS_WAIT_QUEUE_EMPTY
        BY <2>3, <3>3, <3>4 DEF Stuck
      <4> QED BY <2>3, <2>4, <3>2, <3>4, <4>1, <4>2
               DEF Stuck, VALID_FID, is_queue_full, is_queue_free
    <3>5. CASE s.attr[x] # fid
      <4>1. s.attr[x] \in Fids
        BY <3>3 DEF Stuck, VALID_FID
      <4>2. u.queues[s.attr[x]] = s.queues[s.attr[x]]
        BY <2>5, <3>5, <4>1
      <4> QED BY <2>6, <3>1, <4>2, StillStuck
    <3> QED BY <3>4, <3>5
  <2> QED BY <2>1, <2>6, StuckJustified
<1>9. CASE \E fid \in Fids, count \in 1 .. MAXCOUNT, allocated \in BOOLEAN :
             Created(s, u, fid, count, allocated)
  BY <1>2, <1>9
<1> QED BY <1>3, <1>4, <1>5, <1>6, <1>7, <1>8, <1>9 DEF QueueChange
-----------------------------------------------------------------------------
(* Rings. *)

(* Remainders of the indices of a ring of c slots. *)
LEMMA ModSmall ==
  ASSUME NEW c \in Nat, c > 0, NEW x \in Int
  PROVE  /\ x \in 0 .. c - 1 => x % c = x
         /\ x \in c .. 2 * c - 1 => x % c = x - c
         /\ x \in 2 * c .. 3 * c - 1 => x % c = x - 2 * c
OBVIOUS

(* push_message fills the slot behind the last one. *)
LEMMA PushedRing ==
  ASSUME NEW q \in QueueStructs, ~is_queue_free(q), RingOK(q), Ring(q),
         ~is_queue_full(q), NEW m \in Messages
  PROVE  RingOK(Pushed(q, m)) /\ Ring(Pushed(q, m))
<1> DEFINE c == q.capacity
           f == q.front
           n == q.size
           rear == (q.rear + 1) % c
           msgs == [q.messages EXCEPT ![rear] = m]
           r == Pushed(q, m)
<1>1. /\ c \in Nat /\ c > 0 /\ f \in 0 .. c - 1 /\ q.rear \in 0 .. c - 1 /\ n \in 0 .. c - 1
      /\ DOMAIN q.messages = 0 .. c - 1 /\ q.rear \in Int
  BY SizesAssumption DEF QueueStructs, RingOK, is_queue_free, is_queue_full
<1>2. /\ q.rear = (f + n + c - 1) % c
      /\ \A i \in 1 .. n : q.messages[(f + i - 1) % c] \in Messages
  BY DEF Ring, Contents
<1>3. /\ r.front = f /\ r.rear = rear /\ r.size = n + 1 /\ r.capacity = c
      /\ r.messages = msgs
  BY DEF Pushed, QueueStructs
<1> HIDE DEF r, msgs, rear, c, f, n
<1>4. rear \in 0 .. c - 1 /\ DOMAIN msgs = 0 .. c - 1
  BY <1>1, ModRange DEF rear, msgs
<1>5. rear = (f + (n + 1) + c - 1) % c /\ rear = (f + (n + 1) - 1) % c
  <2>1. q.rear = IF f + n = 0 THEN c - 1 ELSE IF f + n - 1 < c THEN f + n - 1
                 ELSE f + n - 1 - c
    BY <1>1, <1>2, ModSmall
  <2>2. rear = IF f + n < c THEN f + n ELSE f + n - c
    BY <1>1, <2>1, ModSmall DEF rear
  <2>3. (f + n + c) % c = IF f + n < c THEN f + n ELSE f + n - c
    BY <1>1, ModSmall
  <2>4. (f + n) % c = IF f + n < c THEN f + n ELSE f + n - c
    BY <1>1, ModSmall
  <2>5. f + (n + 1) + c - 1 = f + n + c /\ f + (n + 1) - 1 = f + n
    BY <1>1
  <2> QED BY <2>2, <2>3, <2>4, <2>5
<1>6. ASSUME NEW i \in 1 .. n + 1
      PROVE  msgs[(f + i - 1) % c] \in Messages
  <2>1. (f + i - 1) % c \in 0 .. c - 1
    BY <1>1, ModRange
  <2>2. CASE i = n + 1
    BY <1>1, <1>4, <1>5, <2>2 DEF msgs
  <2>3. CASE i \in 1 .. n
    BY <1>1, <1>2, <2>1, <2>3 DEF msgs
  <2> QED BY <1>1, <2>2, <2>3
<1>7. RingOK(r)
  BY <1>1, <1>3, <1>4 DEF RingOK
<1>8. Ring(r)
  BY <1>1, <1>3, <1>5, <1>6 DEF Ring, Contents
<1> QED BY <1>7, <1>8 DEF r

(* pop_message frees the first slot. *)
LEMMA PoppedRing ==
  ASSUME NEW q \in QueueStructs, ~is_queue_free(q), RingOK(q), Ring(q), ~is_queue_empty(q)
  PROVE  /\ RingOK(Popped(q)) /\ Ring(Popped(q))
         /\ Popped(q) \in QueueStructs /\ ~is_queue_free(Popped(q))
         /\ ~is_queue_full(Popped(q))
<1> DEFINE c == q.capacity
           f == q.front
           n == q.size
           front == (f + 1) % c
           r == Popped(q)
<1>1. /\ c \in Nat /\ c > 0 /\ f \in 0 .. c - 1 /\ q.rear \in 0 .. c - 1 /\ n \in 1 .. c
      /\ DOMAIN q.messages = 0 .. c - 1 /\ q.rear \in Int /\ q.messages \in MessageArrays
      /\ c \in 0 .. MAXCOUNT
  BY SizesAssumption DEF QueueStructs, RingOK, is_queue_free, is_queue_empty
<1>2. /\ q.rear = (f + n + c - 1) % c
      /\ \A i \in 1 .. n : q.messages[(f + i - 1) % c] \in Messages
  BY DEF Ring, Contents
<1>3. /\ r.front = front /\ r.rear = q.rear /\ r.size = n - 1 /\ r.capacity = c
      /\ r.messages = q.messages
      /\ r = [q EXCEPT !.front = front, !.size = n - 1]
  BY DEF Popped, QueueStructs
<1> HIDE DEF r, front, c, f, n
<1>4. front \in 0 .. c - 1
  BY <1>1, ModRange DEF front
<1>5. q.rear = (front + (n - 1) + c - 1) % c
  <2>1. front = IF f + 1 = c THEN 0 ELSE f + 1
    BY <1>1, ModSmall DEF front
  <2>2. (f + n + c - 1) % c = IF f + n - 1 < c THEN f + n - 1 ELSE f + n - 1 - c
    BY <1>1, ModSmall
  <2>3. CASE f + 1 = c
    <3>1. front + (n - 1) + c - 1 = n - 2 + c /\ f + n - 1 = c + n - 2
      BY <1>1, <2>1, <2>3
    <3> QED BY <1>1, <1>2, <2>2, <3>1, ModSmall
  <2>4. CASE f + 1 # c
    <3>1. front + (n - 1) + c - 1 = f + n + c - 1
      BY <1>1, <2>1, <2>4
    <3> QED BY <1>2, <3>1
  <2> QED BY <2>3, <2>4
<1>6. ASSUME NEW i \in 1 .. n - 1
      PROVE  q.messages[(front + i - 1) % c] \in Messages
  <2>1. front = IF f + 1 = c THEN 0 ELSE f + 1
    BY <1>1, ModSmall DEF front
  <2>2. (front + i - 1) % c = (f + (i + 1) - 1) % c
    <3>1. CASE f + 1 = c
      <4>1. front + i - 1 = i - 1 /\ f + (i + 1) - 1 = c + i - 1
        BY <1>1, <2>1, <3>1
      <4>2. (i - 1) % c = i - 1 /\ (c + i - 1) % c = i - 1
        BY <1>1, ModSmall
      <4> QED BY <4>1, <4>2
    <3>2. CASE f + 1 # c
      <4>1. front + i - 1 = f + (i + 1) - 1
        BY <1>1, <2>1, <3>2
      <4> QED BY <4>1
    <3> QED BY <3>1, <3>2
  <2>3. i + 1 \in 1 .. n
    BY <1>1
  <2> QED BY <1>2, <2>2, <2>3
<1>7. RingOK(r) /\ ~is_queue_free(r) /\ ~is_queue_full(r)
  BY <1>1, <1>3, <1>4 DEF RingOK, is_queue_free, is_queue_full
<1>8. Ring(r)
  BY <1>1, <1>3, <1>5, <1>6 DEF Ring, Contents
<1>9. r \in QueueStructs
  <2> DEFINE size == n - 1
  <2>1. front \in Nat /\ size \in Int /\ r = [q EXCEPT !.front = front, !.size = size]
    BY <1>1, <1>3, <1>4
  <2> HIDE DEF size
  <2> QED BY <2>1 DEF QueueStructs
<1> QED BY <1>7, <1>8, <1>9 DEF r

(* A ring pcreate, preset or pdelete leaves is empty. *)
LEMMA EmptyRing ==
  ASSUME NEW c \in Nat, c > 0, NEW r, r.front = 0, r.size = 0, r.rear = c - 1, r.capacity = c
  PROVE  Ring(r)
<1>1. (0 + 0 + c - 1) % c = c - 1
  BY ModSmall
<1> QED BY <1>1 DEF Ring
(* Every ring but fid is as it was. *)
LEMMA OneRing ==
  ASSUME NEW s, Stable(s), NEW u, NEW fid \in Fids, NEW r,
         u.queues = With(s.queues, fid, r), Rings(s), Ring(r)
  PROVE  Rings(u)
<1>1. s.queues \in [Fids -> QueueStructs]
  BY ActiveTyped
<1>2. \A f \in Fids : u.queues[f] = IF f = fid THEN r ELSE s.queues[f]
  BY <1>1 DEF With
<1> QED BY <1>2 DEF Rings

(* The queue calls keep the rings, if mem_alloc finds room. *)
LEMMA QueueRings ==
  ASSUME NEW s, Stable(s), NEW u, Letters(s), SafeRings(s), Rings(s), QueueChange(s, u),
         ~MemAllocMayFail
  PROVE  Rings(u)
<1>0. \A fid \in Fids : /\ s.queues[fid] \in QueueStructs
                        /\ RingOK(s.queues[fid]) /\ Ring(s.queues[fid])
  <2>1. s.queues \in [Fids -> QueueStructs]
    BY ActiveTyped
  <2> QED BY <2>1 DEF SafeRings, Rings
<1>1. ASSUME NEW fid \in Fids, NEW count \in 1 .. MAXCOUNT, NEW allocated \in BOOLEAN,
             Created(s, u, fid, count, allocated), allocated \/ MemAllocMayFail
      PROVE  Rings(u)
  <2> DEFINE r == NewQueue(s.queues[fid], count, allocated)
  <2>1. u.queues = With(s.queues, fid, r)
    BY <1>1 DEF Created, Put
  <2>2. count \in Nat /\ count > 0
    BY SizesAssumption
  <2>3. r.front = 0 /\ r.size = 0 /\ r.rear = count - 1 /\ r.capacity = count
    BY <1>1 DEF NewQueue
  <2> HIDE DEF r
  <2>4. Ring(r)
    BY <2>2, <2>3, EmptyRing
  <2> QED BY <2>1, <2>4, OneRing
<1>2. ASSUME NEW fid \in Fids, Flushed(s, u, fid, ResetQueue(s.queues[fid]))
      PROVE  Rings(u)
  <2> DEFINE q == s.queues[fid]
             r == ResetQueue(q)
  <2>1. u.queues = With(s.queues, fid, r) /\ q.capacity # 0 /\ q \in QueueStructs
    BY <1>0, <1>2 DEF Flushed, is_queue_free
  <2> HIDE DEF q
  <2>2. q.capacity \in Nat /\ q.capacity > 0
    BY <2>1, SizesAssumption DEF QueueStructs
  <2>3. r.front = 0 /\ r.size = 0 /\ r.rear = q.capacity - 1 /\ r.capacity = q.capacity
    BY <2>1 DEF ResetQueue, QueueStructs
  <2> HIDE DEF r
  <2>4. Ring(r)
    BY <2>2, <2>3, EmptyRing
  <2> QED BY <2>1, <2>4, OneRing
<1>3. ASSUME NEW fid \in Fids, Flushed(s, u, fid, DeletedQueue(s.queues[fid]))
      PROVE  Rings(u)
  <2> DEFINE q == s.queues[fid]
             r == DeletedQueue(q)
  <2>1. u.queues = With(s.queues, fid, r) /\ q \in QueueStructs
    BY <1>0, <1>3 DEF Flushed
  <2> HIDE DEF q
  <2>2. r.capacity = 0
    BY <2>1 DEF DeletedQueue, QueueStructs
  <2> HIDE DEF r
  <2>3. Ring(r)
    BY <2>2 DEF Ring, is_queue_free
  <2> QED BY <2>1, <2>3, OneRing
<1>4. ASSUME NEW fid \in Fids, NEW st, NEW c, NEW m, Blocks(s, u, fid, st, c, m)
      PROVE  Rings(u)
  BY <1>4 DEF Blocks, Rings
<1>5. ASSUME NEW fid \in Fids, NEW m \in Messages, Sent(s, u, fid, m)
      PROVE  Rings(u)
  <2> DEFINE q == s.queues[fid]
  <2>1. u.queues = With(s.queues, fid, Pushed(q, m)) /\ ~is_queue_free(q) /\ ~is_queue_full(q)
    BY <1>5 DEF Sent, Put
  <2>2. q \in QueueStructs /\ RingOK(q) /\ Ring(q)
    BY <1>0
  <2> HIDE DEF q
  <2>3. Ring(Pushed(q, m))
    BY <2>1, <2>2, PushedRing
  <2> QED BY <2>1, <2>3, OneRing
<1>6. ASSUME NEW fid \in Fids, NEW m \in Messages, NEW p \in Pids, Handed(s, u, fid, p, m)
      PROVE  Rings(u)
  <2>1. u.queues = s.queues
    BY <1>6, HandedLetters
  <2> QED BY <2>1 DEF Rings
<1>7. ASSUME NEW fid \in Fids, Received(s, u, fid)
      PROVE  Rings(u)
  <2> DEFINE q == s.queues[fid]
  <2>1. u.queues = With(s.queues, fid, Popped(q)) /\ ~is_queue_free(q) /\ ~is_queue_empty(q)
    BY <1>7 DEF Received, Put
  <2>2. q \in QueueStructs /\ RingOK(q) /\ Ring(q)
    BY <1>0
  <2> HIDE DEF q
  <2>3. Ring(Popped(q))
    BY <2>1, <2>2, PoppedRing
  <2> QED BY <2>1, <2>3, OneRing
<1>8. ASSUME NEW fid \in Fids, NEW p \in Pids, Refilled(s, u, fid, p)
      PROVE  Rings(u)
  <2> DEFINE q == s.queues[fid]
             m == s.message[p]
             r == Popped(q)
  <2>1. m \in Messages /\ u.queues = With(s.queues, fid, Pushed(r, m))
    BY <1>8, RefilledLetters
  <2>2. ~is_queue_free(q) /\ ~is_queue_empty(q)
    BY <1>8 DEF Refilled
  <2>3. q \in QueueStructs /\ RingOK(q) /\ Ring(q)
    BY <1>0
  <2> HIDE DEF q, m
  <2>4. /\ RingOK(r) /\ Ring(r) /\ r \in QueueStructs
        /\ ~is_queue_free(r) /\ ~is_queue_full(r)
    BY <2>2, <2>3, PoppedRing
  <2> HIDE DEF r
  <2>5. Ring(Pushed(r, m))
    BY <2>1, <2>4, PushedRing
  <2> QED BY <2>1, <2>5, OneRing
<1>9. CASE \E fid \in Fids, count \in 1 .. MAXCOUNT, allocated \in BOOLEAN :
             Created(s, u, fid, count, allocated) /\ (allocated \/ MemAllocMayFail)
  BY <1>1, <1>9
<1> QED BY <1>2, <1>3, <1>4, <1>5, <1>6, <1>7, <1>8, <1>9 DEF QueueChange

-----------------------------------------------------------------------------
(* Steps. *)

(* Every change, then the scheduler. *)
LEMMA ChangePost ==
  ASSUME NEW s, Stable(s), NEW u, NEW t, Scheduled(s, u, t), Change(s, u),
         Post(s), ~MemAllocMayFail => SafeRings(s)
  PROVE  Post(t)
<1>1. ASSUME QueueChange(s, u)
      PROVE  Post(u)
  <2>1. Justified(u) /\ Letters(u)
    BY <1>1, QueueJustified DEF Post
  <2>2. ~MemAllocMayFail => Rings(u)
    BY <1>1, QueueRings DEF Post
  <2> QED BY <2>1, <2>2 DEF Post
<1>2. ASSUME ProcessChange(s, u) \/ Left(s, u, s.active_process) \/ Ticked(s, u)
      PROVE  Post(u)
  <2>1. Letters(s)
    BY DEF Post
  <2>2. Unnoticed(s, u)
    BY <1>2, <2>1, ProcessUnnoticed
  <2> QED BY <2>2, StillPost
<1>3. Post(u)
  BY <1>1, <1>2 DEF Change
<1>4. Quiet(u, t)
  BY ScheduledQuiet
<1> QED BY <1>3, <1>4, QuietUnnoticed, StillPost

(* Every step keeps Post. *)
LEMMA StepPost ==
  ASSUME KernelInv, Post(K), Next
  PROVE  Post(K')
<1>1. PICK u : Scheduled(K, u, K') /\ Change(K, u)
  BY StepKinds
<1>2. Stable(K) /\ (~MemAllocMayFail => SafeRings(K))
  BY DEF KernelInv
<1> QED BY <1>1, <1>2, ChangePost

(* The first state: the queue of the keyboard and the first user process. *)
LEMMA BootPost == Post(Boot)
<1> DEFINE s == setup_scheduler
           t == pcreate(s, BUFFER_SIZE, TRUE)
<1>1. start_user_background(t, 1, TRUE) = Boot
  BY DEF Boot
<1>2. Post(s)
  <2>1. /\ \A p \in Pids : /\ s.state[p] = IF p = IDLE THEN PS_RUNNING ELSE PS_DEAD
                           /\ s.call[p] = "user"
        /\ \A fid \in Fids : s.queues[fid].capacity = 0
    BY IdlePid DEF setup_scheduler, FreeQueue
  <2> HIDE DEF s
  <2>2. \A p \in Pids : Clear(s, p)
    BY <2>1, SuspendedStates DEF Clear
  <2>3. Letters(s)
    BY <2>2, ClearLetter DEF Letters
  <2>4. Justified(s)
    BY <2>2 DEF Justified, Clear
  <2>5. Rings(s)
    BY <2>1 DEF Rings, Ring, is_queue_free
  <2> QED BY <2>3, <2>4, <2>5 DEF Post
<1>3. Stable(s) /\ s.dead # <<>> /\ SafeRings(s) /\ FreeFids(s) # {}
  <2>1. 0 \in FreeFids(s)
    BY SizesAssumption DEF FreeFids, Fids, setup_scheduler, FreeQueue, is_queue_free
  <2> QED BY <2>1, SetupStable, SetupTyped
<1> HIDE DEF s
<1>4. PICK u, fid : Scheduled(s, u, t) /\ Created(s, u, fid, BUFFER_SIZE, TRUE)
  <2>1. BUFFER_SIZE \in 1 .. MAXCOUNT
    BY InputsAssumption
  <2> QED BY <1>3, <2>1, PcreateKind
<1>5. fid \in Fids /\ BUFFER_SIZE \in 1 .. MAXCOUNT /\ u.dead = s.dead
  BY <1>4 DEF Created, Put, SameLists
<1>6. Change(s, u)
  BY <1>4, <1>5 DEF Change, QueueChange
<1>7. Post(t) /\ Stable(t) /\ t.dead # <<>>
  <2>1. Post(t)
    BY <1>2, <1>3, <1>4, <1>6, ChangePost
  <2>2. Stable(t) /\ Quiet(u, t)
    BY <1>4, ScheduledQuiet
  <2> QED BY <1>3, <1>5, <2>1, <2>2 DEF Quiet
<1> HIDE DEF t
<1>8. Started(t, start_user_background(t, 1, TRUE), Head(t.dead), 1, TRUE)
  <2>1. Sound(t) /\ 1 \in Int /\ TRUE \in BOOLEAN
    BY <1>7 DEF Stable
  <2> QED BY <1>7, <2>1, StartFields, Zenon
<1>9. ProcessChange(t, Boot)
  <2>1. Head(t.dead) \in Pids
    BY <1>8 DEF Started
  <2>2. Started(t, Boot, Head(t.dead), 1, TRUE)
    BY <1>1, <1>8
  <2> HIDE DEF Boot
  <2>3. \E p \in Pids, n \in Int, allocated \in BOOLEAN :
          Started(t, Boot, p, n, allocated) /\ (allocated \/ StackAllocMayFail)
    <3>1. 1 \in Int /\ TRUE \in BOOLEAN /\ (TRUE \/ StackAllocMayFail)
      OBVIOUS
    <3> QED BY <2>1, <2>2, <3>1, Zenon
  <2> QED BY <2>3 DEF ProcessChange
<1> HIDE DEF Boot
<1>10. Unnoticed(t, Boot)
  BY <1>7, <1>9, ProcessUnnoticed DEF Post
<1> QED BY <1>7, <1>10, StillPost
-----------------------------------------------------------------------------
(* Theorems. *)

(* Post is kept by every step of the kernel, with KernelInv. *)
THEOREM PostInvariant == Spec => [](KernelInv /\ Post(K))
<1>1. Init => Post(K)
  BY InitState, BootPost
<1>2. KernelInv /\ Post(K) /\ [Next]_vars => Post(K)'
  <2> SUFFICES ASSUME KernelInv, Post(K), [Next]_vars
               PROVE  Post(K)'
    OBVIOUS
  <2>1. ASSUME Next
        PROVE  Post(K')
    BY <2>1, StepPost
  <2>2. ASSUME UNCHANGED vars
        PROVE  Post(K')
    <3>1. K' = K
      BY <2>2 DEF K, vars
    <3> QED BY <3>1
  <2>3. Post(K')
    BY <2>1, <2>2
  <2> QED BY <2>3 DEF Post, Letters, Letter, Justified, VALID_FID, Rings, Ring, Contents
<1> QED BY <1>1, <1>2, KernelInvariant, PTL DEF Spec

(* Receivers wait only on an empty queue and senders only on a full one,   *)
(* and nobody waits on a deleted queue: psend, preceive, preset, pdelete   *)
(* and stop wake whom they must, even when mem_alloc fails.                *)
THEOREM NobodyWaitsInVain == Spec => []WaitersJustified
<1>1. Post(K) => WaitersJustified
  BY DEF Post, WaitersJustified
<1> QED BY <1>1, PostInvariant, PTL

(* A preceive that was suspended returns 0 exactly when a sender handed it *)
(* a message, whatever was sent, reset, deleted or killed meanwhile.       *)
THEOREM ReceiversToldTheTruth == Spec => []ReceiveTruthful
<1>1. Post(K) => ReceiveTruthful
  BY DEF Post, Letters, Letter, ReceiveTruthful, Truthful
<1> QED BY <1>1, PostInvariant, PTL

(* A list without repetition is as long as the set it holds is large. *)
LEMMA ListCardinality ==
  ASSUME NEW S, NEW list \in Seq(S), IsListOf(list, S)
  PROVE  Cardinality(S) = Len(list)
<1> DEFINE n == Len(list)
<1>1. n \in Nat /\ list \in [1 .. n -> S] /\ DOMAIN list = 1 .. n
  OBVIOUS
<1>2. list \in Injection(1 .. n, S)
  BY <1>1 DEF IsListOf, IsInjective, Injection
<1>3. list \in Surjection(1 .. n, S)
  BY <1>1 DEF IsListOf, Range, Surjection
<1> HIDE DEF n
<1>4. ExistsBijection(1 .. n, S)
  BY <1>2, <1>3 DEF Bijection, ExistsBijection
<1>5. Cardinality(S) = n
  BY <1>1, <1>4, FS_CountingElements
<1> QED BY <1>5 DEF n

(* The processes blocked on a queue are those on its list. *)
LEMMA BlockedLength ==
  ASSUME KernelInv, NEW fid \in Fids, NEW st \in WaitStates
  PROVE  /\ Blocked(fid, st) = Len(K.waiting[<<fid, st>>])
         /\ Len(K.waiting[<<fid, st>>]) \in Nat
         /\ Len(K.waiting[<<fid, st>>]) # 0
              => \E p \in Pids : K.state[p] = st /\ K.attr[p] = fid
<1> DEFINE S == {p \in Pids : K.state[p] = st /\ K.attr[p] = fid}
           list == K.waiting[<<fid, st>>]
<1>1. Sound(K) /\ K \in KernelStates
  BY DEF KernelInv, Stable, Sound
<1>2. list \in Seq(Pids)
  BY <1>1 DEF KernelStates
<1>3. IsListOf(list, WaitingOn(K, {}, fid, st)) /\ WaitingOn(K, {}, fid, st) = S
  BY <1>1 DEF Sound, ListsBut, WaitingOn, InState
<1>4. Blocked(fid, st) = Cardinality(S)
  BY DEF Blocked, K
<1> HIDE DEF S, list
<1>5. Range(list) = S
  BY <1>3 DEF IsListOf
<1>6. list \in Seq(S)
  BY <1>2, <1>5 DEF Range
<1>7. Cardinality(S) = Len(list) /\ Len(list) \in Nat
  BY <1>2, <1>3, <1>6, ListCardinality
<1>8. Len(list) # 0 => \E p \in Pids : K.state[p] = st /\ K.attr[p] = fid
  <2>1. ASSUME Len(list) # 0
        PROVE  list[1] \in S
    BY <1>2, <1>5, <2>1 DEF Range
  <2> QED BY <2>1 DEF S
<1> QED BY <1>4, <1>7, <1>8 DEF list

(* While mem_alloc finds room, front, rear and size of a ring name the     *)
(* same written slots; and pcount returns the messages plus the blocked    *)
(* senders, or minus the blocked receivers, as queues.h documents.         *)
THEOREM QueuesStayCounted ==
  ASSUME ~MemAllocMayFail
  PROVE  Spec => []QueuesCounted
<1>1. KernelInv /\ Post(K) => QueuesCounted
  <2> SUFFICES ASSUME KernelInv, Post(K)
               PROVE  QueuesCounted
    OBVIOUS
  <2>1. RingConsistent
    BY DEF Post, Rings, RingConsistent, K
  <2>2. ASSUME NEW fid \in Fids, ~is_queue_free(queues[fid])
        PROVE  pcount(K, fid) = IF Blocked(fid, PS_WAIT_QUEUE_EMPTY) > 0
                                THEN -Blocked(fid, PS_WAIT_QUEUE_EMPTY)
                                ELSE queues[fid].size + Blocked(fid, PS_WAIT_QUEUE_FULL)
    <3> DEFINE q == K.queues[fid]
               e == Len(K.waiting[<<fid, PS_WAIT_QUEUE_EMPTY>>])
               f == Len(K.waiting[<<fid, PS_WAIT_QUEUE_FULL>>])
    <3>1. /\ Blocked(fid, PS_WAIT_QUEUE_EMPTY) = e /\ e \in Nat
          /\ Blocked(fid, PS_WAIT_QUEUE_FULL) = f /\ f \in Nat
      BY TwoWaitStates, BlockedLength
    <3>2. queues[fid] = q /\ q \in QueueStructs
      BY DEF KernelInv, Stable, Sound, KernelStates, K
    <3>3. e # 0 => is_queue_empty(q)
      <4> SUFFICES ASSUME e # 0
                   PROVE  is_queue_empty(q)
        OBVIOUS
      <4>1. PICK p \in Pids : K.state[p] = PS_WAIT_QUEUE_EMPTY /\ K.attr[p] = fid
        BY TwoWaitStates, BlockedLength
      <4> QED BY <4>1, TwoWaitStates DEF Post, Justified
    <3>4. f # 0 => is_queue_full(q)
      <4> SUFFICES ASSUME f # 0
                   PROVE  is_queue_full(q)
        OBVIOUS
      <4>1. PICK p \in Pids : K.state[p] = PS_WAIT_QUEUE_FULL /\ K.attr[p] = fid
        BY TwoWaitStates, BlockedLength
      <4> QED BY <4>1, SuspendedStates DEF Post, Justified
    <3>5. pcount(K, fid) = IF is_queue_empty(q) THEN -e ELSE q.size + f
      BY DEF pcount
    <3> HIDE DEF q, e, f
    <3>6. q.size \in Int /\ q.capacity \in Int /\ q.capacity # 0
      BY <2>2, <3>2 DEF QueueStructs, is_queue_free
    <3> QED BY <3>1, <3>2, <3>3, <3>4, <3>5, <3>6 DEF is_queue_empty, is_queue_full
  <2>3. PcountDocumented
    BY <2>2 DEF PcountDocumented
  <2> QED BY <2>1, <2>3 DEF QueuesCounted
<1> QED BY <1>1, PostInvariant, PTL

-----------------------------------------------------------------------------
(***************************************************************************)
(* The order of the lists, and who runs.                                   *)
(*                                                                         *)
(* Sorted is inductive.  A change and the scheduler behind it only take    *)
(* processes out of a list, or put them in it where PrioSlot and ClockSlot *)
(* say: Serves states what that does to a list ordered by priority, and    *)
(* Ordered what a change does to all lists.  Because the runnable list is  *)
(* sorted whenever the scheduler reads its head, the process it elects has *)
(* the highest priority.                                                   *)
(***************************************************************************)

-----------------------------------------------------------------------------
(* Lists. *)

(* No process passes another when new replaces old. *)
Thinned(old, new) == \A p, q \in Pids : Precedes(new, p, q) => Precedes(old, p, q)

(* NoOvertakingIn for priorities before and after. *)
InOrder(old, new, before, after) ==
  \A p, q \in Pids :
    (/\ Precedes(new, p, q) /\ after[p] = after[q]
     /\ q \in Range(old) /\ after[q] = before[q])
    => Precedes(old, p, q) /\ after[p] = before[p]

(* A sorted list stays sorted, and nobody in it is overtaken. *)
Serves(old, new, before, after) ==
  Falling(old, before) => Falling(new, after) /\ InOrder(old, new, before, after)

(* The priorities of the processes of a list did not change. *)
SameKeys(list, before, after) == \A q \in Range(list) : after[q] = before[q]

(* Both processes of a pair in order are on the list. *)
LEMMA PrecedesRange ==
  ASSUME NEW list \in Seq(Pids), NEW p, NEW q, Precedes(list, p, q)
  PROVE  p \in Range(list) /\ q \in Range(list)
BY DEF Precedes, Range

(* The two orders, in terms of Precedes. *)
LEMMA FallingPairs ==
  ASSUME NEW list \in Seq(Pids), NEW key
  PROVE  /\ Falling(list, key)
              <=> \A p, q \in Pids : Precedes(list, p, q) => key[p] >= key[q]
         /\ Rising(list, key)
              <=> \A p, q \in Pids : Precedes(list, p, q) => key[p] <= key[q]
<1>1. \A i \in 1 .. Len(list) : list[i] \in Pids
  OBVIOUS
<1> QED BY <1>1 DEF Falling, Rising, Precedes

(* A list with fewer processes is in the same order. *)
LEMMA ThinnedOrder ==
  ASSUME NEW old \in Seq(Pids), NEW new \in Seq(Pids), Thinned(old, new), NEW key
  PROVE  /\ Falling(old, key) => Falling(new, key)
         /\ Rising(old, key) => Rising(new, key)
         /\ Serves(old, new, key, key)
<1>1. /\ Falling(old, key) => Falling(new, key)
      /\ Rising(old, key) => Rising(new, key)
  BY FallingPairs DEF Thinned
<1> QED BY <1>1 DEF Serves, InOrder, Thinned

(* A change of priority outside the list. *)
LEMMA SameKeysOrder ==
  ASSUME NEW list \in Seq(Pids), NEW before, NEW after, SameKeys(list, before, after)
  PROVE  /\ Falling(list, before) <=> Falling(list, after)
         /\ Rising(list, before) <=> Rising(list, after)
         /\ Serves(list, list, before, after)
<1>1. \A i \in 1 .. Len(list) : after[list[i]] = before[list[i]]
  BY DEF SameKeys, Range
<1>2. /\ Falling(list, before) <=> Falling(list, after)
      /\ Rising(list, before) <=> Rising(list, after)
  BY <1>1 DEF Falling, Rising
<1>3. InOrder(list, list, before, after)
  BY PrecedesRange DEF InOrder, SameKeys
<1> QED BY <1>2, <1>3 DEF Serves

(* Taking out the process of position i. *)
LEMMA RemoveAtThins ==
  ASSUME NEW list \in Seq(Pids), NEW i \in 1 .. Len(list)
  PROVE  Thinned(list, RemoveAt(list, i))
<1> DEFINE t == RemoveAt(list, i)
<1>1. /\ t \in Seq(Pids) /\ Len(t) = Len(list) - 1
      /\ \A j \in 1 .. Len(list) - 1 : t[j] = IF j < i THEN list[j] ELSE list[j + 1]
  BY RemoveAtElements
<1> HIDE DEF t
<1>2. ASSUME NEW p \in Pids, NEW q \in Pids, Precedes(t, p, q)
      PROVE  Precedes(list, p, q)
  <2>1. PICK j, k \in 1 .. Len(t) : j < k /\ t[j] = p /\ t[k] = q
    BY <1>2 DEF Precedes
  <2> DEFINE m == IF j < i THEN j ELSE j + 1
             n == IF k < i THEN k ELSE k + 1
  <2>2. m \in 1 .. Len(list) /\ n \in 1 .. Len(list) /\ m < n
    BY <1>1, <2>1
  <2>3. list[m] = p /\ list[n] = q
    BY <1>1, <2>1
  <2> QED BY <2>2, <2>3 DEF Precedes
<1> QED BY <1>2 DEF Thinned, t

(* Unlinking a process. *)
LEMMA RemoveThins ==
  ASSUME NEW list \in Seq(Pids), NEW e
  PROVE  Thinned(list, RemoveFirst(list, e))
<1> DEFINE I == {i \in 1 .. Len(list) : list[i] = e}
<1>1. CASE I = {}
  BY <1>1 DEF RemoveFirst, Thinned
<1>2. CASE I # {}
  <2>1. I \in SUBSET Nat
    OBVIOUS
  <2>2. Min(I) \in I
    BY <1>2, <2>1, MinProperty
  <2>3. RemoveFirst(list, e) = RemoveAt(list, Min(I))
    BY <1>2 DEF RemoveFirst, SelectInSeq
  <2> QED BY <2>2, <2>3, RemoveAtThins
<1> QED BY <1>1, <1>2

(* Popping the head. *)
LEMMA TailThins ==
  ASSUME NEW list \in Seq(Pids), list # <<>>
  PROVE  Thinned(list, Tail(list))
<1> DEFINE t == Tail(list)
<1>1. /\ t \in Seq(Pids) /\ Len(t) = Len(list) - 1 /\ Len(list) \in Nat \ {0}
      /\ \A j \in 1 .. Len(list) - 1 : t[j] = list[j + 1]
  BY EmptySeq, HeadTailProperties
<1> HIDE DEF t
<1>2. ASSUME NEW p \in Pids, NEW q \in Pids, Precedes(t, p, q)
      PROVE  Precedes(list, p, q)
  <2>1. PICK j, k \in 1 .. Len(t) : j < k /\ t[j] = p /\ t[k] = q
    BY <1>2 DEF Precedes
  <2>2. j + 1 \in 1 .. Len(list) /\ k + 1 \in 1 .. Len(list) /\ j + 1 < k + 1
    BY <1>1, <2>1
  <2>3. list[j + 1] = p /\ list[k + 1] = q
    BY <1>1, <2>1
  <2> QED BY <2>2, <2>3 DEF Precedes
<1> QED BY <1>2 DEF Thinned, t

(* Two changes in a row, the second of which changes no priority and does  *)
(* not bring back a process the first removed.                             *)
LEMMA ServesTrans ==
  ASSUME NEW a \in Seq(Pids), NEW b \in Seq(Pids), NEW c \in Seq(Pids),
         NEW before, NEW after,
         Serves(a, b, before, after), Serves(b, c, after, after),
         \A q \in Range(a) : q \in Range(c) => q \in Range(b)
  PROVE  Serves(a, c, before, after)
<1> SUFFICES ASSUME Falling(a, before)
             PROVE  Falling(c, after) /\ InOrder(a, c, before, after)
  BY DEF Serves
<1>1. /\ Falling(c, after) /\ InOrder(a, b, before, after) /\ InOrder(b, c, after, after)
  BY DEF Serves
<1>2. ASSUME NEW p \in Pids, NEW q \in Pids, Precedes(c, p, q), after[p] = after[q],
             q \in Range(a), after[q] = before[q]
      PROVE  Precedes(a, p, q) /\ after[p] = before[p]
  <2>1. q \in Range(b)
    BY <1>2, PrecedesRange
  <2>2. Precedes(b, p, q)
    BY <1>1, <1>2, <2>1 DEF InOrder
  <2> QED BY <1>1, <1>2, <2>2 DEF InOrder
<1> QED BY <1>1, <1>2 DEF InOrder

(* A list that has grown. *)
LEMMA GrownServes ==
  ASSUME NEW old \in Seq(Pids), NEW new, NEW before, NEW after,
         Grown(old, new, after), SameKeys(old, before, after)
  PROVE  Serves(old, new, before, after)
<1> SUFFICES ASSUME Falling(old, before)
             PROVE  Falling(new, after) /\ InOrder(old, new, before, after)
  BY DEF Serves
<1>1. Falling(old, after)
  BY SameKeysOrder
<1>2. /\ Falling(new, after)
      /\ \A p, q \in Pids : Precedes(new, p, q) /\ after[p] = after[q] /\ q \in Range(old)
                              => Precedes(old, p, q)
  BY <1>1 DEF Grown
<1> QED BY <1>2, PrecedesRange DEF InOrder, SameKeys
(* push_runnable and push_waiting_process put a process in its place. *)
LEMMA InsertServes ==
  ASSUME NEW list \in Seq(Pids), NEW before, NEW after \in [Pids -> Int], NEW p \in Pids,
         p \notin Range(list), SameKeys(list, before, after)
  PROVE  Serves(list, InsertAt(list, PrioSlot(list, after, p), p), before, after)
<1> DEFINE new == InsertAt(list, PrioSlot(list, after, p), p)
<1>1. Grown(list, new, after)
  BY InsertGrown
<1> HIDE DEF new
<1>2. Serves(list, new, before, after)
  BY <1>1, GrownServes
<1> QED BY <1>2 DEF new

(* chprio takes a process out of its list and puts it back: it goes behind *)
(* the processes that have its new priority.                               *)
LEMMA MoveServes ==
  ASSUME NEW list \in Seq(Pids), NEW L, IsListOf(list, L), NEW p \in Pids, NEW n \in Int,
         NEW before \in [Pids -> Int], NEW after, after = With(before, p, n),
         before[p] # n
  PROVE  LET rest == RemoveFirst(list, p)
         IN Serves(list, InsertAt(rest, PrioSlot(rest, after, p), p), before, after)
<1> DEFINE rest == RemoveFirst(list, p)
           new == InsertAt(rest, PrioSlot(rest, after, p), p)
<1>1. /\ after \in [Pids -> Int] /\ after[p] = n
      /\ \A q \in Pids \ {p} : after[q] = before[q]
  BY DEF With
<1>2. /\ rest \in Seq(Pids) /\ Range(rest) = L \ {p} /\ Thinned(list, rest)
  BY RemoveList, RemoveThins DEF IsListOf
<1>3. Range(list) = L
  BY DEF IsListOf
<1> HIDE DEF rest
<1>4. Grown(rest, new, after)
  BY <1>1, <1>2, InsertGrown
<1> HIDE DEF new
<1> SUFFICES ASSUME Falling(list, before)
             PROVE  Falling(new, after) /\ InOrder(list, new, before, after)
  BY DEF Serves, new, rest
<1>5. Range(rest) \subseteq Pids
  BY <1>2 DEF Range
<1>6. SameKeys(rest, before, after)
  BY <1>1, <1>2, <1>5 DEF SameKeys
<1>7. Falling(rest, after)
  BY <1>2, <1>6, ThinnedOrder, SameKeysOrder
<1>8. /\ Falling(new, after)
      /\ \A x, y \in Pids : Precedes(new, x, y) /\ after[x] = after[y] /\ y \in Range(rest)
                              => Precedes(rest, x, y)
  BY <1>4, <1>7 DEF Grown
<1>9. ASSUME NEW x \in Pids, NEW y \in Pids, Precedes(new, x, y), after[x] = after[y],
             y \in Range(list), after[y] = before[y]
      PROVE  Precedes(list, x, y) /\ after[x] = before[x]
  <2>1. y # p /\ y \in Range(rest)
    BY <1>1, <1>2, <1>3, <1>9
  <2>2. Precedes(rest, x, y)
    BY <1>8, <1>9, <2>1
  <2>3. x \in Range(rest)
    BY <1>2, <2>2, PrecedesRange
  <2> QED BY <1>2, <1>6, <2>2, <2>3 DEF Thinned, SameKeys
<1> QED BY <1>8, <1>9 DEF InOrder

(* wait_clock puts a process in its place. *)
LEMMA InsertRising ==
  ASSUME NEW list \in Seq(Pids), NEW before \in [Pids -> Int], NEW after,
         NEW p \in Pids, NEW clock \in Int, p \notin Range(list),
         after = With(before, p, clock), Rising(list, before)
  PROVE  Rising(InsertAt(list, ClockSlot(list, before, clock), p), after)
<1> DEFINE i == ClockSlot(list, before, clock)
           t == InsertAt(list, i, p)
           N == Len(list)
<1>1. /\ i \in 1 .. N + 1
      /\ \A j \in 1 .. N : j < i => before[list[j]] < clock
      /\ i <= N => clock <= before[list[i]]
  BY ClockSlotPlace
<1> HIDE DEF i
<1>2. /\ t \in Seq(Pids) /\ Len(t) = N + 1
      /\ \A j \in 1 .. N + 1 :
           t[j] = IF j < i THEN list[j] ELSE IF j = i THEN p ELSE list[j - 1]
  BY <1>1, InsertAtElements
<1>3. N \in Nat /\ \A j \in 1 .. N : list[j] \in Pids /\ list[j] # p
  BY DEF Range
<1>4. after[p] = clock /\ \A j \in 1 .. N : after[list[j]] = before[list[j]]
  BY <1>3 DEF With
<1>5. \A j, k \in 1 .. N : j < k => before[list[j]] <= before[list[k]]
  BY DEF Rising
<1> DEFINE b == [j \in 1 .. N |-> before[list[j]]]
<1>6. b \in [1 .. N -> Int] /\ \A j, k \in 1 .. N : j < k => b[j] <= b[k]
  BY <1>3, <1>5
<1>7. \A j \in 1 .. N : (j < i => b[j] < clock) /\ (j >= i => clock <= b[j])
  <2>1. \A j \in 1 .. N : j < i => b[j] < clock
    BY <1>1
  <2>2. i <= N => clock <= b[i]
    BY <1>1
  <2>3. ASSUME NEW j \in 1 .. N, j >= i
        PROVE  clock <= b[j]
    <3>1. i \in 1 .. N /\ (i = j \/ i < j) /\ b[i] \in Int /\ b[j] \in Int
      BY <1>1, <1>3, <1>6, <2>3
    <3>2. b[i] <= b[j]
      BY <1>6, <3>1
    <3> HIDE DEF b
    <3> QED BY <2>2, <3>1, <3>2
  <2> QED BY <2>1, <2>3
<1>8. \A j \in 1 .. N + 1 :
        after[t[j]] = IF j < i THEN b[j] ELSE IF j = i THEN clock ELSE b[j - 1]
  <2>1. ASSUME NEW j \in 1 .. N + 1
        PROVE  after[t[j]] = IF j < i THEN b[j] ELSE IF j = i THEN clock ELSE b[j - 1]
    <3>1. CASE j < i
      <4>1. j \in 1 .. N /\ t[j] = list[j]
        BY <1>1, <1>2, <1>3, <3>1
      <4> QED BY <1>4, <3>1, <4>1
    <3>2. CASE j = i
      BY <1>1, <1>2, <1>4, <3>2
    <3>3. CASE j > i
      <4>1. j - 1 \in 1 .. N /\ t[j] = list[j - 1] /\ ~(j < i) /\ j # i
        BY <1>1, <1>2, <1>3, <3>3
      <4> QED BY <1>4, <4>1
    <3> QED BY <1>1, <3>1, <3>2, <3>3
  <2> QED BY <2>1
<1> HIDE DEF b, t
<1>9. ASSUME NEW j \in 1 .. N + 1, NEW k \in 1 .. N + 1, j < k
      PROVE  after[t[j]] <= after[t[k]]
  <2>1. CASE k < i
    BY <1>1, <1>3, <1>6, <1>8, <1>9, <2>1
  <2>2. CASE k = i
    <3>1. j \in 1 .. N /\ j < i /\ after[t[j]] = b[j] /\ after[t[k]] = clock
      BY <1>1, <1>3, <1>8, <1>9, <2>2
    <3> QED BY <1>6, <1>7, <3>1
  <2>3. CASE k > i
    <3>1. k - 1 \in 1 .. N /\ k - 1 >= i /\ after[t[k]] = b[k - 1]
      BY <1>1, <1>3, <1>8, <2>3
    <3>2. CASE j < i
      BY <1>1, <1>3, <1>6, <1>8, <1>9, <3>1, <3>2
    <3>3. CASE j = i
      BY <1>1, <1>3, <1>6, <1>7, <1>8, <1>9, <3>1, <3>3
    <3>4. CASE j > i
      <4>1. j - 1 \in 1 .. N /\ j - 1 < k - 1 /\ after[t[j]] = b[j - 1]
        BY <1>1, <1>3, <1>8, <1>9, <3>4
      <4> QED BY <1>6, <3>1, <4>1
    <3> QED BY <1>1, <1>9, <3>2, <3>3, <3>4
  <2> QED BY <1>1, <2>1, <2>2, <2>3
<1>10. Rising(t, after)
  BY <1>2, <1>9 DEF Rising
<1> QED BY <1>10 DEF t, i
-----------------------------------------------------------------------------
(* States. *)

(* A process leaves the runnable list inside a call only by its end. *)
Stays(s, u) ==
  \A q \in Range(s.runnable) : q \in Range(u.runnable) \/ u.state[q] \in {PS_DEAD, PS_ZOMBIE}

RunnableServed(s, u) == Serves(s.runnable, u.runnable, s.prio, u.prio) /\ Stays(s, u)
WaitingServed(s, u) ==
  \A fid \in Fids, st \in WaitStates :
    Serves(s.waiting[<<fid, st>>], u.waiting[<<fid, st>>], s.prio, u.prio)
AsleepKept(s, u) == Rising(s.asleep, s.attr) => Rising(u.asleep, u.attr)

(* What a change does to the order of the lists. *)
Ordered(s, u) == RunnableServed(s, u) /\ WaitingServed(s, u) /\ AsleepKept(s, u)

(* Who is on which list. *)
LEMMA OnLists ==
  ASSUME NEW s, Sound(s)
  PROVE  /\ s.runnable \in Seq(Pids) /\ s.asleep \in Seq(Pids)
         /\ s.prio \in [Pids -> Int] /\ s.attr \in [Pids -> Int]
         /\ s.state \in [Pids -> States] /\ s.active_process \in Pids
         /\ \A q : q \in Range(s.runnable) <=> q \in Pids /\ s.state[q] = PS_RUNNABLE
         /\ \A q : q \in Range(s.asleep) <=> q \in Pids /\ s.state[q] = PS_ASLEEP
         /\ \A fid \in Fids, st \in WaitStates :
              /\ s.waiting[<<fid, st>>] \in Seq(Pids)
              /\ \A q : q \in Range(s.waiting[<<fid, st>>])
                          <=> q \in Pids /\ s.state[q] = st /\ s.attr[q] = fid
<1>1. s \in KernelStates /\ ListsBut(s, {})
  BY DEF Sound
<1>2. /\ s.runnable \in Seq(Pids) /\ s.asleep \in Seq(Pids)
      /\ s.prio \in [Pids -> Int] /\ s.attr \in [Pids -> Int]
      /\ s.state \in [Pids -> States] /\ s.active_process \in Pids
      /\ \A fid \in Fids, st \in WaitStates : s.waiting[<<fid, st>>] \in Seq(Pids)
  BY <1>1 DEF KernelStates
<1>3. /\ Range(s.runnable) = InState(s, {}, PS_RUNNABLE)
      /\ Range(s.asleep) = InState(s, {}, PS_ASLEEP)
      /\ \A fid \in Fids, st \in WaitStates :
           Range(s.waiting[<<fid, st>>]) = WaitingOn(s, {}, fid, st)
  BY <1>1 DEF ListsBut, IsListOf
<1> QED BY <1>2, <1>3 DEF InState, WaitingOn

(* The runnable list did not change. *)
LEMMA SameRunnable ==
  ASSUME NEW s, Sound(s), NEW u, u.runnable = s.runnable,
         \A q \in Pids : s.state[q] = PS_RUNNABLE => u.prio[q] = s.prio[q]
  PROVE  RunnableServed(s, u)
<1>1. SameKeys(s.runnable, s.prio, u.prio) /\ s.runnable \in Seq(Pids)
  BY OnLists DEF SameKeys
<1>2. Serves(s.runnable, s.runnable, s.prio, u.prio)
  BY <1>1, SameKeysOrder
<1> QED BY <1>2 DEF RunnableServed, Stays

(* A waiting list did not change. *)
LEMMA SameWaiting ==
  ASSUME NEW s, Sound(s), NEW u, NEW fid \in Fids, NEW st \in WaitStates,
         u.waiting[<<fid, st>>] = s.waiting[<<fid, st>>],
         \A q \in Pids : s.state[q] = st => u.prio[q] = s.prio[q]
  PROVE  Serves(s.waiting[<<fid, st>>], u.waiting[<<fid, st>>], s.prio, u.prio)
<1>1. SameKeys(s.waiting[<<fid, st>>], s.prio, u.prio) /\ s.waiting[<<fid, st>>] \in Seq(Pids)
  BY OnLists DEF SameKeys
<1> QED BY <1>1, SameKeysOrder

(* The asleep list did not change. *)
LEMMA SameAsleep ==
  ASSUME NEW s, Sound(s), NEW u, u.asleep = s.asleep,
         \A q \in Pids : s.state[q] = PS_ASLEEP => u.attr[q] = s.attr[q]
  PROVE  AsleepKept(s, u)
<1>1. SameKeys(s.asleep, s.attr, u.attr) /\ s.asleep \in Seq(Pids)
  BY OnLists DEF SameKeys
<1> QED BY <1>1, SameKeysOrder DEF AsleepKept

(* Every waiting list is the same. *)
LEMMA SameWaitings ==
  ASSUME NEW s, Sound(s), NEW u, u.waiting = s.waiting,
         \A q \in Pids : s.state[q] \in WaitStates => u.prio[q] = s.prio[q]
  PROVE  WaitingServed(s, u)
BY SameWaiting DEF WaitingServed

(* A process becomes runnable. *)
LEMMA WokenRunnable ==
  ASSUME NEW s, Sound(s), NEW u, NEW p \in Pids, s.state[p] # PS_RUNNABLE,
         u.runnable = InsertAt(s.runnable, PrioSlot(s.runnable, u.prio, p), p),
         u.prio \in [Pids -> Int],
         \A q \in Pids : s.state[q] = PS_RUNNABLE => u.prio[q] = s.prio[q]
  PROVE  RunnableServed(s, u)
<1> DEFINE list == s.runnable
           i == PrioSlot(list, u.prio, p)
<1>1. /\ list \in Seq(Pids) /\ SameKeys(list, s.prio, u.prio) /\ p \notin Range(list)
      /\ IsListOf(list, Range(list)) /\ i \in 1 .. Len(list) + 1
  BY OnLists, PrioSlotRange DEF SameKeys, Sound, ListsBut, IsListOf
<1>2. u.runnable = InsertAt(list, i, p)
  OBVIOUS
<1> HIDE DEF list
<1>3. Serves(list, u.runnable, s.prio, u.prio)
  BY <1>1, <1>2, InsertServes
<1> HIDE DEF i
<1>4. Range(u.runnable) = Range(list) \cup {p}
  <2>1. IsListOf(u.runnable, Range(list) \cup {p})
    BY <1>1, <1>2, InsertList
  <2> QED BY <2>1 DEF IsListOf
<1> QED BY <1>3, <1>4 DEF RunnableServed, Stays, list
-----------------------------------------------------------------------------
(* Changes. *)

(* No list and no priority changed, nor the wake-up time of a sleeper. *)
LEMMA UntouchedOrdered ==
  ASSUME NEW s, Sound(s), NEW u, u.prio = s.prio, u.runnable = s.runnable,
         u.asleep = s.asleep, u.waiting = s.waiting,
         \A q \in Pids : s.state[q] = PS_ASLEEP => u.attr[q] = s.attr[q]
  PROVE  Ordered(s, u)
<1>1. RunnableServed(s, u)
  BY SameRunnable
<1>2. WaitingServed(s, u)
  BY SameWaitings
<1>3. AsleepKept(s, u)
  BY SameAsleep
<1> QED BY <1>1, <1>2, <1>3 DEF Ordered

(* chprio. *)
LEMMA ReprioritisedOrdered ==
  ASSUME NEW s, Sound(s), NEW u, Sound(u), NEW p \in Pids, NEW n \in Int,
         Reprioritised(s, u, p, n), s.prio[p] # n
  PROVE  Ordered(s, u)
<1> DEFINE st == s.state[p]
           w == <<s.attr[p], st>>
           old == IF st = PS_RUNNABLE THEN s.runnable ELSE s.waiting[w]
           rest == RemoveFirst(old, p)
           new == InsertAt(rest, PrioSlot(rest, u.prio, p), p)
<1>1. /\ u.prio = With(s.prio, p, n) /\ u.state = s.state
      /\ u.attr = IF st = PS_RUNNABLE THEN With(s.attr, p, 0) ELSE s.attr
      /\ u.runnable = IF st = PS_RUNNABLE THEN new ELSE s.runnable
      /\ u.waiting = IF st \in WaitStates THEN With(s.waiting, w, new) ELSE s.waiting
      /\ u.asleep = s.asleep
  BY DEF Reprioritised
<1>2. /\ s.prio \in [Pids -> Int] /\ s.attr \in [Pids -> Int]
      /\ \A q \in Pids \ {p} : u.prio[q] = s.prio[q] /\ u.attr[q] = s.attr[q]
      /\ st # PS_RUNNABLE => u.attr = s.attr
  BY <1>1, OnLists DEF With
<1>3. ASSUME st \in {PS_RUNNABLE} \cup WaitStates
      PROVE  Serves(old, new, s.prio, u.prio)
  <2>1. st \in WaitStates => s.attr[p] \in Fids
    BY DEF Sound, ListsBut, InState
  <2>2. old \in Seq(Pids) /\ \E L : IsListOf(old, L)
    BY <1>3, <2>1, OnLists DEF Sound, ListsBut
  <2> HIDE DEF old, st, w
  <2> QED BY <1>1, <1>2, <2>2, MoveServes
<1> HIDE DEF new, w
<1>4. RunnableServed(s, u)
  <2>1. CASE st = PS_RUNNABLE
    <3>1. Serves(s.runnable, u.runnable, s.prio, u.prio)
      BY <1>1, <1>3, <2>1
    <3>2. Stays(s, u)
      BY <1>1, OnLists DEF Stays
    <3> QED BY <3>1, <3>2 DEF RunnableServed
  <2>2. CASE st # PS_RUNNABLE
    <3>1. \A q \in Pids : s.state[q] = PS_RUNNABLE => u.prio[q] = s.prio[q]
      BY <1>2, <2>2
    <3>2. u.runnable = s.runnable
      BY <1>1, <2>2
    <3> QED BY <3>1, <3>2, SameRunnable
  <2> QED BY <2>1, <2>2
<1>5. WaitingServed(s, u)
  <2> SUFFICES ASSUME NEW fid \in Fids, NEW wst \in WaitStates
               PROVE  Serves(s.waiting[<<fid, wst>>], u.waiting[<<fid, wst>>],
                             s.prio, u.prio)
    BY DEF WaitingServed
  <2>0. s.waiting \in [Fids \X WaitStates -> Seq(Pids)]
    BY DEF Sound, KernelStates
  <2>1. CASE st = wst /\ s.attr[p] = fid
    <3>1. st \in WaitStates /\ st # PS_RUNNABLE /\ w = <<fid, wst>>
      BY <2>1, DistinctStates DEF w
    <3>2. u.waiting[<<fid, wst>>] = new
      BY <1>1, <2>0, <3>1 DEF With
    <3>3. old = s.waiting[<<fid, wst>>]
      BY <3>1
    <3> QED BY <1>3, <3>1, <3>2, <3>3
  <2>2. CASE ~(st = wst /\ s.attr[p] = fid)
    <3>1. p \notin Range(s.waiting[<<fid, wst>>]) /\ s.waiting[<<fid, wst>>] \in Seq(Pids)
      BY <2>2, OnLists
    <3>2. Range(s.waiting[<<fid, wst>>]) \subseteq Pids
      BY OnLists
    <3>3. SameKeys(s.waiting[<<fid, wst>>], s.prio, u.prio)
      BY <1>2, <3>1, <3>2 DEF SameKeys
    <3>4. u.waiting[<<fid, wst>>] = s.waiting[<<fid, wst>>]
      BY <1>1, <2>0, <2>2 DEF With, w
    <3> QED BY <3>1, <3>3, <3>4, SameKeysOrder
  <2> QED BY <2>1, <2>2
<1>6. AsleepKept(s, u)
  <2>1. \A q \in Pids : s.state[q] = PS_ASLEEP => u.attr[q] = s.attr[q]
    BY <1>2, DistinctStates
  <2> QED BY <1>1, <2>1, SameAsleep
<1> QED BY <1>4, <1>5, <1>6 DEF Ordered

(* start. *)
LEMMA StartedOrdered ==
  ASSUME NEW s, Sound(s), NEW u, Sound(u), NEW p \in Pids, NEW n \in Int,
         NEW allocated \in BOOLEAN, Started(s, u, p, n, allocated)
  PROVE  Ordered(s, u)
<1>1. /\ s.state[p] = PS_DEAD /\ u.prio = With(s.prio, p, n)
      /\ u.attr = IF allocated THEN With(s.attr, p, 0) ELSE s.attr
      /\ u.runnable = IF allocated
                      THEN InsertAt(s.runnable, PrioSlot(s.runnable, u.prio, p), p)
                      ELSE s.runnable
      /\ u.asleep = s.asleep /\ u.waiting = s.waiting
  BY DEF Started
<1>2. /\ \A q \in Pids \ {p} : u.prio[q] = s.prio[q] /\ u.attr[q] = s.attr[q]
      /\ u.prio \in [Pids -> Int]
  BY <1>1, OnLists DEF With
<1>3. \A q \in Pids : s.state[q] \in {PS_RUNNABLE, PS_ASLEEP} \cup WaitStates => q # p
  BY <1>1, DistinctStates
<1>4. RunnableServed(s, u)
  <2>1. CASE allocated
    BY <1>1, <1>2, <1>3, <2>1, DistinctStates, WokenRunnable
  <2>2. CASE ~allocated
    BY <1>1, <1>2, <1>3, <2>2, SameRunnable
  <2> QED BY <2>1, <2>2
<1>5. WaitingServed(s, u)
  BY <1>1, <1>2, <1>3, SameWaitings
<1>6. AsleepKept(s, u)
  BY <1>1, <1>2, <1>3, SameAsleep
<1> QED BY <1>4, <1>5, <1>6 DEF Ordered
(* stop. *)
LEMMA StoppedOrdered ==
  ASSUME NEW s, Sound(s), NEW u, Sound(u), NEW pid \in Pids, Stopped(s, u, pid)
  PROVE  Ordered(s, u)
<1> DEFINE father == s.parent[pid]
           bound == father \notin {NOPID, pid}
           told == bound /\ Told(s, pid)
           st == s.state[pid]
           w == <<s.attr[pid], st>>
           left == IF st = PS_RUNNABLE THEN RemoveFirst(s.runnable, pid) ELSE s.runnable
<1>1. /\ u.runnable = IF told THEN InsertAt(left, PrioSlot(left, s.prio, father), father)
                      ELSE left
      /\ u.asleep = IF st = PS_ASLEEP THEN RemoveFirst(s.asleep, pid) ELSE s.asleep
      /\ u.waiting = IF st \in WaitStates
                     THEN With(s.waiting, w, RemoveFirst(s.waiting[w], pid)) ELSE s.waiting
      /\ u.prio = s.prio /\ st \notin {PS_DEAD, PS_ZOMBIE}
  BY DEF Stopped
<1>2. \A c \in Pids :
        /\ u.state[c] = IF c = pid THEN (IF bound THEN PS_ZOMBIE ELSE PS_DEAD)
                        ELSE IF c \in Freed(s, pid) THEN PS_DEAD
                        ELSE IF told /\ c = father THEN PS_RUNNABLE
                        ELSE s.state[c]
        /\ c \notin Freed(s, pid) \cup {pid} /\ ~(told /\ c = father)
             => u.attr[c] = s.attr[c]
  BY DEF Stopped
<1>3. told => father \in Pids /\ s.state[father] = PS_WAIT_CHILD
  <2>1. s.parent[pid] \in Pids \cup {NOPID}
    BY DEF Sound, KernelStates
  <2> QED BY <2>1 DEF Told
<1>4. \A c \in Freed(s, pid) : s.state[c] = PS_ZOMBIE
  BY DEF Freed
<1>5. s.runnable \in Seq(Pids) /\ s.asleep \in Seq(Pids) /\ s.prio \in [Pids -> Int]
  BY OnLists
<1>6. u.runnable \in Seq(Pids) /\ u.asleep \in Seq(Pids)
  BY OnLists
<1>7. RunnableServed(s, u)
  <2>1. /\ left \in Seq(Pids) /\ Thinned(s.runnable, left)
        /\ Range(left) = Range(s.runnable) \ {pid}
    <3>1. CASE st = PS_RUNNABLE
      <4>1. IsListOf(s.runnable, Range(s.runnable))
        BY DEF Sound, ListsBut, IsListOf
      <4> QED BY <1>5, <3>1, <4>1, RemoveList, RemoveThins DEF IsListOf
    <3>2. CASE st # PS_RUNNABLE
      BY <1>5, <3>2, OnLists DEF Thinned
    <3> QED BY <3>1, <3>2
  <2> HIDE DEF left, told, bound
  <2>2. Serves(s.runnable, left, s.prio, s.prio)
    BY <1>5, <2>1, ThinnedOrder
  <2>3. Serves(left, u.runnable, s.prio, s.prio)
    <3>1. CASE told
      <4>1. father \notin Range(left) /\ father \in Pids
        BY <1>3, <2>1, <3>1, OnLists, DistinctStates
      <4>2. SameKeys(left, s.prio, s.prio)
        BY DEF SameKeys
      <4>3. u.runnable = InsertAt(left, PrioSlot(left, s.prio, father), father)
        BY <1>1, <3>1
      <4> HIDE DEF father
      <4> QED BY <1>5, <2>1, <4>1, <4>2, <4>3, InsertServes
    <3>2. CASE ~told
      <4>1. SameKeys(left, s.prio, s.prio)
        BY DEF SameKeys
      <4> QED BY <1>1, <2>1, <3>2, <4>1, SameKeysOrder
    <3> QED BY <3>1, <3>2
  <2>4. \A q \in Range(s.runnable) : q \in Range(u.runnable) => q \in Range(left)
    <3> SUFFICES ASSUME pid \in Range(u.runnable)
                 PROVE  FALSE
      BY <2>1
    <3> QED BY <1>2, OnLists, DistinctStates
  <2>5. Serves(s.runnable, u.runnable, s.prio, s.prio)
    BY <1>5, <1>6, <2>1, <2>2, <2>3, <2>4, ServesTrans
  <2>6. Stays(s, u)
    <3> SUFFICES ASSUME NEW q \in Range(s.runnable)
                 PROVE  q \in Range(u.runnable) \/ u.state[q] \in {PS_DEAD, PS_ZOMBIE}
      BY DEF Stays
    <3>1. q \in Pids /\ s.state[q] = PS_RUNNABLE
      BY OnLists
    <3>2. u.state[q] \in {PS_DEAD, PS_ZOMBIE, PS_RUNNABLE}
      BY <1>2, <3>1
    <3> QED BY <3>1, <3>2, OnLists
  <2> QED BY <1>1, <2>5, <2>6 DEF RunnableServed
<1>8. WaitingServed(s, u)
  <2> SUFFICES ASSUME NEW fid \in Fids, NEW wst \in WaitStates
               PROVE  Serves(s.waiting[<<fid, wst>>], u.waiting[<<fid, wst>>],
                             s.prio, u.prio)
    BY DEF WaitingServed
  <2>0. /\ s.waiting \in [Fids \X WaitStates -> Seq(Pids)]
        /\ u.waiting[<<fid, wst>>] \in Seq(Pids) /\ s.waiting[<<fid, wst>>] \in Seq(Pids)
    BY DEF Sound, KernelStates
  <2>1. Thinned(s.waiting[<<fid, wst>>], u.waiting[<<fid, wst>>])
    <3>1. CASE st \in WaitStates /\ w = <<fid, wst>>
      <4>1. u.waiting[<<fid, wst>>] = RemoveFirst(s.waiting[<<fid, wst>>], pid)
        BY <1>1, <2>0, <3>1 DEF With
      <4> QED BY <2>0, <4>1, RemoveThins
    <3>2. CASE ~(st \in WaitStates /\ w = <<fid, wst>>)
      <4>1. u.waiting[<<fid, wst>>] = s.waiting[<<fid, wst>>]
        BY <1>1, <2>0, <3>2 DEF With
      <4> QED BY <4>1 DEF Thinned
    <3> QED BY <3>1, <3>2
  <2> QED BY <1>1, <2>0, <2>1, ThinnedOrder
<1>9. AsleepKept(s, u)
  <2> SUFFICES ASSUME Rising(s.asleep, s.attr)
               PROVE  Rising(u.asleep, u.attr)
    BY DEF AsleepKept
  <2>1. Thinned(s.asleep, u.asleep)
    BY <1>1, <1>5, RemoveThins DEF Thinned
  <2>2. Rising(u.asleep, s.attr)
    BY <1>5, <1>6, <2>1, ThinnedOrder
  <2>3. SameKeys(u.asleep, s.attr, u.attr)
    <3> SUFFICES ASSUME NEW q \in Pids, u.state[q] = PS_ASLEEP
                 PROVE  u.attr[q] = s.attr[q]
      BY OnLists DEF SameKeys
    <3>1. q # pid /\ q \notin Freed(s, pid) /\ ~(told /\ q = father)
      BY <1>2, DistinctStates
    <3> QED BY <1>2, <3>1
  <2> QED BY <1>6, <2>2, <2>3, SameKeysOrder
<1> QED BY <1>7, <1>8, <1>9 DEF Ordered

(* wait_clock. *)
LEMMA SleptOrdered ==
  ASSUME NEW s, Stable(s), NEW u, NEW clock \in Int, Slept(s, u, clock)
  PROVE  Ordered(s, u)
<1> DEFINE p == s.active_process
<1>1. /\ u.attr = With(s.attr, p, clock)
      /\ u.asleep = InsertAt(s.asleep, ClockSlot(s.asleep, s.attr, clock), p)
      /\ u.prio = s.prio /\ u.runnable = s.runnable /\ u.waiting = s.waiting
  BY DEF Slept, SameBlocks
<1>2. Sound(s) /\ s.state[p] = PS_RUNNING
  BY DEF Stable
<1>3. RunnableServed(s, u)
  BY <1>1, <1>2, SameRunnable
<1>4. WaitingServed(s, u)
  BY <1>1, <1>2, SameWaitings
<1>5. AsleepKept(s, u)
  <2>1. /\ s.asleep \in Seq(Pids) /\ s.attr \in [Pids -> Int] /\ p \in Pids
        /\ p \notin Range(s.asleep)
    BY <1>2, OnLists, DistinctStates
  <2> HIDE DEF p
  <2> QED BY <1>1, <2>1, InsertRising DEF AsleepKept
<1> QED BY <1>3, <1>4, <1>5 DEF Ordered
(* A waiting list loses its head and the process is runnable. *)
LEMMA NotifiedOrdered ==
  ASSUME NEW s, Sound(s), NEW v, SameLists(s, v), v.prio = s.prio,
         v.state = s.state, v.attr = s.attr, NEW u, NEW fid \in Fids,
         NEW st \in WaitStates, NEW p, s.waiting[<<fid, st>>] # <<>>,
         Notified(v, u, fid, st, p, Tail(s.waiting[<<fid, st>>]))
  PROVE  Ordered(s, u)
<1> DEFINE rest == Tail(s.waiting[<<fid, st>>])
<1>1. /\ p \in Pids /\ s.state[p] = st
      /\ u.attr = With(s.attr, p, 0)
      /\ u.runnable = InsertAt(s.runnable, PrioSlot(s.runnable, s.prio, p), p)
      /\ u.waiting = With(s.waiting, <<fid, st>>, rest)
      /\ u.asleep = s.asleep /\ u.prio = s.prio
  BY DEF Notified, SameLists
<1>2. s.prio \in [Pids -> Int] /\ s.attr \in [Pids -> Int]
      /\ s.waiting \in [Fids \X WaitStates -> Seq(Pids)]
  BY DEF Sound, KernelStates
<1>3. RunnableServed(s, u)
  BY <1>1, <1>2, DistinctStates, WokenRunnable
<1>4. WaitingServed(s, u)
  <2> SUFFICES ASSUME NEW f \in Fids, NEW x \in WaitStates
               PROVE  Serves(s.waiting[<<f, x>>], u.waiting[<<f, x>>], s.prio, u.prio)
    BY DEF WaitingServed
  <2>1. CASE f = fid /\ x = st
    <3>1. s.waiting[<<fid, st>>] \in Seq(Pids) /\ u.waiting[<<fid, st>>] = rest
      BY <1>1, <1>2 DEF With
    <3>2. rest \in Seq(Pids) /\ Thinned(s.waiting[<<fid, st>>], rest)
      BY <3>1, TailThins
    <3> HIDE DEF rest
    <3> QED BY <1>1, <2>1, <3>1, <3>2, ThinnedOrder
  <2>2. CASE ~(f = fid /\ x = st)
    <3>1. u.waiting[<<f, x>>] = s.waiting[<<f, x>>]
      BY <1>1, <1>2, <2>2 DEF With
    <3> QED BY <1>1, <3>1, SameWaiting
  <2> QED BY <2>1, <2>2
<1>5. AsleepKept(s, u)
  <2>1. \A q \in Pids : s.state[q] = PS_ASLEEP => u.attr[q] = s.attr[q]
    BY <1>1, <1>2, DistinctStates DEF With
  <2> QED BY <1>1, <2>1, SameAsleep
<1> QED BY <1>3, <1>4, <1>5 DEF Ordered

(* preset and pdelete. *)
LEMMA FlushedOrdered ==
  ASSUME NEW s, Sound(s), NEW u, Sound(u), NEW fid \in Fids, Flushing(s, u, fid),
         Emptied(u, fid)
  PROVE  Ordered(s, u)
<1>1. /\ u.prio = s.prio /\ u.asleep = s.asleep
      /\ Grown(s.runnable, u.runnable, s.prio)
      /\ \A f \in Fids, st \in WaitStates :
           f # fid => u.waiting[<<f, st>>] = s.waiting[<<f, st>>]
      /\ \A p \in Pids : \/ u.state[p] = s.state[p] /\ u.attr[p] = s.attr[p]
                         \/ s.state[p] \in WaitStates
  BY DEF Flushing, Fails
<1>2. s.runnable \in Seq(Pids) /\ SameKeys(s.runnable, s.prio, s.prio)
  BY OnLists DEF SameKeys
<1>3. RunnableServed(s, u)
  <2>1. Serves(s.runnable, u.runnable, s.prio, u.prio)
    BY <1>1, <1>2, GrownServes
  <2>2. ASSUME NEW q \in Range(s.runnable)
        PROVE  q \in Range(u.runnable)
    <3>1. q \in Pids /\ s.state[q] = PS_RUNNABLE
      BY OnLists
    <3>2. u.state[q] = PS_RUNNABLE
      BY <1>1, <3>1, DistinctStates
    <3> QED BY <3>1, <3>2, OnLists
  <2> QED BY <2>1, <2>2 DEF RunnableServed, Stays
<1>4. WaitingServed(s, u)
  <2> SUFFICES ASSUME NEW f \in Fids, NEW st \in WaitStates
               PROVE  Serves(s.waiting[<<f, st>>], u.waiting[<<f, st>>], s.prio, u.prio)
    BY DEF WaitingServed
  <2>1. CASE f = fid
    <3>1. u.waiting[<<f, st>>] = <<>>
      BY <2>1 DEF Emptied
    <3> QED BY <3>1 DEF Serves, Falling, InOrder, Precedes
  <2>2. CASE f # fid
    BY <1>1, <2>2, SameWaiting
  <2> QED BY <2>1, <2>2
<1>5. AsleepKept(s, u)
  <2>1. \A q \in Pids : s.state[q] = PS_ASLEEP => u.attr[q] = s.attr[q]
    BY <1>1, DistinctStates
  <2> QED BY <1>1, <2>1, SameAsleep
<1> QED BY <1>3, <1>4, <1>5 DEF Ordered

(* psend and preceive, when they suspend the caller. *)
LEMMA BlocksOrdered ==
  ASSUME NEW s, Stable(s), NEW u, NEW fid \in Fids, NEW st \in WaitStates, NEW c, NEW m,
         Blocks(s, u, fid, st, c, m)
  PROVE  Ordered(s, u)
<1> DEFINE p == s.active_process
           list == s.waiting[<<fid, st>>]
           new == InsertAt(list, PrioSlot(list, s.prio, p), p)
<1>1. /\ u.attr = With(s.attr, p, fid) /\ u.prio = s.prio
      /\ u.waiting = With(s.waiting, <<fid, st>>, new)
      /\ u.runnable = s.runnable /\ u.asleep = s.asleep
  BY DEF Blocks
<1>2. Sound(s) /\ s.state[p] = PS_RUNNING
  BY DEF Stable
<1>3. /\ s.prio \in [Pids -> Int] /\ s.attr \in [Pids -> Int] /\ p \in Pids
      /\ s.waiting \in [Fids \X WaitStates -> Seq(Pids)]
  BY <1>2 DEF Sound, KernelStates
<1>4. RunnableServed(s, u)
  BY <1>1, <1>2, SameRunnable
<1>5. WaitingServed(s, u)
  <2> SUFFICES ASSUME NEW f \in Fids, NEW x \in WaitStates
               PROVE  Serves(s.waiting[<<f, x>>], u.waiting[<<f, x>>], s.prio, u.prio)
    BY DEF WaitingServed
  <2>1. CASE f = fid /\ x = st
    <3>1. u.waiting[<<fid, st>>] = new /\ list \in Seq(Pids)
      BY <1>1, <1>3 DEF With
    <3>2. p \notin Range(list) /\ SameKeys(list, s.prio, s.prio)
      BY <1>2, OnLists, DistinctStates DEF SameKeys
    <3> HIDE DEF list, p
    <3>3. Serves(list, new, s.prio, s.prio)
      BY <1>3, <3>1, <3>2, InsertServes
    <3> QED BY <1>1, <2>1, <3>1, <3>3 DEF list
  <2>2. CASE ~(f = fid /\ x = st)
    <3>1. u.waiting[<<f, x>>] = s.waiting[<<f, x>>]
      BY <1>1, <1>3, <2>2 DEF With
    <3> QED BY <1>1, <1>2, <3>1, SameWaiting
  <2> QED BY <2>1, <2>2
<1>6. AsleepKept(s, u)
  <2>1. \A q \in Pids : s.state[q] = PS_ASLEEP => u.attr[q] = s.attr[q]
    BY <1>1, <1>2, <1>3, DistinctStates DEF With
  <2> QED BY <1>1, <1>2, <2>1, SameAsleep
<1> QED BY <1>4, <1>5, <1>6 DEF Ordered

(* A change of the queue structures only. *)
LEMMA PutOrdered ==
  ASSUME NEW s, Sound(s), NEW u, NEW fid, NEW q, Put(s, u, fid, q)
  PROVE  Ordered(s, u)
<1>1. /\ u.prio = s.prio /\ u.runnable = s.runnable /\ u.asleep = s.asleep
      /\ u.waiting = s.waiting /\ u.attr = s.attr
  BY DEF Put, SameTable, SameLists, SameBlocks
<1> QED BY <1>1, UntouchedOrdered

(* Every change of a process call keeps the lists in order. *)
LEMMA ProcessChangeOrdered ==
  ASSUME NEW s, Stable(s), NEW u, Sound(u), ProcessChange(s, u)
  PROVE  Ordered(s, u)
<1>1. Sound(s) /\ s.state[s.active_process] = PS_RUNNING /\ s.active_process \in Pids
  BY DEF Stable, Sound, KernelStates
<1>2. CASE \E p \in Pids, n \in Int : Reprioritised(s, u, p, n) /\ s.prio[p] # n
  BY <1>1, <1>2, ReprioritisedOrdered
<1>3. CASE \E p \in Pids, n \in Int, allocated \in BOOLEAN : Started(s, u, p, n, allocated)
  BY <1>1, <1>3, StartedOrdered
<1>4. CASE \E pid \in Pids : Stopped(s, u, pid)
  BY <1>1, <1>4, StoppedOrdered
<1>5. CASE \E clock \in Int : Slept(s, u, clock)
  BY <1>5, SleptOrdered
<1>6. CASE \E pid \in WaitPids : AwaitsChild(s, u, pid)
  <2>1. /\ u.prio = s.prio /\ u.runnable = s.runnable /\ u.asleep = s.asleep
        /\ u.waiting = s.waiting /\ u.attr = With(s.attr, s.active_process, 0)
    BY <1>6 DEF AwaitsChild, SameLists
  <2>2. \A q \in Pids : s.state[q] = PS_ASLEEP => u.attr[q] = s.attr[q]
    BY <1>1, <2>1, OnLists, DistinctStates DEF With
  <2> QED BY <1>1, <2>1, <2>2, UntouchedOrdered
<1>7. CASE \E c \in Pids : Reaped(s, u, c)
  <2>1. PICK c \in Pids : Reaped(s, u, c)
    BY <1>7
  <2>2. /\ u.prio = s.prio /\ u.runnable = s.runnable /\ u.asleep = s.asleep
        /\ u.waiting = s.waiting /\ u.attr = With(s.attr, c, 0) /\ s.state[c] = PS_ZOMBIE
    BY <2>1 DEF Reaped
  <2>3. \A q \in Pids : s.state[q] = PS_ASLEEP => u.attr[q] = s.attr[q]
    BY <1>1, <2>2, OnLists, DistinctStates DEF With
  <2> QED BY <1>1, <2>2, <2>3, UntouchedOrdered
<1> QED BY <1>2, <1>3, <1>4, <1>5, <1>6, <1>7 DEF ProcessChange

(* Every change of a queue call keeps the lists in order. *)
LEMMA QueueChangeOrdered ==
  ASSUME NEW s, Stable(s), NEW u, Sound(u), QueueChange(s, u)
  PROVE  Ordered(s, u)
<1>1. Sound(s)
  BY DEF Stable
<1>2. ASSUME NEW fid, NEW q, Put(s, u, fid, q)
      PROVE  Ordered(s, u)
  BY <1>1, <1>2, PutOrdered
<1>3. ASSUME NEW fid \in Fids, NEW q, Flushed(s, u, fid, q)
      PROVE  Ordered(s, u)
  BY <1>1, <1>3, FlushedOrdered DEF Flushed
<1>4. ASSUME NEW fid \in Fids, NEW p, NEW m, Handed(s, u, fid, p, m)
      PROVE  Ordered(s, u)
  <2> DEFINE st == PS_WAIT_QUEUE_EMPTY
  <2>1. PICK v : /\ SameLists(s, v) /\ v.prio = s.prio
                 /\ v.state = s.state /\ v.attr = s.attr
                 /\ s.waiting[<<fid, st>>] # <<>>
                 /\ Notified(v, u, fid, st, p, Tail(s.waiting[<<fid, st>>]))
    BY <1>4 DEF Handed
  <2>2. st \in WaitStates
    BY TwoWaitStates
  <2> HIDE DEF st
  <2> QED BY <1>1, <2>1, <2>2, NotifiedOrdered
<1>5. ASSUME NEW fid \in Fids, NEW p, Refilled(s, u, fid, p)
      PROVE  Ordered(s, u)
  <2> DEFINE st == PS_WAIT_QUEUE_FULL
  <2>1. PICK v : /\ Put(s, v, fid, Pushed(Popped(s.queues[fid]), s.message[p]))
                 /\ s.waiting[<<fid, st>>] # <<>>
                 /\ Notified(v, u, fid, st, p, Tail(s.waiting[<<fid, st>>]))
    BY <1>5 DEF Refilled
  <2>2. st \in WaitStates
    BY TwoWaitStates
  <2>3. SameLists(s, v) /\ v.prio = s.prio /\ v.state = s.state /\ v.attr = s.attr
    BY <2>1 DEF Put, SameTable, SameBlocks
  <2> HIDE DEF st
  <2> QED BY <1>1, <2>1, <2>2, <2>3, NotifiedOrdered
<1>6. ASSUME NEW fid \in Fids, NEW count, NEW allocated, Created(s, u, fid, count, allocated)
      PROVE  Ordered(s, u)
  BY <1>2, <1>6 DEF Created
<1>7. ASSUME NEW fid \in Fids, NEW m, Sent(s, u, fid, m)
      PROVE  Ordered(s, u)
  BY <1>2, <1>7 DEF Sent
<1>8. ASSUME NEW fid \in Fids, Received(s, u, fid)
      PROVE  Ordered(s, u)
  BY <1>2, <1>8 DEF Received
<1>9. ASSUME NEW fid \in Fids, NEW st \in WaitStates, NEW c, NEW m,
             Blocks(s, u, fid, st, c, m)
      PROVE  Ordered(s, u)
  BY <1>9, BlocksOrdered
<1> QED BY <1>3, <1>4, <1>5, <1>6, <1>7, <1>8, <1>9 DEF QueueChange

(* Every change keeps the lists in order. *)
LEMMA ChangeOrdered ==
  ASSUME NEW s, Stable(s), NEW u, Sound(u), Change(s, u)
  PROVE  Ordered(s, u)
<1>1. CASE Left(s, u, s.active_process) \/ Ticked(s, u)
  <2>1. /\ u.prio = s.prio /\ u.runnable = s.runnable /\ u.asleep = s.asleep
        /\ u.waiting = s.waiting /\ u.attr = s.attr
    BY <1>1 DEF Left, Ticked, SameTable, SameLists, SameBlocks
  <2> QED BY <2>1, UntouchedOrdered DEF Stable
<1> QED BY <1>1, ProcessChangeOrdered, QueueChangeOrdered DEF Change
-----------------------------------------------------------------------------
(* The scheduler. *)

(* What it does to the order of the lists. *)
Dispatched(s, t) ==
  /\ t.prio = s.prio /\ t.waiting = s.waiting
  /\ Serves(s.runnable, t.runnable, s.prio, s.prio) /\ AsleepKept(s, t)

(* The scheduler does not bring back a process that has ended. *)
LEMMA ThenServes ==
  ASSUME NEW a, Sound(a), NEW b, Sound(b), NEW c, Sound(c), RunnableServed(a, b),
         Quiet(b, c), Serves(b.runnable, c.runnable, b.prio, b.prio)
  PROVE  Serves(a.runnable, c.runnable, a.prio, b.prio)
<1>1. a.runnable \in Seq(Pids) /\ b.runnable \in Seq(Pids) /\ c.runnable \in Seq(Pids)
  BY OnLists
<1>2. ASSUME NEW q \in Range(a.runnable), q \in Range(c.runnable)
      PROVE  q \in Range(b.runnable)
  <2>1. q \in Pids /\ c.state[q] = PS_RUNNABLE
    BY <1>2, OnLists
  <2>2. b.state[q] \notin {PS_DEAD, PS_ZOMBIE}
    BY <2>1, DistinctStates, BusyStates DEF Quiet, Rests
  <2> QED BY <2>2 DEF RunnableServed, Stays
<1>3. Serves(a.runnable, b.runnable, a.prio, b.prio)
  BY DEF RunnableServed
<1> QED BY <1>1, <1>2, <1>3, ServesTrans

(* Waking a sleeper. *)
LEMMA WakeFirstDispatched ==
  ASSUME NEW s, Sound(s), s.asleep # <<>>
  PROVE  LET t == WakeFirst(s) IN Dispatched(s, t) /\ Range(s.runnable) \subseteq Range(t.runnable)
<1> DEFINE p == Head(s.asleep)
           z == Tail(s.asleep)
           u == [s EXCEPT !.asleep = z]
           t == WakeFirst(s)
<1>1. s \in KernelStates /\ s.asleep \in Seq(Pids)
      /\ IsListOf(s.asleep, InState(s, {}, PS_ASLEEP))
  BY DEF Sound, KernelStates, ListsBut
<1>2. /\ p \in Pids /\ s.state[p] = PS_ASLEEP /\ z \in Seq(Pids)
      /\ Range(z) = InState(s, {}, PS_ASLEEP) \ {p} /\ Thinned(s.asleep, z)
  <2>1. p \in Pids /\ p \in InState(s, {}, PS_ASLEEP) /\ z \in Seq(Pids)
        /\ IsListOf(z, InState(s, {}, PS_ASLEEP) \ {p})
    BY <1>1, TailList
  <2> QED BY <1>1, <2>1, TailThins DEF InState, IsListOf
<1>3. t = push_runnable(u, p)
  BY <1>2 DEF WakeFirst, assert
<1> HIDE DEF p, z, t
<1>4. /\ u \in KernelStates /\ u.state = s.state /\ u.attr = s.attr /\ u.prio = s.prio
      /\ u.runnable = s.runnable /\ u.waiting = s.waiting /\ u.asleep = z
  BY <1>1, <1>2 DEF KernelStates
<1> HIDE DEF u
<1>5. /\ t.state = With(s.state, p, PS_RUNNABLE) /\ t.attr = With(s.attr, p, 0)
      /\ t.runnable = InsertAt(s.runnable, PrioSlot(s.runnable, s.prio, p), p)
      /\ t.asleep = z /\ t.waiting = s.waiting /\ t.prio = s.prio
  BY <1>2, <1>3, <1>4, PushRunnableFields DEF SameBlocks
<1>6. s.prio \in [Pids -> Int] /\ s.attr \in [Pids -> Int] /\ s.state \in [Pids -> States]
  BY OnLists
<1>7. RunnableServed(s, t)
  BY <1>2, <1>5, <1>6, DistinctStates, WokenRunnable
<1>8. AsleepKept(s, t)
  <2> SUFFICES ASSUME Rising(s.asleep, s.attr)
               PROVE  Rising(z, t.attr)
    BY <1>5 DEF AsleepKept
  <2>1. Rising(z, s.attr)
    BY <1>1, <1>2, ThinnedOrder
  <2>2. \A q \in Pids \ {p} : t.attr[q] = s.attr[q]
    BY <1>2, <1>5, <1>6 DEF With
  <2>3. SameKeys(z, s.attr, t.attr)
    BY <1>2, <2>2 DEF SameKeys, InState
  <2> QED BY <1>2, <2>1, <2>3, SameKeysOrder
<1>9. Range(s.runnable) \subseteq Range(t.runnable)
  <2>1. ASSUME NEW q \in Range(s.runnable)
        PROVE  t.state[q] = PS_RUNNABLE
    BY <1>2, <1>5, <1>6, OnLists DEF With
  <2> QED BY <1>7, <2>1, DistinctStates DEF RunnableServed, Stays
<1> QED BY <1>5, <1>7, <1>8, <1>9 DEF Dispatched, RunnableServed, t

(* The loop that wakes the sleepers that are due. *)
LEMMA WakeDueDispatched ==
  ASSUME NEW s, Sound(s)
  PROVE  LET t == WakeDue(s) IN Dispatched(s, t) /\ Range(s.runnable) \subseteq Range(t.runnable)
<1> DEFINE P(t) == /\ Sound(t) /\ Dispatched(s, t)
                   /\ Range(s.runnable) \subseteq Range(t.runnable)
           G == {t \in KernelStates : P(t)}
<1>1. s \in G
  <2>1. s.runnable \in Seq(Pids) /\ SameKeys(s.runnable, s.prio, s.prio)
    BY OnLists DEF SameKeys
  <2>2. Serves(s.runnable, s.runnable, s.prio, s.prio)
    BY <2>1, SameKeysOrder
  <2> QED BY <2>2 DEF Sound, Dispatched, AsleepKept
<1>2. ASSUME NEW t \in G, t.asleep # <<>>
      PROVE  WakeFirst(t) \in G
  <2> DEFINE u == WakeFirst(t)
  <2>1. Sound(u) /\ Dispatched(t, u) /\ Range(t.runnable) \subseteq Range(u.runnable)
    BY <1>2, WakeFirstSound, WakeFirstDispatched
  <2> HIDE DEF u
  <2>2. s.runnable \in Seq(Pids) /\ t.runnable \in Seq(Pids) /\ u.runnable \in Seq(Pids)
    BY <2>1, OnLists
  <2>3. /\ Serves(s.runnable, t.runnable, s.prio, s.prio)
        /\ Serves(t.runnable, u.runnable, s.prio, s.prio)
    BY <2>1 DEF Dispatched
  <2>4. Serves(s.runnable, u.runnable, s.prio, s.prio)
    BY <2>2, <2>3, ServesTrans
  <2>5. Dispatched(s, u)
    BY <2>1, <2>4 DEF Dispatched, AsleepKept
  <2>6. u \in G
    BY <2>1, <2>5 DEF Sound
  <2> QED BY <2>6 DEF u
<1> HIDE DEF G
<1>3. WakeDue(s) \in G
  BY <1>1, <1>2, WakeDueKeeps
<1> QED BY <1>3 DEF G

(* The context switch. *)
LEMMA ElectDispatched ==
  ASSUME NEW s, Sound(s), s.runnable # <<>>
  PROVE  Dispatched(s, Elect(s))
<1> DEFINE t == Elect(s)
           prev == s.active_process
           rest == Tail(s.runnable)
           runs == s.state[prev] = PS_RUNNING
<1>1. /\ prev \in Pids /\ rest \in Seq(Pids)
      /\ t.attr = IF runs THEN With(s.attr, prev, 0) ELSE s.attr
      /\ t.runnable = IF runs THEN InsertAt(rest, PrioSlot(rest, s.prio, prev), prev)
                      ELSE rest
      /\ t.asleep = s.asleep /\ t.waiting = s.waiting /\ t.prio = s.prio
  BY ElectFields DEF SameBlocks
<1>2. /\ s.runnable \in Seq(Pids) /\ s.prio \in [Pids -> Int] /\ s.attr \in [Pids -> Int]
  BY OnLists
<1>3. /\ Thinned(s.runnable, rest)
      /\ Range(rest) = InState(s, {}, PS_RUNNABLE) \ {Head(s.runnable)}
  <2>1. IsListOf(s.runnable, InState(s, {}, PS_RUNNABLE))
    BY DEF Sound, ListsBut
  <2>2. IsListOf(rest, InState(s, {}, PS_RUNNABLE) \ {Head(s.runnable)})
    BY <1>2, <2>1, TailList
  <2> QED BY <1>2, <2>2, TailThins DEF IsListOf
<1> HIDE DEF t, rest
<1>4. Serves(s.runnable, rest, s.prio, s.prio)
  BY <1>1, <1>2, <1>3, ThinnedOrder
<1>5. Serves(s.runnable, t.runnable, s.prio, s.prio)
  <2>1. CASE runs
    <3>1. prev \notin InState(s, {}, PS_RUNNABLE)
      BY <2>1, DistinctStates DEF InState
    <3>2. prev \notin Range(rest) /\ SameKeys(rest, s.prio, s.prio)
      BY <1>3, <3>1 DEF SameKeys
    <3>3. t.runnable = InsertAt(rest, PrioSlot(rest, s.prio, prev), prev)
      BY <1>1, <2>1
    <3> HIDE DEF prev
    <3>4. Serves(rest, t.runnable, s.prio, s.prio)
      BY <1>1, <1>2, <3>2, <3>3, InsertServes
    <3>5. t.runnable \in Seq(Pids) /\ Range(t.runnable) = Range(rest) \cup {prev}
      <4> DEFINE i == PrioSlot(rest, s.prio, prev)
      <4>1. i \in 1 .. Len(rest) + 1
        BY <1>1, PrioSlotRange
      <4>2. IsListOf(rest, Range(rest))
        <5>1. IsListOf(s.runnable, InState(s, {}, PS_RUNNABLE))
          BY DEF Sound, ListsBut
        <5> QED BY <1>2, <5>1, TailList DEF IsListOf, rest
      <4>3. t.runnable = InsertAt(rest, i, prev)
        BY <3>3
      <4> HIDE DEF i
      <4>4. t.runnable \in Seq(Pids) /\ IsListOf(t.runnable, Range(rest) \cup {prev})
        BY <1>1, <3>2, <4>1, <4>2, <4>3, InsertList
      <4> QED BY <4>4 DEF IsListOf
    <3>6. Range(s.runnable) = InState(s, {}, PS_RUNNABLE)
      BY DEF Sound, ListsBut, IsListOf
    <3>7. \A q \in Range(s.runnable) : q \in Range(t.runnable) => q \in Range(rest)
      BY <3>1, <3>5, <3>6
    <3> QED BY <1>1, <1>2, <1>4, <3>4, <3>5, <3>7, ServesTrans
  <2>2. CASE ~runs
    BY <1>1, <1>4, <2>2
  <2> QED BY <2>1, <2>2
<1>6. AsleepKept(s, t)
  <2>1. \A q \in Pids : s.state[q] = PS_ASLEEP => t.attr[q] = s.attr[q]
    BY <1>1, <1>2, DistinctStates DEF With
  <2> QED BY <1>1, <2>1, SameAsleep
<1> QED BY <1>1, <1>5, <1>6 DEF Dispatched, t
(* tick_scheduler. *)
LEMMA TickDispatched ==
  ASSUME NEW s, Sound(s)
  PROVE  Dispatched(s, tick_scheduler(s))
<1> DEFINE awake == WakeDue(s)
           t == tick_scheduler(s)
<1>1. /\ Sound(awake) /\ Dispatched(s, awake)
      /\ Range(s.runnable) \subseteq Range(awake.runnable)
  BY WakeDueSound, WakeDueDispatched
<1>2. t = IF MustElect(awake) THEN Elect(awake) ELSE awake
  BY DEF tick_scheduler
<1> HIDE DEF awake, t
<1>3. CASE MustElect(awake)
  <2>1. Sound(t) /\ Quiet(awake, t) /\ Dispatched(awake, t)
    BY <1>1, <1>2, <1>3, SomeRunnable, ElectStable, ElectQuiet, ElectDispatched DEF Stable
  <2>2. RunnableServed(s, awake)
    BY <1>1 DEF RunnableServed, Stays, Dispatched
  <2>3. Serves(s.runnable, t.runnable, s.prio, awake.prio)
    BY <1>1, <2>1, <2>2, ThenServes DEF Dispatched
  <2> QED BY <1>1, <2>1, <2>3 DEF Dispatched, AsleepKept, t
<1>4. CASE ~MustElect(awake)
  BY <1>1, <1>2, <1>4 DEF t
<1> QED BY <1>3, <1>4

(* The state is what it was. *)
LEMMA SelfDispatched ==
  ASSUME NEW s, Sound(s)
  PROVE  Dispatched(s, s)
<1>1. s.runnable \in Seq(Pids) /\ SameKeys(s.runnable, s.prio, s.prio)
  BY OnLists DEF SameKeys
<1>2. Serves(s.runnable, s.runnable, s.prio, s.prio)
  BY <1>1, SameKeysOrder
<1> QED BY <1>2 DEF Dispatched, AsleepKept

(* Whichever way a call ends. *)
LEMMA ScheduledDispatched ==
  ASSUME NEW s, NEW u, NEW t, Scheduled(s, u, t)
  PROVE  Dispatched(u, t)
BY TickDispatched, SelfDispatched DEF Scheduled, fix_scheduler

-----------------------------------------------------------------------------
(* Who runs. *)

(* The head of a sorted runnable list has the highest priority in it. *)
LEMMA HeadHighest ==
  ASSUME NEW s, Sound(s), Falling(s.runnable, s.prio)
  PROVE  /\ \A q \in Pids : s.state[q] = PS_RUNNABLE => s.runnable # <<>>
         /\ s.runnable # <<>> => Head(s.runnable) \in Pids
         /\ \A q \in Pids : s.state[q] = PS_RUNNABLE
                              => s.prio[q] <= s.prio[Head(s.runnable)]
<1>1. s.runnable \in Seq(Pids) /\ s.prio \in [Pids -> Int]
  BY OnLists
<1>2. ASSUME NEW q \in Pids, s.state[q] = PS_RUNNABLE
      PROVE  s.runnable # <<>> /\ s.prio[q] <= s.prio[Head(s.runnable)]
  <2>1. q \in Range(s.runnable)
    BY <1>2, OnLists
  <2>2. PICK i \in 1 .. Len(s.runnable) : s.runnable[i] = q
    BY <1>1, <2>1 DEF Range
  <2>3. 1 \in 1 .. Len(s.runnable) /\ Head(s.runnable) = s.runnable[1] /\ s.runnable # <<>>
    BY <1>1, <2>2
  <2>4. CASE i = 1
    BY <1>1, <2>2, <2>3, <2>4
  <2>5. CASE i > 1
    BY <2>2, <2>3, <2>5 DEF Falling
  <2> QED BY <2>2, <2>3, <2>4, <2>5
<1>3. s.runnable # <<>> => Head(s.runnable) \in Pids
  BY <1>1
<1> QED BY <1>2, <1>3

(* Nobody in the list outranks the active process. *)
LEMMA UnpreemptedTop ==
  ASSUME NEW s, Sound(s), Falling(s.runnable, s.prio),
         s.runnable # <<>> => s.prio[Head(s.runnable)] <= s.prio[s.active_process]
  PROVE  TopRuns(s)
<1> SUFFICES ASSUME NEW q \in Pids, s.state[q] = PS_RUNNABLE
             PROVE  s.prio[q] <= s.prio[s.active_process]
  BY DEF TopRuns
<1>1. /\ s.runnable # <<>> /\ Head(s.runnable) \in Pids
      /\ s.prio[q] <= s.prio[Head(s.runnable)]
  BY HeadHighest
<1>2. s.prio \in [Pids -> Int] /\ s.active_process \in Pids
  BY OnLists
<1> QED BY <1>1, <1>2

(* tick_scheduler leaves the processor to a process of the highest         *)
(* priority.                                                               *)
LEMMA TickTop ==
  ASSUME NEW s, Sound(s), Falling(s.runnable, s.prio)
  PROVE  TopRuns(tick_scheduler(s))
<1> DEFINE awake == WakeDue(s)
           t == tick_scheduler(s)
<1>1. Sound(awake) /\ Dispatched(s, awake)
  BY WakeDueSound, WakeDueDispatched
<1>2. t = IF MustElect(awake) THEN Elect(awake) ELSE awake
  BY DEF tick_scheduler
<1> HIDE DEF awake, t
<1>3. Falling(awake.runnable, awake.prio)
  BY <1>1 DEF Dispatched, Serves
<1>4. awake.prio \in [Pids -> Int] /\ awake.active_process \in Pids
      /\ awake.state \in [Pids -> States]
  BY <1>1, OnLists
<1>5. CASE MustElect(awake)
  <2> DEFINE prev == awake.active_process
             next == Head(awake.runnable)
             runs == awake.state[prev] = PS_RUNNING
  <2>1. awake.runnable # <<>> /\ next \in Pids
    BY <1>1, <1>3, <1>5, SomeRunnable, HeadHighest
  <2>2. /\ t.state = With(IF runs THEN With(awake.state, prev, PS_RUNNABLE)
                          ELSE awake.state, next, PS_RUNNING)
        /\ t.active_process = next /\ t.prio = awake.prio
    BY <1>1, <1>2, <1>5, <2>1, ElectFields DEF SameBlocks
  <2>3. runs => awake.prio[prev] <= awake.prio[next]
    <3>1. runs => awake.prio[next] >= awake.prio[prev]
      BY <1>5 DEF MustElect
    <3> QED BY <1>4, <2>1, <3>1
  <2>4. \A q \in Pids : awake.state[q] = PS_RUNNABLE => awake.prio[q] <= awake.prio[next]
    BY <1>1, <1>3, HeadHighest
  <2> HIDE DEF prev, next
  <2>5. ASSUME NEW q \in Pids, t.state[q] = PS_RUNNABLE
        PROVE  awake.state[q] = PS_RUNNABLE \/ (runs /\ q = prev)
    BY <1>4, <2>1, <2>2, <2>5, DistinctStates DEF With
  <2>6. TopRuns(t)
    BY <2>2, <2>3, <2>4, <2>5 DEF TopRuns
  <2> QED BY <2>6 DEF t
<1>6. CASE ~MustElect(awake)
  <2>1. awake.runnable # <<>> =>
          awake.prio[Head(awake.runnable)] <= awake.prio[awake.active_process]
    <3>1. awake.runnable # <<>> =>
            ~(awake.prio[Head(awake.runnable)] >= awake.prio[awake.active_process])
      BY <1>6 DEF MustElect
    <3>2. awake.runnable # <<>> => Head(awake.runnable) \in Pids
      BY <1>1, <1>3, HeadHighest
    <3> QED BY <1>4, <3>1, <3>2
  <2>2. TopRuns(awake)
    BY <1>1, <1>3, <2>1, UnpreemptedTop
  <2> QED BY <1>2, <1>6, <2>2 DEF t
<1> QED BY <1>5, <1>6

(* So does fix_scheduler. *)
LEMMA FixTop ==
  ASSUME NEW s, Sound(s), Falling(s.runnable, s.prio)
  PROVE  TopRuns(fix_scheduler(s))
<1>1. CASE Preempted(s)
  BY <1>1, TickTop DEF fix_scheduler
<1>2. CASE ~Preempted(s)
  <2>1. s.runnable # <<>> => s.prio[Head(s.runnable)] <= s.prio[s.active_process]
    <3>1. s.runnable # <<>> => ~(s.prio[s.active_process] < s.prio[Head(s.runnable)])
      BY <1>2 DEF Preempted
    <3>2. /\ s.runnable # <<>> => Head(s.runnable) \in Pids
          /\ s.prio \in [Pids -> Int] /\ s.active_process \in Pids
      BY HeadHighest, OnLists
    <3> QED BY <3>1, <3>2
  <2>2. TopRuns(s)
    BY <2>1, UnpreemptedTop
  <2> QED BY <1>2, <2>2 DEF fix_scheduler
<1> QED BY <1>1, <1>2

(* A call that ends without the scheduler moved nobody. *)
LEMMA ScheduledTop ==
  ASSUME NEW s, Sound(s), NEW u, NEW t, Scheduled(s, u, t),
         Falling(u.runnable, u.prio), TopRuns(s)
  PROVE  TopRuns(t)
<1>1. CASE t = u /\ Stable(u) /\ Unmoved(s, u)
  <2>1. Sound(u) /\ u.prio = s.prio /\ u.runnable = s.runnable
        /\ u.active_process = s.active_process
    BY <1>1 DEF Scheduled, Unmoved
  <2>2. \A q \in Pids : u.state[q] = PS_RUNNABLE <=> q \in Range(u.runnable)
    BY <2>1, OnLists
  <2>3. \A q \in Pids : s.state[q] = PS_RUNNABLE <=> q \in Range(s.runnable)
    BY OnLists
  <2> QED BY <1>1, <2>1, <2>2, <2>3 DEF TopRuns
<1> QED BY <1>1, TickTop, FixTop DEF Scheduled
-----------------------------------------------------------------------------
(* Steps. *)

(* Nobody is overtaken between two states. *)
Fair(s, t) ==
  /\ InOrder(s.runnable, t.runnable, s.prio, t.prio)
  /\ \A fid \in Fids, st \in WaitStates :
       InOrder(s.waiting[<<fid, st>>], t.waiting[<<fid, st>>], s.prio, t.prio)

(* A change and the scheduler behind it. *)
LEMMA ChangeSorted ==
  ASSUME NEW s, Stable(s), Sorted(s), NEW u, NEW t, Scheduled(s, u, t), Change(s, u)
  PROVE  /\ Sorted(t) /\ Fair(s, t)
         /\ TopRuns(s) => TopRuns(t)
<1>1. Sound(s) /\ Sound(u) /\ Sound(t) /\ Quiet(u, t)
  BY ScheduledQuiet DEF Stable, Scheduled
<1>2. RunnableServed(s, u) /\ WaitingServed(s, u) /\ AsleepKept(s, u)
  BY <1>1, ChangeOrdered DEF Ordered
<1>3. /\ t.prio = u.prio /\ t.waiting = u.waiting /\ AsleepKept(u, t)
      /\ Serves(u.runnable, t.runnable, u.prio, u.prio)
  BY ScheduledDispatched DEF Dispatched
<1>4. Serves(s.runnable, t.runnable, s.prio, t.prio)
  BY <1>1, <1>2, <1>3, ThenServes
<1>5. Falling(t.runnable, t.prio) /\ InOrder(s.runnable, t.runnable, s.prio, t.prio)
  BY <1>4 DEF Serves, Sorted
<1>6. Rising(t.asleep, t.attr)
  BY <1>2, <1>3 DEF AsleepKept, Sorted
<1>7. \A fid \in Fids, st \in WaitStates :
        /\ Falling(t.waiting[<<fid, st>>], t.prio)
        /\ InOrder(s.waiting[<<fid, st>>], t.waiting[<<fid, st>>], s.prio, t.prio)
  BY <1>2, <1>3 DEF WaitingServed, Serves, Sorted
<1>8. Falling(u.runnable, u.prio)
  BY <1>2 DEF RunnableServed, Serves, Sorted
<1>9. TopRuns(s) => TopRuns(t)
  BY <1>1, <1>8, ScheduledTop
<1> QED BY <1>5, <1>6, <1>7, <1>9 DEF Sorted, Fair

(* Every step. *)
LEMMA StepSorted ==
  ASSUME KernelInv, Sorted(K), Next
  PROVE  Sorted(K') /\ Fair(K, K') /\ (TopRuns(K) => TopRuns(K'))
<1> DEFINE s == K
           t == K'
<1>1. PICK u : Stable(s) /\ Scheduled(s, u, t) /\ Change(s, u)
  BY StepKinds
<1>2. Sorted(s)
  OBVIOUS
<1> HIDE DEF s, t
<1>3. Sorted(t) /\ Fair(s, t) /\ (TopRuns(s) => TopRuns(t))
  BY <1>1, <1>2, ChangeSorted
<1> QED BY <1>3 DEF s, t

(* The lists of the state boot leaves. *)
LEMMA BootSorted == Sorted(Boot)
<1> DEFINE s == setup_scheduler
           t == pcreate(s, BUFFER_SIZE, TRUE)
<1>1. start_user_background(t, 1, TRUE) = Boot
  BY DEF Boot
<1>2. Sorted(s)
  <2>1. /\ s.runnable = <<>> /\ s.asleep = <<>>
        /\ \A fid \in Fids, st \in WaitStates : s.waiting[<<fid, st>>] = <<>>
    BY DEF setup_scheduler
  <2> HIDE DEF s
  <2> QED BY <2>1 DEF Sorted, Falling, Rising
<1>3. Stable(s) /\ s.dead # <<>> /\ FreeFids(s) # {}
  <2>1. 0 \in FreeFids(s)
    BY SizesAssumption DEF FreeFids, Fids, setup_scheduler, FreeQueue, is_queue_free
  <2> QED BY <2>1, SetupStable
<1> HIDE DEF s
<1>4. PICK u, fid : Scheduled(s, u, t) /\ Created(s, u, fid, BUFFER_SIZE, TRUE)
  <2>1. BUFFER_SIZE \in 1 .. MAXCOUNT
    BY InputsAssumption
  <2> QED BY <1>3, <2>1, PcreateKind
<1>5. fid \in Fids /\ BUFFER_SIZE \in 1 .. MAXCOUNT /\ u.dead = s.dead
  BY <1>4 DEF Created, Put, SameLists
<1>6. Change(s, u)
  BY <1>4, <1>5 DEF Change, QueueChange
<1>7. Sorted(t) /\ Stable(t) /\ t.dead # <<>>
  <2>1. Sorted(t)
    BY <1>2, <1>3, <1>4, <1>6, ChangeSorted
  <2>2. Stable(t) /\ Quiet(u, t)
    BY <1>4, ScheduledQuiet
  <2> QED BY <1>3, <1>5, <2>1, <2>2 DEF Quiet
<1> HIDE DEF t
<1>8. Started(t, start_user_background(t, 1, TRUE), Head(t.dead), 1, TRUE)
  <2>1. Sound(t) /\ 1 \in Int /\ TRUE \in BOOLEAN
    BY <1>7 DEF Stable
  <2> QED BY <1>7, <2>1, StartFields, Zenon
<1>9. Ordered(t, Boot)
  <2>1. Head(t.dead) \in Pids /\ 1 \in Int /\ TRUE \in BOOLEAN
    BY <1>8 DEF Started
  <2>2. Started(t, Boot, Head(t.dead), 1, TRUE) /\ Sound(t) /\ Sound(Boot)
    BY <1>1, <1>7, <1>8, BootStable DEF Stable
  <2> HIDE DEF Boot
  <2> QED BY <2>1, <2>2, StartedOrdered, Zenon
<1> HIDE DEF Boot
<1> QED BY <1>7, <1>9 DEF Ordered, RunnableServed, WaitingServed, AsleepKept, Serves, Sorted

-----------------------------------------------------------------------------
(* Theorems. *)

(* Sorted is kept by every step of the kernel, with KernelInv. *)
THEOREM OrderInvariant == Spec => [](KernelInv /\ Sorted(K))
<1>1. Init => Sorted(K)
  BY InitState, BootSorted
<1>2. KernelInv /\ Sorted(K) /\ [Next]_vars => Sorted(K)'
  <2> SUFFICES ASSUME KernelInv, Sorted(K), [Next]_vars
               PROVE  Sorted(K)'
    OBVIOUS
  <2>1. ASSUME Next
        PROVE  Sorted(K')
    BY <2>1, StepSorted
  <2>2. ASSUME UNCHANGED vars
        PROVE  Sorted(K')
    <3>1. K' = K
      BY <2>2 DEF K, vars
    <3> QED BY <3>1
  <2>3. Sorted(K')
    BY <2>1, <2>2
  <2> QED BY <2>3 DEF Sorted, Falling, Rising
<1> QED BY <1>1, <1>2, KernelInvariant, PTL DEF Spec

(* The runnable and waiting lists are sorted by decreasing priority and    *)
(* the asleep list by wake-up time: chprio moves a process in the list it  *)
(* is on, and every insertion walks to the right place.                    *)
THEOREM ListsStaySorted == Spec => []ListsSorted
<1>1. Sorted(K) => ListsSorted
  BY DEF ListsSorted
<1> QED BY <1>1, OrderInvariant, PTL

(* Processes of equal priority are served in arrival order: whatever call  *)
(* is made, no process passes one of its priority in the runnable list or  *)
(* in a list of a queue.                                                   *)
THEOREM NobodyOvertakes == Spec => NoOvertaking
<1> DEFINE A == /\ NoOvertakingIn(runnable, runnable')
                /\ \A w \in Fids \X WaitStates : NoOvertakingIn(waiting[w], waiting'[w])
<1>1. KernelInv /\ Sorted(K) /\ [Next]_vars => [A]_vars
  <2> SUFFICES ASSUME KernelInv, Sorted(K), Next
               PROVE  A
    OBVIOUS
  <2>1. Fair(K, K')
    BY StepSorted
  <2>2. /\ InOrder(runnable, runnable', prio, prio')
        /\ \A fid \in Fids, st \in WaitStates :
             InOrder(waiting[<<fid, st>>], waiting'[<<fid, st>>], prio, prio')
    BY <2>1 DEF Fair, K
  <2>3. ASSUME NEW w \in Fids \X WaitStates
        PROVE  InOrder(waiting[w], waiting'[w], prio, prio')
    <3>1. PICK fid \in Fids, st \in WaitStates : w = <<fid, st>>
      BY <2>3
    <3> QED BY <2>2, <3>1
  <2> QED BY <2>2, <2>3 DEF InOrder, NoOvertakingIn
<1>2. Spec => [][A]_vars
  BY <1>1, OrderInvariant, PTL DEF Spec
<1> QED BY <1>2 DEF NoOvertaking

(* Control never comes back to a process while a runnable one has a higher *)
(* priority: every call that wakes, starts, demotes or promotes a process  *)
(* ends in the scheduler, and the head it reads is the highest priority.   *)
THEOREM PriorityIsKept == Spec => PriorityKept
<1>1. KernelInv /\ Sorted(K) /\ [Next]_vars => [TopPriorityRuns => TopPriorityRuns']_vars
  <2> SUFFICES ASSUME KernelInv, Sorted(K), Next, TopPriorityRuns
               PROVE  TopPriorityRuns'
    OBVIOUS
  <2>1. TopRuns(K')
    BY StepSorted DEF TopPriorityRuns
  <2> QED BY <2>1 DEF TopPriorityRuns, TopRuns
<1>2. Spec => [][TopPriorityRuns => TopPriorityRuns']_vars
  BY <1>1, OrderInvariant, PTL DEF Spec
<1> QED BY <1>2 DEF PriorityKept
=============================================================================
