---------------------------- MODULE KernelProofs -----------------------------
(***************************************************************************)
(* Every step of module Kernel keeps KernelProperties!KernelInv, and what  *)
(* follows from it: the theorems at the end of the module.                 *)
(*                                                                         *)
(* First the primitives of kernel/scheduler.c.  Inside a system call a     *)
(* process is for a moment on no list: ListsBut(s, X) holds with that      *)
(* process in X.  Each primitive moves one process into or out of X        *)
(* (Unlink, Unlisted, RemoveRunnable; PushRunnable, PushDead, Settled),    *)
(* and the calls are proved by chaining them.  There is a lemma per system *)
(* call, from the state K to the state it leaves, the calls of queues.c    *)
(* first; the steps of Next then only look up their call's lemma.          *)
(*                                                                         *)
(* The updates inside a call are named by DEFINEs that are hidden once     *)
(* their effect is stated: With is a function update the provers do not    *)
(* expand unless told to.                                                  *)
(***************************************************************************)
EXTENDS KernelProperties, ListLemmas

(* f with the value v at p. *)
With(f, p, v) == [f EXCEPT ![p] = v]

(* What push_runnable, push_dead and the queue lists leave alone. *)
SameBlocks(s, t) ==
  /\ t.prio = s.prio /\ t.parent = s.parent /\ t.call = s.call
  /\ t.local = s.local /\ t.message = s.message

(* What the scheduler leaves alone: the rings, and whether an assert failed. *)
SameQueues(s, t) == t.queues = s.queues /\ t.mode = s.mode

(* The states of enum process_state_t that name lists are distinct. *)
LEMMA DistinctStates ==
  /\ PS_RUNNABLE \in Int /\ PS_ASLEEP \in Int /\ PS_DEAD \in Int
  /\ WaitStates \subseteq States
  /\ PS_RUNNABLE \in States /\ PS_ASLEEP \in States /\ PS_DEAD \in States
  /\ PS_ZOMBIE \in States /\ PS_RUNNING \in States /\ PS_WAIT_CHILD \in States
  /\ States \subseteq Int
  /\ PS_DEAD # PS_RUNNABLE /\ PS_DEAD # PS_ASLEEP /\ PS_DEAD \notin WaitStates
  /\ PS_RUNNABLE # PS_ASLEEP
  /\ PS_RUNNABLE \notin WaitStates /\ PS_ASLEEP \notin WaitStates
  /\ \A st \in {PS_ZOMBIE, PS_RUNNING, PS_WAIT_CHILD} :
       st \notin {PS_DEAD, PS_RUNNABLE, PS_ASLEEP} \cup WaitStates
  /\ PS_ZOMBIE # PS_RUNNING /\ PS_ZOMBIE # PS_WAIT_CHILD
  /\ PS_RUNNING # PS_WAIT_CHILD
BY DEF States, WaitStates, PS_DEAD, PS_ZOMBIE, PS_RUNNABLE, PS_RUNNING,
       PS_ASLEEP, PS_WAIT_CHILD, PS_WAIT_QUEUE_EMPTY, PS_WAIT_QUEUE_FULL

(* push_runnable, field by field. *)
LEMMA PushRunnableFields ==
  ASSUME NEW s \in KernelStates, NEW p \in Pids
  PROVE  LET t == push_runnable(s, p) IN
         /\ t \in KernelStates
         /\ t.state = With(s.state, p, PS_RUNNABLE) /\ t.attr = With(s.attr, p, 0)
         /\ t.runnable = InsertAt(s.runnable, PrioSlot(s.runnable, s.prio, p), p)
         /\ t.asleep = s.asleep /\ t.waiting = s.waiting /\ t.dead = s.dead
         /\ t.active_process = s.active_process /\ t.pit_count = s.pit_count
         /\ t.queues = s.queues /\ SameBlocks(s, t)
<1> DEFINE u == assert(s, s.state[p] # PS_RUNNABLE)
           x == With(s.state, p, PS_RUNNABLE)
           y == With(s.attr, p, 0)
           z == InsertAt(s.runnable, PrioSlot(s.runnable, s.prio, p), p)
           t == push_runnable(s, p)
<1>1. /\ u \in KernelStates /\ u.state = s.state /\ u.attr = s.attr
      /\ u.runnable = s.runnable /\ u.asleep = s.asleep /\ u.waiting = s.waiting
      /\ u.dead = s.dead /\ u.active_process = s.active_process
      /\ u.pit_count = s.pit_count /\ u.queues = s.queues /\ SameBlocks(s, u)
  BY DEF assert, panic, KernelStates, SameBlocks
<1>2. t = [u EXCEPT !.state[p] = PS_RUNNABLE, !.attr[p] = 0,
                    !.runnable = InsertAt(@, PrioSlot(@, s.prio, p), p)]
  BY DEF push_runnable
<1> HIDE DEF u, t
<1>3. t = [u EXCEPT !.state = x, !.attr = y, !.runnable = z]
  BY <1>1, <1>2 DEF With
<1>4. x \in [Pids -> States] /\ y \in [Pids -> Int]
  BY DistinctStates DEF KernelStates, With
<1>5. z \in Seq(Pids)
  <2>1. s.runnable \in Seq(Pids)
    BY DEF KernelStates
  <2>2. PrioSlot(s.runnable, s.prio, p) \in 1 .. Len(s.runnable) + 1
    BY <2>1, PrioSlotRange
  <2> QED BY <2>1, <2>2, InsertAtElements
<1> HIDE DEF x, y, z
<1>6. /\ t \in KernelStates /\ t.state = x /\ t.attr = y /\ t.runnable = z
      /\ t.asleep = u.asleep /\ t.waiting = u.waiting /\ t.dead = u.dead
      /\ t.active_process = u.active_process /\ t.pit_count = u.pit_count
      /\ t.queues = u.queues /\ SameBlocks(u, t)
  BY <1>1, <1>3, <1>4, <1>5 DEF KernelStates, SameBlocks
<1> QED BY <1>1, <1>6 DEF SameBlocks, x, y, z, t

(* push_runnable links a process that is on no list. *)
LEMMA PushRunnable ==
  ASSUME NEW X, NEW s \in KernelStates, NEW p \in Pids, p \notin X,
         ListsBut(s, X \cup {p}), s.state[p] # PS_RUNNABLE
  PROVE  LET t == push_runnable(s, p) IN
         /\ t \in KernelStates
         /\ ListsBut(t, X)
         /\ t.state = With(s.state, p, PS_RUNNABLE)
         /\ t.attr = With(s.attr, p, 0)
         /\ t.asleep = s.asleep /\ t.waiting = s.waiting /\ t.dead = s.dead
         /\ t.active_process = s.active_process
         /\ SameBlocks(s, t) /\ SameQueues(s, t)
<1> DEFINE t == push_runnable(s, p)
           x == [s.state EXCEPT ![p] = PS_RUNNABLE]
           y == [s.attr EXCEPT ![p] = 0]
           z == InsertAt(s.runnable, PrioSlot(s.runnable, s.prio, p), p)
           L == InState(s, X \cup {p}, PS_RUNNABLE)
<1>1. x \in [Pids -> States] /\ y \in [Pids -> Int]
  BY DEF KernelStates, States, PS_DEAD, PS_RUNNABLE, PS_WAIT_QUEUE_FULL
<1>2. t = [s EXCEPT !.state = x, !.attr = y, !.runnable = z]
  BY DEF push_runnable, assert
<1>3. z \in Seq(Pids) /\ IsListOf(z, L \cup {p})
  <2>1. s.runnable \in Seq(Pids) /\ IsListOf(s.runnable, L) /\ p \notin L
    BY DEF KernelStates, ListsBut, InState
  <2>2. PrioSlot(s.runnable, s.prio, p) \in 1 .. Len(s.runnable) + 1
    BY <2>1, PrioSlotRange
  <2> HIDE DEF L
  <2> QED BY <2>1, <2>2, InsertList
<1> HIDE DEF t, x, y, z
<1>5. /\ t \in KernelStates
      /\ t.state = x /\ t.attr = y /\ t.runnable = z
      /\ t.asleep = s.asleep /\ t.waiting = s.waiting /\ t.dead = s.dead
      /\ t.active_process = s.active_process
      /\ SameBlocks(s, t) /\ SameQueues(s, t)
  BY <1>1, <1>2, <1>3 DEF KernelStates, SameBlocks, SameQueues
<1> USE DEF x, y
<1>6. s.state \in [Pids -> States] /\ s.attr \in [Pids -> Int]
  BY DEF KernelStates
<1>7. ListsBut(t, X)
  <2>1. InState(t, X, PS_RUNNABLE) = L \cup {p}
    BY <1>5, <1>6 DEF InState
  <2>2. \A st \in Int \ {PS_RUNNABLE} : InState(t, X, st) = InState(s, X \cup {p}, st)
    BY <1>5, <1>6 DEF InState
  <2>3. \A fid \in Fids, st \in WaitStates :
          WaitingOn(t, X, fid, st) = WaitingOn(s, X \cup {p}, fid, st)
    BY <1>5, <1>6, <2>2, DistinctStates DEF WaitingOn, InState
  <2>4. \A st \in WaitStates : \A q \in InState(t, X, st) : t.attr[q] \in Fids
    BY <1>5, <1>6, <2>2, DistinctStates DEF ListsBut, InState
  <2> HIDE DEF L
  <2> QED BY <1>3, <1>5, <2>1, <2>2, <2>3, <2>4, DistinctStates DEF ListsBut
<1> QED BY <1>5, <1>7 DEF t, With

-----------------------------------------------------------------------------
(* Taking a process out of its list, and putting it back. *)

(* The lists of t hold what the lists of s should, without p. *)
ListsWithout(s, t, X, p) ==
  /\ IsListOf(t.runnable, InState(s, X, PS_RUNNABLE) \ {p})
  /\ IsListOf(t.asleep, InState(s, X, PS_ASLEEP) \ {p})
  /\ \A fid \in Fids, st \in WaitStates :
       IsListOf(t.waiting[<<fid, st>>], WaitingOn(s, X, fid, st) \ {p})
  /\ IsInjective(t.dead)
  /\ Range(t.dead) \subseteq InState(s, X, PS_DEAD) \ {p}

(* A process leaves every list. *)
LEMMA Unlink ==
  ASSUME NEW X, NEW s \in KernelStates, NEW t \in KernelStates, NEW p \in Pids,
         ListsBut(s, X), ListsWithout(s, t, X, p),
         t.state = s.state, t.attr = s.attr
  PROVE  ListsBut(t, X \cup {p})
<1>1. \A st : InState(t, X \cup {p}, st) = InState(s, X, st) \ {p}
  BY DEF InState
<1>2. \A fid, st : WaitingOn(t, X \cup {p}, fid, st) = WaitingOn(s, X, fid, st) \ {p}
  BY <1>1 DEF WaitingOn
<1>3. \A st \in WaitStates : \A q \in InState(t, X \cup {p}, st) : t.attr[q] \in Fids
  BY <1>1 DEF ListsBut
<1> QED BY <1>1, <1>2, <1>3 DEF ListsBut, ListsWithout

(* The lists a process is not on, seen without it. *)
LEMMA OtherLists ==
  ASSUME NEW X, NEW s \in KernelStates, NEW p \in Pids, ListsBut(s, X)
  PROVE  /\ s.state[p] # PS_RUNNABLE
              => IsListOf(s.runnable, InState(s, X, PS_RUNNABLE) \ {p})
         /\ s.state[p] # PS_ASLEEP
              => IsListOf(s.asleep, InState(s, X, PS_ASLEEP) \ {p})
         /\ \A fid \in Fids, st \in WaitStates :
              s.state[p] # st \/ s.attr[p] # fid
                => IsListOf(s.waiting[<<fid, st>>], WaitingOn(s, X, fid, st) \ {p})
         /\ IsInjective(s.dead)
         /\ s.state[p] # PS_DEAD => Range(s.dead) \subseteq InState(s, X, PS_DEAD) \ {p}
<1>1. \A st : s.state[p] # st => InState(s, X, st) \ {p} = InState(s, X, st)
  BY DEF InState
<1>2. \A fid, st : s.state[p] # st \/ s.attr[p] # fid
        => WaitingOn(s, X, fid, st) \ {p} = WaitingOn(s, X, fid, st)
  BY DEF WaitingOn, InState
<1> QED BY <1>1, <1>2 DEF ListsBut

(* A process whose state names no list is on none. *)
LEMMA Unlisted ==
  ASSUME NEW X, NEW s \in KernelStates, NEW p \in Pids, ListsBut(s, X),
         s.state[p] \in {PS_ZOMBIE, PS_RUNNING, PS_WAIT_CHILD}
  PROVE  ListsBut(s, X \cup {p})
<1>1. ListsWithout(s, s, X, p)
  BY OtherLists, DistinctStates DEF ListsWithout
<1> QED BY <1>1, Unlink

(* A process on no list may change its state. *)
LEMMA Relabel ==
  ASSUME NEW X, NEW s \in KernelStates, NEW t \in KernelStates, NEW p \in Pids,
         ListsBut(s, X \cup {p}),
         t.runnable = s.runnable, t.asleep = s.asleep, t.waiting = s.waiting,
         t.dead = s.dead,
         \A q \in Pids \ {p} : t.state[q] = s.state[q] /\ t.attr[q] = s.attr[q]
  PROVE  ListsBut(t, X \cup {p})
<1>1. \A st : InState(t, X \cup {p}, st) = InState(s, X \cup {p}, st)
  BY DEF InState
<1>2. \A fid, st : WaitingOn(t, X \cup {p}, fid, st) = WaitingOn(s, X \cup {p}, fid, st)
  BY <1>1 DEF WaitingOn, InState
<1>3. \A st \in WaitStates : \A q \in InState(t, X \cup {p}, st) : t.attr[q] \in Fids
  BY <1>1 DEF ListsBut, InState
<1> QED BY <1>1, <1>2, <1>3 DEF ListsBut

(* A step that touches neither states nor lists. *)
LEMMA ListsKept ==
  ASSUME NEW X, NEW s, NEW t, ListsBut(s, X),
         t.runnable = s.runnable, t.asleep = s.asleep, t.waiting = s.waiting,
         t.dead = s.dead, t.state = s.state, t.attr = s.attr
  PROVE  ListsBut(t, X)
<1>1. \A st : InState(t, X, st) = InState(s, X, st)
  BY DEF InState
<1>2. \A fid, st : WaitingOn(t, X, fid, st) = WaitingOn(s, X, fid, st)
  BY <1>1 DEF WaitingOn
<1> QED BY <1>1, <1>2 DEF ListsBut

(* A process on no list whose state names none. *)
LEMMA Settled ==
  ASSUME NEW X, NEW s \in KernelStates, NEW p \in Pids,
         ListsBut(s, X \cup {p}),
         s.state[p] \in {PS_DEAD, PS_ZOMBIE, PS_RUNNING, PS_WAIT_CHILD}
  PROVE  ListsBut(s, X)
<1>1. \A st \in {PS_RUNNABLE, PS_ASLEEP} \cup WaitStates :
        InState(s, X, st) = InState(s, X \cup {p}, st)
  BY DistinctStates DEF InState
<1>2. \A fid \in Fids, st \in WaitStates :
        WaitingOn(s, X, fid, st) = WaitingOn(s, X \cup {p}, fid, st)
  BY <1>1 DEF WaitingOn
<1>3. InState(s, X \cup {p}, PS_DEAD) \subseteq InState(s, X, PS_DEAD)
  BY DEF InState
<1> QED BY <1>1, <1>2, <1>3 DEF ListsBut

(* remove_runnable, for a process that is neither asleep nor waiting. *)
LEMMA RemoveRunnable ==
  ASSUME NEW X, NEW s \in KernelStates, NEW p \in Pids, ListsBut(s, X),
         s.state[p] \in {PS_RUNNABLE, PS_ZOMBIE, PS_RUNNING, PS_WAIT_CHILD}
  PROVE  LET t == remove_runnable(s, p) IN
         /\ t \in KernelStates
         /\ ListsBut(t, X \cup {p})
         /\ t.state = s.state /\ t.attr = s.attr
         /\ t.asleep = s.asleep /\ t.waiting = s.waiting /\ t.dead = s.dead
         /\ t.active_process = s.active_process
         /\ SameBlocks(s, t) /\ SameQueues(s, t)
<1>1. CASE s.state[p] # PS_RUNNABLE
  <2>1. remove_runnable(s, p) = s
    BY <1>1 DEF remove_runnable
  <2>2. ListsBut(s, X \cup {p})
    BY <1>1, Unlisted
  <2> QED BY <2>1, <2>2 DEF SameBlocks, SameQueues
<1>2. CASE s.state[p] = PS_RUNNABLE
  <2> DEFINE t == remove_runnable(s, p)
             z == RemoveFirst(s.runnable, p)
  <2>1. t = [s EXCEPT !.runnable = z]
    BY <1>2 DEF remove_runnable
  <2>2. z \in Seq(Pids) /\ IsListOf(z, InState(s, X, PS_RUNNABLE) \ {p})
    <3>1. s.runnable \in Seq(Pids) /\ IsListOf(s.runnable, InState(s, X, PS_RUNNABLE))
      BY DEF KernelStates, ListsBut
    <3> QED BY <3>1, RemoveList
  <2> HIDE DEF t, z
  <2>3. /\ t \in KernelStates
        /\ t.state = s.state /\ t.attr = s.attr /\ t.runnable = z
        /\ t.asleep = s.asleep /\ t.waiting = s.waiting /\ t.dead = s.dead
        /\ t.active_process = s.active_process
        /\ SameBlocks(s, t) /\ SameQueues(s, t)
    BY <2>1, <2>2 DEF KernelStates, SameBlocks, SameQueues
  <2>4. ListsWithout(s, t, X, p)
    BY <1>2, <2>2, <2>3, OtherLists, DistinctStates DEF ListsWithout
  <2>5. ListsBut(t, X \cup {p})
    BY <2>3, <2>4, Unlink
  <2> QED BY <2>3, <2>5 DEF t
<1> QED BY <1>1, <1>2

-----------------------------------------------------------------------------
(* The scheduler. *)

(* The idle process is one of the pids. *)
LEMMA IdlePid == IDLE \in Pids
BY SizesAssumption DEF IDLE, Pids

(* A step that leaves zombies and waiting parents alone. *)
LEMMA ChildKept ==
  ASSUME NEW s \in KernelStates, NEW t \in KernelStates, ChildWritten(s),
         t.call = s.call, t.local = s.local, t.parent = s.parent,
         \A p \in Pids : s.state[p] \in {PS_ZOMBIE, PS_WAIT_CHILD} => t.state[p] = s.state[p]
  PROVE  ChildWritten(t)
BY DEF ChildWritten

(* A step that leaves states, calls and families alone. *)
LEMMA SoundKept ==
  ASSUME NEW s, Sound(s), NEW t \in KernelStates, ListsBut(t, {}),
         \A q \in Pids : t.state[q] = s.state[q],
         t.active_process = s.active_process,
         t.call = s.call, t.local = s.local, t.parent = s.parent
  PROVE  Sound(t)
<1>1. IdleReady(t) /\ OnlyActive(t) /\ QueueCallers(t)
  BY IdlePid DEF Sound, IdleReady, OnlyActive, QueueCallers
<1>2. ChildWritten(t)
  BY DEF Sound, ChildWritten
<1> QED BY <1>1, <1>2 DEF Sound

(* A popped process, and what Elect does with it. *)
LEMMA ElectStable ==
  ASSUME NEW s, Sound(s), s.runnable # <<>>
  PROVE  LET t == Elect(s) IN Stable(t) /\ SameQueues(s, t)
<1> DEFINE prev == s.active_process
           next == Head(s.runnable)
           popped == [s EXCEPT !.active_process = next, !.runnable = Tail(@)]
           queued == IF s.state[prev] = PS_RUNNING THEN push_runnable(popped, prev) ELSE popped
           t == Elect(s)
<1>0. /\ s \in KernelStates /\ ListsBut(s, {}) /\ IdleReady(s) /\ OnlyActive(s)
      /\ ChildWritten(s) /\ QueueCallers(s) /\ prev \in Pids /\ s.runnable \in Seq(Pids)
      /\ s.state \in [Pids -> States]
  BY DEF Sound, KernelStates
<1>1. /\ next \in Pids /\ s.state[next] = PS_RUNNABLE
      /\ Tail(s.runnable) \in Seq(Pids)
      /\ IsListOf(Tail(s.runnable), InState(s, {}, PS_RUNNABLE) \ {next})
  <2>1. IsListOf(s.runnable, InState(s, {}, PS_RUNNABLE))
    BY <1>0 DEF ListsBut
  <2>2. /\ next \in Pids /\ next \in InState(s, {}, PS_RUNNABLE)
        /\ Tail(s.runnable) \in Seq(Pids)
        /\ IsListOf(Tail(s.runnable), InState(s, {}, PS_RUNNABLE) \ {next})
    BY <1>0, <2>1, TailList
  <2> QED BY <2>2 DEF InState
<1>2. t = [queued EXCEPT !.state[next] = PS_RUNNING]
  BY DEF Elect
<1> HIDE DEF t, next
<1>3. /\ popped \in KernelStates /\ popped.active_process = next
      /\ popped.state = s.state /\ popped.attr = s.attr
      /\ popped.runnable = Tail(s.runnable)
      /\ popped.asleep = s.asleep /\ popped.waiting = s.waiting /\ popped.dead = s.dead
      /\ SameBlocks(s, popped) /\ SameQueues(s, popped)
  BY <1>0, <1>1 DEF KernelStates, SameBlocks, SameQueues
<1> HIDE DEF popped
<1>4. ListsBut(popped, {next})
  <2>1. ListsWithout(s, popped, {}, next)
    BY <1>0, <1>1, <1>3, OtherLists, DistinctStates DEF ListsWithout
  <2>2. ListsBut(popped, {} \cup {next})
    BY <1>0, <1>1, <1>3, <2>1, Unlink
  <2> QED BY <2>2
<1>5. /\ queued \in KernelStates /\ ListsBut(queued, {next})
      /\ queued.active_process = next
      /\ queued.state = IF s.state[prev] = PS_RUNNING
                        THEN [s.state EXCEPT ![prev] = PS_RUNNABLE] ELSE s.state
      /\ SameBlocks(s, queued) /\ SameQueues(s, queued)
  <2>1. CASE s.state[prev] = PS_RUNNING
    <3> DEFINE X == {next}
    <3>1. prev \notin X
      BY <1>1, <2>1, DistinctStates
    <3>2. ListsBut(popped, X \cup {prev})
      BY <1>0, <1>3, <1>4, <2>1, Unlisted
    <3>3. popped.state[prev] # PS_RUNNABLE
      BY <1>3, <2>1, DistinctStates
    <3>4. queued = push_runnable(popped, prev)
      BY <2>1
    <3> HIDE DEF prev, queued, X
    <3>5. /\ queued \in KernelStates /\ ListsBut(queued, X)
          /\ queued.active_process = popped.active_process
          /\ queued.state = With(popped.state, prev, PS_RUNNABLE)
          /\ SameBlocks(popped, queued) /\ SameQueues(popped, queued)
      BY <1>0, <1>3, <3>1, <3>2, <3>3, <3>4, PushRunnable
    <3> QED BY <1>3, <2>1, <3>5 DEF X, With, SameBlocks, SameQueues
  <2>2. CASE s.state[prev] # PS_RUNNING
    BY <1>3, <1>4, <2>2
  <2> QED BY <2>1, <2>2
<1> HIDE DEF queued
<1>6. /\ t \in KernelStates /\ t.state = [queued.state EXCEPT ![next] = PS_RUNNING]
      /\ t.attr = queued.attr /\ t.runnable = queued.runnable
      /\ t.asleep = queued.asleep /\ t.waiting = queued.waiting /\ t.dead = queued.dead
      /\ t.active_process = next
      /\ SameBlocks(s, t) /\ SameQueues(s, t)
  <2> DEFINE x == [queued.state EXCEPT ![next] = PS_RUNNING]
  <2>1. x \in [Pids -> States]
    BY <1>1, <1>5, DistinctStates DEF KernelStates
  <2>2. t = [queued EXCEPT !.state = x]
    BY <1>2
  <2> HIDE DEF x
  <2>3. /\ t \in KernelStates /\ t.state = x
        /\ t.attr = queued.attr /\ t.runnable = queued.runnable
        /\ t.asleep = queued.asleep /\ t.waiting = queued.waiting /\ t.dead = queued.dead
        /\ t.active_process = queued.active_process
        /\ SameBlocks(queued, t) /\ SameQueues(queued, t)
    BY <1>5, <2>1, <2>2 DEF KernelStates, SameBlocks, SameQueues
  <2> QED BY <1>5, <2>3 DEF x, SameBlocks, SameQueues
<1>7. queued.state \in [Pids -> States]
  BY <1>5 DEF KernelStates
<1>8. ListsBut(t, {})
  <2>1. ListsBut(t, {} \cup {next})
    BY <1>1, <1>5, <1>6, <1>7, Relabel
  <2>2. t.state[next] = PS_RUNNING
    BY <1>1, <1>6, <1>7
  <2> QED BY <1>1, <1>6, <2>1, <2>2, Settled
<1>9. \A q \in Pids : t.state[q] = IF q = next THEN PS_RUNNING
                                  ELSE IF q = prev /\ s.state[q] = PS_RUNNING
                                  THEN PS_RUNNABLE ELSE s.state[q]
  BY <1>0, <1>1, <1>5, <1>6, <1>7
<1>10. IdleReady(t) /\ OnlyActive(t) /\ QueueCallers(t)
  BY <1>0, <1>6, <1>9, IdlePid, DistinctStates
     DEF IdleReady, OnlyActive, QueueCallers, SameBlocks
<1>11. ChildWritten(t)
  BY <1>0, <1>1, <1>6, <1>9, ChildKept, DistinctStates DEF SameBlocks
<1> QED BY <1>1, <1>6, <1>8, <1>9, <1>10, <1>11 DEF Stable, Sound, t

(* A process just taken off the list it was blocked on becomes runnable. *)
LEMMA WokenSound ==
  ASSUME NEW s, Sound(s), NEW u \in KernelStates, NEW p \in Pids,
         s.state[p] \in {PS_ASLEEP} \cup WaitStates, ListsBut(u, {p}),
         u.state = s.state, u.call = s.call, u.parent = s.parent,
         s.call[p] = "waitpid" => u.local[p] = s.local[p],
         \A q \in Pids \ {p} : u.local[q] = s.local[q],
         u.active_process = s.active_process, SameQueues(s, u)
  PROVE  LET t == push_runnable(u, p) IN
         Sound(t) /\ SameQueues(s, t) /\ t.active_process = s.active_process
<1> DEFINE t == push_runnable(u, p)
           X == {}
<1>1. /\ s \in KernelStates /\ IdleReady(s) /\ OnlyActive(s)
      /\ ChildWritten(s) /\ QueueCallers(s) /\ s.state \in [Pids -> States]
  BY DEF Sound, KernelStates
<1>2. p \notin X /\ ListsBut(u, X \cup {p}) /\ u.state[p] # PS_RUNNABLE
  <2>1. X \cup {p} = {p}
    OBVIOUS
  <2> QED BY <2>1, DistinctStates
<1> HIDE DEF t, X
<1>3. /\ t \in KernelStates /\ ListsBut(t, X)
      /\ t.state = With(u.state, p, PS_RUNNABLE)
      /\ t.active_process = u.active_process
      /\ SameBlocks(u, t) /\ SameQueues(u, t)
  BY <1>2, PushRunnable DEF t
<1>4. \A q \in Pids : t.state[q] = IF q = p THEN PS_RUNNABLE ELSE s.state[q]
  BY <1>1, <1>3 DEF With
<1>5. IdleReady(t) /\ OnlyActive(t) /\ QueueCallers(t)
  BY <1>1, <1>3, <1>4, IdlePid, DistinctStates
     DEF IdleReady, OnlyActive, QueueCallers, SameBlocks
<1>6. ChildWritten(t)
  <2> SUFFICES ASSUME NEW q \in Pids, t.call[q] = "waitpid", t.state[q] # PS_WAIT_CHILD
               PROVE  /\ t.local[q] \in Pids
                      /\ t.state[t.local[q]] = PS_ZOMBIE /\ t.parent[t.local[q]] = q
    BY DEF ChildWritten
  <2>1. t.local[q] = s.local[q] /\ s.call[q] = "waitpid" /\ s.state[q] # PS_WAIT_CHILD
    BY <1>3, <1>4, DistinctStates DEF SameBlocks
  <2>2. s.local[q] \in Pids /\ s.state[s.local[q]] = PS_ZOMBIE /\ s.parent[s.local[q]] = q
    BY <1>1, <2>1 DEF ChildWritten
  <2> QED BY <1>3, <1>4, <2>1, <2>2, DistinctStates DEF SameBlocks
<1> QED BY <1>3, <1>5, <1>6 DEF Sound, SameQueues, X, t

(* One sleeper is woken. *)
LEMMA WakeFirstSound ==
  ASSUME NEW s, Sound(s), s.asleep # <<>>
  PROVE  LET t == WakeFirst(s) IN
         Sound(t) /\ SameQueues(s, t) /\ t.active_process = s.active_process
<1> DEFINE p == Head(s.asleep)
           popped == [s EXCEPT !.asleep = Tail(@)]
<1>0. s \in KernelStates /\ ListsBut(s, {}) /\ s.asleep \in Seq(Pids)
  BY DEF Sound, KernelStates
<1>1. /\ p \in Pids /\ s.state[p] = PS_ASLEEP
      /\ Tail(s.asleep) \in Seq(Pids)
      /\ IsListOf(Tail(s.asleep), InState(s, {}, PS_ASLEEP) \ {p})
  <2>1. IsListOf(s.asleep, InState(s, {}, PS_ASLEEP))
    BY <1>0 DEF ListsBut
  <2>2. /\ p \in Pids /\ p \in InState(s, {}, PS_ASLEEP)
        /\ Tail(s.asleep) \in Seq(Pids)
        /\ IsListOf(Tail(s.asleep), InState(s, {}, PS_ASLEEP) \ {p})
    BY <1>0, <2>1, TailList
  <2> QED BY <2>2 DEF InState
<1>2. WakeFirst(s) = push_runnable(popped, p)
  BY <1>1 DEF WakeFirst, assert
<1> HIDE DEF p
<1>3. /\ popped \in KernelStates /\ popped.active_process = s.active_process
      /\ popped.state = s.state /\ popped.attr = s.attr
      /\ popped.asleep = Tail(s.asleep)
      /\ popped.runnable = s.runnable /\ popped.waiting = s.waiting /\ popped.dead = s.dead
      /\ SameBlocks(s, popped) /\ SameQueues(s, popped)
  BY <1>0, <1>1 DEF KernelStates, SameBlocks, SameQueues
<1> HIDE DEF popped
<1>4. ListsBut(popped, {} \cup {p})
  <2>1. ListsWithout(s, popped, {}, p)
    BY <1>0, <1>1, <1>3, OtherLists, DistinctStates DEF ListsWithout
  <2> QED BY <1>0, <1>1, <1>3, <2>1, Unlink
<1>5. ListsBut(popped, {p})
  BY <1>4
<1> QED BY <1>1, <1>2, <1>3, <1>5, WokenSound DEF SameBlocks

(* The loop of tick_scheduler, turn by turn. *)
LEMMA WakeTurnsRun ==
  ASSUME NEW s, Sound(s)
  PROVE  LET h == WakeTurns(s) IN
         /\ h[0] = s
         /\ \A i \in 1 .. Len(s.asleep) :
              h[i] = IF IsDue(h[i - 1]) THEN WakeFirst(h[i - 1]) ELSE h[i - 1]
<1> DEFINE N == Len(s.asleep)
           Turn(t) == IF IsDue(t) THEN WakeFirst(t) ELSE t
           S == {t \in KernelStates : Sound(t)}
           F == [i \in 1 .. N |-> [t \in S |-> Turn(t)]]
           Body(g) == [i \in 0 .. N |-> IF i = 0 THEN s ELSE Turn(g[i - 1])]
<1>1. N \in Nat /\ s \in S
  BY DEF Sound, KernelStates
<1>2. \A t \in S : Turn(t) \in S
  BY WakeFirstSound DEF IsDue, Sound
<1>3. F \in LoopBodies(N, S) /\ \A i \in 1 .. N, t \in S : F[i][t] = Turn(t)
  <2> HIDE DEF S, Turn, N
  <2> QED BY <1>2 DEF LoopBodies
<1>4. PICK g : LoopRun(g, N, S, s, F)
  <2> HIDE DEF S, F, N
  <2> QED BY <1>1, <1>3, LoopExists
<1>5. g = Body(g)
  <2> HIDE DEF S, F, N, Turn
  <2>1. \A i \in 1 .. N : i - 1 \in 0 .. N /\ g[i - 1] \in S
    BY <1>1, <1>4 DEF LoopRun
  <2>2. \A i \in 1 .. N : g[i] = Turn(g[i - 1])
    BY <1>3, <1>4, <2>1 DEF LoopRun
  <2> QED BY <1>1, <1>4, <2>2 DEF LoopRun
<1>6. WakeTurns(s) = CHOOSE h : h = Body(h)
  BY DEF WakeTurns
<1> DEFINE h == WakeTurns(s)
<1>7. h = Body(h)
  <2> HIDE DEF Body
  <2> QED BY <1>5, <1>6
<1>8. h[0] = s
  BY <1>1, <1>7
<1>9. \A i \in 1 .. N : h[i] = Turn(h[i - 1])
  BY <1>1, <1>7
<1> QED BY <1>8, <1>9

(* What one turn of the loop keeps, the loop keeps. *)
LEMMA WakeDueKeeps ==
  ASSUME NEW s, Sound(s), NEW G, s \in G,
         \A t \in G : t.asleep # <<>> => WakeFirst(t) \in G
  PROVE  WakeDue(s) \in G
<1> DEFINE N == Len(s.asleep)
           h == WakeTurns(s)
           H == {i \in 0 .. N : h[i] \in G}
<1>1. N \in Nat
  BY DEF Sound, KernelStates
<1>2. /\ h[0] = s
      /\ \A i \in 1 .. N : h[i] = IF IsDue(h[i - 1]) THEN WakeFirst(h[i - 1]) ELSE h[i - 1]
  BY WakeTurnsRun
<1> HIDE DEF h, N
<1>3. 0 \in H
  BY <1>1, <1>2
<1>4. \A i \in 1 .. N : i - 1 \in H => i \in H
  BY <1>1, <1>2 DEF IsDue
<1> HIDE DEF H
<1>5. N \in H
  BY <1>1, <1>3, <1>4, UpTo
<1> QED BY <1>5 DEF H, h, N, WakeDue

(* The loop of tick_scheduler. *)
LEMMA WakeDueSound ==
  ASSUME NEW s, Sound(s)
  PROVE  LET t == WakeDue(s) IN
         Sound(t) /\ SameQueues(s, t) /\ t.active_process = s.active_process
<1> DEFINE G == {t \in KernelStates : /\ Sound(t) /\ SameQueues(s, t)
                                      /\ t.active_process = s.active_process}
<1>1. s \in G
  BY DEF Sound, SameQueues
<1>2. \A t \in G : t.asleep # <<>> => WakeFirst(t) \in G
  BY WakeFirstSound DEF Sound, SameQueues
<1> HIDE DEF G
<1>3. WakeDue(s) \in G
  BY <1>1, <1>2, WakeDueKeeps
<1> QED BY <1>3 DEF G

(* tick_scheduler: there is always a process to elect, the idle one at least. *)
LEMMA TickStable ==
  ASSUME NEW s, Sound(s)
  PROVE  LET t == tick_scheduler(s) IN Stable(t) /\ SameQueues(s, t)
<1> DEFINE awake == WakeDue(s)
<1>1. Sound(awake) /\ SameQueues(s, awake)
  BY WakeDueSound
<1>2. tick_scheduler(s) = IF MustElect(awake) THEN Elect(awake) ELSE awake
  BY DEF tick_scheduler
<1> HIDE DEF awake
<1>3. CASE MustElect(awake)
  <2>1. awake.runnable # <<>>
    <3> SUFFICES ASSUME awake.state[awake.active_process] # PS_RUNNING,
                        awake.runnable = <<>>
                 PROVE  FALSE
      BY <1>3 DEF MustElect
    <3>1. awake.state[IDLE] = PS_RUNNABLE
      BY <1>1, IdlePid DEF Sound, IdleReady, OnlyActive
    <3>2. IDLE \in Range(awake.runnable)
      BY <1>1, <3>1, IdlePid DEF Sound, ListsBut, IsListOf, InState
    <3> QED BY <3>2 DEF Range
  <2> QED BY <1>1, <1>2, <1>3, <2>1, ElectStable DEF SameQueues
<1>4. CASE ~MustElect(awake)
  BY <1>1, <1>2, <1>4 DEF MustElect, Stable
<1> QED BY <1>3, <1>4

(* fix_scheduler. *)
LEMMA FixStable ==
  ASSUME NEW s, Sound(s)
  PROVE  LET t == fix_scheduler(s) IN Stable(t) /\ SameQueues(s, t)
<1>1. CASE Preempted(s)
  <2>1. fix_scheduler(s) = tick_scheduler(s)
    BY <1>1 DEF fix_scheduler
  <2> QED BY <2>1, TickStable
<1>2. CASE ~Preempted(s)
  <2>1. fix_scheduler(s) = s
    BY <1>2 DEF fix_scheduler
  <2> QED BY <1>2, <2>1 DEF Preempted, Stable, SameQueues
<1> QED BY <1>1, <1>2

(* push_dead puts a process that is on no list on the stack of free pids. *)
LEMMA PushDead ==
  ASSUME NEW X, NEW s \in KernelStates, NEW p \in Pids, p \notin X,
         ListsBut(s, X \cup {p}), s.state[p] # PS_DEAD
  PROVE  LET t == push_dead(s, p) IN
         /\ t \in KernelStates
         /\ ListsBut(t, X)
         /\ t.state = With(s.state, p, PS_DEAD)
         /\ t.attr = With(s.attr, p, 0)
         /\ t.active_process = s.active_process
         /\ SameBlocks(s, t) /\ SameQueues(s, t)
<1> DEFINE t == push_dead(s, p)
           x == [s.state EXCEPT ![p] = PS_DEAD]
           y == [s.attr EXCEPT ![p] = 0]
           z == <<p>> \o s.dead
<1>1. x \in [Pids -> States] /\ y \in [Pids -> Int]
  BY DistinctStates DEF KernelStates
<1>2. t = [s EXCEPT !.state = x, !.attr = y, !.dead = z]
  BY DEF push_dead, assert
<1>3. /\ z \in Seq(Pids) /\ IsInjective(z)
      /\ Range(z) \subseteq InState(s, X \cup {p}, PS_DEAD) \cup {p}
  <2>1. /\ s.dead \in Seq(Pids) /\ IsListOf(s.dead, Range(s.dead))
        /\ Range(s.dead) \subseteq InState(s, X \cup {p}, PS_DEAD)
    BY DEF KernelStates, ListsBut, IsListOf
  <2>2. p \notin Range(s.dead)
    BY <2>1 DEF InState
  <2>3. z \in Seq(Pids) /\ IsListOf(z, Range(s.dead) \cup {p})
    BY <2>1, <2>2, PushList
  <2> QED BY <2>1, <2>3 DEF IsListOf
<1> HIDE DEF t, x, y, z
<1>5. /\ t \in KernelStates
      /\ t.state = x /\ t.attr = y /\ t.runnable = s.runnable
      /\ t.asleep = s.asleep /\ t.waiting = s.waiting /\ t.dead = z
      /\ t.active_process = s.active_process
      /\ SameBlocks(s, t) /\ SameQueues(s, t)
  BY <1>1, <1>2, <1>3 DEF KernelStates, SameBlocks, SameQueues
<1> USE DEF x, y
<1>6. s.state \in [Pids -> States] /\ s.attr \in [Pids -> Int]
  BY DEF KernelStates
<1>7. ListsBut(t, X)
  <2>1. InState(t, X, PS_DEAD) = InState(s, X \cup {p}, PS_DEAD) \cup {p}
    BY <1>5, <1>6 DEF InState
  <2>2. \A st \in Int \ {PS_DEAD} : InState(t, X, st) = InState(s, X \cup {p}, st)
    BY <1>5, <1>6 DEF InState
  <2>3. \A fid \in Fids, st \in WaitStates :
          WaitingOn(t, X, fid, st) = WaitingOn(s, X \cup {p}, fid, st)
    BY <1>5, <1>6, <2>2, DistinctStates DEF WaitingOn, InState
  <2>4. \A st \in WaitStates : \A q \in InState(t, X, st) : t.attr[q] \in Fids
    BY <1>5, <1>6, <2>2, DistinctStates DEF ListsBut, InState
  <2> QED BY <1>3, <1>5, <2>1, <2>2, <2>3, <2>4, DistinctStates DEF ListsBut
<1> QED BY <1>5, <1>7 DEF t, With

-----------------------------------------------------------------------------
(* The queue calls keep the state stable and the rings well formed. *)

(* A waiting list is a sequence of pids. *)
LEMMA WaitingSeq ==
  ASSUME NEW s \in KernelStates, NEW fid \in Fids, NEW st \in WaitStates
  PROVE  s.waiting[<<fid, st>>] \in Seq(Pids)
<1>1. s.waiting \in [Fids \X WaitStates -> Seq(Pids)]
  BY DEF KernelStates
<1> QED BY <1>1

(* One waiting list replaced. *)
PutWaiting(s, fid, st, z) == [s EXCEPT !.waiting = With(@, <<fid, st>>, z)]

(* Replacing one waiting list leaves everything else alone. *)
LEMMA SetWaiting ==
  ASSUME NEW s \in KernelStates, NEW fid \in Fids, NEW st \in WaitStates,
         NEW z \in Seq(Pids), NEW t, t = PutWaiting(s, fid, st, z)
  PROVE  /\ t \in KernelStates
         /\ t.state = s.state /\ t.attr = s.attr
         /\ t.active_process = s.active_process
         /\ t.runnable = s.runnable /\ t.asleep = s.asleep /\ t.dead = s.dead
         /\ t.waiting[<<fid, st>>] = z
         /\ \A f \in Fids, w \in WaitStates :
              f # fid \/ w # st => t.waiting[<<f, w>>] = s.waiting[<<f, w>>]
         /\ SameBlocks(s, t) /\ SameQueues(s, t)
<1> DEFINE x == With(s.waiting, <<fid, st>>, z)
<1>1. s.waiting \in [Fids \X WaitStates -> Seq(Pids)]
  BY DEF KernelStates
<1>2. x \in [Fids \X WaitStates -> Seq(Pids)]
  BY <1>1 DEF With
<1>3. x[<<fid, st>>] = z
  BY <1>1 DEF With
<1>4. \A f \in Fids, w \in WaitStates :
        f # fid \/ w # st => x[<<f, w>>] = s.waiting[<<f, w>>]
  BY <1>1 DEF With
<1>0. t = [s EXCEPT !.waiting = x]
  BY DEF PutWaiting
<1> HIDE DEF x
<1>5. /\ t \in KernelStates /\ t.waiting = x
      /\ t.state = s.state /\ t.attr = s.attr
      /\ t.active_process = s.active_process
      /\ t.runnable = s.runnable /\ t.asleep = s.asleep /\ t.dead = s.dead
      /\ SameBlocks(s, t) /\ SameQueues(s, t)
  BY <1>0, <1>2 DEF KernelStates, SameBlocks, SameQueues
<1> QED BY <1>3, <1>4, <1>5

(* From s to t, p is taken off its waiting list, which becomes z. *)
Taken(X, s, p, fid, st, z, t) ==
  /\ s \in KernelStates /\ ListsBut(s, X)
  /\ p \in Pids /\ fid \in Fids /\ st \in WaitStates
  /\ s.state[p] = st /\ s.attr[p] = fid
  /\ z \in Seq(Pids) /\ IsListOf(z, WaitingOn(s, X, fid, st) \ {p})
  /\ t = PutWaiting(s, fid, st, z)

(* A process taken off its waiting list is on no list. *)
LEMMA UnlinkWaiting ==
  ASSUME NEW X, NEW s, NEW p, NEW fid, NEW st, NEW z, NEW t,
         Taken(X, s, p, fid, st, z, t)
  PROVE  /\ t \in KernelStates
         /\ ListsBut(t, X \cup {p})
         /\ t.state = s.state /\ t.attr = s.attr
         /\ t.active_process = s.active_process
         /\ SameBlocks(s, t) /\ SameQueues(s, t)
<1> USE DEF Taken
<1>1. /\ t \in KernelStates
      /\ t.state = s.state /\ t.attr = s.attr
      /\ t.active_process = s.active_process
      /\ t.runnable = s.runnable /\ t.asleep = s.asleep /\ t.dead = s.dead
      /\ t.waiting[<<fid, st>>] = z
      /\ \A f \in Fids, w \in WaitStates :
           f # fid \/ w # st => t.waiting[<<f, w>>] = s.waiting[<<f, w>>]
      /\ SameBlocks(s, t) /\ SameQueues(s, t)
  BY SetWaiting
<1>2. \A f \in Fids, w \in WaitStates :
        IsListOf(t.waiting[<<f, w>>], WaitingOn(s, X, f, w) \ {p})
  BY <1>1, OtherLists
<1>3. ListsWithout(s, t, X, p)
  BY <1>1, <1>2, OtherLists, DistinctStates DEF ListsWithout
<1>4. ListsBut(t, X \cup {p})
  BY <1>1, <1>3, Unlink
<1> QED BY <1>1, <1>4

(* push_waiting_process links a process that is on no list. *)
LEMMA PushWaiting ==
  ASSUME NEW X, NEW s \in KernelStates, NEW p \in Pids, p \notin X,
         ListsBut(s, X \cup {p}),
         NEW fid \in Fids, NEW st \in WaitStates, s.state[p] = st, s.attr[p] = fid
  PROVE  LET t == push_waiting_process(s, fid, st, p) IN
         /\ t \in KernelStates
         /\ ListsBut(t, X)
         /\ t.state = s.state /\ t.attr = s.attr
         /\ t.active_process = s.active_process
         /\ SameBlocks(s, t) /\ SameQueues(s, t)
<1> DEFINE l == s.waiting[<<fid, st>>]
           z == InsertAt(l, PrioSlot(l, s.prio, p), p)
           t == push_waiting_process(s, fid, st, p)
           L == WaitingOn(s, X \cup {p}, fid, st)
<1>1. l \in Seq(Pids) /\ IsListOf(l, L) /\ p \notin L
  <2>1. IsListOf(l, L)
    BY DEF ListsBut
  <2>2. p \notin L
    BY DEF WaitingOn, InState
  <2> QED BY <2>1, <2>2, WaitingSeq
<1>2. z \in Seq(Pids) /\ IsListOf(z, L \cup {p})
  <2> HIDE DEF l, L
  <2>1. PrioSlot(l, s.prio, p) \in 1 .. Len(l) + 1
    BY <1>1, PrioSlotRange
  <2> QED BY <1>1, <2>1, InsertList
<1>3. t = PutWaiting(s, fid, st, z)
  BY DEF push_waiting_process, assert, With, PutWaiting
<1> HIDE DEF t, z, L
<1>4. /\ t \in KernelStates
      /\ t.state = s.state /\ t.attr = s.attr
      /\ t.active_process = s.active_process
      /\ t.runnable = s.runnable /\ t.asleep = s.asleep /\ t.dead = s.dead
      /\ t.waiting[<<fid, st>>] = z
      /\ \A f \in Fids, w \in WaitStates :
           f # fid \/ w # st => t.waiting[<<f, w>>] = s.waiting[<<f, w>>]
      /\ SameBlocks(s, t) /\ SameQueues(s, t)
  BY <1>2, <1>3, SetWaiting
<1>5. ListsBut(t, X)
  <2>1. \A w \in Int \ {st} : InState(t, X, w) = InState(s, X \cup {p}, w)
    BY <1>4 DEF InState
  <2>2. WaitingOn(t, X, fid, st) = L \cup {p}
    BY <1>4 DEF WaitingOn, InState, L
  <2>3. \A f \in Fids, w \in WaitStates : f # fid \/ w # st
          => WaitingOn(t, X, f, w) = WaitingOn(s, X \cup {p}, f, w)
    BY <1>4 DEF WaitingOn, InState
  <2>4. \A f \in Fids, w \in WaitStates :
          IsListOf(t.waiting[<<f, w>>], WaitingOn(t, X, f, w))
    BY <1>2, <1>4, <2>2, <2>3 DEF ListsBut
  <2>5. \A w \in WaitStates : \A q \in InState(t, X, w) : t.attr[q] \in Fids
    BY <1>4 DEF ListsBut, InState
  <2> QED BY <1>4, <2>1, <2>4, <2>5, DistinctStates DEF ListsBut
<1> QED BY <1>4, <1>5 DEF t

(* pop_waiting_process, for a process that is on the list. *)
LEMMA PopWaiting ==
  ASSUME NEW X, NEW s \in KernelStates, NEW p \in Pids \ X, ListsBut(s, X),
         NEW fid \in Fids, NEW st \in WaitStates, s.state[p] = st, s.attr[p] = fid
  PROVE  LET t == pop_waiting_process(s, fid, st, p) IN
         /\ t \in KernelStates
         /\ ListsBut(t, X \cup {p})
         /\ t.state = s.state /\ t.attr = s.attr
         /\ t.active_process = s.active_process
         /\ SameBlocks(s, t) /\ SameQueues(s, t)
<1> DEFINE l == s.waiting[<<fid, st>>]
           z == RemoveFirst(l, p)
           t == pop_waiting_process(s, fid, st, p)
<1>1. /\ l \in Seq(Pids) /\ IsListOf(l, WaitingOn(s, X, fid, st))
      /\ p \in WaitingOn(s, X, fid, st)
  <2>1. IsListOf(l, WaitingOn(s, X, fid, st))
    BY DEF ListsBut
  <2>2. p \in WaitingOn(s, X, fid, st)
    BY DEF WaitingOn, InState
  <2> QED BY <2>1, <2>2, WaitingSeq
<1>2. z \in Seq(Pids) /\ IsListOf(z, WaitingOn(s, X, fid, st) \ {p})
  BY <1>1, RemoveList
<1>3. l # <<>>
  <2>1. Range(l) # {}
    BY <1>1 DEF IsListOf
  <2> QED BY <2>1 DEF Range
<1>4. t = PutWaiting(s, fid, st, z)
  BY <1>3 DEF pop_waiting_process, assert, With, PutWaiting
<1> HIDE DEF t, z, l
<1>5. /\ t \in KernelStates
      /\ ListsBut(t, X \cup {p})
      /\ t.state = s.state /\ t.attr = s.attr
      /\ t.active_process = s.active_process
      /\ SameBlocks(s, t) /\ SameQueues(s, t)
  <2>1. Taken(X, s, p, fid, st, z, t)
    BY <1>2, <1>4 DEF Taken
  <2> QED BY <2>1, UnlinkWaiting
<1> QED BY <1>5 DEF t

-----------------------------------------------------------------------------
(* Waking and blocking. *)

(* From s to t, the first process p of a waiting list is taken off it. *)
FirstTaken(s, fid, st, p, t) ==
  /\ Sound(s) /\ fid \in Fids /\ st \in WaitStates
  /\ s.waiting[<<fid, st>>] # <<>>
  /\ p = Head(s.waiting[<<fid, st>>])
  /\ t = PutWaiting(s, fid, st, Tail(s.waiting[<<fid, st>>]))

(* The first of a waiting list, taken off it. *)
LEMMA TakeWaiter ==
  ASSUME NEW s, NEW fid, NEW st, NEW p, NEW t, FirstTaken(s, fid, st, p, t)
  PROVE  /\ p \in Pids /\ s.state[p] = st /\ s.attr[p] = fid
         /\ t \in KernelStates /\ ListsBut(t, {p})
         /\ t.state = s.state /\ t.attr = s.attr
         /\ t.active_process = s.active_process
         /\ SameBlocks(s, t) /\ SameQueues(s, t)
<1> DEFINE l == s.waiting[<<fid, st>>]
           z == Tail(l)
           X == {}
           L == WaitingOn(s, X, fid, st)
<1>1. /\ s \in KernelStates /\ ListsBut(s, X) /\ l \in Seq(Pids) /\ IsListOf(l, L)
      /\ fid \in Fids /\ st \in WaitStates
  <2>1. s \in KernelStates /\ ListsBut(s, X) /\ fid \in Fids /\ st \in WaitStates
    BY DEF Sound, FirstTaken
  <2> QED BY <2>1, WaitingSeq DEF ListsBut
<1>2. p \in Pids /\ p \in L /\ z \in Seq(Pids) /\ IsListOf(z, L \ {p})
  <2>1. l # <<>> /\ p = Head(l)
    BY DEF FirstTaken
  <2> HIDE DEF L, l
  <2> QED BY <1>1, <2>1, TailList
<1>3. s.state[p] = st /\ s.attr[p] = fid
  BY <1>2 DEF WaitingOn, InState
<1>4. t = PutWaiting(s, fid, st, z)
  BY DEF FirstTaken
<1>5. X \cup {p} = {p}
  OBVIOUS
<1> HIDE DEF z, X
<1>6. Taken(X, s, p, fid, st, z, t)
  BY <1>1, <1>2, <1>3, <1>4 DEF Taken
<1>7. /\ t \in KernelStates
      /\ ListsBut(t, X \cup {p})
      /\ t.state = s.state /\ t.attr = s.attr
      /\ t.active_process = s.active_process
      /\ SameBlocks(s, t) /\ SameQueues(s, t)
  BY <1>6, UnlinkWaiting
<1> QED BY <1>2, <1>3, <1>5, <1>7

(* wakeup_first_process, with somebody waiting: up to the scheduler. *)
LEMMA WakeupFirstSound ==
  ASSUME NEW s, Sound(s), NEW fid \in Fids, NEW st \in WaitStates,
         s.waiting[<<fid, st>>] # <<>>
  PROVE  LET list == s.waiting[<<fid, st>>]
             t    == push_runnable(PutWaiting(s, fid, st, Tail(list)), Head(list))
         IN /\ wakeup_first_process(s, fid, st) = fix_scheduler(t)
            /\ Sound(t) /\ SameQueues(s, t)
<1> DEFINE p == Head(s.waiting[<<fid, st>>])
           u == PutWaiting(s, fid, st, Tail(s.waiting[<<fid, st>>]))
<1>0. wakeup_first_process(s, fid, st)
        = fix_scheduler(push_runnable(
            [assert(s, s.state[p] \in WaitStates) EXCEPT
               !.waiting[<<fid, st>>] = Tail(@)], p))
  BY DEF wakeup_first_process
<1>1. FirstTaken(s, fid, st, p, u)
  BY DEF FirstTaken
<1>2. s.state[p] = st => wakeup_first_process(s, fid, st) = fix_scheduler(push_runnable(u, p))
  <2> HIDE DEF p
  <2> QED BY <1>0 DEF assert, With, PutWaiting
<1> HIDE DEF p, u
<1>3. /\ p \in Pids /\ s.state[p] = st
      /\ u \in KernelStates /\ ListsBut(u, {p}) /\ u.state = s.state
      /\ u.active_process = s.active_process
      /\ SameBlocks(s, u) /\ SameQueues(s, u)
  BY <1>1, TakeWaiter
<1>4. Sound(push_runnable(u, p)) /\ SameQueues(s, push_runnable(u, p))
  BY <1>3, WokenSound DEF SameBlocks
<1> QED BY <1>2, <1>3, <1>4 DEF p, u

(* wakeup_first_process. *)
LEMMA WakeupFirstStable ==
  ASSUME NEW s, Sound(s), NEW fid \in Fids, NEW st \in WaitStates,
         s.waiting[<<fid, st>>] # <<>>
  PROVE  LET t == wakeup_first_process(s, fid, st) IN Stable(t) /\ SameQueues(s, t)
BY WakeupFirstSound, FixStable DEF SameQueues

(* One turn of wakeup_all_processes. *)
LEMMA FailFirstSound ==
  ASSUME NEW s, Sound(s), NEW fid \in Fids, NEW st \in WaitStates,
         s.waiting[<<fid, st>>] # <<>>
  PROVE  LET t == FailFirst(s, fid, st) IN
         /\ Sound(t) /\ SameQueues(s, t)
         /\ t.waiting[<<fid, st>>] = Tail(s.waiting[<<fid, st>>])
<1> DEFINE p == Head(s.waiting[<<fid, st>>])
           u == PutWaiting(s, fid, st, Tail(s.waiting[<<fid, st>>]))
           x == [s.local EXCEPT ![p] = -1]
           v == [u EXCEPT !.local = x]
<1>0. FailFirst(s, fid, st) = push_runnable(v, p)
  <2>1. v = [s EXCEPT !.local[p] = -1, !.waiting[<<fid, st>>] = Tail(@)]
    BY DEF With, PutWaiting
  <2> QED BY <2>1 DEF FailFirst
<1>1. FirstTaken(s, fid, st, p, u)
  BY DEF FirstTaken
<1> HIDE DEF p, u
<1>2. /\ p \in Pids /\ s.state[p] = st /\ s.attr[p] = fid
      /\ u \in KernelStates /\ ListsBut(u, {p})
      /\ u.state = s.state /\ u.attr = s.attr
      /\ u.active_process = s.active_process
      /\ SameBlocks(s, u) /\ SameQueues(s, u)
  BY <1>1, TakeWaiter, Zenon
<1>3. s \in KernelStates /\ s.local \in [Pids -> Int]
  BY DEF Sound, KernelStates
<1>4. x \in [Pids -> Int] /\ \A q \in Pids \ {p} : x[q] = s.local[q]
  BY <1>2, <1>3
<1> HIDE DEF x
<1>5. /\ v \in KernelStates /\ v.local = x
      /\ v.state = u.state /\ v.attr = u.attr /\ v.active_process = u.active_process
      /\ v.runnable = u.runnable /\ v.asleep = u.asleep /\ v.waiting = u.waiting
      /\ v.dead = u.dead /\ v.call = u.call /\ v.parent = u.parent
      /\ SameQueues(u, v)
  BY <1>2, <1>4 DEF KernelStates, SameQueues
<1> HIDE DEF v
<1>6. ListsBut(v, {p})
  <2> DEFINE X == {}
  <2>1. X \cup {p} = {p}
    OBVIOUS
  <2> HIDE DEF X
  <2>2. ListsBut(v, X \cup {p})
    BY <1>2, <1>5, <2>1, Relabel
  <2> QED BY <2>1, <2>2
<1>7. s.call[p] # "waitpid"
  BY <1>2 DEF Sound, QueueCallers
<1>8. Sound(push_runnable(v, p)) /\ SameQueues(s, push_runnable(v, p))
  BY <1>2, <1>4, <1>5, <1>6, <1>7, WokenSound DEF SameBlocks, SameQueues
<1>9. u.waiting[<<fid, st>>] = Tail(s.waiting[<<fid, st>>])
  <2> DEFINE z == Tail(s.waiting[<<fid, st>>])
  <2>1. z \in Seq(Pids) /\ u = PutWaiting(s, fid, st, z)
    BY <1>3, WaitingSeq DEF u
  <2> HIDE DEF z
  <2>2. u.waiting[<<fid, st>>] = z
    BY <1>3, <2>1, SetWaiting
  <2> QED BY <2>2 DEF z
<1>10. push_runnable(v, p).waiting = u.waiting
  BY <1>2, <1>5, PushRunnableFields
<1> QED BY <1>0, <1>8, <1>9, <1>10

(* The loop of wakeup_all_processes, turn by turn. *)
LEMMA FailTurnsRun ==
  ASSUME NEW s, Sound(s), NEW fid \in Fids, NEW st \in WaitStates
  PROVE  LET h == FailTurns(s, fid, st) IN
         /\ h[0] = s
         /\ \A i \in 1 .. Len(s.waiting[<<fid, st>>]) :
              h[i] = IF h[i - 1].waiting[<<fid, st>>] = <<>> THEN h[i - 1]
                     ELSE FailFirst(h[i - 1], fid, st)
<1> DEFINE N == Len(s.waiting[<<fid, st>>])
           Turn(t) == IF t.waiting[<<fid, st>>] = <<>> THEN t ELSE FailFirst(t, fid, st)
           S == {t \in KernelStates : Sound(t)}
           F == [i \in 1 .. N |-> [t \in S |-> Turn(t)]]
           Body(g) == [i \in 0 .. N |-> IF i = 0 THEN s ELSE Turn(g[i - 1])]
<1>1. N \in Nat /\ s \in S
  <2>1. s \in KernelStates
    BY DEF Sound
  <2>2. s.waiting[<<fid, st>>] \in Seq(Pids)
    BY <2>1, WaitingSeq
  <2> QED BY <2>1, <2>2
<1>2. \A t \in S : Turn(t) \in S
  <2> TAKE t \in S
  <2>1. CASE t.waiting[<<fid, st>>] = <<>>
    BY <2>1
  <2>2. CASE t.waiting[<<fid, st>>] # <<>>
    <3> DEFINE u == FailFirst(t, fid, st)
    <3>1. Sound(u)
      BY <2>2, FailFirstSound
    <3> HIDE DEF u
    <3>2. u \in S
      BY <3>1 DEF Sound
    <3> QED BY <2>2, <3>2 DEF u
  <2> QED BY <2>1, <2>2
<1>3. F \in LoopBodies(N, S) /\ \A i \in 1 .. N, t \in S : F[i][t] = Turn(t)
  <2> HIDE DEF S, Turn, N
  <2> QED BY <1>2 DEF LoopBodies
<1>4. PICK g : LoopRun(g, N, S, s, F)
  <2> HIDE DEF S, F, N
  <2> QED BY <1>1, <1>3, LoopExists
<1>5. g = Body(g)
  <2> HIDE DEF S, F, N, Turn
  <2>1. \A i \in 1 .. N : i - 1 \in 0 .. N /\ g[i - 1] \in S
    BY <1>1, <1>4 DEF LoopRun
  <2>2. \A i \in 1 .. N : g[i] = Turn(g[i - 1])
    BY <1>3, <1>4, <2>1 DEF LoopRun
  <2> QED BY <1>1, <1>4, <2>2 DEF LoopRun
<1>6. FailTurns(s, fid, st) = CHOOSE h : h = Body(h)
  BY DEF FailTurns
<1> DEFINE h == FailTurns(s, fid, st)
<1>7. h = Body(h)
  <2> HIDE DEF Body
  <2> QED BY <1>5, <1>6
<1>8. h[0] = s
  BY <1>1, <1>7
<1>9. \A i \in 1 .. N : h[i] = Turn(h[i - 1])
  <2> HIDE DEF h, Turn, N
  <2> QED BY <1>1, <1>7
<1> QED BY <1>8, <1>9

(* What one turn of the loop keeps, the loop keeps; and since every turn   *)
(* takes one process off the list, nobody is left on it.                   *)
LEMMA WakeupAllKeeps ==
  ASSUME NEW s, Sound(s), NEW fid \in Fids, NEW st \in WaitStates,
         NEW G, s \in G,
         \A t \in G : t.waiting[<<fid, st>>] \in Seq(Pids),
         \A t \in G : t.waiting[<<fid, st>>] # <<>> =>
           /\ FailFirst(t, fid, st) \in G
           /\ FailFirst(t, fid, st).waiting[<<fid, st>>] = Tail(t.waiting[<<fid, st>>])
  PROVE  LET t == wakeup_all_processes(s, fid, st) IN
         t \in G /\ t.waiting[<<fid, st>>] = <<>>
<1> DEFINE N == Len(s.waiting[<<fid, st>>])
           L(t) == t.waiting[<<fid, st>>]
           h == FailTurns(s, fid, st)
           H == {i \in 0 .. N : h[i] \in G /\ Len(L(h[i])) <= N - i}
<1>1. N \in Nat
  OBVIOUS
<1>2. /\ h[0] = s
      /\ \A i \in 1 .. N : h[i] = IF L(h[i - 1]) = <<>> THEN h[i - 1]
                                    ELSE FailFirst(h[i - 1], fid, st)
  BY FailTurnsRun
<1>2a. N = Len(L(s)) /\ wakeup_all_processes(s, fid, st) = h[N]
  BY DEF wakeup_all_processes
<1> HIDE DEF h, N
<1>3. 0 \in H
  BY <1>1, <1>2, <1>2a
<1>4. ASSUME NEW i \in 1 .. N, i - 1 \in H PROVE i \in H
  <2> DEFINE t == h[i - 1]
  <2>1. t \in G /\ L(t) \in Seq(Pids) /\ Len(L(t)) <= N - (i - 1)
    BY <1>4
  <2>2. h[i] = IF L(t) = <<>> THEN t ELSE FailFirst(t, fid, st)
    BY <1>2
  <2> HIDE DEF t
  <2>3. CASE L(t) = <<>>
    <3>1. h[i] = t /\ Len(L(t)) = 0
      BY <2>2, <2>3
    <3> QED BY <1>1, <2>1, <3>1
  <2>4. CASE L(t) # <<>>
    <3> DEFINE u == FailFirst(t, fid, st)
    <3>1. u \in G /\ L(u) = Tail(L(t)) /\ h[i] = u
      BY <2>1, <2>2, <2>4
    <3> HIDE DEF u
    <3>2. Len(Tail(L(t))) = Len(L(t)) - 1 /\ Len(L(t)) \in Nat
      BY <2>1, <2>4
    <3>3. Len(L(h[i])) = Len(L(t)) - 1
      BY <3>1, <3>2
    <3>4. Len(L(h[i])) <= N - i
      BY <1>1, <2>1, <3>2, <3>3
    <3> QED BY <1>1, <3>1, <3>4
  <2> QED BY <2>3, <2>4
<1>4a. \A i \in 1 .. N : i - 1 \in H => i \in H
  BY <1>4
<1> HIDE DEF H
<1>5. N \in H
  BY <1>1, <1>3, <1>4a, UpTo
<1>6. h[N] \in G /\ Len(L(h[N])) <= N - N /\ L(h[N]) \in Seq(Pids)
  BY <1>5 DEF H
<1>7. L(h[N]) = <<>>
  BY <1>1, <1>6
<1> QED BY <1>2a, <1>6, <1>7

(* wakeup_all_processes. *)
LEMMA WakeupAllSound ==
  ASSUME NEW s, Sound(s), NEW fid \in Fids, NEW st \in WaitStates
  PROVE  LET t == wakeup_all_processes(s, fid, st) IN
         Sound(t) /\ SameQueues(s, t) /\ t.waiting[<<fid, st>>] = <<>>
<1> DEFINE G == {t \in KernelStates : Sound(t) /\ SameQueues(s, t)}
<1>1. s \in G
  BY DEF Sound, SameQueues
<1>2. \A t \in G : t.waiting[<<fid, st>>] \in Seq(Pids)
  BY WaitingSeq
<1>3. \A t \in G : t.waiting[<<fid, st>>] # <<>> =>
        /\ FailFirst(t, fid, st) \in G
        /\ FailFirst(t, fid, st).waiting[<<fid, st>>] = Tail(t.waiting[<<fid, st>>])
  <2> TAKE t \in G
  <2> HAVE t.waiting[<<fid, st>>] # <<>>
  <2> DEFINE u == FailFirst(t, fid, st)
  <2>1. Sound(u) /\ SameQueues(t, u) /\ u.waiting[<<fid, st>>] = Tail(t.waiting[<<fid, st>>])
    BY FailFirstSound
  <2> HIDE DEF u
  <2>2. u \in G
    BY <2>1 DEF Sound, SameQueues
  <2> QED BY <2>1, <2>2 DEF u
<1> HIDE DEF G
<1>4. LET t == wakeup_all_processes(s, fid, st) IN
      t \in G /\ t.waiting[<<fid, st>>] = <<>>
  BY <1>1, <1>2, <1>3, WakeupAllKeeps
<1> QED BY <1>4 DEF G

(* The end of preset and pdelete: nobody waits, the scheduler is fixed. *)
LEMMA WakeupBothStable ==
  ASSUME NEW s, Sound(s), NEW fid \in Fids
  PROVE  LET t == WakeupBoth(s, fid) IN Stable(t) /\ SameQueues(s, t)
<1> DEFINE u == wakeup_all_processes(s, fid, PS_WAIT_QUEUE_EMPTY)
           v == wakeup_all_processes(u, fid, PS_WAIT_QUEUE_FULL)
<1>0. PS_WAIT_QUEUE_EMPTY \in WaitStates /\ PS_WAIT_QUEUE_FULL \in WaitStates
  BY DEF WaitStates
<1>1. Sound(u) /\ SameQueues(s, u)
  BY <1>0, WakeupAllSound
<1>2. Sound(v) /\ SameQueues(u, v)
  <2> HIDE DEF u
  <2> QED BY <1>0, <1>1, WakeupAllSound
<1>3. WakeupBoth(s, fid) = fix_scheduler(v)
  BY DEF WakeupBoth
<1> HIDE DEF u, v
<1> QED BY <1>1, <1>2, <1>3, FixStable DEF SameQueues

(* BlockOnQueue: the active process joins a waiting list. *)
LEMMA BlockSound ==
  ASSUME NEW s, Stable(s), s.active_process # IDLE,
         NEW fid \in Fids, NEW st \in WaitStates,
         NEW c \in {"preceive", "psend"}, NEW m \in Messages \cup {Uninit}
  PROVE  LET t == BlockOnQueue(s, fid, st, c, m) IN Sound(t) /\ SameQueues(s, t)
<1> DEFINE p == s.active_process
           r == remove_runnable(s, p)
           a == With(r.state, p, st)
           b == With(r.attr, p, fid)
           d == With(r.call, p, c)
           e == With(r.local, p, 0)
           f == With(r.message, p, m)
           u == [r EXCEPT !.state = a, !.attr = b, !.call = d, !.local = e, !.message = f]
           t == BlockOnQueue(s, fid, st, c, m)
           X == {}
<1>1. /\ s \in KernelStates /\ ListsBut(s, X) /\ p \in Pids
      /\ s.state[p] = PS_RUNNING /\ p # IDLE
      /\ IdleReady(s) /\ OnlyActive(s) /\ ChildWritten(s) /\ QueueCallers(s)
  BY DEF Stable, Sound, KernelStates
<1>2. t = push_waiting_process(u, fid, st, p)
  BY DEF BlockOnQueue, With
<1> HIDE DEF p, X, t
<1>3. /\ r \in KernelStates
      /\ ListsBut(r, X \cup {p})
      /\ r.state = s.state /\ r.attr = s.attr
      /\ r.asleep = s.asleep /\ r.waiting = s.waiting /\ r.dead = s.dead
      /\ r.active_process = s.active_process
      /\ SameBlocks(s, r) /\ SameQueues(s, r)
  BY <1>1, RemoveRunnable
<1> HIDE DEF r
<1>4. /\ s.state \in [Pids -> States] /\ s.attr \in [Pids -> Int]
      /\ s.call \in [Pids -> Calls] /\ s.local \in [Pids -> Int]
      /\ s.message \in [Pids -> Messages \cup {Uninit}]
  BY <1>1 DEF KernelStates
<1>5. a \in [Pids -> States] /\ \A q \in Pids : a[q] = IF q = p THEN st ELSE s.state[q]
  BY <1>1, <1>3, <1>4, DistinctStates DEF With
<1>6. b \in [Pids -> Int] /\ \A q \in Pids : b[q] = IF q = p THEN fid ELSE s.attr[q]
  BY <1>1, <1>3, <1>4 DEF With, Fids
<1>7. d \in [Pids -> Calls] /\ \A q \in Pids : d[q] = IF q = p THEN c ELSE s.call[q]
  BY <1>1, <1>3, <1>4 DEF With, Calls, SameBlocks
<1>8. e \in [Pids -> Int] /\ \A q \in Pids \ {p} : e[q] = s.local[q]
  BY <1>1, <1>3, <1>4 DEF With, SameBlocks
<1>9. f \in [Pids -> Messages \cup {Uninit}]
  BY <1>1, <1>3, <1>4 DEF With, SameBlocks
<1> HIDE DEF a, b, d, e, f
<1>10. /\ u \in KernelStates
       /\ u.state = a /\ u.attr = b /\ u.call = d /\ u.local = e
       /\ u.parent = r.parent /\ u.active_process = r.active_process
       /\ u.runnable = r.runnable /\ u.asleep = r.asleep /\ u.waiting = r.waiting
       /\ u.dead = r.dead /\ SameQueues(r, u)
  BY <1>3, <1>5, <1>6, <1>7, <1>8, <1>9 DEF KernelStates, SameQueues
<1> HIDE DEF u
<1>11. ListsBut(u, X \cup {p})
  <2>1. \A q \in Pids \ {p} : u.state[q] = r.state[q] /\ u.attr[q] = r.attr[q]
    BY <1>3, <1>5, <1>6, <1>10
  <2> QED BY <1>1, <1>3, <1>10, <2>1, Relabel
<1>12. p \notin X /\ u.state[p] = st /\ u.attr[p] = fid
  BY <1>1, <1>5, <1>6, <1>10 DEF X
<1>13. /\ t \in KernelStates /\ ListsBut(t, X)
       /\ t.state = u.state /\ t.attr = u.attr
       /\ t.active_process = u.active_process
       /\ SameBlocks(u, t) /\ SameQueues(u, t)
  BY <1>1, <1>2, <1>10, <1>11, <1>12, PushWaiting
<1>14. IdleReady(t) /\ OnlyActive(t) /\ QueueCallers(t)
  BY <1>1, <1>3, <1>5, <1>7, <1>10, <1>13, IdlePid, DistinctStates
     DEF IdleReady, OnlyActive, QueueCallers, SameBlocks
<1>15. ChildWritten(t)
  <2> SUFFICES ASSUME NEW q \in Pids, t.call[q] = "waitpid", t.state[q] # PS_WAIT_CHILD
               PROVE  /\ t.local[q] \in Pids
                      /\ t.state[t.local[q]] = PS_ZOMBIE /\ t.parent[t.local[q]] = q
    BY DEF ChildWritten
  <2>1. q # p /\ t.local[q] = s.local[q] /\ s.call[q] = "waitpid" /\ s.state[q] # PS_WAIT_CHILD
    BY <1>5, <1>7, <1>8, <1>10, <1>13 DEF SameBlocks
  <2>2. s.local[q] \in Pids /\ s.state[s.local[q]] = PS_ZOMBIE /\ s.parent[s.local[q]] = q
    BY <1>1, <2>1 DEF ChildWritten
  <2> QED BY <1>1, <1>3, <1>5, <1>10, <1>13, <2>1, <2>2, DistinctStates DEF SameBlocks
<1> QED BY <1>3, <1>10, <1>13, <1>14, <1>15 DEF Sound, SameQueues, X, t

-----------------------------------------------------------------------------
(* Rings. *)

(* One queue replaced. *)
PutQueue(s, fid, q) == [s EXCEPT !.queues = With(@, fid, q)]

(* A failed assert changes the mode only. *)
LEMMA PanicSound ==
  ASSUME NEW s, Sound(s)
  PROVE  LET t == panic(s) IN
         /\ Sound(t) /\ (Stable(s) => Stable(t))
         /\ t.active_process = s.active_process
         /\ t.waiting = s.waiting /\ t.queues = s.queues /\ t.message = s.message
<1> DEFINE t == panic(s)
<1>1. s \in KernelStates
  BY DEF Sound
<1>2. /\ t \in KernelStates
      /\ t.state = s.state /\ t.attr = s.attr /\ t.active_process = s.active_process
      /\ t.runnable = s.runnable /\ t.asleep = s.asleep /\ t.waiting = s.waiting
      /\ t.dead = s.dead /\ t.call = s.call /\ t.local = s.local /\ t.parent = s.parent
      /\ t.queues = s.queues /\ t.message = s.message
  BY <1>1 DEF KernelStates, panic
<1> HIDE DEF t
<1>3. ListsBut(t, {})
  BY <1>2, ListsKept DEF Sound
<1>4. Sound(t)
  BY <1>2, <1>3, SoundKept
<1> QED BY <1>2, <1>4 DEF Stable, t

(* Writing one queue structure. *)
LEMMA PutQueueSound ==
  ASSUME NEW s, Sound(s), NEW fid \in Fids, NEW q \in QueueStructs
  PROVE  LET t == PutQueue(s, fid, q) IN
         /\ Sound(t) /\ (Stable(s) => Stable(t))
         /\ t.active_process = s.active_process
         /\ t.waiting = s.waiting /\ t.message = s.message
         /\ t.queues[fid] = q
         /\ SafeRings(s) /\ RingOK(q) => SafeRings(t)
<1> DEFINE x == With(s.queues, fid, q)
           t == PutQueue(s, fid, q)
<1>1. s \in KernelStates /\ s.queues \in [Fids -> QueueStructs]
  BY DEF Sound, KernelStates
<1>2. /\ x \in [Fids -> QueueStructs] /\ x[fid] = q
      /\ \A f \in Fids \ {fid} : x[f] = s.queues[f]
  BY <1>1 DEF With
<1>3. t = [s EXCEPT !.queues = x]
  BY DEF PutQueue
<1> HIDE DEF x, t
<1>4. /\ t \in KernelStates
      /\ t.state = s.state /\ t.attr = s.attr /\ t.active_process = s.active_process
      /\ t.runnable = s.runnable /\ t.asleep = s.asleep /\ t.waiting = s.waiting
      /\ t.dead = s.dead /\ t.call = s.call /\ t.local = s.local /\ t.parent = s.parent
      /\ t.queues = x /\ t.message = s.message /\ t.mode = s.mode
  BY <1>1, <1>2, <1>3 DEF KernelStates
<1>5. ListsBut(t, {})
  BY <1>4, ListsKept DEF Sound
<1>6. Sound(t)
  BY <1>4, <1>5, SoundKept
<1>7. SafeRings(s) /\ RingOK(q) => SafeRings(t)
  BY <1>2, <1>4 DEF SafeRings
<1> QED BY <1>2, <1>4, <1>6, <1>7 DEF Stable, t

(* An index taken modulo the capacity is inside the ring. *)
LEMMA ModRange ==
  ASSUME NEW a \in Int, NEW n \in Nat, n > 0
  PROVE  a % n \in 0 .. n - 1
OBVIOUS

(* push_message on a queue that is not free. *)
LEMMA PushMessage ==
  ASSUME NEW s, Sound(s), NEW fid \in Fids, s.queues[fid].capacity # 0,
         NEW val \in Messages \cup {Uninit}
  PROVE  LET t == push_message(s, fid, val) IN
         /\ Sound(t) /\ (Stable(s) => Stable(t))
         /\ t.active_process = s.active_process
         /\ t.waiting = s.waiting
         /\ SafeRings(s) /\ s.queues[fid].size # s.queues[fid].capacity => SafeRings(t)
<1> DEFINE q == s.queues[fid]
           rear == (q.rear + 1) % q.capacity
           msgs == [q.messages EXCEPT ![rear] = val]
           size == q.size + 1
           r == [q EXCEPT !.rear = rear, !.size = size, !.messages = msgs]
           ok == ~is_queue_full(q) /\ rear \in DOMAIN q.messages
           t == push_message(s, fid, val)
<1>1. s \in KernelStates /\ q \in QueueStructs /\ q.capacity \in 1 .. MAXCOUNT
  <2>1. s.queues \in [Fids -> QueueStructs] /\ s \in KernelStates
    BY DEF Sound, KernelStates
  <2>2. q \in QueueStructs
    BY <2>1
  <2> HIDE DEF q
  <2>3. q.capacity # 0
    BY DEF q
  <2> QED BY <2>1, <2>2, <2>3, SizesAssumption DEF QueueStructs
<1>2. t = PutQueue(assert(s, ok), fid, r)
  BY DEF push_message, PutQueue, With
<1>2a. q.capacity = s.queues[fid].capacity /\ q.size = s.queues[fid].size
  OBVIOUS
<1>2b. SafeRings(s) => RingOK(q)
  BY DEF SafeRings
<1> HIDE DEF t, q
<1>3. rear \in 0 .. q.capacity - 1 /\ rear \in Int /\ size \in Int
  BY <1>1, SizesAssumption, ModRange DEF QueueStructs
<1>4. msgs \in MessageArrays /\ DOMAIN msgs = DOMAIN q.messages
  <2>1. PICK n \in 0 .. MAXCOUNT : q.messages \in [0 .. n - 1 -> Messages \cup {Uninit}]
    BY <1>1 DEF QueueStructs, MessageArrays
  <2> HIDE DEF rear
  <2>2. msgs \in [0 .. n - 1 -> Messages \cup {Uninit}]
    BY <2>1
  <2> QED BY <2>1, <2>2 DEF MessageArrays
<1> HIDE DEF rear, msgs, size
<1>5. /\ r \in QueueStructs /\ r.front = q.front /\ r.rear = rear /\ r.size = size
      /\ r.capacity = q.capacity /\ r.messages = msgs
  BY <1>1, <1>3, <1>4 DEF QueueStructs
<1> HIDE DEF r
<1>6. SafeRings(s) /\ q.size # q.capacity => RingOK(r) /\ ok
  BY <1>1, <1>2b, <1>3, <1>4, <1>5 DEF RingOK, is_queue_full, size
<1>7. CASE ok
  <2>1. t = PutQueue(s, fid, r)
    BY <1>2, <1>7 DEF assert
  <2> HIDE DEF ok
  <2> QED BY <1>2a, <1>5, <1>6, <2>1, PutQueueSound DEF t
<1>8. CASE ~ok
  <2>1. t = PutQueue(panic(s), fid, r)
    BY <1>2, <1>8 DEF assert
  <2>2. /\ Sound(panic(s)) /\ (Stable(s) => Stable(panic(s)))
        /\ panic(s).active_process = s.active_process
        /\ panic(s).waiting = s.waiting
    BY PanicSound
  <2>3. /\ Sound(t) /\ (Stable(panic(s)) => Stable(t))
        /\ t.active_process = panic(s).active_process
        /\ t.waiting = panic(s).waiting
    BY <1>5, <2>1, <2>2, PutQueueSound
  <2> HIDE DEF ok
  <2> QED BY <1>2a, <1>6, <1>8, <2>2, <2>3 DEF t
<1> QED BY <1>7, <1>8

(* pop_message on a queue that is neither free nor empty. *)
LEMMA PopMessage ==
  ASSUME NEW s, Sound(s), NEW fid \in Fids, s.queues[fid].capacity # 0,
         s.queues[fid].size # 0
  PROVE  LET t == pop_message(s, fid) IN
         /\ Sound(t) /\ (Stable(s) => Stable(t))
         /\ t.active_process = s.active_process
         /\ t.waiting = s.waiting
         /\ t.queues[fid].capacity = s.queues[fid].capacity
         /\ SafeRings(s) => SafeRings(t)
<1> DEFINE q == s.queues[fid]
           front == (q.front + 1) % q.capacity
           size == q.size - 1
           r == [q EXCEPT !.front = front, !.size = size]
           ok == ~is_queue_empty(q) /\ q.front \in DOMAIN q.messages
           t == pop_message(s, fid)
<1>1. /\ s \in KernelStates /\ q \in QueueStructs /\ q.capacity \in 1 .. MAXCOUNT
      /\ q.size # 0
  <2>1. s.queues \in [Fids -> QueueStructs] /\ s \in KernelStates
    BY DEF Sound, KernelStates
  <2>2. q \in QueueStructs
    BY <2>1
  <2> HIDE DEF q
  <2>3. q.capacity # 0 /\ q.size # 0
    BY DEF q
  <2> QED BY <2>1, <2>2, <2>3, SizesAssumption DEF QueueStructs
<1>2. t = PutQueue(assert(s, ok), fid, r)
  BY DEF pop_message, PutQueue, With
<1>2a. q.capacity = s.queues[fid].capacity
  OBVIOUS
<1>2b. SafeRings(s) => RingOK(q)
  BY DEF SafeRings
<1> HIDE DEF t, q
<1>3. front \in 0 .. q.capacity - 1 /\ front \in Nat /\ size \in Int
  BY <1>1, SizesAssumption, ModRange DEF QueueStructs
<1> HIDE DEF front, size
<1>5. /\ r \in QueueStructs /\ r.front = front /\ r.rear = q.rear /\ r.size = size
      /\ r.capacity = q.capacity /\ r.messages = q.messages
  BY <1>1, <1>3 DEF QueueStructs
<1> HIDE DEF r
<1>6. SafeRings(s) => RingOK(r) /\ ok
  BY <1>1, <1>2b, <1>3, <1>5 DEF RingOK, is_queue_empty, size
<1>7. CASE ok
  <2>1. t = PutQueue(s, fid, r)
    BY <1>2, <1>7 DEF assert
  <2> HIDE DEF ok
  <2> QED BY <1>2a, <1>5, <1>6, <2>1, PutQueueSound DEF t
<1>8. CASE ~ok
  <2>1. t = PutQueue(panic(s), fid, r)
    BY <1>2, <1>8 DEF assert
  <2>2. /\ Sound(panic(s)) /\ (Stable(s) => Stable(panic(s)))
        /\ panic(s).active_process = s.active_process
        /\ panic(s).waiting = s.waiting
    BY PanicSound
  <2>3. /\ Sound(t) /\ (Stable(panic(s)) => Stable(t))
        /\ t.active_process = panic(s).active_process
        /\ t.waiting = panic(s).waiting
        /\ t.queues[fid] = r
    BY <1>5, <2>1, <2>2, PutQueueSound
  <2> HIDE DEF ok
  <2> QED BY <1>2a, <1>5, <1>6, <1>8, <2>2, <2>3 DEF t
<1> QED BY <1>7, <1>8

(* What every queue call establishes. *)
QueueCallKeeps(s, t) == Stable(t) /\ (SafeRings(s) => SafeRings(t))

(* Scheduling after a change of a ring keeps the ring. *)
LEMMA ScheduledKeeps ==
  ASSUME NEW s, NEW u, NEW t, SafeRings(s) => SafeRings(u),
         Stable(t), SameQueues(u, t)
  PROVE  QueueCallKeeps(s, t)
BY DEF QueueCallKeeps, SafeRings, SameQueues

(* preset and pdelete rewrite the indices, then wake everybody. *)
LEMMA PresetKeeps ==
  ASSUME NEW s, Stable(s), NEW fid \in Fids, s.queues[fid].capacity # 0
  PROVE  QueueCallKeeps(s, preset(s, fid))
<1> DEFINE q == s.queues[fid]
           rear == q.capacity - 1
           r == [q EXCEPT !.front = 0, !.rear = rear, !.size = 0]
           u == PutQueue(s, fid, r)
<1>1. Sound(s) /\ q \in QueueStructs /\ q.capacity # 0
  BY DEF Stable, Sound, KernelStates
<1>2. preset(s, fid) = WakeupBoth(u, fid)
  BY DEF preset, PutQueue, With
<1>3. SafeRings(s) => RingOK(q)
  BY DEF SafeRings
<1> HIDE DEF q
<1>4. q.capacity \in 1 .. MAXCOUNT /\ rear \in Int
  BY <1>1, SizesAssumption DEF QueueStructs
<1>4a. rear \in 0 .. q.capacity - 1
  BY <1>4, SizesAssumption
<1> HIDE DEF rear
<1>5. /\ r \in QueueStructs /\ r.front = 0 /\ r.rear = rear /\ r.size = 0
      /\ r.capacity = q.capacity /\ r.messages = q.messages
  <2> DEFINE zero == 0
  <2>1. zero \in Nat /\ zero \in Int /\ rear \in Int
    BY <1>4
  <2>2. r = [q EXCEPT !.front = zero, !.rear = rear, !.size = zero]
    OBVIOUS
  <2> HIDE DEF zero, r
  <2>3. /\ r \in QueueStructs /\ r.front = zero /\ r.rear = rear /\ r.size = zero
        /\ r.capacity = q.capacity /\ r.messages = q.messages
    BY <1>1, <2>1, <2>2 DEF QueueStructs
  <2> QED BY <2>3 DEF zero
<1> HIDE DEF r
<1>6. SafeRings(s) => RingOK(r)
  BY <1>3, <1>4, <1>4a, <1>5, SizesAssumption DEF RingOK
<1>7. Sound(u) /\ (SafeRings(s) => SafeRings(u))
  BY <1>1, <1>5, <1>6, PutQueueSound
<1> HIDE DEF u
<1>8. Stable(WakeupBoth(u, fid)) /\ SameQueues(u, WakeupBoth(u, fid))
  BY <1>7, WakeupBothStable
<1> QED BY <1>2, <1>7, <1>8, ScheduledKeeps

(* pdelete frees the slot and fails every blocked call. *)
LEMMA PdeleteKeeps ==
  ASSUME NEW s, Stable(s), NEW fid \in Fids
  PROVE  QueueCallKeeps(s, pdelete(s, fid))
<1> DEFINE q == s.queues[fid]
           r == [q EXCEPT !.capacity = 0, !.messages = <<>>]
           u == PutQueue(s, fid, r)
<1>1. Sound(s) /\ q \in QueueStructs
  BY DEF Stable, Sound, KernelStates
<1>2. pdelete(s, fid) = WakeupBoth(u, fid)
  BY DEF pdelete, PutQueue, With
<1> HIDE DEF q
<1>3. <<>> \in MessageArrays /\ 0 \in 0 .. MAXCOUNT
  <2>1. 0 \in 0 .. MAXCOUNT /\ 0 .. 0 - 1 = {}
    BY SizesAssumption
  <2>2. <<>> \in [0 .. 0 - 1 -> Messages \cup {Uninit}]
    BY <2>1
  <2> QED BY <2>1, <2>2 DEF MessageArrays
<1>5. r \in QueueStructs /\ r.capacity = 0
  <2> DEFINE e == <<>>
  <2>1. e \in MessageArrays
    BY <1>3
  <2>2. r = [q EXCEPT !.capacity = 0, !.messages = e]
    OBVIOUS
  <2> HIDE DEF e, r
  <2> QED BY <1>1, <1>3, <2>1, <2>2 DEF QueueStructs
<1> HIDE DEF r
<1>6. RingOK(r)
  BY <1>5 DEF RingOK
<1>7. Sound(u) /\ (SafeRings(s) => SafeRings(u))
  BY <1>1, <1>5, <1>6, PutQueueSound
<1> HIDE DEF u
<1>8. Stable(WakeupBoth(u, fid)) /\ SameQueues(u, WakeupBoth(u, fid))
  BY <1>7, WakeupBothStable
<1> QED BY <1>2, <1>7, <1>8, ScheduledKeeps

(* pcreate keeps the kernel stable, and the rings if mem_alloc finds room. *)
LEMMA PcreateKeeps ==
  ASSUME NEW s, Stable(s), FreeFids(s) # {}, NEW count \in 1 .. MAXCOUNT,
         NEW allocated \in BOOLEAN
  PROVE  /\ Stable(pcreate(s, count, allocated))
         /\ allocated => QueueCallKeeps(s, pcreate(s, count, allocated))
<1> DEFINE fid == Min(FreeFids(s))
           q == s.queues[fid]
           msgs == [i \in 0 .. count - 1 |-> Uninit]
           rear == count - 1
           new == [front |-> 0, rear |-> rear, size |-> 0, capacity |-> count,
                   messages |-> msgs]
           old == [q EXCEPT !.capacity = count, !.messages = <<>>]
<1>1. fid \in Fids
  <2>1. FreeFids(s) \in SUBSET Nat /\ FreeFids(s) \subseteq Fids
    BY SizesAssumption DEF FreeFids, Fids
  <2> QED BY <2>1, MinProperty
<1>2. Sound(s) /\ s.queues \in [Fids -> QueueStructs]
  BY DEF Stable, Sound, KernelStates
<1>3. CASE allocated
  <2>1. pcreate(s, count, allocated) = PutQueue(s, fid, new)
    BY <1>3 DEF pcreate, PutQueue, With
  <2> HIDE DEF fid
  <2>2. msgs \in MessageArrays /\ DOMAIN msgs = 0 .. count - 1
    <3>1. msgs \in [0 .. count - 1 -> Messages \cup {Uninit}]
      OBVIOUS
    <3>2. count \in 0 .. MAXCOUNT
      BY SizesAssumption
    <3> QED BY <3>1, <3>2 DEF MessageArrays
  <2>3. rear \in Int /\ rear \in 0 .. count - 1 /\ count \in 0 .. MAXCOUNT /\ count > 0
    BY SizesAssumption
  <2> HIDE DEF msgs, rear
  <2>4. /\ new \in QueueStructs /\ new.capacity = count /\ new.front = 0
        /\ new.rear = rear /\ new.size = 0 /\ new.messages = msgs
    BY <2>2, <2>3 DEF QueueStructs
  <2> HIDE DEF new
  <2>5. RingOK(new)
    BY <2>2, <2>3, <2>4 DEF RingOK
  <2> QED BY <1>1, <1>2, <2>1, <2>4, <2>5, PutQueueSound DEF QueueCallKeeps
<1>4. CASE ~allocated
  <2>1. pcreate(s, count, allocated) = PutQueue(s, fid, old)
    BY <1>4 DEF pcreate, PutQueue, With
  <2>2. q \in QueueStructs
    BY <1>1, <1>2
  <2> HIDE DEF fid, q
  <2>3. old \in QueueStructs
    <3> DEFINE e == <<>>
    <3>1. e \in MessageArrays
      <4>1. 0 \in 0 .. MAXCOUNT /\ 0 .. 0 - 1 = {}
        BY SizesAssumption
      <4>2. <<>> \in [0 .. 0 - 1 -> Messages \cup {Uninit}]
        BY <4>1
      <4> QED BY <4>1, <4>2 DEF MessageArrays
    <3>2. old = [q EXCEPT !.capacity = count, !.messages = e] /\ count \in 0 .. MAXCOUNT
      BY SizesAssumption
    <3> HIDE DEF e, old
    <3> QED BY <2>2, <3>1, <3>2 DEF QueueStructs
  <2> HIDE DEF old
  <2> QED BY <1>1, <1>2, <1>4, <2>1, <2>3, PutQueueSound
<1> QED BY <1>3, <1>4

(* The two states of a process blocked on a queue. *)
LEMMA TwoWaitStates ==
  PS_WAIT_QUEUE_EMPTY \in WaitStates /\ PS_WAIT_QUEUE_FULL \in WaitStates
BY DEF WaitStates

(* A blocking psend or preceive gives up the processor. *)
LEMMA BlockedKeeps ==
  ASSUME NEW s, Stable(s), s.active_process # IDLE,
         NEW fid \in Fids, NEW st \in WaitStates,
         NEW c \in {"preceive", "psend"}, NEW m \in Messages \cup {Uninit}
  PROVE  QueueCallKeeps(s, tick_scheduler(BlockOnQueue(s, fid, st, c, m)))
<1> DEFINE u == BlockOnQueue(s, fid, st, c, m)
<1>1. Sound(u) /\ SameQueues(s, u)
  BY BlockSound
<1> HIDE DEF u
<1>2. Stable(tick_scheduler(u)) /\ SameQueues(u, tick_scheduler(u))
  BY <1>1, TickStable
<1>3. SafeRings(s) => SafeRings(u)
  BY <1>1 DEF SafeRings, SameQueues
<1> QED BY <1>2, <1>3, ScheduledKeeps DEF u

(* psend blocks, hands its message over, or queues it. *)
LEMMA PsendKeeps ==
  ASSUME NEW s, Stable(s), s.active_process # IDLE, NEW fid \in Fids,
         s.queues[fid].capacity # 0, NEW m \in Messages
  PROVE  QueueCallKeeps(s, psend(s, fid, m))
<1> DEFINE q == s.queues[fid]
           receivers == s.waiting[<<fid, PS_WAIT_QUEUE_EMPTY>>]
           full == is_queue_full(q)
           handover == is_queue_empty(q) /\ receivers # <<>>
<1>0. Sound(s) /\ m \in Messages \cup {Uninit}
  BY DEF Stable
<1>1. CASE full
  <2>1. psend(s, fid, m)
          = tick_scheduler(BlockOnQueue(s, fid, PS_WAIT_QUEUE_FULL, "psend", m))
    BY <1>1 DEF psend
  <2> QED BY <1>0, <2>1, BlockedKeeps, TwoWaitStates
<1>2. CASE ~full /\ handover
  <2> DEFINE p == Head(receivers)
             x == With(s.message, p, m)
             u == [s EXCEPT !.message = x]
  <2>1. psend(s, fid, m) = wakeup_first_process(u, fid, PS_WAIT_QUEUE_EMPTY)
    BY <1>2 DEF psend, With
  <2>2. p \in Pids
    <3>1. s \in KernelStates
      BY <1>0 DEF Sound
    <3>2. receivers \in Seq(Pids) /\ receivers # <<>>
      BY <1>2, <3>1, WaitingSeq, TwoWaitStates
    <3> HIDE DEF receivers
    <3> QED BY <3>2
  <2> HIDE DEF p
  <2>3. s \in KernelStates /\ s.message \in [Pids -> Messages \cup {Uninit}]
    BY <1>0 DEF Sound, KernelStates
  <2>4. x \in [Pids -> Messages \cup {Uninit}]
    BY <2>2, <2>3 DEF With
  <2> HIDE DEF x
  <2>5. /\ u \in KernelStates
        /\ u.state = s.state /\ u.attr = s.attr /\ u.active_process = s.active_process
        /\ u.runnable = s.runnable /\ u.asleep = s.asleep /\ u.waiting = s.waiting
        /\ u.dead = s.dead /\ u.call = s.call /\ u.local = s.local /\ u.parent = s.parent
        /\ SameQueues(s, u)
    BY <2>3, <2>4 DEF KernelStates, SameQueues
  <2> HIDE DEF u
  <2>6. ListsBut(u, {})
    BY <1>0, <2>5, ListsKept DEF Sound
  <2>7. Sound(u)
    BY <1>0, <2>5, <2>6, SoundKept
  <2>8. Sound(u) /\ (SafeRings(s) => SafeRings(u))
    BY <2>5, <2>7 DEF SafeRings, SameQueues
  <2>9. u.waiting[<<fid, PS_WAIT_QUEUE_EMPTY>>] # <<>>
    BY <1>2, <2>5
  <2> DEFINE t == wakeup_first_process(u, fid, PS_WAIT_QUEUE_EMPTY)
  <2>10. Stable(t) /\ SameQueues(u, t)
    BY <2>8, <2>9, WakeupFirstStable, TwoWaitStates
  <2> HIDE DEF t
  <2> QED BY <2>1, <2>8, <2>10, ScheduledKeeps DEF t
<1>3. CASE ~full /\ ~handover
  <2>1. psend(s, fid, m) = push_message(s, fid, m)
    BY <1>3 DEF psend
  <2>2. s.queues[fid].size # s.queues[fid].capacity
    BY <1>3 DEF is_queue_full
  <2> QED BY <1>0, <2>1, <2>2, PushMessage DEF QueueCallKeeps
<1> QED BY <1>1, <1>2, <1>3

(* preceive blocks, or pops and lets the first blocked sender in. *)
LEMMA PreceiveKeeps ==
  ASSUME NEW s, Stable(s), s.active_process # IDLE, NEW fid \in Fids,
         s.queues[fid].capacity # 0
  PROVE  QueueCallKeeps(s, preceive(s, fid))
<1> DEFINE q == s.queues[fid]
           popped == pop_message(s, fid)
           senders == s.waiting[<<fid, PS_WAIT_QUEUE_FULL>>]
           empty == is_queue_empty(q)
           refill == popped.queues[fid].size = q.capacity - 1 /\ senders # <<>>
<1>0. Sound(s) /\ Uninit \in Messages \cup {Uninit}
  BY DEF Stable
<1>1. CASE empty
  <2>1. preceive(s, fid)
          = tick_scheduler(BlockOnQueue(s, fid, PS_WAIT_QUEUE_EMPTY, "preceive", Uninit))
    BY <1>1 DEF preceive
  <2> QED BY <1>0, <2>1, BlockedKeeps, TwoWaitStates
<1>2. CASE ~empty
  <2>1. s.queues[fid].size # 0
    BY <1>2 DEF is_queue_empty
  <2>2. /\ Sound(popped) /\ Stable(popped) /\ popped.waiting = s.waiting
        /\ popped.queues[fid].capacity = s.queues[fid].capacity
        /\ SafeRings(s) => SafeRings(popped)
    BY <1>0, <2>1, PopMessage
  <2>3. CASE ~refill
    <3>1. preceive(s, fid) = popped
      BY <1>2, <2>3 DEF preceive
    <3> QED BY <2>2, <3>1 DEF QueueCallKeeps
  <2>4. CASE refill
    <3> DEFINE m == s.message[Head(senders)]
               u == push_message(popped, fid, m)
               t == wakeup_first_process(u, fid, PS_WAIT_QUEUE_FULL)
    <3>1. preceive(s, fid) = t
      BY <1>2, <2>4 DEF preceive
    <3>2. m \in Messages \cup {Uninit}
      <4>1. s \in KernelStates /\ s.message \in [Pids -> Messages \cup {Uninit}]
        BY <1>0 DEF Sound, KernelStates
      <4>2. senders \in Seq(Pids) /\ senders # <<>>
        BY <2>4, <4>1, WaitingSeq, TwoWaitStates
      <4> HIDE DEF senders
      <4> QED BY <4>1, <4>2
    <3>3. SafeRings(s) => popped.queues[fid].size # popped.queues[fid].capacity
      <4>1. popped.queues[fid].size = s.queues[fid].capacity - 1
        BY <2>4
      <4>2. s.queues[fid].capacity \in Int
        <5>1. s.queues \in [Fids -> QueueStructs]
          BY <1>0 DEF Sound, KernelStates
        <5>2. s.queues[fid] \in QueueStructs
          BY <5>1
        <5> QED BY <5>2, SizesAssumption DEF QueueStructs
      <4> HIDE DEF popped
      <4> QED BY <2>2, <4>1, <4>2
    <3> HIDE DEF popped, m
    <3>4. Sound(u) /\ u.waiting = popped.waiting /\ (SafeRings(s) => SafeRings(u))
      BY <2>2, <3>2, <3>3, PushMessage
    <3> HIDE DEF u
    <3>5. u.waiting[<<fid, PS_WAIT_QUEUE_FULL>>] # <<>>
      BY <2>2, <2>4, <3>4
    <3>6. Stable(t) /\ SameQueues(u, t)
      BY <3>4, <3>5, WakeupFirstStable, TwoWaitStates
    <3> HIDE DEF t
    <3> QED BY <3>1, <3>4, <3>6, ScheduledKeeps
  <2> QED BY <2>3, <2>4
<1> QED BY <1>1, <1>2

-----------------------------------------------------------------------------
(* chprio. *)

(* A runnable process is taken out and put back at its new place. *)
LEMMA RequeueSound ==
  ASSUME NEW s, Sound(s), NEW p \in Pids, s.state[p] = PS_RUNNABLE
  PROVE  LET t == push_runnable([remove_runnable(s, p) EXCEPT !.state[p] = PS_ZOMBIE], p)
         IN Sound(t) /\ SameQueues(s, t)
<1> DEFINE r == remove_runnable(s, p)
           x == With(r.state, p, PS_ZOMBIE)
           u == [r EXCEPT !.state = x]
           t == push_runnable(u, p)
           X == {}
<1>1. u = [remove_runnable(s, p) EXCEPT !.state[p] = PS_ZOMBIE]
  BY DEF With
<1>2. s \in KernelStates /\ ListsBut(s, X) /\ s.state \in [Pids -> States]
  BY DEF Sound, KernelStates
<1>3. p \notin X
  OBVIOUS
<1> HIDE DEF X
<1>4. /\ r \in KernelStates /\ ListsBut(r, X \cup {p})
      /\ r.state = s.state /\ r.attr = s.attr
      /\ r.active_process = s.active_process
      /\ SameBlocks(s, r) /\ SameQueues(s, r)
  BY <1>2, RemoveRunnable
<1> HIDE DEF r
<1>5. x \in [Pids -> States] /\ x[p] = PS_ZOMBIE /\ \A q \in Pids \ {p} : x[q] = s.state[q]
  BY <1>2, <1>4, DistinctStates DEF With
<1> HIDE DEF x
<1>6. /\ u \in KernelStates /\ u.state = x /\ u.attr = r.attr
      /\ u.runnable = r.runnable /\ u.asleep = r.asleep /\ u.waiting = r.waiting
      /\ u.dead = r.dead /\ u.active_process = r.active_process
      /\ SameBlocks(r, u) /\ SameQueues(r, u)
  BY <1>4, <1>5 DEF KernelStates, SameBlocks, SameQueues
<1> HIDE DEF u
<1>7. ListsBut(u, X \cup {p})
  <2>1. \A q \in Pids \ {p} : u.state[q] = r.state[q] /\ u.attr[q] = r.attr[q]
    BY <1>4, <1>5, <1>6
  <2> QED BY <1>4, <1>6, <2>1, Relabel
<1>8. u.state[p] # PS_RUNNABLE
  BY <1>5, <1>6, DistinctStates
<1>9. /\ t \in KernelStates /\ ListsBut(t, X)
      /\ t.state = With(u.state, p, PS_RUNNABLE)
      /\ t.active_process = u.active_process
      /\ SameBlocks(u, t) /\ SameQueues(u, t)
  BY <1>3, <1>6, <1>7, <1>8, PushRunnable
<1> HIDE DEF t
<1>10. \A q \in Pids : t.state[q] = s.state[q]
  BY <1>5, <1>6, <1>9 DEF With
<1>11. Sound(t)
  BY <1>4, <1>6, <1>9, <1>10, SoundKept DEF SameBlocks, X
<1>12. SameQueues(s, t)
  BY <1>4, <1>6, <1>9 DEF SameQueues
<1> QED BY <1>1, <1>11, <1>12 DEF t

(* A waiting process is taken out and put back at its new place. *)
LEMMA ReorderSound ==
  ASSUME NEW s, Sound(s), NEW p \in Pids, s.state[p] \in WaitStates
  PROVE  LET t == queue_reorder(s, p) IN Sound(t) /\ SameQueues(s, t)
<1> DEFINE fid == s.attr[p]
           st == s.state[p]
           u == pop_waiting_process(s, fid, st, p)
           t == push_waiting_process(u, fid, st, p)
           X == {}
<1>1. queue_reorder(s, p) = t
  BY DEF queue_reorder
<1>2. s \in KernelStates /\ ListsBut(s, X) /\ p \notin X /\ p \in Pids \ X
  BY DEF Sound
<1>3. fid \in Fids
  BY <1>2 DEF ListsBut, InState
<1> HIDE DEF X, fid, st
<1>4. s.state[p] = st /\ s.attr[p] = fid /\ st \in WaitStates
  BY DEF st, fid
<1>5. /\ u \in KernelStates /\ ListsBut(u, X \cup {p})
      /\ u.state = s.state /\ u.attr = s.attr
      /\ u.active_process = s.active_process
      /\ SameBlocks(s, u) /\ SameQueues(s, u)
  BY <1>2, <1>3, <1>4, PopWaiting
<1> HIDE DEF u
<1>6. u.state[p] = st /\ u.attr[p] = fid
  BY <1>4, <1>5
<1>7. /\ t \in KernelStates /\ ListsBut(t, X)
      /\ t.state = u.state /\ t.attr = u.attr
      /\ t.active_process = u.active_process
      /\ SameBlocks(u, t) /\ SameQueues(u, t)
  BY <1>2, <1>3, <1>4, <1>5, <1>6, PushWaiting
<1> HIDE DEF t
<1>8. Sound(t)
  BY <1>5, <1>7, SoundKept DEF SameBlocks, X
<1> QED BY <1>1, <1>5, <1>7, <1>8 DEF SameQueues

(* chprio moves the process in its list and fixes the scheduler. *)
LEMMA ChprioStable ==
  ASSUME NEW s, Stable(s), NEW p \in Pids, NEW newprio \in Int
  PROVE  LET t == chprio(s, p, newprio) IN Stable(t) /\ SameQueues(s, t)
<1> DEFINE x == With(s.prio, p, newprio)
           u == [s EXCEPT !.prio = x]
           v == IF s.state[p] = PS_RUNNABLE
                THEN push_runnable([remove_runnable(u, p) EXCEPT !.state[p] = PS_ZOMBIE], p)
                ELSE IF s.state[p] \in WaitStates THEN queue_reorder(u, p)
                ELSE u
<1>1. chprio(s, p, newprio) = fix_scheduler(v)
  BY DEF chprio, With
<1>2. s \in KernelStates /\ ListsBut(s, {}) /\ s.prio \in [Pids -> Int] /\ Sound(s)
  BY DEF Stable, Sound, KernelStates
<1>3. x \in [Pids -> Int]
  BY <1>2 DEF With
<1> HIDE DEF x
<1>4. /\ u \in KernelStates /\ u.state = s.state /\ u.attr = s.attr
      /\ u.runnable = s.runnable /\ u.asleep = s.asleep /\ u.waiting = s.waiting
      /\ u.dead = s.dead /\ u.active_process = s.active_process
      /\ u.call = s.call /\ u.local = s.local /\ u.parent = s.parent
      /\ SameQueues(s, u)
  BY <1>2, <1>3 DEF KernelStates, SameQueues
<1> HIDE DEF u
<1>5. Sound(u)
  <2>1. ListsBut(u, {})
    BY <1>2, <1>4, ListsKept
  <2> QED BY <1>2, <1>4, <2>1, SoundKept
<1>6. Sound(v) /\ SameQueues(u, v)
  <2>1. CASE s.state[p] = PS_RUNNABLE
    <3>1. u.state[p] = PS_RUNNABLE
      BY <1>4, <2>1
    <3> QED BY <1>5, <2>1, <3>1, RequeueSound
  <2>2. CASE s.state[p] # PS_RUNNABLE /\ s.state[p] \in WaitStates
    <3>1. u.state[p] \in WaitStates
      BY <1>4, <2>2
    <3> QED BY <1>5, <2>2, <3>1, ReorderSound
  <2>3. CASE s.state[p] # PS_RUNNABLE /\ s.state[p] \notin WaitStates
    BY <1>5, <2>3 DEF SameQueues
  <2> QED BY <2>1, <2>2, <2>3
<1> HIDE DEF v
<1>7. Stable(fix_scheduler(v)) /\ SameQueues(v, fix_scheduler(v))
  BY <1>6, FixStable
<1> QED BY <1>1, <1>4, <1>6, <1>7 DEF SameQueues

-----------------------------------------------------------------------------
(* start. *)

(* start_user_background takes a free pid and fills its process_t. *)
LEMMA StartSound ==
  ASSUME NEW s, Sound(s), s.dead # <<>>, NEW newprio \in Int, NEW allocated \in BOOLEAN
  PROVE  LET t == start_user_background(s, newprio, allocated) IN
         /\ Sound(t) /\ SameQueues(s, t)
         /\ Stable(s) => Stable(t)
<1> DEFINE p == Head(s.dead)
           z == Tail(s.dead)
           x == With(s.prio, p, newprio)
           y == With(s.parent, p, s.active_process)
           u == [s EXCEPT !.dead = z, !.prio = x, !.parent = y]
           t == start_user_background(s, newprio, allocated)
           X == {}
<1>1. /\ s \in KernelStates /\ ListsBut(s, X)
      /\ IdleReady(s) /\ OnlyActive(s) /\ QueueCallers(s) /\ ChildWritten(s)
      /\ s.prio \in [Pids -> Int] /\ s.parent \in [Pids -> Pids \cup {NOPID}]
      /\ s.state \in [Pids -> States] /\ s.active_process \in Pids /\ s.dead \in Seq(Pids)
  BY DEF Sound, KernelStates
<1>2. /\ p \in Pids /\ s.state[p] = PS_DEAD
      /\ z \in Seq(Pids) /\ IsInjective(z)
      /\ Range(z) \subseteq InState(s, X, PS_DEAD) \ {p}
  <2>1. IsListOf(s.dead, Range(s.dead)) /\ Range(s.dead) \subseteq InState(s, X, PS_DEAD)
    BY <1>1 DEF ListsBut, IsListOf
  <2>2. p \in Pids /\ p \in Range(s.dead) /\ z \in Seq(Pids) /\ IsListOf(z, Range(s.dead) \ {p})
    BY <1>1, <2>1, TailList
  <2>3. s.state[p] = PS_DEAD
    BY <2>1, <2>2 DEF InState
  <2> QED BY <2>1, <2>2, <2>3 DEF IsListOf
<1>3. t = IF allocated THEN push_runnable(u, p) ELSE u
  <2> DEFINE w == [assert(s, s.state[p] = PS_DEAD) EXCEPT
                     !.dead = Tail(@), !.prio[p] = newprio,
                     !.parent[p] = s.active_process]
  <2>1. t = IF allocated THEN push_runnable(w, p) ELSE w
    BY DEF start_user_background
  <2>2. assert(s, s.state[p] = PS_DEAD) = s
    BY <1>2 DEF assert
  <2>3. w = u
    BY <2>2 DEF With
  <2> HIDE DEF w, u
  <2> QED BY <2>1, <2>3
<1>4. p \notin X
  OBVIOUS
<1> HIDE DEF p, z, t, X
<1>5. /\ x \in [Pids -> Int] /\ y \in [Pids -> Pids \cup {NOPID}]
      /\ \A q \in Pids \ {p} : y[q] = s.parent[q]
  BY <1>1, <1>2 DEF With
<1> HIDE DEF x, y
<1>6. /\ u \in KernelStates /\ u.state = s.state /\ u.attr = s.attr
      /\ u.runnable = s.runnable /\ u.asleep = s.asleep /\ u.waiting = s.waiting
      /\ u.dead = z /\ u.active_process = s.active_process
      /\ u.call = s.call /\ u.local = s.local /\ u.parent = y
      /\ SameQueues(s, u)
  BY <1>1, <1>2, <1>5 DEF KernelStates, SameQueues
<1> HIDE DEF u
<1>7. ListsBut(u, X \cup {p})
  <2>1. ListsWithout(s, u, X, p)
    BY <1>1, <1>2, <1>6, OtherLists, DistinctStates DEF ListsWithout
  <2> QED BY <1>1, <1>2, <1>6, <2>1, Unlink
<1>8. /\ t \in KernelStates /\ ListsBut(t, X)
      /\ t.active_process = s.active_process /\ SameQueues(s, t)
      /\ t.call = s.call /\ t.local = s.local /\ t.parent = y
      /\ t.state[p] \in {PS_DEAD, PS_RUNNABLE}
      /\ \A q \in Pids \ {p} : t.state[q] = s.state[q]
  <2>1. CASE allocated
    <3>1. t = push_runnable(u, p) /\ u.state[p] # PS_RUNNABLE
      BY <1>2, <1>3, <1>6, <2>1, DistinctStates
    <3>0. u \in KernelStates /\ p \in Pids
      BY <1>2, <1>6
    <3>2. /\ t \in KernelStates /\ ListsBut(t, X)
          /\ t.state = With(u.state, p, PS_RUNNABLE)
          /\ t.attr = With(u.attr, p, 0)
          /\ t.asleep = u.asleep /\ t.waiting = u.waiting /\ t.dead = u.dead
          /\ t.active_process = u.active_process
          /\ SameBlocks(u, t) /\ SameQueues(u, t)
      BY <1>4, <1>7, <3>0, <3>1, PushRunnable
    <3> QED BY <1>1, <1>2, <1>6, <3>2 DEF With, SameBlocks, SameQueues
  <2>2. CASE ~allocated
    <3>1. t = u
      BY <1>3, <2>2
    <3>2. ListsBut(u, X)
      BY <1>2, <1>6, <1>7, Settled
    <3> QED BY <1>2, <1>6, <3>1, <3>2
  <2> QED BY <2>1, <2>2
<1>9. IdleReady(t) /\ OnlyActive(t) /\ QueueCallers(t)
  BY <1>1, <1>2, <1>8, IdlePid, DistinctStates DEF IdleReady, OnlyActive, QueueCallers
<1>10. ChildWritten(t)
  <2> SUFFICES ASSUME NEW q \in Pids, t.call[q] = "waitpid", t.state[q] # PS_WAIT_CHILD
               PROVE  /\ t.local[q] \in Pids
                      /\ t.state[t.local[q]] = PS_ZOMBIE /\ t.parent[t.local[q]] = q
    BY DEF ChildWritten
  <2>1. s.call[q] = "waitpid" /\ s.state[q] # PS_WAIT_CHILD
    BY <1>2, <1>8, DistinctStates
  <2>2. s.local[q] \in Pids /\ s.state[s.local[q]] = PS_ZOMBIE /\ s.parent[s.local[q]] = q
    BY <1>1, <2>1 DEF ChildWritten
  <2> QED BY <1>2, <1>5, <1>8, <2>2, DistinctStates
<1>11. Stable(s) => t.state[t.active_process] = PS_RUNNING
  BY <1>1, <1>2, <1>8, DistinctStates DEF Stable
<1> QED BY <1>8, <1>9, <1>10, <1>11 DEF Sound, Stable, X, t

(* start_user: a process is created, then the scheduler is fixed. *)
LEMMA StartStable ==
  ASSUME NEW s, Stable(s), s.dead # <<>>, NEW newprio \in Int, NEW allocated \in BOOLEAN
  PROVE  LET t == start_user(s, newprio, allocated) IN Stable(t) /\ SameQueues(s, t)
<1> DEFINE u == start_user_background(s, newprio, allocated)
<1>1. Sound(u) /\ SameQueues(s, u)
  BY StartSound DEF Stable
<1> HIDE DEF u
<1>2. start_user(s, newprio, allocated) = fix_scheduler(u)
  BY DEF start_user, u
<1> QED BY <1>1, <1>2, FixStable DEF SameQueues

-----------------------------------------------------------------------------
(* Termination. *)

(* Leaving a suspended call disturbs nothing else. *)
LEMMA ForgetSound ==
  ASSUME NEW s, Sound(s), NEW p \in Pids
  PROVE  LET t == Forget(s, p) IN
         /\ Sound(t) /\ SameQueues(s, t) /\ (Stable(s) => Stable(t))
         /\ t.active_process = s.active_process
         /\ t.state = s.state /\ t.attr = s.attr /\ t.parent = s.parent
         /\ t.call[p] = "user"
         /\ \A q \in Pids \ {p} : t.call[q] = s.call[q] /\ t.local[q] = s.local[q]
<1> DEFINE x == With(s.call, p, "user")
           y == With(s.local, p, 0)
           z == With(s.message, p, Uninit)
           t == Forget(s, p)
<1>1. /\ s \in KernelStates /\ ListsBut(s, {})
      /\ IdleReady(s) /\ OnlyActive(s) /\ QueueCallers(s) /\ ChildWritten(s)
      /\ s.call \in [Pids -> Calls] /\ s.local \in [Pids -> Int]
      /\ s.message \in [Pids -> Messages \cup {Uninit}]
  BY DEF Sound, KernelStates
<1>2. /\ x \in [Pids -> Calls] /\ x[p] = "user"
      /\ \A q \in Pids \ {p} : x[q] = s.call[q]
  BY <1>1 DEF With, Calls
<1>3. /\ y \in [Pids -> Int] /\ z \in [Pids -> Messages \cup {Uninit}]
      /\ \A q \in Pids \ {p} : y[q] = s.local[q]
  BY <1>1 DEF With
<1>4. t = [s EXCEPT !.call = x, !.local = y, !.message = z]
  BY DEF Forget, With
<1> HIDE DEF t, x, y, z
<1>5. /\ t \in KernelStates /\ t.state = s.state /\ t.attr = s.attr
      /\ t.runnable = s.runnable /\ t.asleep = s.asleep /\ t.waiting = s.waiting
      /\ t.dead = s.dead /\ t.active_process = s.active_process
      /\ t.call = x /\ t.local = y /\ t.parent = s.parent
      /\ SameQueues(s, t)
  BY <1>1, <1>2, <1>3, <1>4 DEF KernelStates, SameQueues
<1>6. ListsBut(t, {})
  BY <1>1, <1>5, ListsKept
<1>7. IdleReady(t) /\ OnlyActive(t) /\ QueueCallers(t)
  BY <1>1, <1>2, <1>5 DEF IdleReady, OnlyActive, QueueCallers
<1>8. ChildWritten(t)
  BY <1>1, <1>2, <1>3, <1>5 DEF ChildWritten
<1> QED BY <1>2, <1>3, <1>5, <1>6, <1>7, <1>8 DEF Sound, Stable, t

(* Freeing the pid of a zombie nobody was told about. *)
LEMMA FreeZombie ==
  ASSUME NEW s, Sound(s), NEW c \in Pids, s.state[c] = PS_ZOMBIE,
         \A q \in Pids : s.parent[c] = q => s.call[q] # "waitpid"
  PROVE  LET t == push_dead(s, c) IN
         /\ Sound(t) /\ SameQueues(s, t) /\ (Stable(s) => Stable(t))
         /\ t.active_process = s.active_process
         /\ t.call = s.call
         /\ \A q \in Pids \ {c} : t.state[q] = s.state[q] /\ t.attr[q] = s.attr[q]
<1> DEFINE t == push_dead(s, c)
           X == {}
<1>1. /\ s \in KernelStates /\ ListsBut(s, X)
      /\ IdleReady(s) /\ OnlyActive(s) /\ QueueCallers(s) /\ ChildWritten(s)
      /\ s.state \in [Pids -> States] /\ s.attr \in [Pids -> Int] /\ c \notin X
      /\ s.active_process \in Pids
  BY DEF Sound, KernelStates
<1> HIDE DEF X, t
<1>2. ListsBut(s, X \cup {c})
  BY <1>1, Unlisted
<1>3. s.state[c] # PS_DEAD
  BY DistinctStates
<1>4. /\ t \in KernelStates /\ ListsBut(t, X)
      /\ t.state = With(s.state, c, PS_DEAD) /\ t.attr = With(s.attr, c, 0)
      /\ t.active_process = s.active_process
      /\ SameBlocks(s, t) /\ SameQueues(s, t)
  BY <1>1, <1>2, <1>3, PushDead DEF t
<1>5. /\ t.state[c] = PS_DEAD
      /\ \A q \in Pids \ {c} : t.state[q] = s.state[q] /\ t.attr[q] = s.attr[q]
  BY <1>1, <1>4 DEF With
<1>6. IdleReady(t) /\ OnlyActive(t) /\ QueueCallers(t)
  BY <1>1, <1>4, <1>5, IdlePid, DistinctStates
     DEF IdleReady, OnlyActive, QueueCallers, SameBlocks
<1>7. ChildWritten(t)
  <2> SUFFICES ASSUME NEW q \in Pids, t.call[q] = "waitpid", t.state[q] # PS_WAIT_CHILD
               PROVE  /\ t.local[q] \in Pids
                      /\ t.state[t.local[q]] = PS_ZOMBIE /\ t.parent[t.local[q]] = q
    BY DEF ChildWritten
  <2>1. s.call[q] = "waitpid" /\ s.state[q] # PS_WAIT_CHILD
    BY <1>4, <1>5, DistinctStates DEF SameBlocks
  <2>2. s.local[q] \in Pids /\ s.state[s.local[q]] = PS_ZOMBIE /\ s.parent[s.local[q]] = q
    BY <1>1, <2>1 DEF ChildWritten
  <2>3. s.local[q] # c
    BY <2>1, <2>2
  <2> QED BY <1>4, <1>5, <2>2, <2>3 DEF SameBlocks
<1>8. Stable(s) => t.state[t.active_process] = PS_RUNNING
  BY <1>1, <1>4, <1>5, DistinctStates DEF Stable
<1> QED BY <1>4, <1>5, <1>6, <1>7, <1>8 DEF Sound, Stable, SameBlocks, X, t

(* States inside stop(pid), while the children of pid are unbound. *)
Ending(s, pid, st, a, w) ==
  /\ Sound(w) /\ SameQueues(s, w)
  /\ w.active_process = s.active_process
  /\ w.state[pid] = st /\ w.attr[pid] = a /\ w.call[pid] = "user"

(* One child of the ending process is freed or orphaned. *)
LEMMA UnbindEnding ==
  ASSUME NEW s, NEW pid \in Pids, NEW st, st # PS_ZOMBIE, NEW a, NEW w,
         Ending(s, pid, st, a, w), NEW c \in Pids
  PROVE  Ending(s, pid, st, a, Unbind(w, pid, c))
<1>1. /\ Sound(w) /\ SameQueues(s, w) /\ w.active_process = s.active_process
      /\ w.state[pid] = st /\ w.attr[pid] = a /\ w.call[pid] = "user"
  BY DEF Ending
<1>2. CASE w.parent[c] # pid
  BY <1>2 DEF Unbind
<1>3. CASE w.parent[c] = pid /\ w.state[c] = PS_ZOMBIE
  <2> DEFINE t == push_dead(w, c)
  <2>1. Unbind(w, pid, c) = t
    BY <1>3 DEF Unbind
  <2>2. c # pid /\ \A q \in Pids : w.parent[c] = q => w.call[q] # "waitpid"
    BY <1>1, <1>3
  <2>3. /\ Sound(t) /\ SameQueues(w, t) /\ t.active_process = w.active_process
        /\ t.call = w.call
        /\ \A q \in Pids \ {c} : t.state[q] = w.state[q] /\ t.attr[q] = w.attr[q]
    BY <1>1, <1>3, <2>2, FreeZombie
  <2> HIDE DEF t
  <2> QED BY <1>1, <2>1, <2>2, <2>3 DEF Ending, SameQueues
<1>4. CASE w.parent[c] = pid /\ w.state[c] # PS_ZOMBIE
  <2> DEFINE x == With(w.parent, c, NOPID)
             t == [w EXCEPT !.parent = x]
  <2>1. Unbind(w, pid, c) = t
    BY <1>4 DEF Unbind, With
  <2>2. /\ w \in KernelStates /\ ListsBut(w, {})
        /\ IdleReady(w) /\ OnlyActive(w) /\ QueueCallers(w) /\ ChildWritten(w)
        /\ w.parent \in [Pids -> Pids \cup {NOPID}]
    BY <1>1 DEF Sound, KernelStates
  <2>3. /\ x \in [Pids -> Pids \cup {NOPID}]
        /\ \A q \in Pids \ {c} : x[q] = w.parent[q]
    BY <2>2 DEF With
  <2> HIDE DEF x
  <2>4. /\ t \in KernelStates /\ t.state = w.state /\ t.attr = w.attr
        /\ t.runnable = w.runnable /\ t.asleep = w.asleep /\ t.waiting = w.waiting
        /\ t.dead = w.dead /\ t.active_process = w.active_process
        /\ t.call = w.call /\ t.local = w.local /\ t.parent = x
        /\ SameQueues(w, t)
    BY <2>2, <2>3 DEF KernelStates, SameQueues
  <2> HIDE DEF t
  <2>5. ListsBut(t, {})
    BY <2>2, <2>4, ListsKept
  <2>6. IdleReady(t) /\ OnlyActive(t) /\ QueueCallers(t)
    BY <2>2, <2>4 DEF IdleReady, OnlyActive, QueueCallers
  <2>7. ChildWritten(t)
    BY <1>4, <2>2, <2>3, <2>4 DEF ChildWritten
  <2>8. Sound(t)
    BY <2>4, <2>5, <2>6, <2>7 DEF Sound
  <2> QED BY <1>1, <2>1, <2>4, <2>8 DEF Ending, SameQueues
<1> QED BY <1>2, <1>3, <1>4

(* The loop of stop over the process table, turn by turn. *)
LEMMA UnbindTurnsRun ==
  ASSUME NEW s, NEW pid \in Pids, NEW st, st # PS_ZOMBIE, NEW a, NEW w,
         Ending(s, pid, st, a, w)
  PROVE  LET h == UnbindTurns(w, pid) IN
         /\ h[0] = w
         /\ \A i \in 1 .. NBPROC : h[i] = Unbind(h[i - 1], pid, i - 1)
<1> DEFINE N == NBPROC
           Turn(i, t) == Unbind(t, pid, i - 1)
           S == {t \in KernelStates : Ending(s, pid, st, a, t)}
           F == [i \in 1 .. N |-> [t \in S |-> Turn(i, t)]]
           Body(g) == [i \in 0 .. N |-> IF i = 0 THEN w ELSE Turn(i, g[i - 1])]
<1>1. N \in Nat /\ w \in S
  BY SizesAssumption DEF Ending, Sound
<1>2. \A i \in 1 .. N, t \in S : Turn(i, t) \in S
  <2> TAKE i \in 1 .. N, t \in S
  <2> DEFINE c == i - 1
  <2>1. c \in Pids
    BY SizesAssumption DEF Pids
  <2> HIDE DEF c
  <2>2. Ending(s, pid, st, a, Unbind(t, pid, c))
    BY <2>1, UnbindEnding
  <2> QED BY <2>2 DEF c, Ending, Sound
<1>3. F \in LoopBodies(N, S) /\ \A i \in 1 .. N, t \in S : F[i][t] = Turn(i, t)
  <2> HIDE DEF S, Turn, N
  <2> QED BY <1>2 DEF LoopBodies
<1>4. PICK g : LoopRun(g, N, S, w, F)
  <2> HIDE DEF S, F, N
  <2> QED BY <1>1, <1>3, LoopExists
<1>5. g = Body(g)
  <2> HIDE DEF S, F, N, Turn
  <2>1. \A i \in 1 .. N : i - 1 \in 0 .. N /\ g[i - 1] \in S
    BY <1>1, <1>4 DEF LoopRun
  <2>2. \A i \in 1 .. N : g[i] = Turn(i, g[i - 1])
    BY <1>3, <1>4, <2>1 DEF LoopRun
  <2> QED BY <1>1, <1>4, <2>2 DEF LoopRun
<1>6. UnbindTurns(w, pid) = CHOOSE h : h = Body(h)
  BY DEF UnbindTurns
<1> DEFINE h == UnbindTurns(w, pid)
<1>7. h = Body(h)
  <2> HIDE DEF Body
  <2> QED BY <1>5, <1>6
<1>8. h[0] = w
  BY <1>1, <1>7
<1>9. \A i \in 1 .. N : h[i] = Turn(i, h[i - 1])
  <2> HIDE DEF h, Turn, N
  <2> QED BY <1>1, <1>7
<1> QED BY <1>8, <1>9

(* A set of pairs of a pid and a state that the turn for that pid carries  *)
(* on to the next holds at the end of the loop.                            *)
LEMMA UnbindAllKeeps ==
  ASSUME NEW s, NEW pid \in Pids, NEW st, st # PS_ZOMBIE, NEW a, NEW w,
         Ending(s, pid, st, a, w), NEW G, <<0, w>> \in G,
         \A c \in Pids : \A t : <<c, t>> \in G => <<c + 1, Unbind(t, pid, c)>> \in G
  PROVE  <<NBPROC, UnbindTurns(w, pid)[NBPROC]>> \in G
<1> DEFINE h == UnbindTurns(w, pid)
           H == {i \in 0 .. NBPROC : <<i, h[i]>> \in G}
<1>1. NBPROC \in Nat
  BY SizesAssumption
<1>2. h[0] = w /\ \A i \in 1 .. NBPROC : h[i] = Unbind(h[i - 1], pid, i - 1)
  BY UnbindTurnsRun
<1> HIDE DEF h
<1>3. 0 \in H
  BY <1>1, <1>2
<1>4. ASSUME NEW i \in 1 .. NBPROC, i - 1 \in H PROVE i \in H
  <2> DEFINE c == i - 1
  <2>1. c \in Pids /\ <<c, h[c]>> \in G
    BY <1>1, <1>4 DEF Pids
  <2>2. h[i] = Unbind(h[c], pid, c) /\ c + 1 = i
    BY <1>1, <1>2
  <2> HIDE DEF c
  <2>3. <<c + 1, Unbind(h[c], pid, c)>> \in G
    BY <2>1
  <2>4. <<i, h[i]>> \in G
    BY <2>2, <2>3
  <2> QED BY <2>4
<1>4a. \A i \in 1 .. NBPROC : i - 1 \in H => i \in H
  BY <1>4
<1> HIDE DEF H
<1>5. NBPROC \in H
  BY <1>1, <1>3, <1>4a, UpTo
<1> QED BY <1>5 DEF H, h

(* The loop of stop over the process table. *)
LEMMA UnbindAllEnding ==
  ASSUME NEW s, NEW pid \in Pids, NEW st, st # PS_ZOMBIE, NEW a, NEW w,
         Ending(s, pid, st, a, w)
  PROVE  Ending(s, pid, st, a, UnbindTurns(w, pid)[NBPROC])
<1> DEFINE G == {x \in Nat \X KernelStates : Ending(s, pid, st, a, x[2])}
<1>1. <<0, w>> \in G
  BY DEF Ending, Sound
<1>2. ASSUME NEW c \in Pids, NEW t, <<c, t>> \in G
      PROVE  <<c + 1, Unbind(t, pid, c)>> \in G
  <2> DEFINE u == Unbind(t, pid, c)
  <2>1. Ending(s, pid, st, a, t) /\ c + 1 \in Nat
    BY <1>2, SizesAssumption DEF Pids
  <2>2. Ending(s, pid, st, a, u)
    BY <2>1, UnbindEnding
  <2> HIDE DEF u
  <2>3. <<c + 1, u>> \in G
    BY <2>1, <2>2 DEF Ending, Sound
  <2> QED BY <2>3 DEF u
<1> HIDE DEF G
<1>3. <<NBPROC, UnbindTurns(w, pid)[NBPROC]>> \in G
  BY <1>1, <1>2, UnbindAllKeeps
<1> QED BY <1>3 DEF G

(* Detach takes a process that is alive off the list its state names. *)
LEMMA DetachLists ==
  ASSUME NEW s, Sound(s), NEW p \in Pids, s.state[p] \notin {PS_DEAD, PS_ZOMBIE}
  PROVE  LET t == Detach(s, p) IN
         /\ t \in KernelStates /\ ListsBut(t, {p})
         /\ t.state = s.state /\ t.attr = s.attr
         /\ t.active_process = s.active_process
         /\ SameBlocks(s, t) /\ SameQueues(s, t)
<1> DEFINE t == Detach(s, p)
           X == {}
<1>1. s \in KernelStates /\ ListsBut(s, X) /\ p \notin X /\ X \cup {p} = {p}
  BY DEF Sound
<1>2. CASE s.state[p] = PS_ASLEEP
  <2> DEFINE z == RemoveFirst(s.asleep, p)
             u == [s EXCEPT !.asleep = z]
  <2>1. s.asleep \in Seq(Pids) /\ IsListOf(s.asleep, InState(s, X, PS_ASLEEP))
    BY <1>1 DEF KernelStates, ListsBut
  <2>2. s.asleep # <<>>
    <3>1. p \in Range(s.asleep)
      BY <1>2, <2>1 DEF IsListOf, InState
    <3> QED BY <3>1 DEF Range
  <2>3. t = u
    BY <1>2, <2>2 DEF Detach, assert
  <2>4. z \in Seq(Pids) /\ IsListOf(z, InState(s, X, PS_ASLEEP) \ {p})
    BY <2>1, RemoveList
  <2> HIDE DEF z, X
  <2>5. /\ u \in KernelStates /\ u.state = s.state /\ u.attr = s.attr
        /\ u.runnable = s.runnable /\ u.asleep = z /\ u.waiting = s.waiting
        /\ u.dead = s.dead /\ u.active_process = s.active_process
        /\ SameBlocks(s, u) /\ SameQueues(s, u)
    BY <1>1, <2>4 DEF KernelStates, SameBlocks, SameQueues
  <2> HIDE DEF u, t
  <2>6. ListsWithout(s, u, X, p)
    BY <1>1, <1>2, <2>4, <2>5, OtherLists, DistinctStates DEF ListsWithout
  <2>7. ListsBut(u, X \cup {p})
    BY <1>1, <2>5, <2>6, Unlink
  <2> QED BY <1>1, <2>3, <2>5, <2>7 DEF t
<1>3. CASE s.state[p] # PS_ASLEEP /\ s.state[p] \in WaitStates
  <2> DEFINE fid == s.attr[p]
             st == s.state[p]
  <2>1. t = pop_waiting_process(s, fid, st, p)
    BY <1>3 DEF Detach, queue_remove
  <2>2. fid \in Fids /\ p \in Pids \ X
    BY <1>1, <1>3 DEF ListsBut, InState
  <2>3. st \in WaitStates /\ s.state[p] = st /\ s.attr[p] = fid
    BY <1>3
  <2> HIDE DEF X, t, fid, st
  <2>4. /\ t \in KernelStates /\ ListsBut(t, X \cup {p})
        /\ t.state = s.state /\ t.attr = s.attr
        /\ t.active_process = s.active_process
        /\ SameBlocks(s, t) /\ SameQueues(s, t)
    BY <1>1, <2>1, <2>2, <2>3, PopWaiting
  <2> QED BY <1>1, <2>4 DEF t
<1>4. CASE s.state[p] # PS_ASLEEP /\ s.state[p] \notin WaitStates
  <2>1. t = remove_runnable(s, p)
    BY <1>4 DEF Detach
  <2>2. s.state[p] \in {PS_RUNNABLE, PS_ZOMBIE, PS_RUNNING, PS_WAIT_CHILD}
    <3>1. s.state[p] \in States
      BY <1>1 DEF KernelStates
    <3> QED BY <1>4, <3>1 DEF States, WaitStates, PS_DEAD, PS_ZOMBIE, PS_RUNNABLE,
              PS_RUNNING, PS_ASLEEP, PS_WAIT_CHILD, PS_WAIT_QUEUE_EMPTY, PS_WAIT_QUEUE_FULL
  <2> HIDE DEF X, t
  <2>3. /\ t \in KernelStates /\ ListsBut(t, X \cup {p})
        /\ t.state = s.state /\ t.attr = s.attr
        /\ t.active_process = s.active_process
        /\ SameBlocks(s, t) /\ SameQueues(s, t)
    BY <1>1, <2>1, <2>2, RemoveRunnable
  <2> QED BY <1>1, <2>3 DEF t
<1> QED BY <1>2, <1>3, <1>4

(* The zombie is announced to a parent that waits for it. *)
LEMMA TriggerSound ==
  ASSUME NEW s, Sound(s), NEW pid \in Pids, s.state[pid] = PS_ZOMBIE,
         s.parent[pid] \in Pids
  PROVE  LET t == TriggerParent(s, pid) IN Sound(t) /\ SameQueues(s, t)
<1> DEFINE father == s.parent[pid]
           hit == s.state[father] = PS_WAIT_CHILD /\ s.local[father] \in {NOPID, pid}
           x == With(s.local, father, pid)
           u == [s EXCEPT !.local = x]
           t == push_runnable(u, father)
           X == {}
<1>1. /\ s \in KernelStates /\ ListsBut(s, X)
      /\ IdleReady(s) /\ OnlyActive(s) /\ QueueCallers(s) /\ ChildWritten(s)
      /\ s.local \in [Pids -> Int] /\ s.state \in [Pids -> States]
      /\ father \notin X /\ father \in Pids
  BY DEF Sound, KernelStates
<1>1a. pid \in Int
  BY SizesAssumption DEF Pids
<1>2. CASE ~hit
  <2>1. TriggerParent(s, pid) = s
    BY <1>2 DEF TriggerParent
  <2> QED BY <2>1 DEF SameQueues
<1>3. CASE hit
  <2>1. TriggerParent(s, pid) = t
    BY <1>3 DEF TriggerParent, With
  <2>2. s.state[father] = PS_WAIT_CHILD
    BY <1>3
  <2>2a. s.parent[pid] = father
    OBVIOUS
  <2> HIDE DEF father, X, hit, t
  <2>3. /\ x \in [Pids -> Int] /\ x[father] = pid
        /\ \A q \in Pids \ {father} : x[q] = s.local[q]
    BY <1>1, <1>1a DEF With
  <2> HIDE DEF x
  <2>4. /\ u \in KernelStates /\ u.state = s.state /\ u.attr = s.attr
        /\ u.runnable = s.runnable /\ u.asleep = s.asleep /\ u.waiting = s.waiting
        /\ u.dead = s.dead /\ u.active_process = s.active_process
        /\ u.call = s.call /\ u.local = x /\ u.parent = s.parent
        /\ SameQueues(s, u)
    BY <1>1, <2>3 DEF KernelStates, SameQueues
  <2> HIDE DEF u
  <2>5. ListsBut(u, X \cup {father})
    <3>1. ListsBut(u, X)
      BY <1>1, <2>4, ListsKept
    <3> QED BY <1>1, <2>2, <2>4, <3>1, Unlisted
  <2>6. u.state[father] # PS_RUNNABLE
    BY <2>2, <2>4, DistinctStates
  <2>7. /\ t \in KernelStates /\ ListsBut(t, X)
        /\ t.state = With(u.state, father, PS_RUNNABLE)
        /\ t.attr = With(u.attr, father, 0)
        /\ t.asleep = u.asleep /\ t.waiting = u.waiting /\ t.dead = u.dead
        /\ t.active_process = u.active_process
        /\ SameBlocks(u, t) /\ SameQueues(u, t)
    <3>1. t = push_runnable(u, father)
      BY DEF t
    <3>2. u \in KernelStates /\ father \in Pids /\ father \notin X
      BY <1>1, <2>4
    <3> QED BY <2>5, <2>6, <3>1, <3>2, PushRunnable
  <2>8. /\ t.state[father] = PS_RUNNABLE
        /\ \A q \in Pids \ {father} : t.state[q] = s.state[q]
    BY <1>1, <2>4, <2>7 DEF With
  <2>9. IdleReady(t) /\ OnlyActive(t) /\ QueueCallers(t)
    BY <1>1, <2>2, <2>4, <2>7, <2>8, IdlePid, DistinctStates
       DEF IdleReady, OnlyActive, QueueCallers, SameBlocks
  <2>10. ChildWritten(t)
    <3> SUFFICES ASSUME NEW q \in Pids, t.call[q] = "waitpid", t.state[q] # PS_WAIT_CHILD
                 PROVE  /\ t.local[q] \in Pids
                        /\ t.state[t.local[q]] = PS_ZOMBIE /\ t.parent[t.local[q]] = q
      BY DEF ChildWritten
    <3>1. CASE q = father
      <4>1. t.local[q] = pid /\ pid # father
        BY <2>2, <2>3, <2>4, <2>7, <3>1, DistinctStates DEF SameBlocks
      <4> QED BY <2>2a, <2>4, <2>7, <2>8, <3>1, <4>1 DEF SameBlocks
    <3>2. CASE q # father
      <4>1. s.call[q] = "waitpid" /\ s.state[q] # PS_WAIT_CHILD /\ t.local[q] = s.local[q]
        BY <2>3, <2>4, <2>7, <2>8, <3>2 DEF SameBlocks
      <4>2. s.local[q] \in Pids /\ s.state[s.local[q]] = PS_ZOMBIE /\ s.parent[s.local[q]] = q
        BY <1>1, <4>1 DEF ChildWritten
      <4>3. s.local[q] # father
        BY <2>2, <4>2, DistinctStates
      <4> QED BY <2>4, <2>7, <2>8, <4>1, <4>2, <4>3 DEF SameBlocks
    <3> QED BY <3>1, <3>2
  <2>11. Sound(t) /\ SameQueues(s, t)
    BY <2>4, <2>7, <2>9, <2>10 DEF Sound, SameQueues, X
  <2> QED BY <2>1, <2>11
<1> QED BY <1>2, <1>3

(* The end of a process that is on no list any more. *)
LEMMA EndedSound ==
  ASSUME NEW s, Sound(s), NEW p \in Pids, p # IDLE,
         s.state[p] \notin {PS_DEAD, PS_ZOMBIE}, s.call[p] = "user",
         NEW t \in KernelStates, ListsBut(t, {}),
         t.state[p] \in {PS_DEAD, PS_ZOMBIE},
         \A q \in Pids \ {p} : t.state[q] = s.state[q],
         t.active_process = s.active_process, SameBlocks(s, t)
  PROVE  Sound(t)
<1>1. IdleReady(t) /\ OnlyActive(t) /\ QueueCallers(t)
  BY IdlePid, DistinctStates
     DEF Sound, IdleReady, OnlyActive, QueueCallers, SameBlocks
<1>2. ChildWritten(t)
  <2> SUFFICES ASSUME NEW q \in Pids, t.call[q] = "waitpid", t.state[q] # PS_WAIT_CHILD
               PROVE  /\ t.local[q] \in Pids
                      /\ t.state[t.local[q]] = PS_ZOMBIE /\ t.parent[t.local[q]] = q
    BY DEF ChildWritten
  <2>1. s.call[q] = "waitpid" /\ s.state[q] # PS_WAIT_CHILD
    BY DEF SameBlocks
  <2>2. s.local[q] \in Pids /\ s.state[s.local[q]] = PS_ZOMBIE /\ s.parent[s.local[q]] = q
    BY <2>1 DEF Sound, ChildWritten
  <2>3. s.local[q] # p
    BY <2>2
  <2> QED BY <2>2, <2>3 DEF SameBlocks
<1> QED BY <1>1, <1>2 DEF Sound

(* stop, up to the scheduler. *)
Ended(detached, pid, retval) ==
  LET zombie == [detached EXCEPT !.state = With(@, pid, PS_ZOMBIE),
                                 !.attr = With(@, pid, retval)]
  IN IF detached.parent[pid] = NOPID THEN push_dead(detached, pid)
     ELSE TriggerParent(zombie, pid)

(* stop, up to the scheduler, keeps the kernel sound. *)
LEMMA StopSound ==
  ASSUME NEW s, Sound(s), NEW pid \in Pids, pid # IDLE,
         s.state[pid] \notin {PS_DEAD, PS_ZOMBIE}, NEW retval \in Int
  PROVE  LET detached == Detach(UnbindTurns(Forget(s, pid), pid)[NBPROC], pid)
             v == Ended(detached, pid, retval)
         IN stop(s, pid, retval) = fix_scheduler(v) /\ Sound(v) /\ SameQueues(s, v)
<1> DEFINE forgot == Forget(s, pid)
           unbound == UnbindTurns(forgot, pid)[NBPROC]
           detached == Detach(unbound, pid)
           x == With(detached.state, pid, PS_ZOMBIE)
           y == With(detached.attr, pid, retval)
           zombie == [detached EXCEPT !.state = x, !.attr = y]
           v == IF detached.parent[pid] = NOPID THEN push_dead(detached, pid)
                ELSE TriggerParent(zombie, pid)
           X == {}
<1>0. v = Ended(detached, pid, retval)
  BY DEF Ended
<1>1. stop(s, pid, retval) = fix_scheduler(v)
  BY DEF stop, With
<1>2. Ending(s, pid, s.state[pid], s.attr[pid], forgot)
  <2>1. /\ Sound(forgot) /\ SameQueues(s, forgot)
        /\ forgot.active_process = s.active_process
        /\ forgot.state = s.state /\ forgot.attr = s.attr
        /\ forgot.call[pid] = "user"
    BY ForgetSound
  <2> HIDE DEF forgot
  <2> QED BY <2>1 DEF Ending
<1> HIDE DEF forgot
<1>3. Ending(s, pid, s.state[pid], s.attr[pid], unbound)
  <2>1. s.state[pid] # PS_ZOMBIE
    OBVIOUS
  <2> QED BY <1>2, <2>1, UnbindAllEnding
<1> HIDE DEF unbound
<1>4. /\ Sound(unbound) /\ SameQueues(s, unbound) /\ unbound.call[pid] = "user"
      /\ unbound.state[pid] \notin {PS_DEAD, PS_ZOMBIE}
  BY <1>3 DEF Ending
<1>5. /\ detached \in KernelStates /\ ListsBut(detached, {pid})
      /\ detached.state = unbound.state /\ detached.attr = unbound.attr
      /\ detached.active_process = unbound.active_process
      /\ SameBlocks(unbound, detached) /\ SameQueues(unbound, detached)
  BY <1>4, DetachLists
<1>6. pid \notin X /\ X \cup {pid} = {pid}
  OBVIOUS
<1> HIDE DEF detached, X
<1>7. /\ detached.state \in [Pids -> States] /\ detached.attr \in [Pids -> Int]
      /\ detached.parent \in [Pids -> Pids \cup {NOPID}]
  BY <1>5 DEF KernelStates
<1>8. ASSUME detached.parent[pid] = NOPID
      PROVE  Sound(v) /\ SameQueues(s, v)
  <2> DEFINE t == push_dead(detached, pid)
  <2>0. v = t
    BY <1>8
  <2>1. ListsBut(detached, X \cup {pid}) /\ detached.state[pid] # PS_DEAD
    BY <1>4, <1>5, <1>6
  <2>2. /\ t \in KernelStates /\ ListsBut(t, X)
        /\ t.state = With(detached.state, pid, PS_DEAD)
        /\ t.active_process = detached.active_process
        /\ SameBlocks(detached, t) /\ SameQueues(detached, t)
    BY <1>5, <1>6, <2>1, PushDead
  <2> HIDE DEF t, v
  <2>3. t.state[pid] = PS_DEAD /\ \A q \in Pids \ {pid} : t.state[q] = unbound.state[q]
    BY <1>5, <1>7, <2>2 DEF With
  <2>4. Sound(t)
    BY <1>4, <1>5, <2>2, <2>3, EndedSound DEF SameBlocks, X
  <2> QED BY <1>4, <1>5, <2>0, <2>2, <2>4 DEF SameQueues
<1>9. ASSUME detached.parent[pid] # NOPID
      PROVE  Sound(v) /\ SameQueues(s, v)
  <2>0. v = TriggerParent(zombie, pid)
    BY <1>9
  <2>1. /\ x \in [Pids -> States] /\ y \in [Pids -> Int] /\ x[pid] = PS_ZOMBIE
        /\ \A q \in Pids \ {pid} : x[q] = detached.state[q] /\ y[q] = detached.attr[q]
    BY <1>7, DistinctStates DEF With
  <2> HIDE DEF x, y
  <2>2. /\ zombie \in KernelStates /\ zombie.state = x /\ zombie.attr = y
        /\ zombie.runnable = detached.runnable /\ zombie.asleep = detached.asleep
        /\ zombie.waiting = detached.waiting /\ zombie.dead = detached.dead
        /\ zombie.active_process = detached.active_process
        /\ SameBlocks(detached, zombie) /\ SameQueues(detached, zombie)
    BY <1>5, <2>1 DEF KernelStates, SameBlocks, SameQueues
  <2> HIDE DEF zombie, v
  <2>3. ListsBut(zombie, X)
    <3>1. ListsBut(zombie, X \cup {pid})
      BY <1>5, <1>6, <2>1, <2>2, Relabel
    <3> QED BY <2>1, <2>2, <3>1, Settled
  <2>4. Sound(zombie)
    BY <1>4, <1>5, <2>1, <2>2, <2>3, EndedSound DEF SameBlocks, X
  <2>5. zombie.state[pid] = PS_ZOMBIE /\ zombie.parent[pid] \in Pids
    BY <1>7, <1>9, <2>1, <2>2 DEF SameBlocks
  <2>6. Sound(v) /\ SameQueues(zombie, v)
    BY <2>0, <2>4, <2>5, TriggerSound
  <2>7. SameQueues(s, v)
    BY <1>4, <1>5, <2>2, <2>6 DEF SameQueues
  <2> QED BY <2>6, <2>7
<1>10. Sound(v) /\ SameQueues(s, v)
  BY <1>8, <1>9
<1> HIDE DEF v
<1> QED BY <1>0, <1>1, <1>10 DEF detached, unbound, forgot

(* stop keeps the kernel stable, for exit and kill alike. *)
LEMMA StopStable ==
  ASSUME NEW s, Sound(s), NEW pid \in Pids, pid # IDLE,
         s.state[pid] \notin {PS_DEAD, PS_ZOMBIE}, NEW retval \in Int
  PROVE  LET t == stop(s, pid, retval) IN Stable(t) /\ SameQueues(s, t)
BY StopSound, FixStable DEF SameQueues

-----------------------------------------------------------------------------
(* Blocking calls of scheduler.c. *)

(* The active process leaves the processor for a state of its own. *)
LEMMA SuspendedSound ==
  ASSUME NEW s, Stable(s), NEW p \in Pids, p = s.active_process, p # IDLE,
         NEW t \in KernelStates, ListsBut(t, {}),
         t.state[p] \in {PS_ASLEEP, PS_WAIT_CHILD},
         t.call[p] = "waitpid" => t.state[p] = PS_WAIT_CHILD,
         \A q \in Pids \ {p} : /\ t.state[q] = s.state[q] /\ t.call[q] = s.call[q]
                               /\ t.local[q] = s.local[q],
         t.parent = s.parent, t.active_process = s.active_process
  PROVE  Sound(t)
<1>1. /\ s \in KernelStates /\ s.state[p] = PS_RUNNING
      /\ IdleReady(s) /\ OnlyActive(s) /\ ChildWritten(s) /\ QueueCallers(s)
  BY DEF Stable, Sound
<1>2. IdleReady(t) /\ OnlyActive(t) /\ QueueCallers(t)
  BY <1>1, IdlePid, DistinctStates DEF IdleReady, OnlyActive, QueueCallers
<1>3. ChildWritten(t)
  <2> SUFFICES ASSUME NEW q \in Pids, t.call[q] = "waitpid", t.state[q] # PS_WAIT_CHILD
               PROVE  /\ t.local[q] \in Pids
                      /\ t.state[t.local[q]] = PS_ZOMBIE /\ t.parent[t.local[q]] = q
    BY DEF ChildWritten
  <2>1. /\ s.local[q] \in Pids /\ s.state[s.local[q]] = PS_ZOMBIE
        /\ s.parent[s.local[q]] = q /\ t.local[q] = s.local[q]
    BY <1>1 DEF ChildWritten
  <2>2. s.local[q] # p
    BY <1>1, <2>1, DistinctStates
  <2> QED BY <2>1, <2>2
<1> QED BY <1>2, <1>3 DEF Sound

(* From s to t, p is put on the asleep list, at place i. *)
FallsAsleep(X, s, p, i, t) ==
  /\ s \in KernelStates /\ ListsBut(s, X \cup {p})
  /\ p \in Pids /\ p \notin X /\ s.state[p] = PS_ASLEEP
  /\ i \in 1 .. Len(s.asleep) + 1
  /\ t = [s EXCEPT !.asleep = InsertAt(@, i, p)]

(* A process on no list whose state is PS_ASLEEP joins the asleep list. *)
LEMMA PushAsleep ==
  ASSUME NEW X, NEW s, NEW p, NEW i, NEW t, FallsAsleep(X, s, p, i, t)
  PROVE  /\ t \in KernelStates /\ ListsBut(t, X)
         /\ t.state = s.state /\ t.call = s.call /\ t.local = s.local
         /\ t.parent = s.parent /\ t.active_process = s.active_process
         /\ SameQueues(s, t)
<1> DEFINE z == InsertAt(s.asleep, i, p)
           L == InState(s, X \cup {p}, PS_ASLEEP)
<1>0. /\ s \in KernelStates /\ ListsBut(s, X \cup {p})
      /\ p \in Pids /\ p \notin X /\ s.state[p] = PS_ASLEEP
      /\ i \in 1 .. Len(s.asleep) + 1
  BY DEF FallsAsleep
<1>1. s.asleep \in Seq(Pids) /\ IsListOf(s.asleep, L) /\ p \notin L
  BY <1>0 DEF KernelStates, ListsBut, InState
<1>2. t = [s EXCEPT !.asleep = z]
  BY DEF FallsAsleep
<1>3. z \in Seq(Pids) /\ IsListOf(z, L \cup {p})
  <2> HIDE DEF L
  <2> QED BY <1>0, <1>1, InsertList
<1> HIDE DEF z
<1>4. /\ t \in KernelStates /\ t.asleep = z
      /\ t.state = s.state /\ t.attr = s.attr /\ t.call = s.call /\ t.local = s.local
      /\ t.parent = s.parent /\ t.active_process = s.active_process
      /\ t.runnable = s.runnable /\ t.waiting = s.waiting /\ t.dead = s.dead
      /\ SameQueues(s, t)
  BY <1>0, <1>2, <1>3 DEF KernelStates, SameQueues
<1>5. ListsBut(t, X)
  <2>1. \A st : st # PS_ASLEEP => InState(t, X, st) = InState(s, X \cup {p}, st)
    BY <1>0, <1>4 DEF InState
  <2>2. InState(t, X, PS_ASLEEP) = L \cup {p}
    BY <1>0, <1>4 DEF InState
  <2>3. \A f \in Fids, w \in WaitStates :
          WaitingOn(t, X, f, w) = WaitingOn(s, X \cup {p}, f, w)
    <3>1. \A w \in WaitStates : InState(t, X, w) = InState(s, X \cup {p}, w)
      BY <2>1, DistinctStates
    <3> QED BY <1>4, <3>1 DEF WaitingOn
  <2>4. \A w \in WaitStates : \A q \in InState(t, X, w) : t.attr[q] \in Fids
    BY <1>0, <1>4, <2>1, DistinctStates DEF ListsBut
  <2> HIDE DEF L
  <2> QED BY <1>0, <1>3, <1>4, <2>1, <2>2, <2>3, <2>4, DistinctStates DEF ListsBut
<1> QED BY <1>4, <1>5

(* wait_clock. *)
LEMMA WaitClockSound ==
  ASSUME NEW s, Stable(s), s.active_process # IDLE, s.call[s.active_process] = "user",
         NEW clock \in Int
  PROVE  LET p == s.active_process
             v == [s EXCEPT !.state = With(s.state, p, PS_ASLEEP),
                            !.attr = With(s.attr, p, clock),
                            !.asleep = InsertAt(s.asleep, ClockSlot(s.asleep, s.attr, clock), p)]
         IN wait_clock(s, clock) = tick_scheduler(v) /\ Sound(v) /\ SameQueues(s, v)
<1> DEFINE p == s.active_process
           r == remove_runnable(s, p)
           a == With(r.state, p, PS_ASLEEP)
           b == With(r.attr, p, clock)
           u == [r EXCEPT !.state = a, !.attr = b]
           i == ClockSlot(u.asleep, s.attr, clock)
           v == [u EXCEPT !.asleep = InsertAt(@, i, p)]
           X == {}
<1>1. /\ s \in KernelStates /\ ListsBut(s, X) /\ p \in Pids
      /\ s.state[p] = PS_RUNNING /\ p # IDLE /\ s.call[p] = "user"
      /\ s.state \in [Pids -> States] /\ s.attr \in [Pids -> Int]
  BY DEF Stable, Sound, KernelStates
<1>2. wait_clock(s, clock) = tick_scheduler(v)
  BY DEF wait_clock, With
<1>3. p = s.active_process
  OBVIOUS
<1>0. v = [s EXCEPT !.state = With(s.state, p, PS_ASLEEP),
                    !.attr = With(s.attr, p, clock),
                    !.asleep = InsertAt(s.asleep, ClockSlot(s.asleep, s.attr, clock), p)]
  <2>1. r = s
    BY <1>1, DistinctStates DEF remove_runnable
  <2> HIDE DEF p, r
  <2>2. u.asleep = s.asleep
    BY <1>1, <2>1 DEF KernelStates
  <2>3. v = [u EXCEPT !.asleep = InsertAt(s.asleep, ClockSlot(s.asleep, s.attr, clock), p)]
    BY <2>2
  <2> QED BY <2>1, <2>3
<1> HIDE DEF p, X
<1>4. /\ r \in KernelStates
      /\ ListsBut(r, X \cup {p})
      /\ r.state = s.state /\ r.attr = s.attr
      /\ r.asleep = s.asleep /\ r.waiting = s.waiting /\ r.dead = s.dead
      /\ r.active_process = s.active_process
      /\ SameBlocks(s, r) /\ SameQueues(s, r)
  BY <1>1, RemoveRunnable
<1> HIDE DEF r
<1>5. /\ a \in [Pids -> States] /\ a[p] = PS_ASLEEP
      /\ \A q \in Pids \ {p} : a[q] = s.state[q]
  BY <1>1, <1>4, DistinctStates DEF With
<1>6. b \in [Pids -> Int] /\ \A q \in Pids \ {p} : b[q] = s.attr[q]
  BY <1>1, <1>4 DEF With
<1> HIDE DEF a, b
<1>7. /\ u \in KernelStates /\ u.state = a /\ u.attr = b
      /\ u.call = s.call /\ u.local = s.local /\ u.parent = s.parent
      /\ u.active_process = s.active_process
      /\ u.runnable = r.runnable /\ u.asleep = r.asleep /\ u.waiting = r.waiting
      /\ u.dead = r.dead /\ SameQueues(s, u) /\ u.asleep \in Seq(Pids)
  BY <1>4, <1>5, <1>6 DEF KernelStates, SameQueues, SameBlocks
<1> HIDE DEF u
<1>8. ListsBut(u, X \cup {p})
  <2>1. \A q \in Pids \ {p} : u.state[q] = r.state[q] /\ u.attr[q] = r.attr[q]
    BY <1>4, <1>5, <1>6, <1>7
  <2> QED BY <1>1, <1>4, <1>7, <2>1, Relabel
<1>9. i \in 1 .. Len(u.asleep) + 1
  BY <1>7, ClockSlotRange
<1>10. p \notin X /\ u.state[p] = PS_ASLEEP
  BY <1>5, <1>7 DEF X
<1> HIDE DEF i
<1>11. FallsAsleep(X, u, p, i, v)
  BY <1>1, <1>7, <1>8, <1>9, <1>10 DEF FallsAsleep
<1> HIDE DEF v
<1>12. /\ v \in KernelStates /\ ListsBut(v, X)
       /\ v.state = u.state /\ v.call = u.call /\ v.local = u.local
       /\ v.parent = u.parent /\ v.active_process = u.active_process
       /\ SameQueues(u, v)
  BY <1>11, PushAsleep
<1>13. Sound(v)
  <2>1. ListsBut(v, {})
    BY <1>12 DEF X
  <2>2. /\ v.state[p] \in {PS_ASLEEP, PS_WAIT_CHILD} /\ v.call[p] # "waitpid"
        /\ v.parent = s.parent /\ v.active_process = s.active_process
        /\ \A q \in Pids \ {p} : /\ v.state[q] = s.state[q] /\ v.call[q] = s.call[q]
                                 /\ v.local[q] = s.local[q]
    BY <1>1, <1>5, <1>7, <1>12
  <2> QED BY <1>1, <1>3, <1>12, <2>1, <2>2, SuspendedSound
<1>14. SameQueues(s, v)
  BY <1>7, <1>12 DEF SameQueues
<1> QED BY <1>0, <1>2, <1>13, <1>14 DEF p

(* wait_clock, the scheduler included. *)
LEMMA WaitClockStable ==
  ASSUME NEW s, Stable(s), s.active_process # IDLE, s.call[s.active_process] = "user",
         NEW clock \in Int
  PROVE  LET t == wait_clock(s, clock) IN Stable(t) /\ SameQueues(s, t)
<1> DEFINE p == s.active_process
           v == [s EXCEPT !.state = With(s.state, p, PS_ASLEEP),
                          !.attr = With(s.attr, p, clock),
                          !.asleep = InsertAt(s.asleep, ClockSlot(s.asleep, s.attr, clock), p)]
<1>1. wait_clock(s, clock) = tick_scheduler(v) /\ Sound(v) /\ SameQueues(s, v)
  BY WaitClockSound
<1> HIDE DEF v
<1> QED BY <1>1, TickStable DEF SameQueues

(* The zombies waitpid may reap are children of the caller. *)
LEMMA ReapableZombie ==
  ASSUME NEW s, NEW me, NEW pid, Reapable(s, me, pid) # {}
  PROVE  LET c == Min(Reapable(s, me, pid)) IN
         c \in Pids /\ s.state[c] = PS_ZOMBIE /\ s.parent[c] = me
<1> DEFINE R == Reapable(s, me, pid)
<1>1. R \in SUBSET Nat /\ \A c \in R : c \in Pids /\ s.state[c] = PS_ZOMBIE /\ s.parent[c] = me
  BY SizesAssumption DEF Reapable, Zombies, Children, Pids
<1> HIDE DEF R
<1>2. Min(R) \in R
  BY <1>1, MinProperty DEF R
<1> QED BY <1>1, <1>2 DEF R

(* waitpid with no zombie to reap: the caller is suspended. *)
LEMMA WaitpidBlockSound ==
  ASSUME NEW s, Stable(s), s.active_process # IDLE, s.call[s.active_process] = "user",
         NEW pid \in Int, Reapable(s, s.active_process, pid) = {}
  PROVE  LET p == s.active_process
             u == [s EXCEPT !.state = With(s.state, p, PS_WAIT_CHILD),
                            !.attr = With(s.attr, p, 0),
                            !.call = With(s.call, p, "waitpid"),
                            !.local = With(s.local, p, pid)]
         IN waitpid(s, pid) = tick_scheduler(u) /\ Sound(u) /\ SameQueues(s, u)
<1> DEFINE p == s.active_process
           a == With(s.state, p, PS_WAIT_CHILD)
           b == With(s.attr, p, 0)
           d == With(s.call, p, "waitpid")
           e == With(s.local, p, pid)
           u == [s EXCEPT !.state = a, !.attr = b, !.call = d, !.local = e]
           X == {}
<1>1. /\ s \in KernelStates /\ ListsBut(s, X) /\ p \in Pids
      /\ s.state[p] = PS_RUNNING /\ p # IDLE /\ s.call[p] = "user"
      /\ s.state \in [Pids -> States] /\ s.attr \in [Pids -> Int]
      /\ s.call \in [Pids -> Calls] /\ s.local \in [Pids -> Int]
  BY DEF Stable, Sound, KernelStates
<1>2. remove_runnable(s, p) = s
  BY <1>1, DistinctStates DEF remove_runnable
<1>3. waitpid(s, pid) = tick_scheduler(u)
  BY <1>2 DEF waitpid, With
<1>4. p = s.active_process
  OBVIOUS
<1> HIDE DEF p, X
<1>5. ListsBut(s, X \cup {p})
  BY <1>1, Unlisted
<1>6. /\ a \in [Pids -> States] /\ a[p] = PS_WAIT_CHILD
      /\ \A q \in Pids \ {p} : a[q] = s.state[q]
  BY <1>1, DistinctStates DEF With
<1>7. b \in [Pids -> Int] /\ \A q \in Pids \ {p} : b[q] = s.attr[q]
  BY <1>1 DEF With
<1>8. d \in [Pids -> Calls] /\ \A q \in Pids \ {p} : d[q] = s.call[q]
  BY <1>1 DEF With, Calls
<1>9. e \in [Pids -> Int] /\ \A q \in Pids \ {p} : e[q] = s.local[q]
  BY <1>1 DEF With
<1> HIDE DEF a, b, d, e
<1>10. /\ u \in KernelStates /\ u.state = a /\ u.attr = b
       /\ u.call = d /\ u.local = e /\ u.parent = s.parent
       /\ u.active_process = s.active_process
       /\ u.runnable = s.runnable /\ u.asleep = s.asleep /\ u.waiting = s.waiting
       /\ u.dead = s.dead /\ SameQueues(s, u)
  BY <1>1, <1>6, <1>7, <1>8, <1>9 DEF KernelStates, SameQueues
<1> HIDE DEF u
<1>11. ListsBut(u, X \cup {p})
  <2>1. \A q \in Pids \ {p} : u.state[q] = s.state[q] /\ u.attr[q] = s.attr[q]
    BY <1>6, <1>7, <1>10
  <2> QED BY <1>1, <1>5, <1>10, <2>1, Relabel
<1>12. ListsBut(u, {})
  <2>1. u.state[p] \in {PS_DEAD, PS_ZOMBIE, PS_RUNNING, PS_WAIT_CHILD}
    BY <1>6, <1>10
  <2>2. ListsBut(u, X)
    BY <1>1, <1>10, <1>11, <2>1, Settled
  <2> QED BY <2>2 DEF X
<1>13. /\ u.state[p] \in {PS_ASLEEP, PS_WAIT_CHILD}
       /\ u.call[p] = "waitpid" => u.state[p] = PS_WAIT_CHILD
       /\ \A q \in Pids \ {p} : /\ u.state[q] = s.state[q] /\ u.call[q] = s.call[q]
                                /\ u.local[q] = s.local[q]
  BY <1>6, <1>8, <1>9, <1>10
<1>14. Sound(u)
  BY <1>1, <1>4, <1>10, <1>12, <1>13, SuspendedSound
<1> QED BY <1>3, <1>10, <1>14 DEF u, a, b, d, e, p

(* waitpid: a zombie is reaped at once, or the caller is suspended. *)
LEMMA WaitpidStable ==
  ASSUME NEW s, Stable(s), s.active_process # IDLE, s.call[s.active_process] = "user",
         NEW pid \in Int
  PROVE  LET t == waitpid(s, pid) IN Stable(t) /\ SameQueues(s, t)
<1> DEFINE p == s.active_process
           ready == Reapable(s, p, pid)
<1>1. Sound(s) /\ p \in Pids /\ s.call[p] = "user"
  BY DEF Stable, Sound, KernelStates
<1>2. CASE ready # {}
  <2> DEFINE c == Min(ready)
  <2>1. waitpid(s, pid) = push_dead(s, c)
    BY <1>2 DEF waitpid
  <2>2. c \in Pids /\ s.state[c] = PS_ZOMBIE /\ s.parent[c] = p
    BY <1>2, ReapableZombie
  <2> HIDE DEF c, ready
  <2>3. \A q \in Pids : s.parent[c] = q => s.call[q] # "waitpid"
    BY <1>1, <2>2
  <2>4. /\ SameQueues(s, push_dead(s, c))
        /\ Stable(s) => Stable(push_dead(s, c))
    BY <1>1, <2>2, <2>3, FreeZombie
  <2> QED BY <2>1, <2>4
<1>3. CASE ready = {}
  <2> DEFINE u == [s EXCEPT !.state = With(s.state, p, PS_WAIT_CHILD),
                            !.attr = With(s.attr, p, 0),
                            !.call = With(s.call, p, "waitpid"),
                            !.local = With(s.local, p, pid)]
  <2>1. waitpid(s, pid) = tick_scheduler(u) /\ Sound(u) /\ SameQueues(s, u)
    BY <1>3, WaitpidBlockSound
  <2> HIDE DEF u
  <2> QED BY <2>1, TickStable DEF SameQueues
<1> QED BY <1>2, <1>3

(* waitpid, resumed: the assertion on child_pid holds. *)
LEMMA WaitpidResumeStable ==
  ASSUME NEW s, Stable(s), s.call[s.active_process] = "waitpid"
  PROVE  LET t == waitpid_resume(s) IN Stable(t) /\ SameQueues(s, t)
<1> DEFINE p == s.active_process
           c == s.local[p]
           u == Forget(s, p)
           t == push_dead(u, c)
<1>1. Sound(s) /\ p \in Pids /\ s.state[p] = PS_RUNNING /\ s.call[p] = "waitpid"
  BY DEF Stable, Sound, KernelStates
<1>2. c \in Pids /\ s.state[c] = PS_ZOMBIE /\ s.parent[c] = p
  BY <1>1, DistinctStates DEF Sound, ChildWritten
<1>3. waitpid_resume(s) = t
  BY <1>2, DistinctStates DEF waitpid_resume, IS_VALID_PID
<1> HIDE DEF p, c
<1>4. /\ Sound(u) /\ SameQueues(s, u) /\ Stable(u)
      /\ u.state = s.state /\ u.parent = s.parent /\ u.call[p] = "user"
  BY <1>1, ForgetSound
<1> HIDE DEF u
<1>5. u.state[c] = PS_ZOMBIE /\ \A q \in Pids : u.parent[c] = q => u.call[q] # "waitpid"
  BY <1>2, <1>4
<1>6. SameQueues(u, t) /\ (Stable(u) => Stable(t))
  BY <1>2, <1>4, <1>5, FreeZombie
<1> HIDE DEF t
<1> QED BY <1>3, <1>4, <1>6 DEF SameQueues

(* The timer interrupt. *)
LEMMA TicStable ==
  ASSUME NEW s, Stable(s)
  PROVE  LET t == tic_PIT(s) IN Stable(t) /\ SameQueues(s, t)
<1> DEFINE count == (s.pit_count + 1) % ClockSpan
           u == [s EXCEPT !.pit_count = count]
<1>1. count \in 0 .. ClockSpan - 1
  <2>1. s.pit_count \in Int /\ ClockSpan \in Nat /\ ClockSpan > 0
    BY SizesAssumption DEF Stable, Sound, KernelStates
  <2>2. s.pit_count + 1 \in Int
    BY <2>1
  <2> QED BY <2>1, <2>2, ModRange
<1>2. tic_PIT(s) = IF count % SchedPeriod = 0 THEN tick_scheduler(u) ELSE u
  BY DEF tic_PIT
<1> HIDE DEF count
<1>3. /\ u \in KernelStates /\ u.state = s.state /\ u.attr = s.attr
      /\ u.call = s.call /\ u.local = s.local /\ u.parent = s.parent
      /\ u.active_process = s.active_process
      /\ u.runnable = s.runnable /\ u.asleep = s.asleep /\ u.waiting = s.waiting
      /\ u.dead = s.dead /\ SameQueues(s, u)
  BY <1>1 DEF Stable, Sound, KernelStates, SameQueues
<1> HIDE DEF u
<1>4. Stable(u)
  <2>1. Sound(s) /\ ListsBut(s, {})
    BY DEF Stable, Sound
  <2>2. ListsBut(u, {})
    BY <1>3, <2>1, ListsKept
  <2>3. Sound(u)
    BY <1>3, <2>1, <2>2, SoundKept
  <2> QED BY <1>3, <2>3 DEF Stable
<1>5. Stable(tick_scheduler(u)) /\ SameQueues(u, tick_scheduler(u))
  BY <1>4, TickStable DEF Stable
<1> QED BY <1>2, <1>3, <1>4, <1>5 DEF SameQueues

-----------------------------------------------------------------------------
(* Boot. *)

(* The tables setup_scheduler and the zeroed queue table leave. *)
LEMMA SetupTyped ==
  /\ setup_scheduler \in KernelStates /\ SafeRings(setup_scheduler)
<1> DEFINE s == setup_scheduler
           none == <<>>
           zero == 0
<1>1. IDLE \in Pids /\ zero \in Pids /\ 0 \in Int /\ 0 \in 0 .. ClockSpan - 1 /\ 0 \in 0 .. MAXCOUNT
  BY SizesAssumption DEF IDLE, Pids
<1>2. none \in Seq(Pids)
  OBVIOUS
<1>3. none \in MessageArrays
  <2>1. 0 .. 0 - 1 = {}
    OBVIOUS
  <2>2. none \in [0 .. 0 - 1 -> Messages \cup {Uninit}]
    BY <2>1
  <2> QED BY <1>1, <2>2 DEF MessageArrays
<1>4. [i \in 1 .. NBPROC - 1 |-> i] \in Seq(Pids)
  <2>1. NBPROC - 1 \in Nat /\ \A i \in 1 .. NBPROC - 1 : i \in Pids
    BY SizesAssumption DEF Pids
  <2> QED BY <2>1, SeqDef
<1>5. FreeQueue = [front |-> 0, rear |-> 0, size |-> 0, capacity |-> 0, messages |-> none]
  BY DEF FreeQueue
<1>6. s = [state |-> [p \in Pids |-> IF p = IDLE THEN PS_RUNNING ELSE PS_DEAD],
           prio |-> [p \in Pids |-> 0],
           parent |-> [p \in Pids |-> IF p = IDLE THEN NOPID ELSE zero],
           attr |-> [p \in Pids |-> 0],
           call |-> [p \in Pids |-> "user"],
           local |-> [p \in Pids |-> 0],
           message |-> [p \in Pids |-> Uninit],
           active_process |-> IDLE,
           runnable |-> none,
           dead |-> [i \in 1 .. NBPROC - 1 |-> i],
           asleep |-> none,
           queues |-> [f \in Fids |-> FreeQueue],
           waiting |-> [w \in Fids \X WaitStates |-> none],
           pit_count |-> 0,
           mode |-> "run"]
  BY DEF setup_scheduler
<1> HIDE DEF none, zero, s
<1>7. FreeQueue \in QueueStructs /\ RingOK(FreeQueue)
  BY <1>1, <1>3, <1>5 DEF QueueStructs, RingOK
<1>8. /\ [p \in Pids |-> IF p = IDLE THEN PS_RUNNING ELSE PS_DEAD] \in [Pids -> States]
      /\ [p \in Pids |-> IF p = IDLE THEN NOPID ELSE zero] \in [Pids -> Pids \cup {NOPID}]
      /\ [p \in Pids |-> 0] \in [Pids -> Int]
      /\ [p \in Pids |-> "user"] \in [Pids -> Calls]
      /\ [p \in Pids |-> Uninit] \in [Pids -> Messages \cup {Uninit}]
      /\ [f \in Fids |-> FreeQueue] \in [Fids -> QueueStructs]
      /\ [w \in Fids \X WaitStates |-> none] \in [Fids \X WaitStates -> Seq(Pids)]
  BY <1>1, <1>2, <1>7, DistinctStates DEF Calls
<1>9. s \in KernelStates
  <2> DEFINE fs == [p \in Pids |-> IF p = IDLE THEN PS_RUNNING ELSE PS_DEAD]
             fp == [p \in Pids |-> IF p = IDLE THEN NOPID ELSE zero]
             fz == [p \in Pids |-> 0]
             fc == [p \in Pids |-> "user"]
             fm == [p \in Pids |-> Uninit]
             fq == [f \in Fids |-> FreeQueue]
             fw == [w \in Fids \X WaitStates |-> none]
             fd == [i \in 1 .. NBPROC - 1 |-> i]
  <2> HIDE DEF fs, fp, fz, fc, fm, fq, fw, fd
  <2>1. s = [state |-> fs, prio |-> fz, parent |-> fp, attr |-> fz, call |-> fc,
             local |-> fz, message |-> fm, active_process |-> IDLE,
             runnable |-> none, dead |-> fd, asleep |-> none, queues |-> fq,
             waiting |-> fw, pit_count |-> 0, mode |-> "run"]
    BY <1>6 DEF fs, fp, fz, fc, fm, fq, fw, fd
  <2>2. /\ fs \in [Pids -> States] /\ fp \in [Pids -> Pids \cup {NOPID}]
        /\ fz \in [Pids -> Int] /\ fc \in [Pids -> Calls]
        /\ fm \in [Pids -> Messages \cup {Uninit}] /\ fq \in [Fids -> QueueStructs]
        /\ fw \in [Fids \X WaitStates -> Seq(Pids)] /\ fd \in Seq(Pids)
    BY <1>4, <1>8 DEF fs, fp, fz, fc, fm, fq, fw, fd
  <2> QED BY <1>1, <1>2, <2>1, <2>2 DEF KernelStates
<1>10. SafeRings(s)
  <2>1. s.mode = "run" /\ \A f \in Fids : s.queues[f] = FreeQueue
    BY <1>6
  <2> QED BY <1>7, <2>1 DEF SafeRings
<1> QED BY <1>9, <1>10 DEF s

(* setup_scheduler leaves the idle process running and a free pid. *)
LEMMA SetupStable == Stable(setup_scheduler) /\ setup_scheduler.dead # <<>>
<1> DEFINE s == setup_scheduler
           none == <<>>
           stack == [i \in 1 .. NBPROC - 1 |-> i]
<1>1. /\ s \in KernelStates /\ IDLE \in Pids
      /\ s.active_process = IDLE /\ s.runnable = none /\ s.asleep = none
      /\ s.dead = stack
  BY SetupTyped, IdlePid DEF setup_scheduler
<1>2. /\ \A p \in Pids : s.state[p] = IF p = IDLE THEN PS_RUNNING ELSE PS_DEAD
      /\ \A p \in Pids : s.call[p] = "user"
      /\ \A fid \in Fids, st \in WaitStates : s.waiting[<<fid, st>>] = none
  BY DEF setup_scheduler
<1> HIDE DEF s
<1>3. none \in Seq(Pids) /\ IsListOf(none, {})
  BY DEF IsListOf, IsInjective, Range
<1>4. IsInjective(stack) /\ Range(stack) \subseteq InState(s, {}, PS_DEAD)
  <2>1. \A i \in 1 .. NBPROC - 1 : i \in Pids /\ i # IDLE
    BY SizesAssumption DEF Pids, IDLE
  <2>2. \A i \in 1 .. NBPROC - 1 : i \in InState(s, {}, PS_DEAD)
    BY <1>2, <2>1 DEF InState
  <2>3. DOMAIN stack = 1 .. NBPROC - 1 /\ \A i \in 1 .. NBPROC - 1 : stack[i] = i
    OBVIOUS
  <2> HIDE DEF stack
  <2> QED BY <2>2, <2>3 DEF IsInjective, Range
<1>5. stack # none
  <2>1. 1 \in DOMAIN stack /\ 1 \notin DOMAIN none
    BY SizesAssumption
  <2> QED BY <2>1
<1> HIDE DEF none, stack
<1>6. /\ InState(s, {}, PS_RUNNABLE) = {} /\ InState(s, {}, PS_ASLEEP) = {}
      /\ \A st \in WaitStates : InState(s, {}, st) = {}
      /\ \A fid \in Fids, st \in WaitStates : WaitingOn(s, {}, fid, st) = {}
  BY <1>2, DistinctStates DEF InState, WaitingOn
<1>7. ListsBut(s, {})
  BY <1>1, <1>2, <1>3, <1>4, <1>6 DEF ListsBut
<1>8. IdleReady(s) /\ OnlyActive(s) /\ ChildWritten(s) /\ QueueCallers(s)
  BY <1>1, <1>2, DistinctStates DEF IdleReady, OnlyActive, ChildWritten, QueueCallers
<1>9. Stable(s)
  BY <1>1, <1>2, <1>7, <1>8 DEF Stable, Sound
<1> QED BY <1>1, <1>5, <1>9 DEF s, none

(* kernel_start: a stable kernel with one process ready to run. *)
LEMMA BootStable == Stable(Boot) /\ SafeRings(Boot)
<1> DEFINE s == setup_scheduler
           k == pcreate(s, BUFFER_SIZE, TRUE)
<1>1. Stable(s) /\ s.dead # <<>> /\ SafeRings(s) /\ s \in KernelStates
  BY SetupStable, SetupTyped
<1>2. FreeFids(s) # {}
  <2>1. 0 \in Fids
    BY SizesAssumption DEF Fids
  <2>2. s.queues[0].capacity = 0
    BY <2>1 DEF setup_scheduler, FreeQueue
  <2> HIDE DEF s
  <2> QED BY <2>1, <2>2 DEF FreeFids, is_queue_free
<1>3. Boot = start_user_background(k, 1, TRUE)
  BY DEF Boot
<1> HIDE DEF s
<1>4. BUFFER_SIZE \in 1 .. MAXCOUNT /\ TRUE \in BOOLEAN /\ 1 \in Int
  BY InputsAssumption
<1>5. Stable(k) /\ QueueCallKeeps(s, k)
  BY <1>1, <1>2, <1>4, PcreateKeeps
<1>6. k.dead # <<>>
  BY <1>1 DEF pcreate, KernelStates
<1> HIDE DEF k
<1>7. Stable(k) /\ Sound(k) /\ SafeRings(k)
  BY <1>1, <1>5 DEF QueueCallKeeps, Stable
<1>8. SameQueues(k, Boot) /\ Stable(Boot)
  BY <1>3, <1>4, <1>6, <1>7, StartSound
<1> QED BY <1>7, <1>8 DEF SafeRings, SameQueues

-----------------------------------------------------------------------------
(* The steps of Kernel!Next. *)

(* Becomes gives every variable the value of its field. *)
LEMMA BecomesState ==
  ASSUME NEW t \in KernelStates, Becomes(t)
  PROVE  K' = t
BY DEF Becomes, K, KernelStates

(* The initial state of the variables is the record Boot. *)
LEMMA InitState ==
  ASSUME Init
  PROVE  K = Boot
<1>1. Boot \in KernelStates
  BY BootStable DEF Stable, Sound
<1> HIDE DEF Boot
<1> QED BY <1>1 DEF Init, K, KernelStates

(* A call that leaves the queues alone keeps the invariant. *)
LEMMA StepKeeps ==
  ASSUME KernelInv, NEW t, Becomes(t), Stable(t), SameQueues(K, t)
  PROVE  KernelInv'
<1>1. K' = t
  BY BecomesState DEF Stable, Sound
<1>2. Stable(K') /\ (~MemAllocMayFail => SafeRings(K'))
  BY <1>1 DEF KernelInv, SameQueues, SafeRings
<1>3. Stable(K)' /\ (SafeRings(K') => SafeRings(K)')
  BY <1>2 DEF Stable, Sound, SafeRings, ListsBut, InState, WaitingOn,
              IdleReady, OnlyActive, ChildWritten, QueueCallers
<1> QED BY <1>2, <1>3 DEF KernelInv

(* A queue call that keeps the rings keeps the invariant. *)
LEMMA QueueStepKeeps ==
  ASSUME KernelInv, NEW t, Becomes(t), Stable(t),
         ~MemAllocMayFail => QueueCallKeeps(K, t)
  PROVE  KernelInv'
<1>1. K' = t
  BY BecomesState DEF Stable, Sound
<1>2. Stable(K') /\ (~MemAllocMayFail => SafeRings(K'))
  BY <1>1 DEF KernelInv, QueueCallKeeps
<1>3. Stable(K)' /\ (SafeRings(K') => SafeRings(K)')
  BY <1>2 DEF Stable, Sound, SafeRings, ListsBut, InState, WaitingOn,
              IdleReady, OnlyActive, ChildWritten, QueueCallers
<1> QED BY <1>2, <1>3 DEF KernelInv

(* The caller of a system call, seen in the record. *)
LEMMA UserModeState ==
  ASSUME KernelInv, UserMode
  PROVE  /\ Stable(K) /\ Sound(K) /\ K.active_process # IDLE
         /\ K.call[K.active_process] = "user" /\ K.active_process \in Pids
<1>1. Stable(K) /\ Sound(K)
  BY DEF KernelInv, Stable
<1>2. K.active_process # IDLE /\ K.call[K.active_process] = "user"
  BY DEF UserMode, Interruptible, K
<1>3. K.active_process \in Pids
  BY <1>1 DEF Sound, KernelStates
<1> QED BY <1>1, <1>2, <1>3

(* A live process is neither dead nor a zombie. *)
LEMMA AliveState ==
  ASSUME NEW s \in KernelStates, NEW pid, ALIVE_PID(s, pid)
  PROVE  pid \in Pids /\ s.state[pid] \notin {PS_DEAD, PS_ZOMBIE}
BY DEF ALIVE_PID, PS_DEAD, PS_ZOMBIE, PS_RUNNABLE

(* The process calls keep the invariant. *)
LEMMA ProcessCallKeeps ==
  ASSUME KernelInv, ProcessCall
  PROVE  KernelInv'
<1>0. UserMode
  BY DEF ProcessCall, Chprio, Start, Exit, Kill, WaitClock, Waitpid
<1>1. /\ Stable(K) /\ Sound(K) /\ K.active_process # IDLE
      /\ K.call[K.active_process] = "user" /\ K.active_process \in Pids
  BY <1>0, UserModeState
<1>2. ASSUME NEW pid \in Pids, NEW newprio \in NewPrios, Chprio(pid, newprio)
      PROVE  KernelInv'
  <2>1. Becomes(chprio(K, pid, newprio)) /\ newprio \in Int
    BY <1>2, InputsAssumption DEF Chprio
  <2>2. LET t == chprio(K, pid, newprio) IN Stable(t) /\ SameQueues(K, t)
    BY <1>1, <2>1, ChprioStable
  <2> QED BY <2>1, <2>2, StepKeeps
<1>3. ASSUME NEW newprio \in Prios, NEW allocated \in BOOLEAN, Start(newprio, allocated)
      PROVE  KernelInv'
  <2>1. Becomes(start_user(K, newprio, allocated)) /\ newprio \in Int /\ K.dead # <<>>
    BY <1>3, InputsAssumption DEF Start, K
  <2>2. LET t == start_user(K, newprio, allocated) IN Stable(t) /\ SameQueues(K, t)
    BY <1>1, <2>1, StartStable
  <2> QED BY <2>1, <2>2, StepKeeps
<1>4. ASSUME NEW retval \in RetVals, Exit(retval)
      PROVE  KernelInv'
  <2> DEFINE p == K.active_process
  <2>1. Becomes(stop(K, p, retval)) /\ retval \in Int
    BY <1>4, InputsAssumption DEF Exit, K
  <2>2. p \in Pids /\ p # IDLE /\ K.state[p] \notin {PS_DEAD, PS_ZOMBIE}
    BY <1>1, DistinctStates DEF Stable
  <2> HIDE DEF p
  <2>3. LET t == stop(K, p, retval) IN Stable(t) /\ SameQueues(K, t)
    BY <1>1, <2>1, <2>2, StopStable
  <2> QED BY <2>1, <2>3, StepKeeps
<1>5. ASSUME NEW pid \in Pids, Kill(pid)
      PROVE  KernelInv'
  <2>1. Becomes(stop(K, pid, 0)) /\ 0 \in Int
    BY <1>5 DEF Kill
  <2>2. pid # IDLE /\ ALIVE_PID(K, pid)
    BY <1>5 DEF Kill, IDLE
  <2>3. K.state[pid] \notin {PS_DEAD, PS_ZOMBIE}
    BY <1>1, <2>2, AliveState DEF Sound
  <2>4. LET t == stop(K, pid, 0) IN Stable(t) /\ SameQueues(K, t)
    BY <1>1, <2>1, <2>2, <2>3, StopStable
  <2> QED BY <2>1, <2>4, StepKeeps
<1>6. ASSUME NEW clock \in SleepClocks, WaitClock(clock)
      PROVE  KernelInv'
  <2>1. Becomes(wait_clock(K, clock)) /\ clock \in Int
    BY <1>6, InputsAssumption, SizesAssumption DEF WaitClock
  <2>2. LET t == wait_clock(K, clock) IN Stable(t) /\ SameQueues(K, t)
    BY <1>1, <2>1, WaitClockStable
  <2> QED BY <2>1, <2>2, StepKeeps
<1>7. ASSUME NEW pid \in WaitPids, Waitpid(pid)
      PROVE  KernelInv'
  <2>1. Becomes(waitpid(K, pid)) /\ pid \in Int
    BY <1>7, InputsAssumption DEF Waitpid
  <2>2. LET t == waitpid(K, pid) IN Stable(t) /\ SameQueues(K, t)
    BY <1>1, <2>1, WaitpidStable
  <2> QED BY <2>1, <2>2, StepKeeps
<1> QED BY <1>2, <1>3, <1>4, <1>5, <1>6, <1>7 DEF ProcessCall

(* The queue calls keep the invariant. *)
LEMMA QueueCallInv ==
  ASSUME KernelInv, QueueCall
  PROVE  KernelInv'
<1>0. UserMode
  BY DEF QueueCall, Pcreate, Pdelete, Preset, Psend, Preceive
<1>1. /\ Stable(K) /\ Sound(K) /\ K.active_process # IDLE
      /\ K.call[K.active_process] = "user" /\ K.active_process \in Pids
  BY <1>0, UserModeState
<1>2. ASSUME NEW count \in Counts, NEW allocated \in BOOLEAN, Pcreate(count, allocated)
      PROVE  KernelInv'
  <2>1. /\ Becomes(pcreate(K, count, allocated)) /\ FreeFids(K) # {}
        /\ ~MemAllocMayFail => allocated
    BY <1>2 DEF Pcreate
  <2>2. count \in 1 .. MAXCOUNT
    BY <1>2, InputsAssumption, SizesAssumption DEF Pcreate
  <2>3. /\ Stable(pcreate(K, count, allocated))
        /\ allocated => QueueCallKeeps(K, pcreate(K, count, allocated))
    BY <1>1, <2>1, <2>2, PcreateKeeps
  <2> QED BY <2>1, <2>3, QueueStepKeeps
<1>3. ASSUME NEW fid \in UserFids, Pdelete(fid)
      PROVE  KernelInv'
  <2>1. Becomes(pdelete(K, fid)) /\ fid \in Fids
    BY <1>3 DEF Pdelete, VALID_FID
  <2>2. QueueCallKeeps(K, pdelete(K, fid))
    BY <1>1, <2>1, PdeleteKeeps
  <2> QED BY <2>1, <2>2, QueueStepKeeps DEF QueueCallKeeps
<1>4. ASSUME NEW fid \in UserFids, Preset(fid)
      PROVE  KernelInv'
  <2>1. Becomes(preset(K, fid)) /\ fid \in Fids /\ K.queues[fid].capacity # 0
    BY <1>4 DEF Preset, VALID_FID, is_queue_free
  <2>2. QueueCallKeeps(K, preset(K, fid))
    BY <1>1, <2>1, PresetKeeps
  <2> QED BY <2>1, <2>2, QueueStepKeeps DEF QueueCallKeeps
<1>5. ASSUME NEW fid \in UserFids, NEW m \in Messages, Psend(fid, m)
      PROVE  KernelInv'
  <2>1. Becomes(psend(K, fid, m)) /\ fid \in Fids /\ K.queues[fid].capacity # 0
    BY <1>5 DEF Psend, VALID_FID, is_queue_free
  <2>2. QueueCallKeeps(K, psend(K, fid, m))
    BY <1>1, <2>1, PsendKeeps
  <2> QED BY <2>1, <2>2, QueueStepKeeps DEF QueueCallKeeps
<1>6. ASSUME NEW fid \in UserFids, Preceive(fid)
      PROVE  KernelInv'
  <2>1. Becomes(preceive(K, fid)) /\ fid \in Fids /\ K.queues[fid].capacity # 0
    BY <1>6 DEF Preceive, VALID_FID, is_queue_free
  <2>2. QueueCallKeeps(K, preceive(K, fid))
    BY <1>1, <2>1, PreceiveKeeps
  <2> QED BY <2>1, <2>2, QueueStepKeeps DEF QueueCallKeeps
<1> QED BY <1>2, <1>3, <1>4, <1>5, <1>6 DEF QueueCall

(* The second parts of suspended calls and the timer keep the invariant. *)
LEMMA ResumeKeeps ==
  ASSUME KernelInv, WaitpidResume \/ QueueCallResume \/ TicPIT
  PROVE  KernelInv'
<1>1. Stable(K) /\ Sound(K) /\ K.active_process \in Pids
  BY DEF KernelInv, Stable, Sound, KernelStates
<1>2. CASE WaitpidResume
  <2>1. Becomes(waitpid_resume(K)) /\ K.call[K.active_process] = "waitpid"
    BY <1>2 DEF WaitpidResume, K
  <2>2. LET t == waitpid_resume(K) IN Stable(t) /\ SameQueues(K, t)
    BY <1>1, <2>1, WaitpidResumeStable
  <2> QED BY <2>1, <2>2, StepKeeps
<1>3. CASE QueueCallResume
  <2>1. Becomes(Forget(K, K.active_process))
    BY <1>3 DEF QueueCallResume, K
  <2>2. LET t == Forget(K, K.active_process) IN Stable(t) /\ SameQueues(K, t)
    BY <1>1, ForgetSound
  <2> QED BY <2>1, <2>2, StepKeeps
<1>4. CASE TicPIT
  <2>1. Becomes(tic_PIT(K))
    BY <1>4 DEF TicPIT
  <2>2. LET t == tic_PIT(K) IN Stable(t) /\ SameQueues(K, t)
    BY <1>1, TicStable
  <2> QED BY <2>1, <2>2, StepKeeps
<1> QED BY <1>2, <1>3, <1>4

-----------------------------------------------------------------------------
(* Theorems. *)

(* Whatever the sizes of the tables and the programs: between two steps    *)
(* the kernel of scheduler.c and queues.c is in a stable state, and while  *)
(* mem_alloc finds room no assert has failed and every ring is well formed. *)
THEOREM KernelInvariant == Spec => []KernelInv
<1>1. Init => KernelInv
  <2> SUFFICES ASSUME Init PROVE KernelInv
    OBVIOUS
  <2>1. K = Boot
    BY InitState
  <2> QED BY <2>1, BootStable DEF KernelInv
<1>2. KernelInv /\ [Next]_vars => KernelInv'
  <2> SUFFICES ASSUME KernelInv, [Next]_vars PROVE KernelInv'
    OBVIOUS
  <2>1. CASE ProcessCall
    BY <2>1, ProcessCallKeeps
  <2>2. CASE QueueCall
    BY <2>2, QueueCallInv
  <2>3. CASE WaitpidResume \/ QueueCallResume \/ TicPIT
    BY <2>3, ResumeKeeps
  <2>4. CASE UNCHANGED vars
    BY <2>4 DEF KernelInv, Stable, Sound, SafeRings, ListsBut, InState, WaitingOn,
                IdleReady, OnlyActive, ChildWritten, QueueCallers, K, vars
  <2> QED BY <2>1, <2>2, <2>3, <2>4 DEF Next
<1> QED BY <1>1, <1>2, PTL DEF Spec

(* The globals of the kernel keep their types: pids stay in the process    *)
(* table, states in the enum, queue capacities within MAXCOUNT.            *)
THEOREM TypesKept == Spec => []TypeOK
<1>1. KernelInv => TypeOK
  BY DEF KernelInv, Stable, Sound, TypeOK
<1> QED BY <1>1, KernelInvariant, PTL

(* No process is ever on two of the lists threaded through its union, or   *)
(* on a list its state does not name.                                      *)
THEOREM ListsKeptInStep == Spec => []ListsMatchStates
<1>1. KernelInv => ListsMatchStates
  BY DEF KernelInv, Stable, Sound, ListsMatchStates
<1> QED BY <1>1, KernelInvariant, PTL

(* tick_scheduler leaves exactly one running process, the active one, and  *)
(* the idle process can always be elected.                                 *)
THEOREM RunningIsActive == Spec => []OneRunning
<1>1. KernelInv => OneRunning
  <2> SUFFICES ASSUME KernelInv PROVE OneRunning
    OBVIOUS
  <2>1. IdleReady(K) /\ OnlyActive(K) /\ K.state[K.active_process] = PS_RUNNING
    BY DEF KernelInv, Stable, Sound
  <2> QED BY <2>1 DEF OneRunning, IdleReady, OnlyActive, K
<1> QED BY <1>1, KernelInvariant, PTL

(* The pid stop writes for a waiting parent names a zombie child of that   *)
(* parent until the parent resumes: the assertions of waitpid hold.        *)
THEOREM WokenParentsFindChild == Spec => []WokenParentHasChild
<1>1. KernelInv => WokenParentHasChild
  BY DEF KernelInv, Stable, Sound, WokenParentHasChild
<1> QED BY <1>1, KernelInvariant, PTL

(* No assert of scheduler.c or queues.c fails and no NULL list head or     *)
(* message array is used, as long as mem_alloc finds room for queues; the  *)
(* stack allocator may fail.                                               *)
THEOREM PanicFree ==
  ASSUME ~MemAllocMayFail
  PROVE  Spec => []NoPanic
<1>1. KernelInv => NoPanic
  BY DEF KernelInv, SafeRings, NoPanic, K
<1> QED BY <1>1, KernelInvariant, PTL
=============================================================================
