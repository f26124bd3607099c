------------------------------- MODULE Queues --------------------------------
(***************************************************************************)
(* Message queues: kernel/queues.c.                                        *)
(*                                                                         *)
(* s.queues[fid] is a struct queue_t without its two waiting lists.  Its   *)
(* messages are a function over the allocated ring, empty when mem_alloc   *)
(* returned NULL.  The lists are s.waiting[<<fid, st>>]: empty_process if  *)
(* st = PS_WAIT_QUEUE_EMPTY, full_process if st = PS_WAIT_QUEUE_FULL.      *)
(*                                                                         *)
(* A process blocked in preceive or psend leaves pointers to the locals of *)
(* that call in state_attr: s.local[p] is retval, s.message[p] the message *)
(* being received or sent.                                                 *)
(***************************************************************************)
EXTENDS Scheduler

Uninit == "uninit"             \* a slot of the ring nobody has written
ASSUME UninitAssumption == Uninit \notin Messages

FreeQueue ==
  [front |-> 0, rear |-> 0, size |-> 0, capacity |-> 0, messages |-> <<>>]

is_queue_full(q) == q.size = q.capacity
is_queue_empty(q) == q.size = 0
is_queue_free(q) == q.capacity = 0

VALID_FID(s, fid) == fid \in Fids /\ ~is_queue_free(s.queues[fid])

-----------------------------------------------------------------------------
(* The ring. *)

push_message(s, fid, val) ==
  LET q == s.queues[fid]
      rear == (q.rear + 1) % q.capacity
  IN [assert(s, ~is_queue_full(q) /\ rear \in DOMAIN q.messages) EXCEPT
        !.queues[fid] = [q EXCEPT !.rear = rear, !.size = @ + 1,
                                  !.messages = [@ EXCEPT ![rear] = val]]]

(* Fault: front runs off the end of the ring. *)
pop_message_NoWrap(s, fid) ==
  LET q == s.queues[fid]
  IN [assert(s, ~is_queue_empty(q)) EXCEPT
        !.queues[fid] = [q EXCEPT !.front = @ + 1, !.size = @ - 1]]

pop_message(s, fid) ==
  LET q == s.queues[fid]
  IN [assert(s, ~is_queue_empty(q) /\ q.front \in DOMAIN q.messages) EXCEPT
        !.queues[fid] = [q EXCEPT !.front = (@ + 1) % q.capacity,
                                  !.size = @ - 1]]

-----------------------------------------------------------------------------
(* The waiting lists. *)

(* Fault: latest first among equal priorities. *)
push_waiting_process_Stack(s, fid, st, ps) ==
  [assert(s, s.state[ps] \in WaitStates) EXCEPT
     !.waiting[<<fid, st>>] =
       InsertAt(@, PrioSlot_FrontOfEquals(@, s.prio, ps), ps)]

push_waiting_process(s, fid, st, ps) ==
  [assert(s, s.state[ps] \in WaitStates) EXCEPT
     !.waiting[<<fid, st>>] = InsertAt(@, PrioSlot(@, s.prio, ps), ps)]

pop_waiting_process(s, fid, st, ps) ==
  [assert(s, s.state[ps] \in WaitStates /\ s.waiting[<<fid, st>>] # <<>>) EXCEPT
     !.waiting[<<fid, st>>] = RemoveFirst(@, ps)]

(* Fault: the woken process is not compared with the active one. *)
wakeup_first_process_NoFix(s, fid, st) ==
  LET list == s.waiting[<<fid, st>>] IN
  IF list = <<>> THEN panic(s)
  ELSE push_runnable([s EXCEPT !.waiting[<<fid, st>>] = Tail(@)], Head(list))

wakeup_first_process(s, fid, st) ==
  LET list == s.waiting[<<fid, st>>]
      ps == Head(list)
  IN IF list = <<>> THEN panic(s)
     ELSE fix_scheduler(
            push_runnable([assert(s, s.state[ps] \in WaitStates) EXCEPT
                             !.waiting[<<fid, st>>] = Tail(@)], ps))

(* Fault: the blocked call keeps retval = 0. *)
FailFirst_Success(s, fid, st) ==
  push_runnable([s EXCEPT !.waiting[<<fid, st>>] = Tail(@)],
                Head(s.waiting[<<fid, st>>]))

(* One turn of the loop below: the blocked call will return -1. *)
FailFirst(s, fid, st) ==
  LET ps == Head(s.waiting[<<fid, st>>]) IN
  push_runnable([s EXCEPT !.local[ps] = -1, !.waiting[<<fid, st>>] = Tail(@)], ps)

(* The loop: after Len(s.waiting[<<fid, st>>]) turns nobody waits. *)
FailTurns(s, fid, st) ==
  LET turn[i \in 0 .. Len(s.waiting[<<fid, st>>])] ==
        IF i = 0 THEN s
        ELSE LET t == turn[i - 1] IN
             IF t.waiting[<<fid, st>>] = <<>> THEN t ELSE FailFirst(t, fid, st)
  IN turn

wakeup_all_processes(s, fid, st) ==
  FailTurns(s, fid, st)[Len(s.waiting[<<fid, st>>])]

(* Fault: the process is inserted again without leaving the list. *)
queue_reorder_Twice(s, ps) ==
  push_waiting_process(s, s.attr[ps], s.state[ps], ps)

(* Fault: the list keeps its order. *)
queue_reorder_Nothing(s, ps) == s

(* After a priority change: queue_reorder_empty_process and _full_process. *)
queue_reorder(s, ps) ==
  LET fid == s.attr[ps]
      st == s.state[ps]
  IN push_waiting_process(pop_waiting_process(s, fid, st, ps), fid, st, ps)

(* Fault: a killed process stays on the waiting list. *)
queue_remove_Nothing(s, ps) == s

(* When a waiting process ends: queue_remove_empty_process, _full_process. *)
queue_remove(s, ps) == pop_waiting_process(s, s.attr[ps], s.state[ps], ps)

(* The active process blocks in call with retval = 0 and its message. *)
BlockOnQueue(s, fid, st, call, message) ==
  LET ps == s.active_process IN
  push_waiting_process(
    [remove_runnable(s, ps) EXCEPT
       !.state[ps] = st, !.attr[ps] = fid,
       !.call[ps] = call, !.local[ps] = 0, !.message[ps] = message],
    fid, st, ps)

-----------------------------------------------------------------------------
(* System calls.  Each is defined where its VALID_FID check succeeds. *)

(* Fault: blocked senders are not counted. *)
pcount_NoSenders(s, fid) ==
  LET q == s.queues[fid] IN
  IF is_queue_empty(q) THEN -Len(s.waiting[<<fid, PS_WAIT_QUEUE_EMPTY>>])
  ELSE q.size

(* Messages or blocked senders when positive, blocked receivers otherwise. *)
pcount(s, fid) ==
  LET q == s.queues[fid] IN
  IF is_queue_empty(q) THEN -Len(s.waiting[<<fid, PS_WAIT_QUEUE_EMPTY>>])
  ELSE q.size + Len(s.waiting[<<fid, PS_WAIT_QUEUE_FULL>>])

FreeFids(s) == {fid \in Fids : is_queue_free(s.queues[fid])}

(* allocated: whether mem_alloc found room.  If not, the slot keeps the    *)
(* capacity it was just given, and the indices of its former use.          *)
pcreate(s, count, allocated) ==
  LET fid == Min(FreeFids(s)) IN
  [s EXCEPT !.queues[fid] =
     IF allocated
     THEN [front |-> 0, rear |-> count - 1, size |-> 0, capacity |-> count,
           messages |-> [i \in 0 .. count - 1 |-> Uninit]]
     ELSE [s.queues[fid] EXCEPT !.capacity = count, !.messages = <<>>]]

WakeupBoth(s, fid) ==
  fix_scheduler(
    wakeup_all_processes(
      wakeup_all_processes(s, fid, PS_WAIT_QUEUE_EMPTY),
      fid, PS_WAIT_QUEUE_FULL))

(* The dangling pointer messages is not read before pcreate replaces it. *)
pdelete(s, fid) ==
  LET q == s.queues[fid]
      freed == [q EXCEPT !.capacity = 0, !.messages = <<>>]
  IN WakeupBoth([s EXCEPT !.queues[fid] = freed], fid)

(* Fault: blocked senders stay blocked on a queue that is now empty. *)
preset_NoWakeup(s, fid) ==
  LET q == s.queues[fid] IN
  [s EXCEPT !.queues[fid] =
     [q EXCEPT !.front = 0, !.rear = q.capacity - 1, !.size = 0]]

(* Fault: rear is not reset. *)
preset_KeepsRear(s, fid) ==
  LET q == s.queues[fid] IN
  WakeupBoth([s EXCEPT !.queues[fid] = [q EXCEPT !.front = 0, !.size = 0]], fid)

preset(s, fid) ==
  LET q == s.queues[fid]
      emptied == [q EXCEPT !.front = 0, !.rear = q.capacity - 1, !.size = 0]
  IN WakeupBoth([s EXCEPT !.queues[fid] = emptied], fid)

preceive(s, fid) ==
  LET q == s.queues[fid]
      popped == pop_message(s, fid)
      senders == s.waiting[<<fid, PS_WAIT_QUEUE_FULL>>]
  IN IF is_queue_empty(q)
     THEN tick_scheduler(
            BlockOnQueue(s, fid, PS_WAIT_QUEUE_EMPTY, "preceive", Uninit))
     ELSE IF popped.queues[fid].size = q.capacity - 1 /\ senders # <<>>
     THEN wakeup_first_process(
            push_message(popped, fid, s.message[Head(senders)]),
            fid, PS_WAIT_QUEUE_FULL)
     ELSE popped

psend(s, fid, message) ==
  LET q == s.queues[fid]
      receivers == s.waiting[<<fid, PS_WAIT_QUEUE_EMPTY>>]
  IN IF is_queue_full(q)
     THEN tick_scheduler(
            BlockOnQueue(s, fid, PS_WAIT_QUEUE_FULL, "psend", message))
     ELSE IF is_queue_empty(q) /\ receivers # <<>>
     THEN wakeup_first_process(
            [s EXCEPT !.message[Head(receivers)] = message],
            fid, PS_WAIT_QUEUE_EMPTY)
     ELSE push_message(s, fid, message)

=============================================================================
