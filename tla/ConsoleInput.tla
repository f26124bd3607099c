--------------------------- MODULE ConsoleInput ------------------------------
(***************************************************************************)
(* From the keyboard interrupt to the readers of the console:              *)
(* kernel/driver/keyboard.c on the message queue of kernel/queues.c.       *)
(*                                                                         *)
(* The handlers and the system calls run with interrupts masked, so the    *)
(* active process changes only where a queue call blocks it or wakes a     *)
(* process of higher priority (fix_scheduler), where it goes to sleep, and *)
(* at a tick of the clock outside the kernel.  Every other action is the   *)
(* next kernel segment of active.  A key interrupts whoever is active      *)
(* outside the kernel, and keyboard_data runs on that process: when one of *)
(* its psend wakes a reader, the characters left of the key wait in        *)
(* proc[p].rest until p is active again.                                   *)
(*                                                                         *)
(* Which of several processes of the same priority is first in the         *)
(* runnable list, and which sleepers are due, is left open.  echo is in    *)
(* module Speaker.  cons_readline(string, 0) returns at once and is left   *)
(* out.                                                                    *)
(***************************************************************************)
EXTENDS Integers, Sequences, FiniteSets, SequencesExt, ProcessLists

CONSTANTS
  Sessions,      \* uses of the console, records with the fields below
  Junk           \* what the local msg may hold before anything is received

VARIABLE session \* the one of this behaviour, which stays

BUFFER_SIZE == session.buffer   \* capacity of keyboard_buffer
Prio == session.prio            \* the processes, Idle included, and their priorities
Readers == session.readers      \* those that read the console
Calls == session.calls          \* the calls they make: "read" (cons_read), "readline"
Length == session.length        \* length argument of cons_readline
KeyStrings == session.keys      \* the strings a key may send
TypeAhead == session.ahead      \* whether keys are pressed while nobody waits for them
MaxKeys == session.pressed      \* bound: keys pressed
MaxLine == session.line         \* bound: characters typed between two Enter

CR == 13
DEL == 127
Idle == 0
Processes == DOMAIN Prio

ASSUME SessionsAssumption ==
  /\ Junk \subseteq Nat
  /\ \A s \in Sessions :
       /\ Idle \in DOMAIN s.prio /\ IsFiniteSet(DOMAIN s.prio)
       /\ s.prio \in [DOMAIN s.prio -> Nat]
       /\ s.readers \subseteq DOMAIN s.prio \ {Idle} /\ s.calls \subseteq {"read", "readline"}
       /\ s.buffer \in Nat \ {0} /\ s.length \in Nat \ {0} /\ s.line \in Nat
       /\ \A key \in s.keys : key \in Seq(Nat) /\ key # <<>>

VARIABLES
  messages,      \* what the ring of keyboard_buffer holds, oldest first
  empty_process, \* readers blocked in preceive, by priority
  full_process,  \* processes blocked in psend, by priority
  proc,          \* where each process is, and its local variables
  active,        \* active_process
  sleeping,      \* processes in wait_clock
  pressed,       \* keys pressed so far
  accepted,      \* history: what keyboard_data passed to psend
  returned       \* history: what the calls returned, in order

input_vars == <<session, messages, empty_process, full_process, proc, active, sleeping,
                pressed, accepted, returned>>

(***************************************************************************)
(* mode: "user" outside the kernel or asleep, "keys" in the loop of        *)
(* keyboard_data, "received" just past a preceive, "unread" in the psend   *)
(* loop of cons_readline, "empty" and "full" blocked in preceive and psend *)
(* rest: what its loop has yet to send.                                    *)
(***************************************************************************)
(* msg is set by each call; CR is any value *)
AtRest ==
  [mode |-> "user", call |-> "none", msg |-> CR,
   string |-> <<>>, buf_save |-> <<>>, msg_len |-> 0, rest |-> <<>>]

InputInit ==
  /\ session \in Sessions
  /\ messages = <<>>
  /\ empty_process = <<>>
  /\ full_process = <<>>
  /\ proc = [p \in Processes |-> AtRest]
  /\ active = Idle
  /\ sleeping = Processes \ {Idle}
  /\ pressed = 0
  /\ accepted = <<>>
  /\ returned = <<>>

-----------------------------------------------------------------------------
(* The scheduler, once the locals of the processes are f. *)

CanRun(f, sleepers) == {p \in Processes \ sleepers : f[p].mode \notin {"empty", "full"}}

(* The sleepers that are not late wake up.  Another process takes over     *)
(* when active is blocked or a process of its priority can run; the idle   *)
(* process always can.                                                     *)
tick_scheduler(f, sleepers) ==
  \E late \in SUBSET sleepers :
    LET runnable == CanRun(f, late) \ {active}
        heads == {h \in runnable : \A p \in runnable : Prio[p] <= Prio[h]}
        runs == active \in CanRun(f, late)
    IN /\ sleeping' = late
       /\ \/ \E h \in heads : (runs => Prio[h] >= Prio[active]) /\ active' = h
          \/ runs /\ (\A p \in runnable : Prio[p] < Prio[active]) /\ active' = active

fix_scheduler(f) ==
  IF active \notin CanRun(f, sleeping) \/ \E p \in CanRun(f, sleeping) : Prio[p] > Prio[active]
  THEN tick_scheduler(f, sleeping)
  ELSE UNCHANGED <<active, sleeping>>

-----------------------------------------------------------------------------
(* The queue calls, on m = [messages, empty_process, full_process, proc].  *)

Mailbox ==
  [messages |-> messages, empty_process |-> empty_process,
   full_process |-> full_process, proc |-> proc]

(* A queue call that blocks ends in tick_scheduler, one that wakes         *)
(* processes in fix_scheduler, which is tick_scheduler when active is      *)
(* blocked, and nothing when nobody was woken.                             *)
SetMailbox(m) ==
  /\ messages' = m.messages
  /\ empty_process' = m.empty_process
  /\ full_process' = m.full_process
  /\ proc' = m.proc
  /\ fix_scheduler(m.proc)

push_waiting_process(list, p) == InsertAt(list, PrioSlot(list, Prio, p), p)

(* Past its psend, p is in the loop it was sending from, unless that ended. *)
Sent(m, p) ==
  LET r == m.proc[p] IN
  [m EXCEPT !.proc[p] =
     IF r.call = "none" THEN [r EXCEPT !.mode = IF r.rest = <<>> THEN "user" ELSE "keys"]
     ELSE [r EXCEPT !.mode = "unread"]]

pcount(m) ==
  IF m.messages = <<>> THEN -Len(m.empty_process)
  ELSE Len(m.messages) + Len(m.full_process)

psend(m, p, c) ==
  IF Len(m.messages) = BUFFER_SIZE
  THEN [m EXCEPT !.proc[p].mode = "full", !.proc[p].msg = c,
                 !.full_process = push_waiting_process(@, p)]
  ELSE IF m.messages = <<>> /\ m.empty_process # <<>>
  THEN LET r == Head(m.empty_process) IN
       Sent([m EXCEPT !.empty_process = Tail(@),
                      !.proc[r].msg = c, !.proc[r].mode = "received"], p)
  ELSE Sent([m EXCEPT !.messages = Append(@, c)], p)

preceive(m, p) ==
  IF m.messages = <<>>
  THEN [m EXCEPT !.proc[p].mode = "empty",
                 !.empty_process = push_waiting_process(@, p)]
  ELSE LET popped == [m EXCEPT !.proc[p].msg = Head(m.messages),
                               !.proc[p].mode = "received",
                               !.messages = Tail(@)]
           w == Head(m.full_process)
       IN IF Len(m.messages) = BUFFER_SIZE /\ m.full_process # <<>>
          THEN Sent([popped EXCEPT !.messages = Append(@, m.proc[w].msg),
                                   !.full_process = Tail(@)], w)
          ELSE popped

(* A reader woken by preset has received nothing: its call of preceive     *)
(* returns -1, which keyboard.c ignores, and msg keeps its value.          *)
preset(m) ==
  LET failed == [m EXCEPT !.messages = <<>>, !.empty_process = <<>>,
                          !.full_process = <<>>]
  IN [failed EXCEPT !.proc =
        [p \in Processes |->
           CASE m.proc[p].mode = "empty" -> [m.proc[p] EXCEPT !.mode = "received"]
             [] m.proc[p].mode = "full" -> Sent(m, p).proc[p]
             [] OTHER -> m.proc[p]]]

-----------------------------------------------------------------------------
(* The keyboard interrupt. *)

(* The characters of a key that interrupts p, with the number of the key   *)
(* and their places in it.                                                 *)
Numbered(p, key) ==
  [i \in DOMAIN key |-> [key |-> pressed, place |-> i, char |-> key[i], by |-> p]]

TypedSinceEnter ==
  LET enters == {i \in DOMAIN accepted : accepted[i].char = CR}
  IN IF enters = {} THEN Len(accepted) ELSE Len(accepted) - Max(enters)

(* Characters of keys already pressed that are not passed on yet. *)
Waiting ==
  {c \in UNION {Range(proc[p].rest) : p \in {q \in Processes : proc[q].mode = "keys"}} :
     c.char # CR}

(* A key interrupts active, which enters keyboard_data. *)
PressKey(p, key) ==
  /\ active = p /\ proc[p].mode = "user"
  /\ pressed < MaxKeys
  /\ TypeAhead \/ empty_process # <<>>
  /\ key = <<CR>> \/ TypedSinceEnter + Cardinality(Waiting) + Len(key) <= MaxLine
  /\ proc' = [proc EXCEPT ![p].mode = "keys", ![p].rest = Numbered(p, key)]
  /\ pressed' = pressed + 1
  /\ UNCHANGED <<session, messages, empty_process, full_process, active, sleeping,
                 accepted, returned>>

(* Fault: the room left is not looked at. *)
keyboard_data_NoCount(p) ==
  /\ active = p /\ proc[p].mode = "keys"
  /\ SetMailbox(psend([Mailbox EXCEPT !.proc[p].rest = Tail(@)], p, Head(proc[p].rest).char))
  /\ accepted' = Append(accepted, Head(proc[p].rest))
  /\ UNCHANGED <<session, pressed, returned>>

(* One turn of the loop.  On a full buffer it beeps and gives up the rest. *)
keyboard_data(p) ==
  /\ active = p /\ proc[p].mode = "keys"
  /\ \/ /\ pcount(Mailbox) # BUFFER_SIZE
        /\ SetMailbox(psend([Mailbox EXCEPT !.proc[p].rest = Tail(@)],
                            p, Head(proc[p].rest).char))
        /\ accepted' = Append(accepted, Head(proc[p].rest))
     \/ /\ pcount(Mailbox) = BUFFER_SIZE
        /\ SetMailbox([Mailbox EXCEPT !.proc[p].mode = "user", !.proc[p].rest = <<>>])
        /\ UNCHANGED accepted
  /\ UNCHANGED <<session, pressed, returned>>

-----------------------------------------------------------------------------
(* The system calls of the readers. *)

Call(p, call) ==
  /\ active = p /\ proc[p].mode = "user"
  /\ \E junk \in Junk :
       SetMailbox(preceive([Mailbox EXCEPT
         !.proc[p] = [AtRest EXCEPT !.call = call, !.msg = junk]], p))
  /\ UNCHANGED <<session, pressed, accepted, returned>>

Return(m, p, result) ==
  /\ SetMailbox([m EXCEPT !.proc[p] = AtRest])
  /\ returned' = Append(returned, result)
  /\ UNCHANGED <<session, pressed, accepted>>

cons_read(p) ==
  /\ active = p /\ proc[p].mode = "received"
  /\ proc[p].call = "read"
  /\ Return(Mailbox, p, proc[p].msg)

(* Fault: a character beyond the end is erased from the string too. *)
Edit_EraseString(r) ==
  IF r.msg = DEL
  THEN [r EXCEPT !.string = IF @ # <<>> THEN Front(@) ELSE @,
                 !.msg_len = IF @ > 0 THEN @ - 1 ELSE 0]
  ELSE IF r.msg_len >= Length
  THEN [r EXCEPT !.buf_save = Append(@, r.msg), !.msg_len = @ + 1]
  ELSE [r EXCEPT !.string = Append(@, r.msg), !.msg_len = @ + 1]

(* What the loop of cons_readline does with a character that is not CR. *)
Edit(r) ==
  IF r.msg = DEL
  THEN [r EXCEPT
          !.buf_save = IF r.msg_len > Length THEN Append(@, DEL) ELSE @,
          !.string = IF r.msg_len <= Length /\ r.msg_len > 0 THEN Front(@) ELSE @,
          !.msg_len = IF @ > 0 THEN @ - 1 ELSE 0]
  ELSE IF r.msg_len >= Length
  THEN [r EXCEPT !.buf_save = Append(@, r.msg), !.msg_len = @ + 1]
  ELSE [r EXCEPT !.string = Append(@, r.msg), !.msg_len = @ + 1]

(* A turn of the loop, up to the next preceive. *)
cons_readline(p) ==
  LET r == proc[p] IN
  /\ active = p /\ r.mode = "received"
  /\ r.call = "readline"
  /\ r.msg # CR
  /\ SetMailbox(preceive([Mailbox EXCEPT !.proc[p] = Edit(r)], p))
  /\ UNCHANGED <<session, pressed, accepted, returned>>

(* CR ends the loop.  A line that fills string leaves the rest of it, and  *)
(* CR, to be sent back once the buffer is reset.                           *)
EndOfLine(p) ==
  LET r == proc[p] IN
  /\ active = p /\ r.mode = "received"
  /\ r.call = "readline"
  /\ r.msg = CR
  /\ \/ /\ r.msg_len < Length
        /\ Return(Mailbox, p, r.string)
     \/ /\ r.msg_len >= Length
        /\ SetMailbox(preset([Mailbox EXCEPT
             !.proc[p].mode = "unread",
             !.proc[p].rest = Numbered(p, Append(r.buf_save, CR))]))
        /\ UNCHANGED <<session, pressed, accepted, returned>>

(* A turn of the loop that sends them back, and the return after the last. *)
SendBack(p) ==
  /\ active = p /\ proc[p].mode = "unread"
  /\ \/ /\ proc[p].rest # <<>>
        /\ SetMailbox(psend([Mailbox EXCEPT !.proc[p].rest = Tail(@)],
                            p, Head(proc[p].rest).char))
        /\ UNCHANGED <<session, pressed, accepted, returned>>
     \/ proc[p].rest = <<>> /\ Return(Mailbox, p, proc[p].string)

-----------------------------------------------------------------------------
(* Processes do other things, and so let lower priorities run. *)

wait_clock(p) ==
  /\ active = p /\ proc[p].mode = "user"
  /\ tick_scheduler(proc, sleeping \union {p})
  /\ UNCHANGED <<session, messages, empty_process, full_process, proc, pressed, accepted,
                 returned>>

(* The clock interrupts active outside the kernel. *)
ClockTick ==
  /\ proc[active].mode = "user"
  /\ tick_scheduler(proc, sleeping)
  /\ UNCHANGED <<session, messages, empty_process, full_process, proc, pressed, accepted,
                 returned>>

Kernel(p) ==
  \/ keyboard_data(p)
  \/ cons_read(p)
  \/ cons_readline(p)
  \/ EndOfLine(p)
  \/ SendBack(p)

InputNext ==
  \/ \E p \in Processes : Kernel(p)
  \/ \E p \in Processes, key \in KeyStrings : PressKey(p, key)
  \/ \E p \in Readers, call \in Calls : Call(p, call)
  \/ \E p \in Processes \ {Idle} : wait_clock(p)
  \/ ClockTick

(* The active process goes on with its kernel segment. *)
InKernel == \E p \in Processes : Kernel(p)
InputSpec == InputInit /\ [][InputNext]_input_vars /\ WF_input_vars(InKernel)

-----------------------------------------------------------------------------
(* Properties. *)

Characters == {CR, DEL} \union UNION {Range(key) : key \in KeyStrings}

(* The ring never holds more than its capacity, each waiting list names    *)
(* exactly the blocked processes, highest priority first, and the locals   *)
(* of the calls keep their shapes.                                         *)
InputTypeOK ==
  /\ messages \in Seq(Characters) /\ Len(messages) <= BUFFER_SIZE
  /\ Range(empty_process) = {p \in Processes : proc[p].mode = "empty"}
  /\ Range(full_process) = {p \in Processes : proc[p].mode = "full"}
  /\ \A list \in {empty_process, full_process} :
       \A i, j \in DOMAIN list : i < j => Prio[list[i]] >= Prio[list[j]]
  /\ \A p \in Processes :
       /\ proc[p].mode \in {"user", "keys", "received", "unread", "empty", "full"}
       /\ proc[p].string \in Seq(Characters) /\ Len(proc[p].string) <= Length
       /\ proc[p].buf_save \in Seq(Characters) /\ Len(proc[p].buf_save) <= BUFFER_SIZE

(* What cons_readline must return for the characters typed: each line with *)
(* its erasures carried out, in pieces of Length characters, the last one  *)
(* shorter.                                                                *)
Pieces(line) ==
  [i \in 1 .. (Len(line) \div Length) + 1 |->
     SubSeq(line, (i - 1) * Length + 1, Min({i * Length, Len(line)}))]
Typeset(characters) ==
  FoldLeft(LAMBDA t, c :
             IF c = CR THEN [lines |-> t.lines \o Pieces(t.line), line |-> <<>>]
             ELSE IF c = DEL
             THEN [t EXCEPT !.line = IF @ = <<>> THEN @ ELSE Front(@)]
             ELSE [t EXCEPT !.line = Append(@, c)],
           [lines |-> <<>>, line |-> <<>>], characters).lines

(* cons_readline: the lines returned are, one after the other, those that  *)
(* were typed, whatever part of a long line had to be sent back and read   *)
(* again, and whatever was erased in it.  (Sessions with type-ahead have   *)
(* no line longer than Length: preset drops what was typed ahead of one.)  *)
LinesExact ==
  Calls = {"readline"} => IsPrefix(returned, Typeset([i \in DOMAIN accepted |-> accepted[i].char]))

(* keyboard_data: the interrupt handler never blocks the process that it   *)
(* interrupted, be it the idle process, on a full keyboard buffer.         *)
InterruptNeverBlocks == \A p \in Processes : proc[p].mode = "full" => proc[p].call # "none"

(* keyboard_data: the characters of a key are accepted in their order,     *)
(* none left out, whatever runs between two of them.                       *)
KeysInOrder ==
  \A j \in DOMAIN accepted :
    /\ \A i \in 1 .. j - 1 :
         accepted[i].key = accepted[j].key => accepted[i].place < accepted[j].place
    /\ accepted[j].place > 1 =>
         \E i \in 1 .. j - 1 : /\ accepted[i].key = accepted[j].key
                               /\ accepted[i].place = accepted[j].place - 1

(* keyboard_data and the scheduler: the rest of a key is overtaken by a    *)
(* later key only when that one interrupted another process of at least    *)
(* the same priority.                                                      *)
OvertakenByHigher ==
  \A j \in DOMAIN accepted : \A i \in 1 .. j - 1 :
    accepted[i].key > accepted[j].key =>
      /\ accepted[i].by # accepted[j].by
      /\ Prio[accepted[i].by] >= Prio[accepted[j].by]

(* Not so: the characters of one key stay together.  The rest of a key     *)
(* waits behind a process of the priority of the one interrupted.          *)
KeysTogether ==
  \A i, j \in DOMAIN accepted : i < j => accepted[i].key <= accepted[j].key

(* cons_read: every character accepted is in the buffer, on its way to one *)
(* reader, or returned to one reader.                                      *)
ReadOnce ==
  LET Count(S) == Cardinality({p \in Processes : proc[p].mode \in S})
  IN Calls = {"read"} => Len(accepted) =
       Len(returned) + Len(messages) + Count({"received"}) + Count({"full"})

(* cons_readline: once it has received CR, it returns.                     *)
EnterReturns ==
  \A p \in UNION {s.readers : s \in Sessions} :
    (p \in Readers /\ proc[p].mode = "received" /\ proc[p].call = "readline" /\ proc[p].msg = CR)
      ~> (p \in Readers => proc[p].call = "none")

(* keyboard_data: the keyboard interrupt passes the characters of a key on *)
(* in order, each to one reader, overtaken only as the priorities allow,   *)
(* and never blocks the process it interrupted.                            *)
KeysDelivered == InterruptNeverBlocks /\ KeysInOrder /\ OvertakenByHigher /\ ReadOnce

(* cons_readline returns the lines that were typed, and does return.       *)
LinesRead == [](InputTypeOK /\ LinesExact) /\ EnterReturns
=============================================================================
