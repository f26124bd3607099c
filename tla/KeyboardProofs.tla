--------------------------- MODULE KeyboardProofs ----------------------------
(***************************************************************************)
(* Theorems about the keyboard and the speaker: what keyboard_data,        *)
(* cons_read and cons_readline do to the characters of a key               *)
(* (KeysDelivered), and what beep, async_beep and check_buzzer do to the   *)
(* speaker (SomeoneStops, HeardToTheEnd).                                  *)
(***************************************************************************)
EXTENDS ConsoleInput, Speaker, ListLemmas, FiniteSetTheorems

-----------------------------------------------------------------------------
(* The speaker.                                                            *)

(* Times left, and who the speaker sounds for.  With the keys alone it     *)
(* sounds for the last beep; with one player alone, for that player.       *)
SpeakerInv ==
  /\ beeping_end \in Nat \cup {None} /\ due \in Nat
  /\ asleep \in [Players -> Nat \cup {None}]
  /\ SomeoneStops
  /\ Players = {} /\ due > 0 => sounding /\ beeping_end = due
  /\ Typed = {} => beeping_end = None /\ due = 0
  /\ Typed = {} /\ (\A p, q \in Players : p = q) =>
       \A p \in Players : asleep[p] > 0 => sounding

LEMMA SpeakerStart == SpeakerInit => SpeakerInv
BY DEF SpeakerInit, SpeakerInv, SomeoneStops, None

LEMMA BeepStep ==
  ASSUME SpeakerInv, NEW p \in Players, NEW d \in Delays, beep(p, d)
  PROVE  SpeakerInv'
<1>1. d \in Nat
  BY SpeakerAssumption
<1>2. asleep' = [asleep EXCEPT ![p] = d] /\ sounding' = TRUE
      /\ UNCHANGED <<users, beeping_end, due>>
  BY DEF beep, start_beep
<1>3. asleep' \in [Players -> Nat \cup {None}] /\ asleep'[p] # None
  BY <1>1, <1>2 DEF SpeakerInv, None
<1> QED BY <1>2, <1>3 DEF SpeakerInv, SomeoneStops, Players, Typed, MayKill

LEMMA SleepStep ==
  ASSUME SpeakerInv, NEW p \in Players,
         (asleep[p] = 0 /\ ~sounding') \/ (MayKill /\ (sounding <=> sounding')),
         asleep' = [asleep EXCEPT ![p] = None], UNCHANGED <<users, beeping_end, due>>
  PROVE  SpeakerInv'
<1>1. asleep' \in [Players -> Nat \cup {None}] /\ asleep'[p] = None /\ ~(None > 0)
      /\ \A q \in Players : q # p => asleep'[q] = asleep[q]
  BY DEF SpeakerInv, None
<1> QED BY <1>1 DEF SpeakerInv, SomeoneStops, Players, Typed, MayKill

LEMMA TickStep ==
  ASSUME SpeakerInv, tic_PIT
  PROVE  SpeakerInv'
<1>1. /\ asleep' = [p \in Players |-> IF asleep[p] > 0 THEN asleep[p] - 1 ELSE asleep[p]]
      /\ due' = (IF due > 0 THEN due - 1 ELSE 0)
      /\ users' = users /\ check_buzzer
  BY DEF tic_PIT
<1>2. asleep \in [Players -> Nat \cup {None}] /\ beeping_end \in Nat \cup {None} /\ due \in Nat
      /\ SomeoneStops
  BY DEF SpeakerInv
<1>3. /\ asleep' \in [Players -> Nat \cup {None}] /\ due' \in Nat
      /\ \A p \in Players : asleep[p] # None => asleep'[p] # None
      /\ \A p \in Players : asleep'[p] > 0 => asleep[p] > 0
  <2>1. \A p \in Players : asleep[p] \in Nat \/ asleep[p] = -1
    BY <1>2 DEF None
  <2>2. \A p \in Players :
          /\ asleep'[p] \in Nat \/ asleep'[p] = -1
          /\ asleep[p] # -1 => asleep'[p] # -1
          /\ asleep'[p] > 0 => asleep[p] > 0
    BY <1>1, <2>1
  <2>3. due' \in Nat
    BY <1>1, <1>2
  <2> QED BY <1>1, <2>2, <2>3 DEF None
<1>4. /\ beeping_end' \in Nat \cup {None}
      /\ \/ beeping_end = None /\ beeping_end' = None /\ (sounding <=> sounding')
         \/ beeping_end \in {0, 1} /\ beeping_end' = None /\ ~sounding'
         \/ /\ beeping_end \in Nat /\ beeping_end > 1
            /\ beeping_end' = beeping_end - 1 /\ (sounding <=> sounding')
  <2>1. CASE beeping_end = None
    <3>1. beeping_end' = beeping_end /\ (sounding <=> sounding')
      BY <1>1, <2>1, Zenon DEF check_buzzer
    <3> QED BY <1>2, <2>1, <3>1
  <2>2. CASE beeping_end # None /\ beeping_end <= 1
    <3>1. beeping_end' = None /\ ~sounding'
      BY <1>1, <2>2, Zenon DEF check_buzzer
    <3>2. beeping_end \in {0, 1}
      BY <1>2, <2>2
    <3> QED BY <3>1, <3>2
  <2>3. CASE beeping_end # None /\ ~(beeping_end <= 1)
    <3>1. beeping_end' = beeping_end - 1 /\ (sounding <=> sounding')
      BY <1>1, <2>3, Zenon DEF check_buzzer
    <3> QED BY <1>2, <2>3, <3>1
  <2> QED BY <2>1, <2>2, <2>3
<1>6. Players' = Players /\ Typed' = Typed /\ MayKill' = MayKill
  BY <1>1 DEF Players, Typed, MayKill
<1>5. SomeoneStops'
  <2> SUFFICES ASSUME sounding', ~MayKill
               PROVE  beeping_end' # None \/ \E p \in Players : asleep'[p] # None
    BY <1>6 DEF SomeoneStops
  <2>1. sounding
    BY <1>4
  <2>2. CASE beeping_end # None
    BY <1>4, <2>2 DEF None
  <2>3. CASE \E p \in Players : asleep[p] # None
    BY <1>3, <2>3
  <2> QED BY <1>2, <2>1, <2>2, <2>3 DEF SomeoneStops
<1>7. Players = {} /\ due' > 0 => sounding' /\ beeping_end' = due'
  <2> SUFFICES ASSUME Players = {}, due' > 0 PROVE sounding' /\ beeping_end' = due'
    OBVIOUS
  <2>1. due > 1 /\ due' = due - 1
    BY <1>1, <1>2
  <2>2. sounding /\ beeping_end = due
    BY <1>2, <2>1 DEF SpeakerInv
  <2>3. beeping_end' = beeping_end - 1 /\ sounding'
    BY <1>2, <1>4, <2>1, <2>2 DEF None
  <2> QED BY <2>1, <2>2, <2>3
<1>8. Typed = {} => beeping_end' = None /\ due' = 0
  BY <1>1, <1>4 DEF SpeakerInv, None
<1>9. Typed = {} /\ (\A p, q \in Players : p = q) =>
        \A p \in Players : asleep'[p] > 0 => sounding'
  BY <1>3, <1>4 DEF SpeakerInv, None
<1> QED BY <1>3, <1>4, <1>5, <1>6, <1>7, <1>8, <1>9 DEF SpeakerInv

LEMMA EchoStep ==
  ASSUME SpeakerInv, NEW c \in Typed, echo(c)
  PROVE  SpeakerInv'
<1>1. CASE async_beep /\ UNCHANGED <<users, asleep>>
  <2>1. /\ beeping_end' = AsyncDelay /\ due' = AsyncDelay /\ sounding' = TRUE
        /\ AsyncDelay \in Nat /\ Typed # {}
    BY <1>1, SpeakerAssumption DEF async_beep, start_beep
  <2>2. AsyncDelay # None
    BY <2>1 DEF None
  <2> QED BY <1>1, <2>1, <2>2 DEF SpeakerInv, SomeoneStops, Players, Typed, MayKill
<1>2. CASE UNCHANGED <<users, sounding, beeping_end, asleep, due>>
  BY <1>2 DEF SpeakerInv, SomeoneStops, Players, Typed, MayKill
<1> QED BY <1>1, <1>2 DEF echo

LEMMA SpeakerStep == SpeakerInv /\ [SpeakerNext]_speaker_vars => SpeakerInv'
<1> SUFFICES ASSUME SpeakerInv, [SpeakerNext]_speaker_vars PROVE SpeakerInv'
  OBVIOUS
<1>1. CASE \E p \in Players, d \in Delays : beep(p, d)
  BY <1>1, BeepStep
<1>2. CASE \E p \in Players : BeepEnds(p)
  <2>1. PICK p \in Players : BeepEnds(p)
    BY <1>2
  <2>2. /\ asleep[p] = 0 /\ ~sounding' /\ asleep' = [asleep EXCEPT ![p] = None]
        /\ UNCHANGED <<users, beeping_end, due>>
    BY <2>1, Zenon DEF BeepEnds
  <2> QED BY <2>2, SleepStep
<1>3. CASE \E p \in Players : Kill(p)
  <2>1. PICK p \in Players : Kill(p)
    BY <1>3
  <2>2. /\ MayKill /\ (sounding <=> sounding') /\ asleep' = [asleep EXCEPT ![p] = None]
        /\ UNCHANGED <<users, beeping_end, due>>
    BY <2>1, Zenon DEF Kill
  <2> QED BY <2>2, SleepStep
<1>4. CASE \E c \in Typed : echo(c)
  BY <1>4, EchoStep
<1>5. CASE tic_PIT
  BY <1>5, TickStep
<1>6. CASE UNCHANGED <<users, sounding, beeping_end, asleep, due>>
  BY <1>6 DEF SpeakerInv, SomeoneStops, Players, Typed, MayKill
<1>7. CASE \E on \in BOOLEAN : cons_echo(on)
  BY <1>6, <1>7 DEF cons_echo
<1>8. CASE UNCHANGED speaker_vars
  BY <1>6, <1>8 DEF speaker_vars
<1> QED BY <1>1, <1>2, <1>3, <1>4, <1>5, <1>7, <1>8 DEF SpeakerNext

(* beep, async_beep and check_buzzer: while the speaker sounds, a player   *)
(* or the clock interrupt will silence it; and the beeps of one source are *)
(* heard until their delay has passed.                                     *)
THEOREM BeepsEndInTime == SpeakerSpec => [](SomeoneStops /\ HeardToTheEnd)
<1>1. SpeakerSpec => SpeakerInit /\ [][SpeakerNext]_speaker_vars
  BY PTL DEF SpeakerSpec
<1>2. SpeakerInit /\ [][SpeakerNext]_speaker_vars => []SpeakerInv
  BY SpeakerStart, SpeakerStep, PTL
<1>3. SpeakerInv => SomeoneStops /\ HeardToTheEnd
  BY DEF SpeakerInv, HeardToTheEnd, OneSource
<1> QED BY <1>1, <1>2, <1>3, PTL

-----------------------------------------------------------------------------
(* Readers of the console.                                                 *)

(* Sessions in which the buffer blocks no sender.  Processes that read     *)
(* characters send nothing back; a process that reads lines sends back     *)
(* what follows the first Length characters of a line, which must fit the  *)
(* buffer.  Other processes, of any priority, run beside it.               *)
ByCharacter(s) == s.calls = {"read"}
ByLine(s) ==
  /\ s.calls = {"readline"}
  /\ \E r \in s.readers : s.readers = {r}
  /\ s.line < s.length + s.buffer

Modes == {"user", "keys", "received", "unread", "empty", "full"}
Entry == [key : Nat, place : Nat, char : Nat, by : Processes]
Locals ==
  [mode : Modes, call : {"none", "read", "readline"}, msg : Nat, string : Seq(Nat),
   buf_save : Seq(Nat), msg_len : Nat, rest : Seq(Entry)]

(* While no sender is blocked. *)
Types ==
  /\ session \in Sessions
  /\ messages \in Seq(Nat) /\ empty_process \in Seq(Processes) /\ full_process = <<>>
  /\ proc \in [Processes -> Locals]
  /\ pressed \in Nat /\ accepted \in Seq(Entry)

LEMMA SessionFacts ==
  ASSUME session \in Sessions
  PROVE  /\ IsFiniteSet(Processes) /\ Idle \in Processes /\ Prio \in [Processes -> Nat]
         /\ Readers \subseteq Processes \ {Idle} /\ BUFFER_SIZE \in Nat \ {0}
         /\ Length \in Nat \ {0} /\ MaxLine \in Nat
         /\ Calls \subseteq {"read", "readline"}
         /\ \A key \in KeyStrings : key \in Seq(Nat) /\ key # <<>>
BY SessionsAssumption
   DEF SessionsAssumption, Readers, BUFFER_SIZE, Length, MaxLine, KeyStrings, Processes, Prio,
       Calls

LEMMA SessionStays ==
  ASSUME session' = session
  PROVE  /\ Processes' = Processes /\ Prio' = Prio /\ Readers' = Readers
         /\ Entry' = Entry /\ Locals' = Locals
         /\ BUFFER_SIZE' = BUFFER_SIZE /\ Length' = Length /\ MaxLine' = MaxLine
BY DEF Processes, Prio, Readers, Entry, Locals, BUFFER_SIZE, Length, MaxLine

LEMMA LocalsFields ==
  ASSUME NEW r \in Locals
  PROVE  /\ r.mode \in Modes /\ r.call \in {"none", "read", "readline"} /\ r.msg \in Nat
         /\ r.string \in Seq(Nat) /\ r.buf_save \in Seq(Nat) /\ r.msg_len \in Nat
         /\ r.rest \in Seq(Entry)
BY DEF Locals

(* The locals of a process once its loop has sent the first of rest. *)
Past(r) ==
  [r EXCEPT !.rest = Tail(@),
            !.mode = IF r.call # "none" THEN "unread"
                     ELSE IF Tail(r.rest) = <<>> THEN "user" ELSE "keys"]
Got(r, c) == [r EXCEPT !.msg = c, !.mode = "received"]
InMode(r, mode) == [r EXCEPT !.mode = mode]

LEMMA PastFields ==
  ASSUME NEW r \in Locals, r.rest # <<>>
  PROVE  /\ Past(r) \in Locals
         /\ Past(r).rest = Tail(r.rest) /\ Past(r).call = r.call
         /\ Past(r).mode = (IF r.call # "none" THEN "unread"
                            ELSE IF Tail(r.rest) = <<>> THEN "user" ELSE "keys")
<1>1. Tail(r.rest) \in Seq(Entry)
  BY DEF Locals
<1> QED BY <1>1 DEF Past, Locals, Modes

LEMMA GotFields ==
  ASSUME NEW r \in Locals, NEW c \in Nat
  PROVE  /\ Got(r, c) \in Locals
         /\ Got(r, c).mode = "received" /\ Got(r, c).msg = c /\ Got(r, c).call = r.call
         /\ Got(r, c).msg_len = r.msg_len /\ Got(r, c).buf_save = r.buf_save
BY DEF Got, Locals, Modes

LEMMA InModeFields ==
  ASSUME NEW r \in Locals, NEW mode \in Modes
  PROVE  /\ InMode(r, mode) \in Locals
         /\ InMode(r, mode).mode = mode /\ InMode(r, mode).call = r.call
         /\ InMode(r, mode).msg_len = r.msg_len /\ InMode(r, mode).buf_save = r.buf_save
BY DEF InMode, Locals

(* A mailbox in which no sender is blocked. *)
Box(ring, readers, f) ==
  [messages |-> ring, empty_process |-> readers, full_process |-> <<>>, proc |-> f]

(* Its updates. *)
Put(f, p, r) == [f EXCEPT ![p] = r]
Ring(m, ring) == [m EXCEPT !.messages = ring]
Hand(m, readers, p, c) ==
  [m EXCEPT !.empty_process = readers, !.proc[p].msg = c, !.proc[p].mode = "received"]

LEMMA BoxSet ==
  ASSUME NEW m, NEW a, NEW b, NEW f, m = Box(a, b, f), SetMailbox(m)
  PROVE  messages' = a /\ empty_process' = b /\ full_process' = <<>> /\ proc' = f
BY DEF Box, SetMailbox

LEMMA BoxRing ==
  ASSUME NEW a, NEW b, NEW f, NEW x
  PROVE  Ring(Box(a, b, f), x) = Box(x, b, f)
BY DEF Box, Ring

LEMMA BoxRest ==
  ASSUME full_process = <<>>, NEW p
  PROVE  [Mailbox EXCEPT !.proc[p].rest = Tail(@)] =
           Box(messages, empty_process,
               [proc EXCEPT ![p] = [proc[p] EXCEPT !.rest = Tail(proc[p].rest)]])
<1> DEFINE x == [proc[p] EXCEPT !.rest = Tail(proc[p].rest)]
<1>1. Mailbox = Box(messages, empty_process, proc)
  BY DEF Mailbox, Box
<1>2. [Mailbox EXCEPT !.proc[p].rest = Tail(@)] = [Mailbox EXCEPT !.proc[p] = x]
  BY DEF Mailbox
<1> HIDE DEF x
<1>3. [Box(messages, empty_process, proc) EXCEPT !.proc[p] = x] =
        Box(messages, empty_process, [proc EXCEPT ![p] = x])
  BY DEF Box
<1> QED BY <1>1, <1>2, <1>3 DEF x

LEMMA BoxGot ==
  ASSUME NEW a, NEW b, NEW f \in [Processes -> Locals], NEW p \in Processes, NEW c, NEW t
  PROVE  Hand(Box(a, b, f), t, p, c) = Box(a, t, Put(f, p, Got(f[p], c)))
<1> DEFINE g == [f EXCEPT ![p].msg = c]
<1>1. [Box(a, b, f) EXCEPT !.empty_process = t, !.proc[p].msg = c,
                              !.proc[p].mode = "received"] =
      [[[Box(a, b, f) EXCEPT !.empty_process = t] EXCEPT !.proc[p].msg = c]
         EXCEPT !.proc[p].mode = "received"]
  OBVIOUS
<1>2. [Box(a, b, f) EXCEPT !.empty_process = t] = Box(a, t, f)
  BY DEF Box
<1>5. [Box(a, t, f) EXCEPT !.proc[p].msg = c] = Box(a, t, g)
  BY DEF Box
<1>3. [Box(a, t, g) EXCEPT !.proc[p].mode = "received"] =
        Box(a, t, [g EXCEPT ![p].mode = "received"])
  BY DEF Box
<1>4. [g EXCEPT ![p].mode = "received"] = [f EXCEPT ![p] = Got(f[p], c)]
  BY DEF Got
<1> QED BY <1>1, <1>2, <1>3, <1>4, <1>5 DEF Hand, Put

LEMMA BoxSent ==
  ASSUME NEW a, NEW b, NEW f \in [Processes -> Locals], NEW p \in Processes, NEW r \in Locals,
         NEW l, l = [r EXCEPT !.rest = Tail(r.rest)], f[p] = l
  PROVE  Sent(Box(a, b, f), p) = Box(a, b, Put(f, p, Past(r)))
<1>1. f[p].call = r.call /\ f[p].rest = Tail(r.rest)
      /\ Past(r) = IF f[p].call = "none"
                   THEN [f[p] EXCEPT !.mode = IF f[p].rest = <<>> THEN "user" ELSE "keys"]
                   ELSE [f[p] EXCEPT !.mode = "unread"]
  BY DEF Past, Locals
<1>2. Sent(Box(a, b, f), p) = [Box(a, b, f) EXCEPT !.proc[p] = Past(r)]
  BY <1>1 DEF Box, Sent
<1>3. [Box(a, b, f) EXCEPT !.proc[p] = Past(r)] = Box(a, b, [f EXCEPT ![p] = Past(r)])
  BY DEF Box
<1> QED BY <1>2, <1>3 DEF Put

(* psend in the loop of p, with room in the ring: the character goes to    *)
(* the first blocked reader, or into the ring.                             *)
LEMMA SendEffect ==
  ASSUME Types, NEW p \in Processes, NEW c \in Nat,
         proc[p].rest # <<>>, Len(messages) # BUFFER_SIZE,
         empty_process # <<>> => Head(empty_process) # p,
         SetMailbox(psend([Mailbox EXCEPT !.proc[p].rest = Tail(@)], p, c))
  PROVE  /\ full_process' = <<>>
         /\ messages = <<>> /\ empty_process # <<>> =>
              LET h == Head(empty_process) IN
              /\ messages' = <<>> /\ empty_process' = Tail(empty_process)
              /\ proc' = Put(Put(proc, h, Got(proc[h], c)), p, Past(proc[p]))
         /\ ~(messages = <<>> /\ empty_process # <<>>) =>
              /\ messages' = Append(messages, c) /\ empty_process' = empty_process
              /\ proc' = Put(proc, p, Past(proc[p]))
<1> DEFINE l == [proc[p] EXCEPT !.rest = Tail(proc[p].rest)]
           f == [proc EXCEPT ![p] = l]
           m == Box(messages, empty_process, f)
<1>1. [Mailbox EXCEPT !.proc[p].rest = Tail(@)] = m
  BY BoxRest DEF Types
<1>2. SetMailbox(psend(m, p, c))
  BY <1>1
<1>3. proc \in [Processes -> Locals] /\ proc[p] \in Locals /\ l \in Locals
  <2>1. proc \in [Processes -> Locals] /\ proc[p] \in Locals
    BY DEF Types
  <2>2. Tail(proc[p].rest) \in Seq(Entry)
    BY <2>1, LocalsFields
  <2> QED BY <2>1, <2>2 DEF Locals
<1>4. f \in [Processes -> Locals] /\ f[p] = l /\ \A q \in Processes : q # p => f[q] = proc[q]
  BY <1>3
<1> HIDE DEF f, m
<1>5. CASE messages = <<>> /\ empty_process # <<>>
  <2> DEFINE h == Head(empty_process)
             g == Put(f, h, Got(f[h], c))
  <2>1. h \in Processes /\ h # p
    BY <1>5 DEF Types
  <2>2. psend(m, p, c) = Sent(Hand(m, Tail(empty_process), h, c), p)
    BY <1>5 DEF Box, psend, m, Hand
  <2> HIDE DEF h
  <2>3. psend(m, p, c) = Sent(Box(<<>>, Tail(empty_process), g), p)
    <3>1. Hand(m, Tail(empty_process), h, c) = Box(messages, Tail(empty_process), g)
      BY <1>4, <2>1, BoxGot DEF m
    <3> QED BY <1>5, <2>2, <3>1
  <2>4. g \in [Processes -> Locals] /\ g[p] = l
    <3>1. Got(f[h], c) \in Locals
      BY <1>4, <2>1, GotFields
    <3> QED BY <1>4, <2>1, <3>1 DEF Put
  <2>5. psend(m, p, c) = Box(<<>>, Tail(empty_process), Put(g, p, Past(proc[p])))
    <3> HIDE DEF g
    <3>1. Sent(Box(<<>>, Tail(empty_process), g), p) =
            Box(<<>>, Tail(empty_process), Put(g, p, Past(proc[p])))
      BY <1>3, <2>4, BoxSent
    <3> QED BY <2>3, <3>1
  <2>6. Put(g, p, Past(proc[p])) =
          Put(Put(proc, h, Got(proc[h], c)), p, Past(proc[p]))
    BY <1>3, <1>4, <2>1 DEF f, Put
  <2>7. /\ messages' = <<>> /\ empty_process' = Tail(empty_process) /\ full_process' = <<>>
        /\ proc' = Put(Put(proc, h, Got(proc[h], c)), p, Past(proc[p]))
    BY <1>2, <2>5, <2>6, BoxSet
  <2> QED BY <1>5, <2>7 DEF h
<1>6. CASE ~(messages = <<>> /\ empty_process # <<>>)
  <2>1. psend(m, p, c) = Sent(Ring(m, Append(messages, c)), p)
    BY <1>6 DEF Box, psend, m, Ring
  <2>2. psend(m, p, c) = Sent(Box(Append(messages, c), empty_process, f), p)
    <3>1. Ring(Box(messages, empty_process, f), Append(messages, c)) =
            Box(Append(messages, c), empty_process, f)
      BY BoxRing
    <3> QED BY <2>1, <3>1 DEF m
  <2>3. psend(m, p, c) =
          Box(Append(messages, c), empty_process, Put(f, p, Past(proc[p])))
    <3>1. Sent(Box(Append(messages, c), empty_process, f), p) =
            Box(Append(messages, c), empty_process, Put(f, p, Past(proc[p])))
      BY <1>3, <1>4, BoxSent
    <3> QED BY <2>2, <3>1
  <2>4. Put(f, p, Past(proc[p])) = Put(proc, p, Past(proc[p]))
    BY <1>3 DEF f, Put
  <2>5. /\ messages' = Append(messages, c) /\ empty_process' = empty_process
        /\ full_process' = <<>> /\ proc' = Put(proc, p, Past(proc[p]))
    BY <1>2, <2>3, <2>4, BoxSet
  <2> QED BY <1>6, <2>5
<1> QED BY <1>5, <1>6

(* preceive by p with the locals r: p blocks on an empty ring, and takes   *)
(* the oldest message otherwise.                                           *)
LEMMA ReceiveEffect ==
  ASSUME Types, NEW p \in Processes, NEW r \in Locals,
         SetMailbox(preceive([Mailbox EXCEPT !.proc[p] = r], p))
  PROVE  /\ full_process' = <<>>
         /\ messages = <<>> =>
              /\ messages' = <<>> /\ empty_process' = push_waiting_process(empty_process, p)
              /\ proc' = Put(proc, p, InMode(r, "empty"))
         /\ messages # <<>> =>
              /\ messages' = Tail(messages) /\ empty_process' = empty_process
              /\ proc' = Put(proc, p, Got(r, Head(messages)))
<1> DEFINE f == [proc EXCEPT ![p] = r]
           m == Box(messages, empty_process, f)
           pushed == push_waiting_process(empty_process, p)
<1>1. Mailbox = Box(messages, empty_process, proc)
  BY DEF Mailbox, Box, Types
<1>2. SetMailbox(preceive(m, p))
  BY <1>1 DEF Box
<1>3. f \in [Processes -> Locals] /\ f[p] = r
  BY DEF Types
<1> HIDE DEF f, m
<1>4. CASE messages = <<>>
  <2>1. preceive(m, p) = [m EXCEPT !.proc[p].mode = "empty", !.empty_process = pushed]
    BY <1>4 DEF Box, preceive, m
  <2>2. preceive(m, p) = [[m EXCEPT !.proc[p].mode = "empty"] EXCEPT !.empty_process = pushed]
    BY <2>1
  <2> HIDE DEF pushed
  <2>3. preceive(m, p) = Box(<<>>, pushed, [f EXCEPT ![p].mode = "empty"])
    BY <1>4, <2>2 DEF Box, m
  <2>4. [f EXCEPT ![p].mode = "empty"] = Put(proc, p, InMode(r, "empty"))
    BY <1>3 DEF f, InMode, Types, Put
  <2>5. /\ messages' = <<>> /\ empty_process' = pushed /\ full_process' = <<>>
        /\ proc' = Put(proc, p, InMode(r, "empty"))
    BY <1>2, <2>3, <2>4, BoxSet
  <2> QED BY <1>4, <2>5 DEF pushed
<1>5. CASE messages # <<>>
  <2> DEFINE h == Head(messages)
             t == Tail(messages)
  <2>1. preceive(m, p) = [m EXCEPT !.proc[p].msg = h, !.proc[p].mode = "received",
                                   !.messages = t]
    BY <1>5 DEF Box, preceive, m
  <2> HIDE DEF h, t
  <2>2. preceive(m, p) = [[[m EXCEPT !.proc[p].msg = h] EXCEPT !.proc[p].mode = "received"]
                            EXCEPT !.messages = t]
    BY <2>1
  <2> DEFINE g == [f EXCEPT ![p].msg = h]
  <2>3. [m EXCEPT !.proc[p].msg = h] = Box(messages, empty_process, g)
    BY DEF Box, m
  <2>4. [Box(messages, empty_process, g) EXCEPT !.proc[p].mode = "received"] =
          Box(messages, empty_process, [g EXCEPT ![p].mode = "received"])
    BY DEF Box
  <2>5. preceive(m, p) = Box(t, empty_process, [g EXCEPT ![p].mode = "received"])
    <3> DEFINE got == [g EXCEPT ![p].mode = "received"]
    <3>1. preceive(m, p) = Ring(Box(messages, empty_process, got), t)
      BY <2>2, <2>3, <2>4 DEF Ring
    <3> HIDE DEF got
    <3>2. preceive(m, p) = Box(t, empty_process, got)
      BY <3>1, BoxRing
    <3> QED BY <3>2 DEF got
  <2>6. [g EXCEPT ![p].mode = "received"] = Put(proc, p, Got(r, h))
    BY <1>3 DEF f, Got, Types, Put
  <2>7. /\ messages' = t /\ empty_process' = empty_process /\ full_process' = <<>>
        /\ proc' = Put(proc, p, Got(r, h))
    BY <1>2, <2>5, <2>6, BoxSet
  <2> QED BY <1>5, <2>7 DEF h, t
<1> QED BY <1>4, <1>5

(* The other updates of the locals of one process. *)
Stopped(r) == [r EXCEPT !.mode = "user", !.rest = <<>>]
Interrupted(r, rest) == [r EXCEPT !.mode = "keys", !.rest = rest]
Called(call, junk) == [AtRest EXCEPT !.call = call, !.msg = junk]

LEMMA SetEffect ==
  ASSUME Types, NEW p \in Processes, NEW r, SetMailbox([Mailbox EXCEPT !.proc[p] = r])
  PROVE  /\ UNCHANGED <<messages, empty_process, full_process>>
         /\ proc' = Put(proc, p, r)
BY DEF SetMailbox, Mailbox, Put

LEMMA StopEffect ==
  ASSUME Types, NEW p \in Processes,
         SetMailbox([Mailbox EXCEPT !.proc[p].mode = "user", !.proc[p].rest = <<>>])
  PROVE  /\ UNCHANGED <<messages, empty_process, full_process>>
         /\ proc' = Put(proc, p, Stopped(proc[p]))
<1>1. proc \in [Processes -> Locals]
  BY DEF Types
<1>2. UNCHANGED <<messages, empty_process, full_process>>
      /\ proc' = [[proc EXCEPT ![p].mode = "user"] EXCEPT ![p].rest = <<>>]
  BY DEF SetMailbox, Mailbox
<1>3. proc' = Put(proc, p, Stopped(proc[p]))
  BY <1>1, <1>2 DEF Put, Stopped
<1> QED BY <1>2, <1>3

LEMMA StoppedFields ==
  ASSUME NEW r \in Locals
  PROVE  Stopped(r) \in Locals /\ Stopped(r).mode = "user" /\ Stopped(r).call = r.call
<1>1. <<>> \in Seq(Entry)
  OBVIOUS
<1> QED BY <1>1 DEF Stopped, Locals, Modes

LEMMA InterruptedFields ==
  ASSUME NEW r \in Locals, NEW rest \in Seq(Entry)
  PROVE  /\ Interrupted(r, rest) \in Locals /\ Interrupted(r, rest).mode = "keys"
         /\ Interrupted(r, rest).call = r.call /\ Interrupted(r, rest).rest = rest
BY DEF Interrupted, Locals, Modes

LEMMA CalledFields ==
  ASSUME NEW call \in {"none", "read", "readline"}, NEW junk \in Nat
  PROVE  /\ Called(call, junk) \in Locals /\ Called(call, junk).call = call
         /\ Called(call, junk).msg_len = 0 /\ Called(call, junk).buf_save = <<>>
<1>1. <<>> \in Seq(Nat) /\ <<>> \in Seq(Entry)
  OBVIOUS
<1> QED BY <1>1 DEF Called, AtRest, Locals, Modes

LEMMA AtRestFields ==
  AtRest \in Locals /\ AtRest.mode = "user" /\ AtRest.call = "none"
<1>1. <<>> \in Seq(Nat) /\ <<>> \in Seq(Entry)
  OBVIOUS
<1> QED BY <1>1 DEF AtRest, Locals, Modes, CR

LEMMA PutFields ==
  ASSUME NEW f \in [Processes -> Locals], NEW p \in Processes, NEW r \in Locals
  PROVE  /\ Put(f, p, r) \in [Processes -> Locals] /\ Put(f, p, r)[p] = r
         /\ \A q \in Processes : q # p => Put(f, p, r)[q] = f[q]
BY DEF Put

LEMMA FirstOfRest ==
  ASSUME NEW r \in Locals, r.rest # <<>>
  PROVE  Head(r.rest) \in Entry /\ Head(r.rest).char \in Nat /\ Head(r.rest).key \in Nat
<1>1. Head(r.rest) \in Entry
  BY LocalsFields
<1> QED BY <1>1 DEF Entry

(* What PressKey and EndOfLine store. *)
LEMMA NumberedFields ==
  ASSUME Types, NEW p \in Processes, NEW key \in Seq(Nat), key # <<>>
  PROVE  /\ Numbered(p, key) \in Seq(Entry) /\ Len(Numbered(p, key)) = Len(key)
         /\ Numbered(p, key) # <<>>
         /\ \A i \in 1 .. Len(key) :
              Numbered(p, key)[i] = [key |-> pressed, place |-> i, char |-> key[i], by |-> p]
<1>1. pressed \in Nat /\ DOMAIN key = 1 .. Len(key) /\ Len(key) \in Nat
      /\ \A i \in 1 .. Len(key) : key[i] \in Nat
  BY DEF Types
<1> DEFINE n(i) == [key |-> pressed, place |-> i, char |-> key[i], by |-> p]
<1>2. Numbered(p, key) = [i \in 1 .. Len(key) |-> n(i)]
  BY <1>1 DEF Numbered
<1>3. \A i \in 1 .. Len(key) : n(i) \in Entry
  BY <1>1 DEF Entry
<1> HIDE DEF n
<1>4. Numbered(p, key) \in Seq(Entry)
  BY <1>1, <1>2, <1>3
<1>5. Len(Numbered(p, key)) = Len(key)
  BY <1>1, <1>2, <1>4
<1>6. \A i \in 1 .. Len(key) : Numbered(p, key)[i] = n(i)
  BY <1>2
<1> QED BY <1>1, <1>4, <1>5, <1>6 DEF n

-----------------------------------------------------------------------------
(* The scheduler.                                                          *)

(* active can run, and nothing of a higher priority can; no process sleeps *)
(* in keyboard_data.                                                       *)
Elected ==
  /\ sleeping \subseteq Processes
  /\ active \in CanRun(proc, sleeping)
  /\ \A q \in CanRun(proc, sleeping) : Prio[q] <= Prio[active]
  /\ \A q \in sleeping : proc[q].mode # "keys"

LEMMA TickElects ==
  ASSUME session \in Sessions, session' = session, active \in Processes,
         NEW sleepers \in SUBSET Processes, NEW f, proc' = f,
         \A q \in sleepers : f[q].mode # "keys", tick_scheduler(f, sleepers)
  PROVE  Elected'
<1>1. PICK late \in SUBSET sleepers :
        LET runnable == CanRun(f, late) \ {active}
            heads == {h \in runnable : \A p \in runnable : Prio[p] <= Prio[h]}
            runs == active \in CanRun(f, late)
        IN /\ sleeping' = late
           /\ \/ \E h \in heads : (runs => Prio[h] >= Prio[active]) /\ active' = h
              \/ runs /\ (\A p \in runnable : Prio[p] < Prio[active]) /\ active' = active
  BY DEF tick_scheduler
<1>2. Prio \in [Processes -> Nat] /\ Processes' = Processes /\ Prio' = Prio
  BY SessionFacts, SessionStays
<1>3. CanRun(proc, sleeping)' = CanRun(f, late) /\ CanRun(f, late) \subseteq Processes
  BY <1>1, <1>2 DEF CanRun
<1>4. /\ active' \in CanRun(f, late)
      /\ \A q \in CanRun(f, late) : Prio[q] <= Prio[active']
  BY <1>1, <1>2, <1>3
<1> QED BY <1>1, <1>2, <1>3, <1>4 DEF Elected

(* The end of every queue call. *)
LEMMA CallElects ==
  ASSUME session \in Sessions, session' = session, Elected, NEW m, SetMailbox(m),
         \A q \in sleeping : proc'[q].mode # "keys"
  PROVE  /\ Elected'
         /\ CanRun(proc', sleeping) = CanRun(proc, sleeping) => active' = active
<1>1. active \in Processes /\ sleeping \subseteq Processes
  BY DEF Elected, CanRun
<1> DEFINE f == m.proc
<1>2. proc' = f /\ fix_scheduler(f)
  BY DEF SetMailbox
<1> HIDE DEF f
<1>3. CASE tick_scheduler(f, sleeping) /\ (\/ active \notin CanRun(f, sleeping)
                                          \/ \E p \in CanRun(f, sleeping) : Prio[p] > Prio[active])
  <2>1. Elected'
    BY <1>1, <1>2, <1>3, TickElects
  <2>2. CanRun(f, sleeping) # CanRun(proc, sleeping)
    <3>1. Prio \in [Processes -> Nat]
      BY SessionFacts
    <3> QED BY <1>1, <1>3, <3>1 DEF Elected, CanRun
  <2> QED BY <1>2, <2>1, <2>2
<1>4. CASE /\ active' = active /\ sleeping' = sleeping /\ active \in CanRun(f, sleeping)
           /\ \A p \in CanRun(f, sleeping) : ~(Prio[p] > Prio[active])
  <2>1. Prio \in [Processes -> Nat] /\ Processes' = Processes /\ Prio' = Prio
    BY SessionFacts, SessionStays
  <2>2. CanRun(proc, sleeping)' = CanRun(f, sleeping) /\ CanRun(f, sleeping) \subseteq Processes
    BY <1>2, <1>4, <2>1 DEF CanRun
  <2>3. \A q \in CanRun(f, sleeping) : Prio[q] <= Prio[active]
    BY <1>1, <1>4, <2>1, <2>2
  <2> QED BY <1>1, <1>2, <1>4, <2>1, <2>2, <2>3 DEF Elected
<1> QED BY <1>2, <1>3, <1>4 DEF fix_scheduler

-----------------------------------------------------------------------------
(* The keys.                                                               *)

(* Characters accepted since the last Enter. *)
TypedIn(acc) ==
  LET enters == {i \in DOMAIN acc : acc[i].char = CR}
  IN IF enters = {} THEN Len(acc) ELSE Len(acc) - Max(enters)

LEMMA Greatest ==
  ASSUME NEW T \in SUBSET Nat, T # {}, NEW n \in Nat, \A m \in T : m <= n
  PROVE  Max(T) \in T /\ \A m \in T : m <= Max(T)
<1> DEFINE U == {k \in Nat : \A m \in T : m <= k}
<1>1. U \in SUBSET Nat /\ n \in U
  OBVIOUS
<1>2. PICK k \in U : \A j \in U : k <= j
  BY <1>1, LeastNat
<1>3. k \in T
  <2> SUFFICES ASSUME k \notin T PROVE FALSE
    OBVIOUS
  <2>1. PICK m \in T : TRUE
    OBVIOUS
  <2>2. m < k /\ k - 1 \in Nat
    BY <1>2, <2>1
  <2>3. \A j \in T : j <= k - 1
    BY <1>2
  <2> QED BY <1>2, <2>2, <2>3
<1>4. \E x \in T : \A y \in T : x >= y
  BY <1>2, <1>3
<1>5. Max(T) \in T /\ \A y \in T : Max(T) >= y
  BY <1>4 DEF Max
<1> QED BY <1>5

Enters(acc) == {i \in 1 .. Len(acc) : acc[i].char = CR}

LEMMA TypedValue ==
  ASSUME NEW acc \in Seq(Entry)
  PROVE  /\ TypedIn(acc) = IF Enters(acc) = {} THEN Len(acc) ELSE Len(acc) - Max(Enters(acc))
         /\ TypedIn(acc) \in Nat
<1>1. DOMAIN acc = 1 .. Len(acc) /\ Len(acc) \in Nat
  OBVIOUS
<1>2. TypedIn(acc) = IF Enters(acc) = {} THEN Len(acc) ELSE Len(acc) - Max(Enters(acc))
  BY <1>1 DEF TypedIn, Enters
<1>3. Enters(acc) \in SUBSET Nat /\ \A m \in Enters(acc) : m \in 1 .. Len(acc)
  BY <1>1 DEF Enters
<1>4. Enters(acc) # {} => Max(Enters(acc)) \in 1 .. Len(acc)
  <2> SUFFICES ASSUME Enters(acc) # {} PROVE Max(Enters(acc)) \in 1 .. Len(acc)
    OBVIOUS
  <2>1. \A m \in Enters(acc) : m <= Len(acc)
    BY <1>1, <1>3
  <2>2. Max(Enters(acc)) \in Enters(acc)
    BY <1>1, <1>3, <2>1, Greatest
  <2> QED BY <1>3, <2>2
<1> QED BY <1>1, <1>2, <1>4

LEMMA TypedMore ==
  ASSUME NEW acc \in Seq(Entry), NEW e \in Entry
  PROVE  TypedIn(Append(acc, e)) = IF e.char = CR THEN 0 ELSE TypedIn(acc) + 1
<1> DEFINE more == Append(acc, e)
<1>1. /\ more \in Seq(Entry) /\ Len(more) = Len(acc) + 1 /\ Len(acc) \in Nat
      /\ more[Len(acc) + 1] = e /\ \A i \in 1 .. Len(acc) : more[i] = acc[i]
  OBVIOUS
<1> HIDE DEF more
<1>2. TypedIn(more) = IF Enters(more) = {} THEN Len(more) ELSE Len(more) - Max(Enters(more))
  BY <1>1, TypedValue
<1>3. TypedIn(acc) = IF Enters(acc) = {} THEN Len(acc) ELSE Len(acc) - Max(Enters(acc))
  BY TypedValue
<1>4. CASE e.char = CR
  <2>1. Len(acc) + 1 \in Enters(more) /\ Enters(more) \in SUBSET Nat
        /\ \A m \in Enters(more) : m <= Len(acc) + 1
    BY <1>1, <1>4 DEF Enters
  <2>2. Max(Enters(more)) = Len(acc) + 1
    <3>1. Len(acc) + 1 \in Nat /\ Enters(more) # {}
      BY <1>1, <2>1
    <3>2. Max(Enters(more)) \in Enters(more) /\ Len(acc) + 1 <= Max(Enters(more))
      BY <2>1, <3>1, Greatest
    <3> QED BY <1>1, <2>1, <3>2
  <2> QED BY <1>1, <1>2, <1>4, <2>1, <2>2 DEF more
<1>5. CASE e.char # CR
  <2>1. Enters(more) = Enters(acc)
    <3>1. \A i \in 1 .. Len(acc) + 1 : more[i].char = CR => i \in 1 .. Len(acc)
      BY <1>1, <1>5
    <3>2. \A i \in 1 .. Len(acc) : i \in 1 .. Len(acc) + 1
      BY <1>1
    <3> QED BY <1>1, <3>1, <3>2 DEF Enters
  <2>2. Enters(acc) # {} => Max(Enters(acc)) \in Nat
    <3>1. Enters(acc) \in SUBSET Nat /\ \A m \in Enters(acc) : m <= Len(acc)
      BY DEF Enters
    <3> QED BY <1>1, <3>1, Greatest
  <2> QED BY <1>1, <1>2, <1>3, <1>5, <2>1, <2>2 DEF more
<1> QED BY <1>4, <1>5

(* Processes in keyboard_data, and what each is to pass on next. *)
Handling(f) == {p \in Processes : f[p].mode = "keys"}
Next1(f, p) == Head(f[p].rest)

(* The end of the n-th key or an earlier one, which interrupted p. *)
EndOfKey(rest, p, n) ==
  /\ rest # <<>> /\ Head(rest).key < n /\ Head(rest).place >= 1
  /\ \A i \in 1 .. Len(rest) :
       /\ rest[i].key = Head(rest).key /\ rest[i].by = p
       /\ rest[i].place = Head(rest).place + i - 1

(* e may be accepted next: what precedes it in its key has been, what      *)
(* follows it has not, and later keys interrupted others of at least the   *)
(* same priority.                                                          *)
MayFollow(e, acc) ==
  /\ \A j \in 1 .. Len(acc) :
       /\ acc[j].key = e.key => acc[j].place < e.place
       /\ acc[j].key > e.key => acc[j].by # e.by /\ Prio[acc[j].by] >= Prio[e.by]
  /\ e.place > 1 =>
       \E j \in 1 .. Len(acc) : acc[j].key = e.key /\ acc[j].place = e.place - 1

(* The keys being passed on are stacked by priority. *)
Stacked(f, acc, n) ==
  /\ \A p \in Handling(f) : EndOfKey(f[p].rest, p, n) /\ MayFollow(Next1(f, p), acc)
  /\ \A p, q \in Handling(f) : p # q => Next1(f, p).key # Next1(f, q).key
  /\ \A p, q \in Handling(f) : Next1(f, q).key < Next1(f, p).key => Prio[p] >= Prio[q]
  /\ \A j \in 1 .. Len(acc) : acc[j].key < n

(* The keys in the kernel are as they were, or given up. *)
LEMMA StackLess ==
  ASSUME NEW f, NEW acc, NEW n, Stacked(f, acc, n), NEW g, Handling(g) \subseteq Handling(f),
         \A q \in Handling(g) : g[q].rest = f[q].rest
  PROVE  Stacked(g, acc, n)
<1>1. \A q \in Handling(g) : q \in Handling(f) /\ Next1(g, q) = Next1(f, q)
  BY DEF Next1
<1> QED BY <1>1 DEF Stacked

LEMMA EntryFields ==
  ASSUME NEW e \in Entry
  PROVE  e.key \in Nat /\ e.place \in Nat /\ e.char \in Nat /\ e.by \in Processes
BY DEF Entry

LEMMA AppendFields ==
  ASSUME NEW acc \in Seq(Entry), NEW e \in Entry
  PROVE  /\ Append(acc, e) \in Seq(Entry) /\ Len(Append(acc, e)) = Len(acc) + 1
         /\ Len(acc) \in Nat /\ Append(acc, e)[Len(acc) + 1] = e
         /\ \A i \in 1 .. Len(acc) : Append(acc, e)[i] = acc[i] /\ acc[i] \in Entry
         /\ \A i \in 1 .. Len(Append(acc, e)) : i \in 1 .. Len(acc) \/ i = Len(acc) + 1
<1>1. /\ Append(acc, e) \in Seq(Entry) /\ Len(Append(acc, e)) = Len(acc) + 1
      /\ Len(acc) \in Nat /\ Append(acc, e)[Len(acc) + 1] = e
      /\ \A i \in 1 .. Len(acc) : Append(acc, e)[i] = acc[i] /\ acc[i] \in Entry
  OBVIOUS
<1>2. \A n \in Nat : \A i \in 1 .. n + 1 : i \in 1 .. n \/ i = n + 1
  OBVIOUS
<1> QED BY <1>1, <1>2

LEMMA TailFacts ==
  ASSUME NEW S, NEW s \in Seq(S), s # <<>>
  PROVE  /\ Len(s) \in Nat /\ Len(s) >= 1 /\ Head(s) = s[1] /\ Head(s) \in S
         /\ Tail(s) \in Seq(S)
         /\ Len(Tail(s)) = Len(s) - 1 /\ \A i \in 1 .. Len(Tail(s)) : Tail(s)[i] = s[i + 1]
         /\ Tail(s) # <<>> => Len(s) > 1 /\ Head(Tail(s)) = s[2]
         /\ Tail(s) = <<>> => Len(s) = 1
<1>1. Len(s) \in Nat /\ Len(s) >= 1 /\ Head(s) = s[1] /\ Head(s) \in S
  OBVIOUS
<1>2. Tail(s) \in Seq(S) /\ Len(Tail(s)) = Len(s) - 1
      /\ \A i \in 1 .. Len(s) - 1 : Tail(s)[i] = s[i + 1]
  OBVIOUS
<1> DEFINE t == Tail(s)
<1> HIDE DEF t
<1>3. t \in Seq(S) /\ Len(t) = Len(s) - 1 /\ \A i \in 1 .. Len(s) - 1 : t[i] = s[i + 1]
  BY <1>2 DEF t
<1>4. t # <<>> => Len(t) >= 1 /\ Head(t) = t[1]
  BY <1>3
<1>5. t = <<>> => Len(t) = 0
  OBVIOUS
<1>6. t # <<>> => Len(s) > 1 /\ Head(t) = s[2]
  BY <1>1, <1>3, <1>4
<1> QED BY <1>1, <1>3, <1>4, <1>5, <1>6 DEF t

(* The head of the rest of a key and what comes after it. *)
LEMMA EndOfKeyTail ==
  ASSUME NEW rest \in Seq(Entry), NEW p, NEW n \in Nat, EndOfKey(rest, p, n)
  PROVE  /\ Head(rest) \in Entry /\ Head(rest).by = p
         /\ Tail(rest) # <<>> =>
              /\ EndOfKey(Tail(rest), p, n)
              /\ Head(Tail(rest)) \in Entry /\ Head(Tail(rest)).key = Head(rest).key
              /\ Head(Tail(rest)).place = Head(rest).place + 1 /\ Head(Tail(rest)).by = p
         /\ \A i \in 1 .. Len(Tail(rest)) : Tail(rest)[i] # Head(rest)
<1> DEFINE t == Tail(rest)
           h == Head(rest)
<1>1. rest # <<>>
  BY DEF EndOfKey
<1>2. /\ Len(rest) \in Nat /\ Len(rest) >= 1 /\ h = rest[1] /\ h \in Entry
      /\ t \in Seq(Entry) /\ Len(t) = Len(rest) - 1 /\ \A i \in 1 .. Len(t) : t[i] = rest[i + 1]
      /\ t # <<>> => Len(rest) > 1 /\ Head(t) = rest[2]
  BY <1>1, TailFacts
<1>3. /\ h.key < n /\ h.place >= 1
      /\ \A i \in 1 .. Len(rest) :
           rest[i].key = h.key /\ rest[i].by = p /\ rest[i].place = h.place + i - 1
  BY DEF EndOfKey
<1>4. h.key \in Nat /\ h.place \in Nat
  BY <1>2, EntryFields
<1> HIDE DEF t, h
<1>5. h.by = p
  BY <1>2, <1>3
<1>6. ASSUME NEW i \in 1 .. Len(t)
      PROVE  t[i].key = h.key /\ t[i].by = p /\ t[i].place = h.place + 1 + i - 1 /\ t[i] # h
  <2>1. i + 1 \in 1 .. Len(rest) /\ t[i] = rest[i + 1] /\ i \in Nat /\ i >= 1
    BY <1>2
  <2>2. rest[i + 1].key = h.key /\ rest[i + 1].by = p /\ rest[i + 1].place = h.place + (i + 1) - 1
    BY <1>3, <2>1
  <2> QED BY <1>4, <2>1, <2>2
<1>7. ASSUME t # <<>>
      PROVE  /\ EndOfKey(t, p, n) /\ Head(t) \in Entry /\ Head(t).key = h.key
             /\ Head(t).place = h.place + 1 /\ Head(t).by = p
  <2>1. Head(t) = t[1] /\ 1 \in 1 .. Len(t) /\ Head(t) \in Entry
    BY <1>2, <1>7
  <2>2. Head(t).key = h.key /\ Head(t).by = p /\ Head(t).place = h.place + 1
    BY <1>4, <1>6, <2>1
  <2> QED BY <1>3, <1>4, <1>6, <1>7, <2>1, <2>2 DEF EndOfKey
<1> QED BY <1>2, <1>5, <1>6, <1>7 DEF t, h

LEMMA FollowMore ==
  ASSUME NEW acc \in Seq(Entry), NEW e \in Entry, NEW x \in Entry, MayFollow(x, acc),
         e.key # x.key, e.key > x.key => e.by # x.by /\ Prio[e.by] >= Prio[x.by]
  PROVE  MayFollow(x, Append(acc, e))
<1> DEFINE more == Append(acc, e)
<1>1. /\ Len(more) = Len(acc) + 1 /\ Len(acc) \in Nat /\ more[Len(acc) + 1] = e
      /\ \A i \in 1 .. Len(acc) : more[i] = acc[i]
      /\ \A i \in 1 .. Len(more) : i \in 1 .. Len(acc) \/ i = Len(acc) + 1
  BY AppendFields
<1> HIDE DEF more
<1>2. ASSUME NEW j \in 1 .. Len(more)
      PROVE  /\ more[j].key = x.key => more[j].place < x.place
             /\ more[j].key > x.key => more[j].by # x.by /\ Prio[more[j].by] >= Prio[x.by]
  <2>1. CASE j \in 1 .. Len(acc)
    BY <1>1, <2>1 DEF MayFollow
  <2>2. CASE j = Len(acc) + 1
    BY <1>1, <2>2
  <2> QED BY <1>1, <2>1, <2>2
<1>3. ASSUME x.place > 1
      PROVE  \E j \in 1 .. Len(more) : more[j].key = x.key /\ more[j].place = x.place - 1
  <2>1. PICK j \in 1 .. Len(acc) : acc[j].key = x.key /\ acc[j].place = x.place - 1
    BY <1>3 DEF MayFollow
  <2>2. j \in 1 .. Len(more) /\ more[j] = acc[j]
    BY <1>1
  <2> QED BY <2>1, <2>2
<1> QED BY <1>2, <1>3 DEF MayFollow, more

(* x is the character after e, which is accepted. *)
LEMMA FollowNext ==
  ASSUME NEW acc \in Seq(Entry), NEW e \in Entry, NEW x \in Entry, MayFollow(e, acc),
         x.key = e.key, x.by = e.by, x.place = e.place + 1
  PROVE  MayFollow(x, Append(acc, e))
<1> DEFINE more == Append(acc, e)
<1>1. /\ Len(more) = Len(acc) + 1 /\ Len(acc) \in Nat /\ more[Len(acc) + 1] = e
      /\ \A i \in 1 .. Len(acc) : more[i] = acc[i] /\ acc[i] \in Entry
      /\ \A i \in 1 .. Len(more) : i \in 1 .. Len(acc) \/ i = Len(acc) + 1
  BY AppendFields
<1> HIDE DEF more
<1>2. e.place \in Nat /\ e.key \in Nat
  BY EntryFields
<1>3. ASSUME NEW j \in 1 .. Len(more)
      PROVE  /\ more[j].key = x.key => more[j].place < x.place
             /\ more[j].key > x.key => more[j].by # x.by /\ Prio[more[j].by] >= Prio[x.by]
  <2>1. CASE j \in 1 .. Len(acc)
    <3>1. acc[j].place \in Nat /\ more[j] = acc[j]
      BY <1>1, <2>1, EntryFields
    <3>2. /\ acc[j].key = e.key => acc[j].place < e.place
          /\ acc[j].key > e.key => acc[j].by # e.by /\ Prio[acc[j].by] >= Prio[e.by]
      BY <2>1 DEF MayFollow
    <3> QED BY <1>2, <3>1, <3>2
  <2>2. CASE j = Len(acc) + 1
    BY <1>1, <1>2, <2>2
  <2> QED BY <1>1, <2>1, <2>2
<1>4. Len(acc) + 1 \in 1 .. Len(more) /\ more[Len(acc) + 1].key = x.key
      /\ more[Len(acc) + 1].place = x.place - 1
  BY <1>1, <1>2
<1> QED BY <1>3, <1>4 DEF MayFollow, more

(* p passes the next character of its key on. *)
LEMMA StackPassed ==
  ASSUME session \in Sessions, NEW f \in [Processes -> Locals], NEW acc \in Seq(Entry),
         NEW n \in Nat, Stacked(f, acc, n), NEW p \in Handling(f), NEW g,
         Handling(g) \subseteq Handling(f),
         \A q \in Handling(g) : q # p => g[q].rest = f[q].rest,
         p \in Handling(g) => g[p].rest = Tail(f[p].rest) /\ Tail(f[p].rest) # <<>>
  PROVE  Stacked(g, Append(acc, Next1(f, p)), n)
<1> DEFINE e == Next1(f, p)
           more == Append(acc, e)
<1>1. \A q \in Handling(f) : q \in Processes /\ f[q].rest \in Seq(Entry)
                             /\ EndOfKey(f[q].rest, q, n) /\ MayFollow(Next1(f, q), acc)
  BY LocalsFields DEF Handling, Stacked
<1>2. \A q \in Handling(f) : Next1(f, q) \in Entry /\ Next1(f, q).by = q
                             /\ Next1(f, q).key \in Nat /\ Next1(f, q).key < n
  <2> TAKE q \in Handling(f)
  <2>1. Next1(f, q) \in Entry /\ Next1(f, q).by = q
    BY <1>1, EndOfKeyTail DEF Next1
  <2> QED BY <1>1, <2>1, EntryFields DEF Next1, EndOfKey
<1>3. p \in Handling(g) =>
        /\ EndOfKey(g[p].rest, p, n) /\ Next1(g, p) \in Entry /\ Next1(g, p).key = e.key
        /\ Next1(g, p).place = e.place + 1 /\ Next1(g, p).by = p
  <2> DEFINE rest == f[p].rest
  <2>1. rest \in Seq(Entry) /\ EndOfKey(rest, p, n) /\ e = Head(rest)
    BY <1>1 DEF Next1
  <2>2. p \in Handling(g) => g[p].rest = Tail(rest) /\ Tail(rest) # <<>>
                             /\ Next1(g, p) = Head(Tail(rest))
    BY DEF Next1
  <2> HIDE DEF rest, e
  <2>3. Tail(rest) # <<>> =>
          /\ EndOfKey(Tail(rest), p, n)
          /\ Head(Tail(rest)) \in Entry /\ Head(Tail(rest)).key = Head(rest).key
          /\ Head(Tail(rest)).place = Head(rest).place + 1 /\ Head(Tail(rest)).by = p
    BY <2>1, EndOfKeyTail
  <2> QED BY <2>1, <2>2, <2>3
<1>4. \A q \in Handling(g) : q \in Handling(f) /\ (q # p => Next1(g, q) = Next1(f, q))
                             /\ Next1(g, q).key = Next1(f, q).key
  BY <1>3 DEF Next1
<1>5. e \in Entry /\ e.by = p /\ e.key < n /\ MayFollow(e, acc)
  BY <1>1, <1>2
<1> HIDE DEF e, more
<1>6. ASSUME NEW q \in Handling(g) PROVE EndOfKey(g[q].rest, q, n) /\ MayFollow(Next1(g, q), more)
  <2>1. CASE q = p
    BY <1>3, <1>5, <2>1, FollowNext DEF more
  <2>2. CASE q # p
    <3> DEFINE x == Next1(f, q)
    <3>1. x \in Entry /\ x.by = q /\ MayFollow(x, acc) /\ EndOfKey(g[q].rest, q, n)
          /\ Next1(g, q) = x
      BY <1>1, <1>2, <1>4, <2>2
    <3>2. e.key # x.key
      BY <1>4, <2>2 DEF Stacked, e
    <3>3. e.key > x.key => Prio[p] >= Prio[q]
      <4>1. e.key \in Nat /\ x.key \in Nat
        BY <1>2, <1>4 DEF e
      <4>2. x.key < e.key => Prio[p] >= Prio[q]
        BY <1>4 DEF Stacked, e
      <4> QED BY <4>1, <4>2
    <3> HIDE DEF x
    <3>4. MayFollow(x, more)
      BY <1>5, <2>2, <3>1, <3>2, <3>3, FollowMore DEF more
    <3> QED BY <3>1, <3>4
  <2> QED BY <2>1, <2>2
<1>7. \A j \in 1 .. Len(more) : more[j].key < n
  <2>1. /\ Len(acc) \in Nat /\ more[Len(acc) + 1] = e
        /\ \A i \in 1 .. Len(acc) : more[i] = acc[i]
        /\ \A i \in 1 .. Len(more) : i \in 1 .. Len(acc) \/ i = Len(acc) + 1
    BY <1>5, AppendFields DEF more
  <2> QED BY <1>5, <2>1 DEF Stacked
<1>8. \A q, r \in Handling(g) : q # r => Next1(g, q).key # Next1(g, r).key
  BY <1>4 DEF Stacked
<1>9. \A q, r \in Handling(g) : Next1(g, r).key < Next1(g, q).key => Prio[q] >= Prio[r]
  BY <1>4 DEF Stacked
<1>10. Stacked(g, more, n)
  BY <1>6, <1>7, <1>8, <1>9 DEF Stacked
<1> QED BY <1>10 DEF more, e

(* A key interrupts p, of the highest priority. *)
LEMMA StackPressed ==
  ASSUME Types, Elected, Stacked(proc, accepted, pressed), proc[active].mode = "user",
         NEW key \in Seq(Nat), key # <<>>,
         NEW g, Handling(g) = Handling(proc) \cup {active},
         \A q \in Handling(proc) : g[q].rest = proc[q].rest,
         g[active].rest = Numbered(active, key)
  PROVE  Stacked(g, accepted, pressed + 1)
<1> DEFINE p == active
           rest == Numbered(p, key)
           x == [key |-> pressed, place |-> 1, char |-> key[1], by |-> p]
<1>1. /\ session \in Sessions /\ pressed \in Nat /\ accepted \in Seq(Entry)
      /\ proc \in [Processes -> Locals] /\ p \in Processes /\ p \notin Handling(proc)
  BY DEF Types, Elected, CanRun, Handling
<1>2. /\ rest \in Seq(Entry) /\ Len(rest) = Len(key) /\ rest # <<>> /\ Len(key) \in Nat
      /\ \A i \in 1 .. Len(key) :
           rest[i] = [key |-> pressed, place |-> i, char |-> key[i], by |-> p]
  BY <1>1, NumberedFields
<1> HIDE DEF rest
<1>3. Head(rest) = x /\ Len(key) >= 1
  <2>1. Len(rest) >= 1 /\ Head(rest) = rest[1]
    BY <1>2
  <2>2. 1 \in 1 .. Len(key)
    BY <1>2, <2>1
  <2> QED BY <1>2, <2>1, <2>2
<1>4. EndOfKey(rest, p, pressed + 1)
  <2>1. \A i \in 1 .. Len(rest) : /\ rest[i].key = x.key /\ rest[i].by = p
                                  /\ rest[i].place = x.place + i - 1
    <3> TAKE i \in 1 .. Len(rest)
    <3>1. rest[i] = [key |-> pressed, place |-> i, char |-> key[i], by |-> p]
      BY <1>2
    <3>2. rest[i].key = pressed /\ rest[i].place = i /\ rest[i].by = p
      BY <3>1
    <3> QED BY <1>2, <3>2
  <2>2. x.key < pressed + 1 /\ x.place >= 1
    BY <1>1
  <2> HIDE DEF x
  <2> QED BY <1>2, <1>3, <2>1, <2>2 DEF EndOfKey
<1>5. MayFollow(x, accepted)
  <2>1. \A j \in 1 .. Len(accepted) : accepted[j].key < pressed /\ accepted[j].key \in Nat
    BY <1>1, EntryFields DEF Stacked
  <2> QED BY <1>1, <2>1 DEF MayFollow
<1>6. Next1(g, p) = x /\ Next1(g, p).key = pressed
  BY <1>3 DEF Next1, rest
<1> HIDE DEF x
<1>7. \A q \in Handling(proc) : /\ Next1(g, q) = Next1(proc, q) /\ q # p
                                /\ EndOfKey(proc[q].rest, q, pressed)
                                /\ MayFollow(Next1(proc, q), accepted)
                                /\ Next1(g, q).key < pressed /\ Next1(g, q).key \in Nat
                                /\ EndOfKey(g[q].rest, q, pressed + 1)
  <2> TAKE q \in Handling(proc)
  <2>1. q \in Processes /\ proc[q].rest \in Seq(Entry) /\ EndOfKey(proc[q].rest, q, pressed)
        /\ MayFollow(Next1(proc, q), accepted) /\ g[q].rest = proc[q].rest
    BY <1>1, LocalsFields DEF Handling, Stacked
  <2>2. Head(proc[q].rest) \in Entry /\ Head(proc[q].rest).key < pressed
    BY <1>1, <2>1, EndOfKeyTail DEF EndOfKey
  <2>3. Head(proc[q].rest).key \in Nat
    BY <2>2, EntryFields
  <2> QED BY <1>1, <2>1, <2>2, <2>3 DEF Next1, EndOfKey
<1>8. \A q \in Handling(proc) : Prio[p] >= Prio[q]
  <2> TAKE q \in Handling(proc)
  <2>1. q \in CanRun(proc, sleeping)
    BY DEF Handling, CanRun, Elected
  <2>2. Prio[q] <= Prio[p] /\ Prio[q] \in Nat /\ Prio[p] \in Nat
    BY <1>1, <2>1, SessionFacts DEF Elected, CanRun
  <2> QED BY <2>2
<1>9. Prio[p] >= Prio[p]
  BY <1>1, SessionFacts
<1>10. \A q \in Handling(g) : q = p \/ q \in Handling(proc)
  OBVIOUS
<1>11. \A q \in Handling(g) : EndOfKey(g[q].rest, q, pressed + 1)
                              /\ MayFollow(Next1(g, q), accepted)
  <2> TAKE q \in Handling(g)
  <2>1. CASE q = p
    BY <1>4, <1>5, <1>6, <2>1 DEF rest
  <2>2. CASE q \in Handling(proc)
    BY <1>7, <2>2
  <2> QED BY <1>10, <2>1, <2>2
<1> HIDE DEF p
<1>12. \A q, r \in Handling(g) : q # r => Next1(g, q).key # Next1(g, r).key
  BY <1>1, <1>6, <1>7, <1>10 DEF Stacked
<1>13. \A q, r \in Handling(g) : Next1(g, r).key < Next1(g, q).key => Prio[q] >= Prio[r]
  BY <1>1, <1>6, <1>7, <1>8, <1>9, <1>10 DEF Stacked
<1>14. \A j \in 1 .. Len(accepted) : accepted[j].key < pressed + 1
  <2> TAKE j \in 1 .. Len(accepted)
  <2>1. accepted[j].key < pressed /\ accepted[j].key \in Nat
    BY <1>1, EntryFields DEF Stacked
  <2> QED BY <1>1, <2>1
<1> QED BY <1>11, <1>12, <1>13, <1>14 DEF Stacked

LEMMA OrderMore ==
  ASSUME session' = session, accepted \in Seq(Entry), KeysInOrder, OvertakenByHigher,
         NEW e \in Entry, MayFollow(e, accepted), accepted' = Append(accepted, e)
  PROVE  KeysInOrder' /\ OvertakenByHigher'
<1> DEFINE n == Len(accepted)
<1>1. /\ Len(accepted') = n + 1 /\ n \in Nat /\ accepted'[n + 1] = e
      /\ \A i \in 1 .. n : accepted'[i] = accepted[i]
      /\ \A i \in 1 .. Len(accepted') : i \in 1 .. n \/ i = n + 1
      /\ accepted' \in Seq(Entry)
  BY AppendFields
<1>2. DOMAIN accepted = 1 .. n /\ DOMAIN accepted' = 1 .. Len(accepted')
  BY <1>1
<1>3. Prio' = Prio
  BY SessionStays
<1> HIDE DEF n
<1>4. \A j \in 1 .. n : \A i \in 1 .. j - 1 : i \in 1 .. n
  BY <1>1
<1>5. ASSUME NEW j \in 1 .. Len(accepted')
      PROVE  /\ \A i \in 1 .. j - 1 :
                  /\ accepted'[i].key = accepted'[j].key => accepted'[i].place < accepted'[j].place
                  /\ accepted'[i].key > accepted'[j].key =>
                       /\ accepted'[i].by # accepted'[j].by
                       /\ Prio[accepted'[i].by] >= Prio[accepted'[j].by]
             /\ accepted'[j].place > 1 =>
                  \E i \in 1 .. j - 1 : /\ accepted'[i].key = accepted'[j].key
                                        /\ accepted'[i].place = accepted'[j].place - 1
  <2>1. CASE j \in 1 .. n
    <3>1. accepted'[j] = accepted[j] /\ \A i \in 1 .. j - 1 : accepted'[i] = accepted[i]
      BY <1>1, <1>4, <2>1
    <3> QED BY <1>2, <2>1, <3>1 DEF KeysInOrder, OvertakenByHigher
  <2>2. CASE j = n + 1
    <3>1. accepted'[j] = e /\ j - 1 = n /\ \A i \in 1 .. j - 1 : accepted'[i] = accepted[i]
      BY <1>1, <2>2
    <3> QED BY <3>1 DEF MayFollow, n
  <2> QED BY <1>1, <2>1, <2>2
<1>6. KeysInOrder'
  BY <1>2, <1>5 DEF KeysInOrder
<1>7. OvertakenByHigher'
  BY <1>2, <1>3, <1>5 DEF OvertakenByHigher
<1> QED BY <1>6, <1>7

(* The characters on their way, besides Enter, and those of the line they  *)
(* go into.                                                                *)
WaitingIn(f) ==
  {c \in Entry : c.char # CR /\ \E p \in Handling(f) : \E i \in 1 .. Len(f[p].rest) :
                                  c = f[p].rest[i]}
Loaded(f, acc) ==
  IsFiniteSet(WaitingIn(f)) /\ TypedIn(acc) + Cardinality(WaitingIn(f)) <= MaxLine

LEMMA WaitingHere ==
  ASSUME Types
  PROVE  Waiting = WaitingIn(proc)
<1>1. \A p \in Handling(proc) : proc[p].rest \in Seq(Entry)
  BY LocalsFields DEF Types, Handling
<1>2. \A p \in Handling(proc) :
        Range(proc[p].rest) = {c \in Entry : \E i \in 1 .. Len(proc[p].rest) : c = proc[p].rest[i]}
  <2> TAKE p \in Handling(proc)
  <2>1. DOMAIN proc[p].rest = 1 .. Len(proc[p].rest)
        /\ \A i \in 1 .. Len(proc[p].rest) : proc[p].rest[i] \in Entry
    BY <1>1
  <2> QED BY <2>1 DEF Range
<1>3. Waiting = {c \in UNION {Range(proc[p].rest) : p \in Handling(proc)} : c.char # CR}
  BY DEF Waiting, Handling
<1> QED BY <1>2, <1>3 DEF WaitingIn

LEMMA LoadLess ==
  ASSUME session \in Sessions, NEW f, NEW acc \in Seq(Entry), Loaded(f, acc), NEW g,
         Handling(g) \subseteq Handling(f), \A q \in Handling(g) : g[q].rest = f[q].rest
  PROVE  Loaded(g, acc)
<1>1. WaitingIn(g) \subseteq WaitingIn(f)
  BY DEF WaitingIn
<1>2. /\ IsFiniteSet(WaitingIn(g)) /\ Cardinality(WaitingIn(g)) <= Cardinality(WaitingIn(f))
      /\ Cardinality(WaitingIn(g)) \in Nat /\ Cardinality(WaitingIn(f)) \in Nat
  BY <1>1, FS_Subset, FS_CardinalityType DEF Loaded
<1>3. TypedIn(acc) \in Nat /\ MaxLine \in Nat
  BY TypedValue, SessionFacts
<1> QED BY <1>2, <1>3 DEF Loaded

LEMMA LoadPassed ==
  ASSUME session \in Sessions, NEW f \in [Processes -> Locals], NEW acc \in Seq(Entry),
         NEW n \in Nat, Stacked(f, acc, n), Loaded(f, acc), NEW p \in Handling(f), NEW g,
         Handling(g) \subseteq Handling(f),
         \A q \in Handling(g) : q # p => g[q].rest = f[q].rest,
         p \in Handling(g) => g[p].rest = Tail(f[p].rest) /\ Tail(f[p].rest) # <<>>
  PROVE  /\ Loaded(g, Append(acc, Next1(f, p)))
         /\ Next1(f, p).char # CR => TypedIn(acc) + 1 <= MaxLine
<1> DEFINE e == Next1(f, p)
           S == WaitingIn(f)
           T == WaitingIn(g)
           k == TypedIn(acc)
<1>1. \A q \in Handling(f) : q \in Processes /\ f[q].rest \in Seq(Entry)
                             /\ EndOfKey(f[q].rest, q, n)
  BY LocalsFields DEF Handling, Stacked
<1>2. f[p].rest # <<>> /\ e = f[p].rest[1] /\ Len(f[p].rest) \in Nat /\ Len(f[p].rest) >= 1
      /\ e \in Entry /\ e.by = p
      /\ Len(Tail(f[p].rest)) = Len(f[p].rest) - 1
      /\ (\A i \in 1 .. Len(Tail(f[p].rest)) : /\ Tail(f[p].rest)[i] = f[p].rest[i + 1]
                                              /\ Tail(f[p].rest)[i] # e)
  <2> DEFINE rest == f[p].rest
  <2>1. rest \in Seq(Entry) /\ EndOfKey(rest, p, n) /\ rest # <<>> /\ e = Head(rest)
    BY <1>1 DEF EndOfKey, Next1
  <2> HIDE DEF rest, e
  <2>2. /\ Len(rest) \in Nat /\ Len(rest) >= 1 /\ Head(rest) = rest[1]
        /\ Len(Tail(rest)) = Len(rest) - 1
        /\ \A i \in 1 .. Len(Tail(rest)) : Tail(rest)[i] = rest[i + 1]
    BY <2>1, TailFacts
  <2>3. /\ Head(rest) \in Entry /\ Head(rest).by = p
        /\ \A i \in 1 .. Len(Tail(rest)) : Tail(rest)[i] # Head(rest)
    BY <2>1, EndOfKeyTail
  <2>4. /\ rest # <<>> /\ e = rest[1] /\ Len(rest) \in Nat /\ Len(rest) >= 1
        /\ e \in Entry /\ e.by = p /\ Len(Tail(rest)) = Len(rest) - 1
        /\ \A i \in 1 .. Len(Tail(rest)) : Tail(rest)[i] = rest[i + 1] /\ Tail(rest)[i] # e
    BY <2>1, <2>2, <2>3
  <2> QED BY <2>4 DEF rest
<1> HIDE DEF e
<1>3. T \subseteq S
  <2> SUFFICES ASSUME NEW c \in T PROVE c \in S
    OBVIOUS
  <2>1. PICK q \in Handling(g) : \E i \in 1 .. Len(g[q].rest) : c = g[q].rest[i]
    BY DEF WaitingIn
  <2>2. PICK i \in 1 .. Len(g[q].rest) : c = g[q].rest[i]
    BY <2>1
  <2>3. CASE q = p
    <3>1. i \in 1 .. Len(Tail(f[p].rest)) /\ c = Tail(f[p].rest)[i]
      BY <2>2, <2>3
    <3>2. c = f[p].rest[i + 1]
      BY <1>2, <3>1
    <3>3. i + 1 \in 1 .. Len(f[p].rest)
      BY <1>2, <3>1
    <3> QED BY <3>2, <3>3 DEF WaitingIn
  <2>4. CASE q # p
    <3>1. q \in Handling(f) /\ c = f[q].rest[i] /\ i \in 1 .. Len(f[q].rest)
      BY <2>2, <2>4
    <3> QED BY <3>1 DEF WaitingIn
  <2> QED BY <2>3, <2>4
<1>4. e \notin T
  <2> SUFFICES ASSUME e \in T PROVE FALSE
    OBVIOUS
  <2>1. PICK q \in Handling(g) : \E i \in 1 .. Len(g[q].rest) : e = g[q].rest[i]
    BY DEF WaitingIn
  <2>2. PICK i \in 1 .. Len(g[q].rest) : e = g[q].rest[i]
    BY <2>1
  <2>3. CASE q = p
    BY <1>2, <2>2, <2>3
  <2>4. CASE q # p
    <3>1. q \in Handling(f) /\ e = f[q].rest[i] /\ i \in 1 .. Len(f[q].rest)
      BY <2>2, <2>4
    <3>2. f[q].rest[i].by = q
      BY <1>1, <3>1 DEF EndOfKey
    <3> QED BY <1>2, <2>4, <3>1, <3>2
  <2> QED BY <2>3, <2>4
<1>5. e.char # CR => e \in S
  BY <1>2 DEF WaitingIn
<1>6. IsFiniteSet(S) /\ k + Cardinality(S) <= MaxLine
  BY DEF Loaded
<1>7. k \in Nat /\ MaxLine \in Nat /\ TypedIn(Append(acc, e)) = (IF e.char = CR THEN 0 ELSE k + 1)
  BY <1>2, TypedValue, TypedMore, SessionFacts
<1> HIDE DEF S, T, k
<1>8. /\ IsFiniteSet(T) /\ Cardinality(T) <= Cardinality(S)
      /\ Cardinality(T) \in Nat /\ Cardinality(S) \in Nat
  BY <1>3, <1>6, FS_Subset, FS_CardinalityType
<1>9. ASSUME e \in S PROVE Cardinality(T) <= Cardinality(S) - 1
  <2>1. IsFiniteSet(S \ {e}) /\ Cardinality(S \ {e}) = Cardinality(S) - 1 /\ T \in SUBSET (S \ {e})
    BY <1>3, <1>4, <1>6, <1>9, FS_RemoveElement
  <2>2. Cardinality(T) <= Cardinality(S \ {e})
    BY <2>1, FS_Subset
  <2> QED BY <2>1, <2>2
<1>10. IsFiniteSet(T) /\ TypedIn(Append(acc, e)) + Cardinality(T) <= MaxLine
       /\ (e.char # CR => k + 1 <= MaxLine)
  BY <1>5, <1>6, <1>7, <1>8, <1>9
<1> QED BY <1>10 DEF Loaded, e, S, T, k

LEMMA RangeCount ==
  ASSUME NEW s \in Seq(Entry), NEW R, R = {s[i] : i \in 1 .. Len(s)}
  PROVE  IsFiniteSet(R) /\ Cardinality(R) <= Len(s) /\ Cardinality(R) \in Nat
<1>1. Len(s) \in Nat /\ s \in [1 .. Len(s) -> R] /\ \A t \in R : \E i \in 1 .. Len(s) : s[i] = t
  OBVIOUS
<1>2. s \in Surjection(1 .. Len(s), R)
  BY <1>1 DEF Surjection
<1>3. IsFiniteSet(1 .. Len(s)) /\ Cardinality(1 .. Len(s)) = Len(s)
  BY <1>1, FS_Interval
<1>4. IsFiniteSet(R) /\ Cardinality(R) <= Cardinality(1 .. Len(s))
  BY <1>2, <1>3, FS_Surjection
<1> QED BY <1>3, <1>4, FS_CardinalityType

LEMMA LoadPressed ==
  ASSUME Types, Loaded(proc, accepted), NEW p \in Processes, NEW key \in Seq(Nat), key # <<>>,
         key = <<CR>> \/ TypedSinceEnter + Cardinality(Waiting) + Len(key) <= MaxLine,
         NEW g, Handling(g) = Handling(proc) \cup {p}, p \notin Handling(proc),
         \A q \in Handling(proc) : g[q].rest = proc[q].rest, g[p].rest = Numbered(p, key)
  PROVE  Loaded(g, accepted)
<1> DEFINE rest == Numbered(p, key)
           S == WaitingIn(proc)
           T == WaitingIn(g)
           R == {rest[i] : i \in 1 .. Len(rest)}
           k == TypedIn(accepted)
<1>1. /\ rest \in Seq(Entry) /\ Len(rest) = Len(key) /\ Len(key) \in Nat
      /\ \A i \in 1 .. Len(key) :
           rest[i] = [key |-> pressed, place |-> i, char |-> key[i], by |-> p]
  BY NumberedFields
<1>2. k \in Nat /\ MaxLine \in Nat /\ k = TypedSinceEnter /\ S = Waiting
  <2>1. accepted \in Seq(Entry) /\ session \in Sessions
    BY DEF Types
  <2> QED BY <2>1, TypedValue, SessionFacts, WaitingHere DEF TypedIn, TypedSinceEnter
<1>3. IsFiniteSet(S) /\ k + Cardinality(S) <= MaxLine
  BY DEF Loaded
<1> HIDE DEF rest
<1>4. T \subseteq S \cup R
  <2> SUFFICES ASSUME NEW c \in T PROVE c \in S \cup R
    OBVIOUS
  <2>1. PICK q \in Handling(g) : \E i \in 1 .. Len(g[q].rest) : c = g[q].rest[i]
    BY DEF WaitingIn
  <2>2. CASE q = p
    BY <2>1, <2>2 DEF rest
  <2>3. CASE q # p
    BY <2>1, <2>3 DEF WaitingIn
  <2> QED BY <2>2, <2>3
<1>5. IsFiniteSet(R) /\ Cardinality(R) <= Len(key) /\ Cardinality(R) \in Nat
  <2> HIDE DEF R
  <2> QED BY <1>1, RangeCount DEF R
<1>6. key = <<CR>> => T \subseteq S
  <2> SUFFICES ASSUME key = <<CR>>, NEW c \in T PROVE c \in S
    OBVIOUS
  <2>1. \A i \in 1 .. Len(rest) : rest[i].char = CR
    BY <1>1
  <2>2. c \notin R
    BY <2>1 DEF WaitingIn
  <2> QED BY <1>4, <2>2
<1> HIDE DEF S, T, R, k
<1>7. Cardinality(S) \in Nat
  BY <1>3, FS_CardinalityType
<1>8. CASE T \subseteq S
  <2>1. IsFiniteSet(T) /\ Cardinality(T) <= Cardinality(S)
    BY <1>3, <1>8, FS_Subset
  <2>2. Cardinality(T) \in Nat
    BY <2>1, FS_CardinalityType
  <2> QED BY <1>2, <1>3, <1>7, <2>1, <2>2 DEF Loaded, T, k
<1>9. CASE k + Cardinality(S) + Len(key) <= MaxLine
  <2>1. IsFiniteSet(S \cup R)
        /\ Cardinality(S \cup R) = Cardinality(S) + Cardinality(R) - Cardinality(S \cap R)
    BY <1>3, <1>5, FS_Union
  <2>2. IsFiniteSet(S \cap R) /\ Cardinality(S \cap R) \in Nat
    <3>1. S \cap R \in SUBSET S
      OBVIOUS
    <3>2. IsFiniteSet(S \cap R)
      BY <1>3, <3>1, FS_Subset
    <3> QED BY <3>2, FS_CardinalityType
  <2>3. IsFiniteSet(T) /\ Cardinality(T) <= Cardinality(S \cup R)
    BY <1>4, <2>1, FS_Subset
  <2>4. Cardinality(T) \in Nat
    BY <2>3, FS_CardinalityType
  <2> QED BY <1>1, <1>2, <1>5, <1>7, <1>9, <2>1, <2>2, <2>3, <2>4 DEF Loaded, T, k
<1> QED BY <1>2, <1>6, <1>8, <1>9

LEMMA FrontOfSeq ==
  ASSUME NEW s \in Seq(Nat)
  PROVE  Front(s) \in Seq(Nat)
<1>1. CASE s = <<>>
  <2>1. Front(s) = [i \in 1 .. -1 |-> s[i]]
    BY <1>1 DEF Front
  <2> QED BY <2>1
<1>2. CASE s # <<>>
  BY <1>2 DEF Front
<1> QED BY <1>1, <1>2

(* The three branches of Edit. *)
Erased(r) ==
  [r EXCEPT
     !.buf_save = IF r.msg_len > Length THEN Append(@, DEL) ELSE @,
     !.string = IF r.msg_len <= Length /\ r.msg_len > 0 THEN Front(@) ELSE @,
     !.msg_len = IF @ > 0 THEN @ - 1 ELSE 0]
Saved(r) == [r EXCEPT !.buf_save = Append(@, r.msg), !.msg_len = @ + 1]
Stored(r) == [r EXCEPT !.string = Append(@, r.msg), !.msg_len = @ + 1]

LEMMA EditBranches ==
  ASSUME NEW r
  PROVE  Edit(r) = IF r.msg = DEL THEN Erased(r)
                   ELSE IF r.msg_len >= Length THEN Saved(r) ELSE Stored(r)
BY DEF Edit, Erased, Saved, Stored

LEMMA SavedFields ==
  ASSUME NEW r \in Locals
  PROVE  /\ Saved(r) \in Locals /\ Saved(r).call = r.call
         /\ Saved(r).buf_save = Append(r.buf_save, r.msg) /\ Saved(r).msg_len = r.msg_len + 1
         /\ Stored(r) \in Locals /\ Stored(r).call = r.call
         /\ Stored(r).buf_save = r.buf_save /\ Stored(r).msg_len = r.msg_len + 1
<1>1. Append(r.buf_save, r.msg) \in Seq(Nat) /\ Append(r.string, r.msg) \in Seq(Nat)
      /\ r.msg_len + 1 \in Nat
  BY LocalsFields
<1>2. /\ Saved(r) \in Locals /\ Saved(r).call = r.call
      /\ Saved(r).buf_save = Append(r.buf_save, r.msg) /\ Saved(r).msg_len = r.msg_len + 1
  BY <1>1 DEF Saved, Locals
<1>3. /\ Stored(r) \in Locals /\ Stored(r).call = r.call
      /\ Stored(r).buf_save = r.buf_save /\ Stored(r).msg_len = r.msg_len + 1
  BY <1>1 DEF Stored, Locals
<1> QED BY <1>2, <1>3

LEMMA ErasedFields ==
  ASSUME session \in Sessions, NEW r \in Locals
  PROVE  /\ Erased(r) \in Locals /\ Erased(r).call = r.call
         /\ Erased(r).buf_save = IF r.msg_len > Length THEN Append(r.buf_save, DEL)
                                 ELSE r.buf_save
         /\ Erased(r).msg_len <= r.msg_len
<1> DEFINE b == IF r.msg_len > Length THEN Append(r.buf_save, DEL) ELSE r.buf_save
           l == IF r.msg_len <= Length /\ r.msg_len > 0 THEN Front(r.string) ELSE r.string
           n == IF r.msg_len > 0 THEN r.msg_len - 1 ELSE 0
<1>1. Erased(r) = [r EXCEPT !.buf_save = b, !.string = l, !.msg_len = n]
  BY DEF Erased
<1>2. b \in Seq(Nat)
  BY LocalsFields DEF DEL
<1>3. l \in Seq(Nat)
  BY LocalsFields, FrontOfSeq
<1>4. n \in Nat /\ n <= r.msg_len
  BY LocalsFields
<1> HIDE DEF b, l, n
<1>5. Erased(r) \in Locals /\ Erased(r).call = r.call /\ Erased(r).buf_save = b
      /\ Erased(r).msg_len = n
  BY <1>1, <1>2, <1>3, <1>4 DEF Locals
<1> QED BY <1>4, <1>5 DEF b

LEMMA EditLocals ==
  ASSUME session \in Sessions, NEW r \in Locals
  PROVE  Edit(r) \in Locals
BY EditBranches, ErasedFields, SavedFields

-----------------------------------------------------------------------------
(* What every step does to the keys.                                       *)

(* No sender is blocked, nor will be. *)
Settled ==
  /\ Types
  /\ \A p \in Processes :
       /\ proc[p].mode # "full"
       /\ proc[p].mode = "keys" => proc[p].call = "none"
       /\ proc[p].mode = "unread" =>
            proc[p].call # "none" /\ (proc[p].rest # <<>> => Len(messages) # BUFFER_SIZE)
  /\ empty_process # <<>> => proc[Head(empty_process)].mode = "empty"

KeyInv ==
  /\ Elected
  /\ Stacked(proc, accepted, pressed) /\ Loaded(proc, accepted)
  /\ KeysInOrder /\ OvertakenByHigher

(* g has no keys besides those of f. *)
NoNewKeys(f, g) ==
  Handling(g) \subseteq Handling(f) /\ \A q \in Handling(g) : g[q].rest = f[q].rest

LEMMA StacksPrimed ==
  ASSUME session' = session
  PROVE  /\ Stacked(proc, accepted, pressed)' <=> Stacked(proc', accepted', pressed')
         /\ Loaded(proc, accepted)' <=> Loaded(proc', accepted')
<1>1. Processes' = Processes /\ Prio' = Prio /\ Entry' = Entry /\ MaxLine' = MaxLine
  BY SessionStays
<1>2. Handling(proc)' = Handling(proc')
  BY <1>1 DEF Handling
<1>3. \A e, acc : MayFollow(e, acc)' <=> MayFollow(e, acc)
  BY <1>1 DEF MayFollow
<1>4. WaitingIn(proc)' = WaitingIn(proc')
  BY <1>1, <1>2 DEF WaitingIn
<1>5. Stacked(proc, accepted, pressed)' <=> Stacked(proc', accepted', pressed')
  BY <1>1, <1>2, <1>3 DEF Stacked, Next1, EndOfKey
<1>6. Loaded(proc, accepted)' <=> Loaded(proc', accepted')
  BY <1>1, <1>4 DEF Loaded, TypedIn
<1> QED BY <1>5, <1>6

LEMMA KeyOthers ==
  ASSUME Settled, KeyInv, NoNewKeys(proc, proc'), Elected',
         session' = session, pressed' = pressed, accepted' = accepted
  PROVE  KeyInv'
<1>1. session \in Sessions /\ accepted \in Seq(Entry)
  BY DEF Settled, Types
<1>2. Stacked(proc', accepted, pressed) /\ Loaded(proc', accepted)
  BY <1>1, StackLess, LoadLess DEF KeyInv, NoNewKeys
<1>3. KeysInOrder' /\ OvertakenByHigher'
  BY SessionStays DEF KeyInv, KeysInOrder, OvertakenByHigher
<1> QED BY <1>2, <1>3, StacksPrimed DEF KeyInv

LEMMA KeyCalls ==
  ASSUME Settled, KeyInv, NoNewKeys(proc, proc'), NEW m, SetMailbox(m),
         session' = session, pressed' = pressed, accepted' = accepted
  PROVE  KeyInv'
<1>1. session \in Sessions /\ sleeping \subseteq Processes
      /\ \A q \in sleeping : proc[q].mode # "keys"
  BY DEF Settled, Types, KeyInv, Elected
<1>2. \A q \in sleeping : proc'[q].mode # "keys"
  BY <1>1 DEF NoNewKeys, Handling
<1>3. Elected'
  BY <1>1, <1>2, CallElects DEF KeyInv
<1> QED BY <1>3, KeyOthers

LEMMA NoKeysPut ==
  ASSUME NEW f \in [Processes -> Locals], NEW p \in Processes, NEW s \in Locals,
         s.mode # "keys"
  PROVE  NoNewKeys(f, Put(f, p, s))
<1>1. \A q \in Processes : Put(f, p, s)[q] = IF q = p THEN s ELSE f[q]
  BY PutFields
<1> QED BY <1>1 DEF NoNewKeys, Handling

LEMMA KeyReceives ==
  ASSUME Settled, KeyInv, NEW p \in Processes, NEW r \in Locals,
         SetMailbox(preceive([Mailbox EXCEPT !.proc[p] = r], p)),
         UNCHANGED <<session, pressed, accepted>>
  PROVE  KeyInv'
<1>1. Types /\ proc \in [Processes -> Locals] /\ messages \in Seq(Nat)
  BY DEF Settled, Types
<1>2. NoNewKeys(proc, proc')
  <2>1. CASE messages = <<>>
    <3>1. proc' = Put(proc, p, InMode(r, "empty"))
      BY <1>1, <2>1, ReceiveEffect
    <3>2. InMode(r, "empty") \in Locals /\ InMode(r, "empty").mode = "empty"
      BY InModeFields DEF Modes
    <3> QED BY <1>1, <3>1, <3>2, NoKeysPut
  <2>2. CASE messages # <<>>
    <3>1. proc' = Put(proc, p, Got(r, Head(messages))) /\ Head(messages) \in Nat
      BY <1>1, <2>2, ReceiveEffect
    <3>2. Got(r, Head(messages)) \in Locals /\ Got(r, Head(messages)).mode = "received"
      BY <3>1, GotFields
    <3> QED BY <1>1, <3>1, <3>2, NoKeysPut
  <2> QED BY <2>1, <2>2
<1> QED BY <1>2, KeyCalls

LEMMA KeyReturns ==
  ASSUME Settled, KeyInv, NEW p \in Processes, NEW result, Return(Mailbox, p, result)
  PROVE  KeyInv'
<1>1. Types /\ proc \in [Processes -> Locals]
  BY DEF Settled, Types
<1>2. SetMailbox([Mailbox EXCEPT !.proc[p] = AtRest]) /\ UNCHANGED <<session, pressed, accepted>>
  BY DEF Return
<1>3. proc' = Put(proc, p, AtRest)
  BY <1>1, <1>2, SetEffect
<1>4. NoNewKeys(proc, proc')
  BY <1>1, <1>3, NoKeysPut, AtRestFields
<1> QED BY <1>2, <1>4, KeyCalls

LEMMA KeySendBack ==
  ASSUME Settled, KeyInv, NEW p \in Processes, SendBack(p)
  PROVE  KeyInv'
<1>1. Types /\ proc \in [Processes -> Locals] /\ proc[p] \in Locals /\ proc[p].mode = "unread"
  BY DEF Settled, Types, SendBack
<1>2. CASE proc[p].rest = <<>>
  BY <1>2, KeyReturns DEF SendBack
<1>3. CASE proc[p].rest # <<>>
  <2> DEFINE c == Head(proc[p].rest).char
             s == Past(proc[p])
             h == Head(empty_process)
             g == Got(proc[h], c)
  <2>1. SetMailbox(psend([Mailbox EXCEPT !.proc[p].rest = Tail(@)], p, c))
        /\ UNCHANGED <<session, pressed, accepted>>
    BY <1>3 DEF SendBack
  <2>2. c \in Nat /\ s \in Locals /\ s.mode = "unread"
    BY <1>1, <1>3, FirstOfRest, PastFields DEF Settled
  <2>3. Len(messages) # BUFFER_SIZE /\ (empty_process # <<>> => h # p)
    BY <1>1, <1>3 DEF Settled
  <2>4. NoNewKeys(proc, proc')
    <3>1. CASE messages = <<>> /\ empty_process # <<>>
      <4>1. proc' = Put(Put(proc, h, g), p, s)
        BY <1>1, <1>3, <2>1, <2>2, <2>3, <3>1, SendEffect
      <4>2. h \in Processes
        BY <1>1, <3>1 DEF Types
      <4> HIDE DEF c, h
      <4>3. g \in Locals /\ g.mode = "received"
        BY <1>1, <2>2, <4>2, GotFields
      <4> HIDE DEF g, s
      <4>4. Put(proc, h, g) \in [Processes -> Locals] /\ NoNewKeys(proc, Put(proc, h, g))
        BY <1>1, <4>2, <4>3, PutFields, NoKeysPut
      <4>5. NoNewKeys(Put(proc, h, g), proc')
        BY <2>2, <4>1, <4>4, NoKeysPut
      <4> QED BY <4>4, <4>5 DEF NoNewKeys
    <3>2. CASE ~(messages = <<>> /\ empty_process # <<>>)
      <4>1. proc' = Put(proc, p, s)
        BY <1>1, <1>3, <2>1, <2>2, <2>3, <3>2, SendEffect
      <4> HIDE DEF s
      <4> QED BY <1>1, <2>2, <4>1, NoKeysPut
    <3> QED BY <3>1, <3>2
  <2> QED BY <2>1, <2>4, KeyCalls
<1> QED BY <1>2, <1>3

LEMMA KeyEndOfLine ==
  ASSUME Settled, KeyInv, NEW p \in Processes, EndOfLine(p)
  PROVE  KeyInv'
<1>1. CASE Return(Mailbox, p, proc[p].string)
  BY <1>1, KeyReturns
<1>2. CASE /\ SetMailbox(preset([Mailbox EXCEPT
                !.proc[p].mode = "unread",
                !.proc[p].rest = Numbered(p, Append(proc[p].buf_save, CR))]))
           /\ UNCHANGED <<session, pressed, accepted>>
  <2> DEFINE rest == Numbered(p, Append(proc[p].buf_save, CR))
             m == [Mailbox EXCEPT !.proc[p].mode = "unread", !.proc[p].rest = rest]
             f == m.proc
             woken == [q \in Processes |->
                         CASE f[q].mode = "empty" -> [f[q] EXCEPT !.mode = "received"]
                           [] f[q].mode = "full" -> Sent(m, q).proc[q]
                           [] OTHER -> f[q]]
  <2>1. proc \in [Processes -> Locals] /\ \A q \in Processes : proc[q].mode # "full"
    BY DEF Settled, Types
  <2> HIDE DEF rest
  <2>2. f = [[proc EXCEPT ![p].mode = "unread"] EXCEPT ![p].rest = rest]
    BY DEF Mailbox
  <2>3. f[p].mode = "unread" /\ \A q \in Processes : q # p => f[q] = proc[q]
    <3> DEFINE x == [proc EXCEPT ![p].mode = "unread"]
    <3>1. x[p].mode = "unread" /\ \A q \in Processes : q # p => x[q] = proc[q]
      BY <2>1 DEF Locals
    <3>2. f = [q \in Processes |-> IF q = p THEN [x[p] EXCEPT !.rest = rest] ELSE x[q]]
      BY <2>1, <2>2
    <3> HIDE DEF x, f
    <3>3. f[p] = [x[p] EXCEPT !.rest = rest] /\ \A q \in Processes : q # p => f[q] = x[q]
      BY <3>2
    <3>4. [x[p] EXCEPT !.rest = rest].mode = x[p].mode
      OBVIOUS
    <3> QED BY <3>1, <3>3, <3>4
  <2>4. proc' = woken
    <3> DEFINE failed == [m EXCEPT !.messages = <<>>, !.empty_process = <<>>, !.full_process = <<>>]
    <3>1. SetMailbox(preset(m))
      BY <1>2 DEF rest
    <3>2. "proc" \in DOMAIN failed
      BY DEF Mailbox
    <3> HIDE DEF m
    <3>3. preset(m) = [failed EXCEPT !.proc = woken]
      BY DEF preset
    <3> HIDE DEF woken, failed
    <3> QED BY <3>1, <3>2, <3>3 DEF SetMailbox
  <2> HIDE DEF m, f
  <2>8. \A q \in Processes : f[q].mode # "full"
    BY <2>1, <2>3
  <2>5. \A q \in Processes : proc'[q] = IF f[q].mode = "empty"
                                        THEN [f[q] EXCEPT !.mode = "received"] ELSE f[q]
    BY <2>4, <2>8
  <2>6. \A q \in Processes : proc'[q].mode = "keys" => proc'[q] = proc[q]
    <3> TAKE q \in Processes
    <3>1. CASE f[q].mode = "empty"
      <4>1. q # p /\ f[q] \in Locals
        BY <2>1, <2>3, <3>1
      <4>2. proc'[q].mode = "received"
        BY <2>5, <3>1, <4>1 DEF Locals
      <4> QED BY <4>2
    <3>2. CASE f[q].mode # "empty"
      BY <2>3, <2>5, <3>2
    <3> QED BY <3>1, <3>2
  <2>7. NoNewKeys(proc, proc')
    BY <2>6 DEF NoNewKeys, Handling
  <2> QED BY <1>2, <2>7, KeyCalls
<1> QED BY <1>1, <1>2 DEF EndOfLine

(* One turn of keyboard_data, and the room there is for the character. *)
LEMMA KeyPasses ==
  ASSUME Settled, KeyInv, NEW p \in Processes, keyboard_data(p)
  PROVE  /\ KeyInv'
         /\ proc[p].rest # <<>>
         /\ Head(proc[p].rest).char # CR => TypedIn(accepted) + 1 <= MaxLine
<1> DEFINE e == Next1(proc, p)
           s == Past(proc[p])
           h == Head(empty_process)
           g == Got(proc[h], e.char)
<1>1. Types /\ proc \in [Processes -> Locals] /\ proc[p] \in Locals /\ accepted \in Seq(Entry)
      /\ pressed \in Nat /\ session \in Sessions /\ messages \in Seq(Nat)
      /\ sleeping \subseteq Processes /\ \A q \in sleeping : proc[q].mode # "keys"
  BY DEF Settled, Types, KeyInv, Elected
<1>2. proc[p].mode = "keys" /\ session' = session /\ pressed' = pressed /\ p \in Handling(proc)
      /\ proc[p].call = "none"
  BY DEF keyboard_data, Handling, Settled
<1>3. proc[p].rest # <<>> /\ MayFollow(e, accepted)
  BY <1>2 DEF KeyInv, Stacked, EndOfKey
<1>4. e \in Entry /\ e.char \in Nat /\ s \in Locals /\ s.rest = Tail(proc[p].rest)
      /\ (s.mode = IF Tail(proc[p].rest) = <<>> THEN "user" ELSE "keys")
  BY <1>1, <1>2, <1>3, FirstOfRest, PastFields DEF Next1
<1>5. e.char # CR => TypedIn(accepted) + 1 <= MaxLine
  <2>1. NoNewKeys(proc, Put(proc, p, AtRest)) /\ p \notin Handling(Put(proc, p, AtRest))
    BY <1>1, NoKeysPut, AtRestFields, PutFields DEF Handling
  <2> QED BY <1>1, <1>2, <2>1, LoadPassed DEF KeyInv, NoNewKeys
<1>6. CASE pcount(Mailbox) = BUFFER_SIZE
  <2>1. accepted' = accepted
        /\ SetMailbox([Mailbox EXCEPT !.proc[p].mode = "user", !.proc[p].rest = <<>>])
    BY <1>6 DEF keyboard_data
  <2>2. proc' = Put(proc, p, Stopped(proc[p]))
    BY <1>1, <2>1, StopEffect
  <2>3. NoNewKeys(proc, proc')
    BY <1>1, <2>2, StoppedFields, NoKeysPut
  <2>4. KeyInv'
    BY <1>2, <2>1, <2>3, KeyCalls
  <2> QED BY <1>3, <1>5, <2>4 DEF Next1
<1>7. CASE pcount(Mailbox) # BUFFER_SIZE
  <2>1. /\ accepted' = Append(accepted, e)
        /\ SetMailbox(psend([Mailbox EXCEPT !.proc[p].rest = Tail(@)], p, e.char))
    BY <1>7 DEF keyboard_data, Next1
  <2>2. Len(messages) # BUFFER_SIZE
    <3>1. messages = <<>> => Len(messages) = 0
      OBVIOUS
    <3>2. full_process = <<>>
      BY <1>1 DEF Types
    <3> QED BY <1>1, <1>7, <3>1, <3>2, SessionFacts DEF pcount, Mailbox
  <2>3. empty_process # <<>> => h # p /\ h \in Processes
    BY <1>1, <1>2 DEF Settled, Types
  <2>4. PICK f \in [Processes -> Locals] : NoNewKeys(proc, f) /\ proc' = Put(f, p, s)
    <3>1. CASE messages = <<>> /\ empty_process # <<>>
      <4>1. proc' = Put(Put(proc, h, g), p, s)
        BY <1>1, <1>3, <1>4, <2>1, <2>2, <2>3, <3>1, SendEffect
      <4>0. h \in Processes /\ e.char \in Nat
        BY <1>4, <2>3, <3>1
      <4> HIDE DEF e, h
      <4>4. proc[h] \in Locals
        BY <1>1, <4>0
      <4>2. g \in Locals /\ g.mode = "received"
        BY <4>0, <4>4, GotFields
      <4> HIDE DEF g, s
      <4>3. Put(proc, h, g) \in [Processes -> Locals] /\ NoNewKeys(proc, Put(proc, h, g))
        BY <1>1, <4>0, <4>2, PutFields, NoKeysPut
      <4> QED BY <4>1, <4>3
    <3>2. CASE ~(messages = <<>> /\ empty_process # <<>>)
      <4>1. proc' = Put(proc, p, s)
        BY <1>1, <1>3, <1>4, <2>1, <2>2, <2>3, <3>2, SendEffect
      <4> QED BY <1>1, <4>1 DEF NoNewKeys
    <3> QED BY <3>1, <3>2
  <2>5. proc'[p] = s /\ \A q \in Processes : q # p => proc'[q] = f[q]
    BY <1>4, <2>4, PutFields
  <2> HIDE DEF e, s
  <2>6. /\ Handling(proc') \subseteq Handling(proc)
        /\ \A q \in Handling(proc') : q # p => proc'[q].rest = proc[q].rest
        /\ p \in Handling(proc') => proc'[p].rest = Tail(proc[p].rest) /\ Tail(proc[p].rest) # <<>>
    BY <1>2, <1>4, <2>4, <2>5 DEF Handling, NoNewKeys
  <2>7. Elected'
    <3>1. \A q \in sleeping : proc'[q].mode # "keys"
      BY <1>1, <2>6 DEF Handling
    <3> QED BY <1>1, <1>2, <2>1, <3>1, CallElects DEF KeyInv
  <2>8. Stacked(proc', accepted', pressed') /\ Loaded(proc', accepted')
    BY <1>1, <1>2, <2>1, <2>6, StackPassed, LoadPassed DEF KeyInv, e
  <2>9. KeysInOrder' /\ OvertakenByHigher'
    BY <1>1, <1>2, <1>3, <1>4, <2>1, OrderMore DEF KeyInv
  <2>10. KeyInv'
    BY <1>2, <2>7, <2>8, <2>9, StacksPrimed DEF KeyInv
  <2> QED BY <1>3, <1>5, <2>10 DEF Next1, e
<1> QED BY <1>6, <1>7

LEMMA KeyPressed ==
  ASSUME Settled, KeyInv, NEW p \in Processes, NEW key \in KeyStrings, PressKey(p, key)
  PROVE  KeyInv'
<1>1. Types /\ proc \in [Processes -> Locals] /\ proc[p] \in Locals /\ session \in Sessions
      /\ key \in Seq(Nat) /\ key # <<>> /\ accepted \in Seq(Entry)
  BY SessionFacts DEF Settled, Types
<1>2. /\ active = p /\ proc[p].mode = "user" /\ p \notin Handling(proc)
      /\ key = <<CR>> \/ TypedSinceEnter + Cardinality(Waiting) + Len(key) <= MaxLine
      /\ proc' = [proc EXCEPT ![p].mode = "keys", ![p].rest = Numbered(p, key)]
      /\ pressed' = pressed + 1 /\ session' = session /\ accepted' = accepted
      /\ active' = active /\ sleeping' = sleeping
  BY DEF PressKey, Handling
<1> DEFINE s == Interrupted(proc[p], Numbered(p, key))
<1>3. s \in Locals /\ s.mode = "keys" /\ s.rest = Numbered(p, key)
  BY <1>1, NumberedFields, InterruptedFields
<1>4. proc' = Put(proc, p, s)
  BY <1>1, <1>2 DEF Put, Interrupted
<1> HIDE DEF s
<1>5. proc'[p] = s /\ \A q \in Processes : q # p => proc'[q] = proc[q]
  BY <1>1, <1>3, <1>4, PutFields
<1>6. /\ Handling(proc') = Handling(proc) \cup {p}
      /\ \A q \in Handling(proc) : proc'[q].rest = proc[q].rest
      /\ proc'[p].rest = Numbered(p, key)
  BY <1>2, <1>3, <1>5 DEF Handling
<1>7. Stacked(proc', accepted', pressed')
  BY <1>1, <1>2, <1>6, StackPressed DEF KeyInv
<1>8. Loaded(proc', accepted')
  BY <1>1, <1>2, <1>6, LoadPressed DEF KeyInv
<1>9. Elected'
  <2>1. Processes' = Processes /\ Prio' = Prio
    BY <1>2, SessionStays
  <2>2. p \notin sleeping
    BY <1>2 DEF KeyInv, Elected, CanRun
  <2>3. \A q \in Processes : q \in sleeping => proc'[q].mode # "keys"
    BY <1>5, <2>2 DEF KeyInv, Elected
  <2>4. \A q \in Processes : proc'[q].mode \in {"empty", "full"} <=> proc[q].mode \in {"empty", "full"}
    BY <1>2, <1>3, <1>5
  <2>5. CanRun(proc, sleeping)' = CanRun(proc, sleeping)
    BY <1>2, <2>1, <2>4 DEF CanRun
  <2> QED BY <1>2, <2>1, <2>3, <2>5 DEF KeyInv, Elected
<1>10. KeysInOrder' /\ OvertakenByHigher'
  BY <1>2, SessionStays DEF KeyInv, KeysInOrder, OvertakenByHigher
<1> QED BY <1>2, <1>7, <1>8, <1>9, <1>10, StacksPrimed DEF KeyInv

LEMMA KeyTicks ==
  ASSUME Settled, KeyInv, NEW sleepers \in SUBSET Processes, tick_scheduler(proc, sleepers),
         \A q \in sleepers : proc[q].mode # "keys",
         UNCHANGED <<session, proc, pressed, accepted>>
  PROVE  KeyInv'
<1>1. session \in Sessions /\ active \in Processes
  BY DEF Settled, Types, KeyInv, Elected, CanRun
<1>2. Elected'
  BY <1>1, TickElects
<1>3. NoNewKeys(proc, proc')
  BY DEF NoNewKeys
<1> QED BY <1>2, <1>3, KeyOthers

LEMMA KeyStep ==
  ASSUME Settled, KeyInv, InputNext
  PROVE  KeyInv'
<1>1. session \in Sessions /\ proc \in [Processes -> Locals] /\ Readers \subseteq Processes
      /\ sleeping \subseteq Processes /\ \A q \in sleeping : proc[q].mode # "keys"
  BY SessionFacts DEF Settled, Types, KeyInv, Elected
<1>2. ASSUME NEW p \in Processes, Kernel(p) PROVE KeyInv'
  <2>1. CASE keyboard_data(p)
    BY <2>1, KeyPasses
  <2>2. CASE cons_read(p)
    BY <2>2, KeyReturns DEF cons_read
  <2>3. CASE cons_readline(p)
    <3>1. Edit(proc[p]) \in Locals
      BY <1>1, EditLocals
    <3> QED BY <2>3, <3>1, KeyReceives DEF cons_readline
  <2> QED BY <1>2, <2>1, <2>2, <2>3, KeyEndOfLine, KeySendBack DEF Kernel
<1>3. ASSUME NEW p \in Readers, NEW call \in Calls, Call(p, call)
      PROVE  KeyInv'
  <2>1. PICK junk \in Junk :
          SetMailbox(preceive([Mailbox EXCEPT
            !.proc[p] = [AtRest EXCEPT !.call = call, !.msg = junk]], p))
    BY <1>3 DEF Call
  <2>2. Called(call, junk) \in Locals
    <3>1. call \in {"none", "read", "readline"} /\ junk \in Nat
      BY <1>1, <1>3, <2>1, SessionFacts, SessionsAssumption DEF SessionsAssumption
    <3> QED BY <3>1, CalledFields
  <2> QED BY <1>1, <1>3, <2>1, <2>2, KeyReceives DEF Call, Called
<1>4. ASSUME NEW p \in Processes, wait_clock(p) PROVE KeyInv'
  <2>1. proc[p].mode = "user" /\ tick_scheduler(proc, sleeping \cup {p})
        /\ UNCHANGED <<session, proc, pressed, accepted>>
    BY <1>4 DEF wait_clock
  <2> QED BY <1>1, <2>1, KeyTicks
<1>5. CASE ClockTick
  BY <1>1, <1>5, KeyTicks DEF ClockTick
<1> QED BY <1>2, <1>3, <1>4, <1>5, KeyPressed DEF InputNext

(* Reading characters.                                                     *)

In(f, mode) == {p \in Processes : f[p].mode = mode}

(* Where a process that reads characters can be. *)
CharLocals(r) ==
  \/ r.mode = "user" /\ r.call = "none"
  \/ r.mode = "keys" /\ r.call = "none" /\ r.rest # <<>>
  \/ r.mode \in {"received", "empty"} /\ r.call = "read"

CharInv ==
  /\ Types /\ returned \in Seq(Nat)
  /\ IsListOf(empty_process, In(proc, "empty"))
  /\ \A p \in Processes : CharLocals(proc[p])
  /\ Len(accepted) = Len(returned) + Len(messages) + Cardinality(In(proc, "received"))

LEMMA InPut ==
  ASSUME NEW f \in [Processes -> Locals], NEW p \in Processes, NEW r \in Locals, NEW mode
  PROVE  In(Put(f, p, r), mode) =
           IF r.mode = mode THEN In(f, mode) \cup {p} ELSE In(f, mode) \ {p}
BY PutFields DEF In

LEMMA InCount ==
  ASSUME session \in Sessions, NEW f \in [Processes -> Locals], NEW p \in Processes,
         NEW r \in Locals
  PROVE  LET n == Cardinality(In(f, "received"))
             k == Cardinality(In(Put(f, p, r), "received"))
         IN /\ n \in Nat /\ k \in Nat
            /\ f[p].mode # "received" /\ r.mode # "received" => k = n
            /\ f[p].mode # "received" /\ r.mode = "received" => k = n + 1
            /\ f[p].mode = "received" /\ r.mode # "received" => k = n - 1
<1> DEFINE S == In(f, "received")
           T == In(Put(f, p, r), "received")
<1>1. IsFiniteSet(Processes)
  BY SessionFacts
<1>2. S \subseteq Processes /\ T \subseteq Processes
  BY DEF In
<1>3. IsFiniteSet(S) /\ IsFiniteSet(T) /\ Cardinality(S) \in Nat /\ Cardinality(T) \in Nat
  BY <1>1, <1>2, FS_Subset, FS_CardinalityType
<1>4. T = IF r.mode = "received" THEN S \cup {p} ELSE S \ {p}
  BY InPut
<1>5. p \in S <=> f[p].mode = "received"
  BY DEF In
<1> HIDE DEF S, T
<1>6. CASE f[p].mode # "received" /\ r.mode # "received"
  <2>1. T = S
    BY <1>4, <1>5, <1>6
  <2> QED BY <1>3, <1>6, <2>1 DEF S, T
<1>7. CASE f[p].mode # "received" /\ r.mode = "received"
  <2>1. T = S \cup {p} /\ p \notin S
    BY <1>4, <1>5, <1>7
  <2>2. Cardinality(T) = Cardinality(S) + 1
    BY <1>3, <2>1, FS_AddElement
  <2> QED BY <1>3, <1>7, <2>2 DEF S, T
<1>8. CASE f[p].mode = "received" /\ r.mode # "received"
  <2>1. T = S \ {p} /\ p \in S
    BY <1>4, <1>5, <1>8
  <2>2. Cardinality(T) = Cardinality(S) - 1
    BY <1>3, <2>1, FS_RemoveElement
  <2> QED BY <1>3, <1>8, <2>2 DEF S, T
<1>9. CASE f[p].mode = "received" /\ r.mode = "received"
  BY <1>3, <1>9 DEF S, T
<1> QED BY <1>6, <1>7, <1>8, <1>9

LEMMA InStays ==
  ASSUME session' = session
  PROVE  \A mode : In(proc, mode)' = In(proc', mode)
BY SessionStays DEF In

LEMMA InStep ==
  ASSUME session' = session, proc \in [Processes -> Locals], NEW p \in Processes,
         NEW r \in Locals, proc' = Put(proc, p, r), NEW mode
  PROVE  In(proc, mode)' = IF r.mode = mode THEN In(proc, mode) \cup {p}
                           ELSE IF proc[p].mode = mode THEN In(proc, mode) \ {p}
                           ELSE In(proc, mode)
<1>1. In(proc, mode)' = In(Put(proc, p, r), mode)
  BY InStays
<1>2. proc[p].mode # mode => In(proc, mode) \ {p} = In(proc, mode)
  BY DEF In
<1>3. In(Put(proc, p, r), mode) =
        IF r.mode = mode THEN In(proc, mode) \cup {p} ELSE In(proc, mode) \ {p}
  BY InPut
<1> QED BY <1>1, <1>2, <1>3

LEMMA CharPut ==
  ASSUME NEW f \in [Processes -> Locals], \A q \in Processes : CharLocals(f[q]),
         NEW p \in Processes, NEW r \in Locals, CharLocals(r)
  PROVE  \A q \in Processes : CharLocals(Put(f, p, r)[q])
<1> TAKE q \in Processes
<1>1. Put(f, p, r)[q] = IF q = p THEN r ELSE f[q]
  BY PutFields
<1> QED BY <1>1

(* A step of p outside preceive and what follows it. *)
LEMMA CharElsewhere ==
  ASSUME CharInv, NEW p \in Processes, NEW r \in Locals, CharLocals(r),
         {proc[p].mode, r.mode} \cap {"empty", "received"} = {},
         proc' = Put(proc, p, r), pressed' \in Nat,
         UNCHANGED <<session, messages, empty_process, full_process, accepted, returned>>
  PROVE  CharInv'
<1>1. proc \in [Processes -> Locals] /\ session \in Sessions
  BY DEF CharInv, Types
<1>2. proc' \in [Processes -> Locals] /\ Processes' = Processes
  BY <1>1, PutFields, SessionStays
<1>3. In(proc, "empty")' = In(proc, "empty")
  BY <1>1, InStep
<1>4. Cardinality(In(proc, "received")') = Cardinality(In(proc, "received"))
  BY <1>1, InCount, InStays
<1>5. \A q \in Processes : CharLocals(proc'[q])
  BY <1>1, CharPut DEF CharInv
<1>6. Types'
  BY <1>2, SessionStays DEF CharInv, Types
<1> QED BY <1>2, <1>3, <1>4, <1>5, <1>6 DEF CharInv

LEMMA CharReceives ==
  ASSUME CharInv, NEW p \in Processes, NEW r \in Locals, r.call = "read",
         proc[p].mode = "user", SetMailbox(preceive([Mailbox EXCEPT !.proc[p] = r], p)),
         UNCHANGED <<session, pressed, accepted, returned>>
  PROVE  CharInv'
<1>1. Types /\ proc \in [Processes -> Locals] /\ session \in Sessions /\ proc[p].mode = "user"
      /\ messages \in Seq(Nat) /\ empty_process \in Seq(Processes)
      /\ Cardinality(In(proc, "received")) \in Nat
  BY InCount DEF CharInv, Types
<1>2. CASE messages = <<>>
  <2> DEFINE s == InMode(r, "empty")
  <2>1. /\ messages' = <<>> /\ empty_process' = push_waiting_process(empty_process, p)
        /\ proc' = Put(proc, p, s) /\ full_process' = <<>>
    BY <1>1, <1>2, ReceiveEffect
  <2>2. s \in Locals /\ s.mode = "empty" /\ s.call = "read"
    BY InModeFields DEF Modes
  <2> HIDE DEF s
  <2>3. p \notin In(proc, "empty")
    BY <1>1 DEF In
  <2>4. In(proc, "empty")' = In(proc, "empty") \cup {p}
    BY <1>1, <2>1, <2>2, InStep
  <2>5. /\ empty_process' \in Seq(Processes)
        /\ IsListOf(empty_process', In(proc, "empty") \cup {p})
    BY <1>1, <2>1, <2>3, InsertList, PrioSlotRange DEF CharInv, push_waiting_process
  <2>6. Cardinality(In(proc, "received")') = Cardinality(In(proc, "received"))
    BY <1>1, <2>1, <2>2, InCount, InStays
  <2>7. proc' \in [Processes -> Locals] /\ \A q \in Processes : CharLocals(proc'[q])
    <3>1. CharLocals(s)
      BY <2>2 DEF CharLocals
    <3> QED BY <1>1, <2>1, <2>2, <3>1, PutFields, CharPut DEF CharInv
  <2>8. Types'
    BY <1>1, <2>1, <2>5, <2>7, SessionStays DEF Types
  <2> QED BY <1>1, <1>2, <2>1, <2>4, <2>5, <2>6, <2>7, <2>8, SessionStays, InStays DEF CharInv
<1>3. CASE messages # <<>>
  <2> DEFINE s == Got(r, Head(messages))
  <2>1. /\ messages' = Tail(messages) /\ empty_process' = empty_process
        /\ proc' = Put(proc, p, s) /\ full_process' = <<>>
    BY <1>1, <1>3, ReceiveEffect
  <2>2. Head(messages) \in Nat /\ Tail(messages) \in Seq(Nat)
        /\ Len(Tail(messages)) = Len(messages) - 1 /\ Len(messages) \in Nat
    BY <1>1, <1>3
  <2>3. s \in Locals /\ s.mode = "received" /\ s.call = "read"
    BY <2>2, GotFields
  <2> HIDE DEF s
  <2>4. In(proc, "empty")' = In(proc, "empty")
    BY <1>1, <2>1, <2>3, InStep
  <2>5. Cardinality(In(proc, "received")') = Cardinality(In(proc, "received")) + 1
    BY <1>1, <2>1, <2>3, InCount, InStays
  <2>6. proc' \in [Processes -> Locals] /\ \A q \in Processes : CharLocals(proc'[q])
    <3>1. CharLocals(s)
      BY <2>3 DEF CharLocals
    <3> QED BY <1>1, <2>1, <2>3, <3>1, PutFields, CharPut DEF CharInv
  <2>7. Types'
    BY <1>1, <2>1, <2>2, <2>6, SessionStays DEF Types
  <2>8. Len(accepted) = Len(returned) + Len(messages) + Cardinality(In(proc, "received"))
        /\ Len(returned) \in Nat
    BY DEF CharInv
  <2>9. Len(accepted') = Len(returned') + Len(messages') + Cardinality(In(proc, "received")')
    BY <1>1, <2>1, <2>2, <2>5, <2>8
  <2> QED BY <1>1, <2>1, <2>4, <2>6, <2>7, <2>9, SessionStays, InStays DEF CharInv
<1> QED BY <1>2, <1>3

LEMMA CharHandsOver ==
  ASSUME session \in Sessions, NEW f \in [Processes -> Locals],
         \A q \in Processes : CharLocals(f[q]),
         NEW p \in Processes, f[p].mode = "keys", NEW h \in Processes, f[h].mode = "empty",
         NEW g \in Locals, g.mode = "received", CharLocals(g),
         NEW s \in Locals, s.mode \in {"user", "keys"}, CharLocals(s)
  PROVE  LET e == Put(Put(f, h, g), p, s) IN
         /\ e \in [Processes -> Locals] /\ \A q \in Processes : CharLocals(e[q])
         /\ In(e, "empty") = In(f, "empty") \ {h}
         /\ Cardinality(In(e, "received")) = Cardinality(In(f, "received")) + 1
<1> DEFINE d == Put(f, h, g)
           e == Put(d, p, s)
<1>1. d \in [Processes -> Locals] /\ \A q \in Processes : CharLocals(d[q])
  BY PutFields, CharPut
<1>2. d[p] = f[p] /\ d[p].mode = "keys"
  <2>1. h # p
    OBVIOUS
  <2> QED BY <2>1 DEF Put
<1>3. In(d, "empty") = In(f, "empty") \ {h}
  BY InPut
<1>4. Cardinality(In(d, "received")) = Cardinality(In(f, "received")) + 1
  BY InCount
<1> HIDE DEF d
<1>5. e \in [Processes -> Locals] /\ \A q \in Processes : CharLocals(e[q])
  BY <1>1, PutFields, CharPut
<1>6. In(e, "empty") = In(d, "empty") \ {p}
  BY <1>1, InPut
<1>7. p \notin In(f, "empty")
  BY DEF In
<1>8. Cardinality(In(e, "received")) = Cardinality(In(d, "received"))
  BY <1>1, <1>2, InCount
<1> HIDE DEF e
<1>9. In(e, "empty") = In(f, "empty") \ {h}
  BY <1>3, <1>6, <1>7
<1>10. Cardinality(In(e, "received")) = Cardinality(In(f, "received")) + 1
  BY <1>4, <1>8
<1> QED BY <1>5, <1>9, <1>10 DEF d, e

LEMMA CharSends ==
  ASSUME CharInv, NEW p \in Processes, proc[p].mode = "keys", pcount(Mailbox) # BUFFER_SIZE,
         SetMailbox(psend([Mailbox EXCEPT !.proc[p].rest = Tail(@)],
                          p, Head(proc[p].rest).char)),
         accepted' = Append(accepted, Head(proc[p].rest)),
         UNCHANGED <<session, pressed, returned>>
  PROVE  CharInv'
<1> DEFINE c == Head(proc[p].rest).char
           s == Past(proc[p])
<1>1. Types /\ proc \in [Processes -> Locals] /\ session \in Sessions
      /\ messages \in Seq(Nat) /\ empty_process \in Seq(Processes) /\ proc[p] \in Locals
      /\ accepted \in Seq(Entry) /\ returned \in Seq(Nat)
      /\ Cardinality(In(proc, "received")) \in Nat /\ IsListOf(empty_process, In(proc, "empty"))
      /\ session' = session
  BY InCount DEF CharInv, Types
<1>2. proc[p].call = "none" /\ proc[p].rest # <<>>
  BY DEF CharInv, CharLocals
<1>3. Head(proc[p].rest) \in Entry /\ c \in Nat
  BY <1>1, <1>2, FirstOfRest
<1>4. s \in Locals /\ s.mode \in {"user", "keys"} /\ CharLocals(s)
  BY <1>1, <1>2, PastFields DEF CharLocals
<1>5. Len(messages) # BUFFER_SIZE
  BY <1>1, SessionFacts DEF pcount, Mailbox, Types
<1>6. empty_process # <<>> => Head(empty_process) \in In(proc, "empty")
                              /\ Head(empty_process) \in Processes
                              /\ Head(empty_process) # p
  <2> SUFFICES ASSUME empty_process # <<>>
               PROVE  Head(empty_process) \in In(proc, "empty")
                      /\ Head(empty_process) \in Processes /\ Head(empty_process) # p
    OBVIOUS
  <2>1. Head(empty_process) \in In(proc, "empty") /\ Head(empty_process) \in Processes
    BY <1>1, TailList
  <2> QED BY <2>1 DEF In
<1>7. Len(accepted') = Len(accepted) + 1 /\ accepted' \in Seq(Entry)
  BY <1>1, <1>3
<1>8. Len(accepted) = Len(returned) + Len(messages) + Cardinality(In(proc, "received"))
      /\ Len(returned) \in Nat /\ Len(messages) \in Nat
  BY <1>1 DEF CharInv
<1>9. full_process' = <<>>
  BY <1>1, <1>2, <1>3, <1>5, <1>6, SendEffect
<1>10. CASE messages = <<>> /\ empty_process # <<>>
  <2> DEFINE h == Head(empty_process)
             g == Got(proc[h], c)
             f == Put(proc, h, g)
  <2>1. messages' = <<>> /\ empty_process' = Tail(empty_process) /\ proc' = Put(f, p, s)
    BY <1>1, <1>2, <1>3, <1>5, <1>6, <1>10, SendEffect
  <2>2. h \in Processes /\ h # p /\ proc[h] \in Locals /\ proc[h].mode = "empty"
    BY <1>1, <1>6, <1>10 DEF In
  <2>3. proc[h].call = "read"
    BY <2>2 DEF CharInv, CharLocals
  <2>4. g \in Locals /\ g.mode = "received" /\ CharLocals(g)
    BY <1>3, <2>2, <2>3, GotFields DEF CharLocals
  <2> HIDE DEF g, s, h
  <2>9. /\ proc' \in [Processes -> Locals] /\ \A q \in Processes : CharLocals(proc'[q])
        /\ In(proc', "empty") = In(proc, "empty") \ {h}
        /\ Cardinality(In(proc', "received")) = Cardinality(In(proc, "received")) + 1
    <3>1. \A q \in Processes : CharLocals(proc[q])
      BY DEF CharInv
    <3>2. s.mode \in {"user", "keys"} /\ s \in Locals /\ CharLocals(s)
      BY <1>4
    <3> HIDE DEF c
    <3> DEFINE e == Put(f, p, s)
    <3>3. /\ e \in [Processes -> Locals] /\ \A q \in Processes : CharLocals(e[q])
          /\ In(e, "empty") = In(proc, "empty") \ {h}
          /\ Cardinality(In(e, "received")) = Cardinality(In(proc, "received")) + 1
      <4>1. proc[p].mode = "keys" /\ proc[h].mode = "empty" /\ h \in Processes
            /\ proc \in [Processes -> Locals] /\ session \in Sessions
            /\ g \in Locals /\ g.mode = "received" /\ CharLocals(g)
        BY <1>1, <2>2, <2>4
      <4> QED BY ONLY <3>1, <3>2, <4>1, p \in Processes, CharHandsOver
    <3> QED BY <2>1, <3>3
  <2>12. empty_process' \in Seq(Processes) /\ IsListOf(empty_process', In(proc', "empty"))
    BY <1>1, <1>10, <2>1, <2>9, TailList DEF h
  <2>13. Types'
    BY <1>1, <1>7, <1>9, <2>1, <2>9, <2>12, SessionStays DEF Types
  <2>14. Len(accepted') = Len(returned') + Len(messages') + Cardinality(In(proc', "received"))
    BY <1>1, <1>7, <1>8, <1>10, <2>1, <2>9
  <2> QED BY <1>1, <2>9, <2>12, <2>13, <2>14, SessionStays, InStays DEF CharInv
<1>11. CASE ~(messages = <<>> /\ empty_process # <<>>)
  <2>1. messages' = Append(messages, c) /\ empty_process' = empty_process
        /\ proc' = Put(proc, p, s)
    BY <1>1, <1>2, <1>3, <1>5, <1>6, <1>11, SendEffect
  <2> HIDE DEF s
  <2>2. messages' \in Seq(Nat) /\ Len(messages') = Len(messages) + 1
    BY <1>1, <1>3, <2>1
  <2>3. proc' \in [Processes -> Locals] /\ \A q \in Processes : CharLocals(proc'[q])
    BY <1>1, <1>4, <2>1, PutFields, CharPut DEF CharInv
  <2>4. In(proc, "empty")' = In(proc, "empty")
    BY <1>1, <1>4, <2>1, InStep
  <2>5. Cardinality(In(proc', "received")) = Cardinality(In(proc, "received"))
    BY <1>1, <1>4, <2>1, InCount
  <2>6. Types'
    BY <1>1, <1>7, <1>9, <2>1, <2>2, <2>3, SessionStays DEF Types
  <2>7. Len(accepted') = Len(returned') + Len(messages') + Cardinality(In(proc', "received"))
    BY <1>1, <1>7, <1>8, <2>2, <2>5
  <2> QED BY <1>1, <2>1, <2>3, <2>4, <2>6, <2>7, SessionStays, InStays DEF CharInv
<1> QED BY <1>10, <1>11

LEMMA CharReturns ==
  ASSUME CharInv, NEW p \in Processes, proc[p].mode = "received",
         Return(Mailbox, p, proc[p].msg)
  PROVE  CharInv'
<1>1. Types /\ proc \in [Processes -> Locals] /\ session \in Sessions /\ session' = session
      /\ returned \in Seq(Nat) /\ proc[p].msg \in Nat /\ pressed' = pressed
      /\ accepted' = accepted /\ returned' = Append(returned, proc[p].msg)
      /\ Cardinality(In(proc, "received")) \in Nat
  BY InCount, LocalsFields DEF CharInv, Types, Return
<1>2. UNCHANGED <<messages, empty_process, full_process>> /\ proc' = Put(proc, p, AtRest)
  BY <1>1, SetEffect DEF Return
<1>3. returned' \in Seq(Nat) /\ Len(returned') = Len(returned) + 1 /\ Len(returned) \in Nat
  BY <1>1
<1>4. In(proc, "empty")' = In(proc, "empty")
  BY <1>1, <1>2, InStep, AtRestFields
<1>5. Cardinality(In(proc', "received")) = Cardinality(In(proc, "received")) - 1
  BY <1>1, <1>2, InCount, AtRestFields
<1>6. proc' \in [Processes -> Locals] /\ \A q \in Processes : CharLocals(proc'[q])
  <2>1. CharLocals(AtRest)
    BY AtRestFields DEF CharLocals
  <2> QED BY <1>1, <1>2, <2>1, AtRestFields, PutFields, CharPut DEF CharInv
<1>7. Types'
  BY <1>1, <1>2, <1>6, SessionStays DEF Types
<1>8. Len(accepted) = Len(returned) + Len(messages) + Cardinality(In(proc, "received"))
      /\ Len(messages) \in Nat
  BY DEF CharInv, Types
<1>9. Len(accepted') = Len(returned') + Len(messages') + Cardinality(In(proc', "received"))
  BY <1>1, <1>2, <1>3, <1>5, <1>8
<1> QED BY <1>1, <1>2, <1>3, <1>4, <1>6, <1>7, <1>9, SessionStays, InStays DEF CharInv

LEMMA CharKernel ==
  ASSUME CharInv, NEW p \in Processes, Kernel(p)
  PROVE  CharInv'
<1>1. Types /\ proc \in [Processes -> Locals] /\ proc[p] \in Locals /\ CharLocals(proc[p])
      /\ pressed \in Nat
  BY DEF CharInv, Types
<1>2. CASE keyboard_data(p)
  <2>1. proc[p].mode = "keys" /\ UNCHANGED <<session, pressed, returned>>
    BY <1>2 DEF keyboard_data
  <2>2. CASE pcount(Mailbox) = BUFFER_SIZE
    <3> DEFINE s == Stopped(proc[p])
    <3>1. accepted' = accepted
          /\ SetMailbox([Mailbox EXCEPT !.proc[p].mode = "user", !.proc[p].rest = <<>>])
      BY <1>2, <2>2 DEF keyboard_data
    <3>2. UNCHANGED <<messages, empty_process, full_process>> /\ proc' = Put(proc, p, s)
      BY <1>1, <3>1, StopEffect
    <3>3. s \in Locals /\ s.mode = "user" /\ CharLocals(s)
      BY <1>1, <2>1, StoppedFields DEF CharLocals
    <3> HIDE DEF s
    <3> QED BY <1>1, <2>1, <3>1, <3>2, <3>3, CharElsewhere
  <2>3. CASE pcount(Mailbox) # BUFFER_SIZE
    BY <1>2, <2>1, <2>3, CharSends DEF keyboard_data
  <2> QED BY <2>2, <2>3
<1>3. CASE cons_read(p)
  BY <1>3, CharReturns DEF cons_read
<1>4. ~(cons_readline(p) \/ EndOfLine(p) \/ SendBack(p))
  BY <1>1 DEF cons_readline, EndOfLine, SendBack, CharLocals
<1> QED BY <1>2, <1>3, <1>4 DEF Kernel

LEMMA CharStep ==
  ASSUME CharInv, ByCharacter(session), InputNext
  PROVE  CharInv'
<1>1. Types /\ proc \in [Processes -> Locals] /\ (\A p \in Processes : CharLocals(proc[p]))
      /\ pressed \in Nat /\ Readers \subseteq Processes /\ session \in Sessions
  BY SessionFacts DEF CharInv, Types
<1>2. CASE \E p \in Processes : Kernel(p)
  BY <1>2, CharKernel
<1>3. CASE \E p \in Processes, key \in KeyStrings : PressKey(p, key)
  <2>1. PICK p \in Processes, key \in KeyStrings : PressKey(p, key)
    BY <1>3
  <2> DEFINE s == Interrupted(proc[p], Numbered(p, key))
  <2>2. Numbered(p, key) \in Seq(Entry) /\ Numbered(p, key) # <<>>
    BY <1>1, SessionFacts, NumberedFields
  <2>3. s \in Locals /\ s.mode = "keys" /\ CharLocals(s)
    BY <1>1, <2>1, <2>2, InterruptedFields DEF PressKey, CharLocals
  <2>4. proc' = Put(proc, p, s)
    BY <1>1, <2>1 DEF PressKey, Put, Interrupted
  <2> HIDE DEF s
  <2> QED BY <1>1, <2>1, <2>3, <2>4, CharElsewhere DEF PressKey
<1>4. CASE \E p \in Readers, call \in Calls : Call(p, call)
  <2>1. PICK p \in Readers, call \in Calls : Call(p, call)
    BY <1>4
  <2>2. call = "read"
    BY <2>1 DEF ByCharacter, Calls
  <2>3. PICK junk \in Junk :
          SetMailbox(preceive([Mailbox EXCEPT
            !.proc[p] = [AtRest EXCEPT !.call = call, !.msg = junk]], p))
    BY <2>1 DEF Call
  <2>4. Called(call, junk) \in Locals /\ Called(call, junk).call = "read"
    BY <2>2, CalledFields, SessionsAssumption DEF SessionsAssumption
  <2>5. proc[p].mode = "user" /\ UNCHANGED <<session, pressed, accepted, returned>>
    BY <2>1 DEF Call
  <2>6. SetMailbox(preceive([Mailbox EXCEPT !.proc[p] = Called(call, junk)], p))
    BY <2>3 DEF Called
  <2> QED BY <1>1, <2>4, <2>5, <2>6, CharReceives
<1>5. CASE (\E p \in Processes \ {Idle} : wait_clock(p)) \/ ClockTick
  <2>1. UNCHANGED <<session, messages, empty_process, full_process, proc, pressed, accepted,
                    returned>>
    BY <1>5 DEF wait_clock, ClockTick
  <2> QED BY <2>1, SessionStays, InStays DEF CharInv, Types
<1> QED BY <1>2, <1>3, <1>4, <1>5 DEF InputNext

LEMMA CharStart ==
  ASSUME InputInit
  PROVE  CharInv
<1>1. /\ session \in Sessions /\ messages = <<>> /\ empty_process = <<>> /\ full_process = <<>>
      /\ proc = [p \in Processes |-> AtRest] /\ pressed = 0 /\ accepted = <<>> /\ returned = <<>>
  BY DEF InputInit
<1>2. Types
  BY <1>1, AtRestFields DEF Types
<1>3. In(proc, "empty") = {} /\ In(proc, "received") = {}
  BY <1>1, AtRestFields DEF In
<1>4. IsListOf(empty_process, In(proc, "empty"))
  BY <1>1, <1>3 DEF IsListOf, IsInjective, Range
<1>5. \A p \in Processes : CharLocals(proc[p])
  BY <1>1, AtRestFields DEF CharLocals
<1>6. Cardinality(In(proc, "received")) = 0
  BY <1>3, FS_EmptySet
<1>7. Len(accepted) = Len(returned) + Len(messages) + Cardinality(In(proc, "received"))
      /\ returned \in Seq(Nat)
  BY <1>1, <1>6
<1> QED BY <1>2, <1>4, <1>5, <1>7 DEF CharInv

-----------------------------------------------------------------------------
(* Reading lines.                                                          *)

(* The process that reads lines. *)
Reader == CHOOSE r \in Readers : TRUE

(* What cons_readline keeps, after at most e characters of a line. *)
Within(r, e) ==
  /\ r.msg_len <= e
  /\ r.buf_save # <<>> => Len(r.buf_save) + Length <= e
  /\ \A i \in 1 .. Len(r.buf_save) : r.buf_save[i] # CR

(* What it has yet to send back: the end of a line, of which top           *)
(* characters are queued already.                                          *)
Unread(rest, queued, top) ==
  /\ queued + Len(rest) <= BUFFER_SIZE
  /\ rest = <<>> => top = 0
  /\ rest # <<>> => rest[Len(rest)].char = CR
  /\ \A i \in 1 .. Len(rest) - 1 : rest[i].char # CR /\ top + i <= MaxLine

(* d gives each message a place in its line. *)
Spaced(q, d) ==
  /\ d \in [0 .. Len(q) -> 0 .. MaxLine]
  /\ \A i \in 1 .. Len(q) : q[i] # CR => d[i] > d[i - 1]

(* Of the messages, the first follows the low-th character of its line and *)
(* the last is the top-th of its own, Enter being the 0th of the next.     *)
Places(q, low, top) == \E d : Spaced(q, d) /\ d[0] = low /\ d[Len(q)] = top

(* Where the process that reads lines stands. *)
AtLine(r, queued, typed, low, top) ==
  /\ r.mode # "unread" => top <= typed
  /\ r.mode = "empty" => Within(r, low)
  /\ r.mode = "received" /\ r.msg # CR => low >= 1 /\ Within(r, low - 1)
  /\ r.mode = "received" /\ r.msg = CR => Within(r, MaxLine)
  /\ r.mode = "unread" => Unread(r.rest, queued, top)

(* Only Reader uses the console; nobody is blocked in psend. *)
Shape(f) ==
  /\ \A p \in Processes : p # Reader => f[p].call = "none" /\ f[p].mode \in {"user", "keys"}
  /\ \/ f[Reader].call = "none" /\ f[Reader].mode \in {"user", "keys"}
     \/ f[Reader].call = "readline" /\ f[Reader].mode \in {"received", "empty", "unread"}

Lines(q, ep, f, acc) ==
  LET r == f[Reader] IN
  /\ Shape(f)
  /\ ep = IF r.mode = "empty" THEN <<Reader>> ELSE <<>>
  /\ r.mode = "empty" => q = <<>>
  /\ \E low, top \in 0 .. MaxLine :
       Places(q, low, top) /\ AtLine(r, Len(q), TypedIn(acc), low, top)

(* Nobody else runs while Reader sends back. *)
LineInv ==
  /\ Types /\ Lines(messages, empty_process, proc, accepted)
  /\ proc[Reader].mode = "unread" => active = Reader

LEMMA LinePrimed ==
  ASSUME session' = session, Types', Lines(messages', empty_process', proc', accepted'),
         proc'[Reader].mode = "unread" => active' = Reader
  PROVE  LineInv'
<1>1. Reader' = Reader /\ MaxLine' = MaxLine /\ BUFFER_SIZE' = BUFFER_SIZE /\ Length' = Length
      /\ Processes' = Processes
  BY SessionStays DEF Reader
<1>2. Shape(proc)' = Shape(proc')
  BY <1>1 DEF Shape
<1>4. \A q, low, top : Places(q, low, top)' <=> Places(q, low, top)
  BY <1>1 DEF Places, Spaced
<1>5. \A r, queued, typed, low, top :
        AtLine(r, queued, typed, low, top)' <=> AtLine(r, queued, typed, low, top)
  BY <1>1 DEF AtLine, Unread, Within
<1> QED BY <1>1, <1>2, <1>4, <1>5 DEF LineInv, Lines, TypedIn

LEMMA ReaderFacts ==
  ASSUME session \in Sessions, ByLine(session)
  PROVE  /\ Readers = {Reader} /\ Reader \in Processes /\ Calls = {"readline"}
         /\ MaxLine < Length + BUFFER_SIZE
<1>1. PICK r \in Readers : Readers = {r}
  BY DEF ByLine, Readers
<1>2. Reader = r /\ Readers = {Reader}
  BY <1>1 DEF Reader
<1>3. Reader \in Processes
  BY <1>2, SessionFacts
<1> QED BY <1>2, <1>3 DEF Calls, ByLine, MaxLine, Length, BUFFER_SIZE

-----------------------------------------------------------------------------
LEMMA PlacesEmpty ==
  ASSUME session \in Sessions, NEW t \in 0 .. MaxLine
  PROVE  Places(<<>>, t, t)
<1> DEFINE d == [i \in 0 .. 0 |-> t]
<1>1. Spaced(<<>>, d) /\ d[0] = t /\ d[Len(<<>>)] = t
  BY DEF Spaced
<1> QED BY <1>1 DEF Places

LEMMA PlacesNone ==
  ASSUME NEW low, NEW top, Places(<<>>, low, top)
  PROVE  low = top
BY DEF Places

LEMMA PlacesMore ==
  ASSUME session \in Sessions, NEW q \in Seq(Nat), NEW x \in Nat,
         NEW low, NEW top, Places(q, low, top), NEW t \in 0 .. MaxLine, x # CR => t > top
  PROVE  Places(Append(q, x), low, t)
<1>1. PICK d : Spaced(q, d) /\ d[0] = low /\ d[Len(q)] = top
  BY DEF Places
<1> DEFINE n == Len(q)
           e == [i \in 0 .. n + 1 |-> IF i = n + 1 THEN t ELSE d[i]]
           more == Append(q, x)
<1>2. /\ more \in Seq(Nat) /\ Len(more) = n + 1 /\ n \in Nat
      /\ more[n + 1] = x /\ \A i \in 1 .. n : more[i] = q[i]
  OBVIOUS
<1> HIDE DEF more
<1>3. d \in [0 .. n -> 0 .. MaxLine] /\ \A i \in 1 .. n : q[i] # CR => d[i] > d[i - 1]
  BY <1>1 DEF Spaced
<1> HIDE DEF n
<1>4. e \in [0 .. n + 1 -> 0 .. MaxLine]
  BY <1>2, <1>3
<1>5. \A i \in 1 .. n + 1 : more[i] # CR => e[i] > e[i - 1]
  <2> SUFFICES ASSUME NEW i \in 1 .. n + 1, more[i] # CR PROVE e[i] > e[i - 1]
    OBVIOUS
  <2>1. CASE i = n + 1
    <3>1. e[i] = t /\ e[i - 1] = d[n] /\ x # CR /\ d[n] = top
      BY <1>1, <1>2, <2>1 DEF n
    <3> QED BY <3>1
  <2>2. CASE i # n + 1
    <3>1. i \in 1 .. n /\ e[i] = d[i] /\ e[i - 1] = d[i - 1] /\ q[i] # CR
      BY <1>2, <2>2
    <3> QED BY <1>3, <3>1
  <2> QED BY <2>1, <2>2
<1>6. Spaced(more, e) /\ e[0] = low /\ e[Len(more)] = t
  <2>1. e[0] = d[0] /\ e[n + 1] = t
    BY <1>2
  <2>2. Spaced(more, e)
    <3> HIDE DEF e
    <3> QED BY <1>2, <1>4, <1>5 DEF Spaced
  <2> QED BY <1>1, <1>2, <2>1, <2>2
<1> HIDE DEF e
<1> QED BY <1>6 DEF Places, more

LEMMA PlacesTail ==
  ASSUME session \in Sessions, NEW q \in Seq(Nat), q # <<>>,
         NEW low, NEW top, Places(q, low, top)
  PROVE  \E t \in 0 .. MaxLine : Places(Tail(q), t, top) /\ (Head(q) # CR => t > low)
<1>1. PICK d : Spaced(q, d) /\ d[0] = low /\ d[Len(q)] = top
  BY DEF Places
<1> DEFINE n == Len(q)
           e == [i \in 0 .. n - 1 |-> d[i + 1]]
           less == Tail(q)
<1>2. /\ less \in Seq(Nat) /\ Len(less) = n - 1 /\ n \in Nat /\ n >= 1
      /\ \A i \in 1 .. n - 1 : less[i] = q[i + 1] /\ Head(q) = q[1]
  OBVIOUS
<1> HIDE DEF less
<1>3. d \in [0 .. n -> 0 .. MaxLine] /\ \A i \in 1 .. n : q[i] # CR => d[i] > d[i - 1]
  BY <1>1 DEF Spaced
<1>0. Head(q) = q[1]
  OBVIOUS
<1> HIDE DEF n
<1>4. e \in [0 .. n - 1 -> 0 .. MaxLine]
  BY <1>2, <1>3
<1>5. \A i \in 1 .. n - 1 : less[i] # CR => e[i] > e[i - 1]
  <2> SUFFICES ASSUME NEW i \in 1 .. n - 1, less[i] # CR PROVE e[i] > e[i - 1]
    OBVIOUS
  <2>1. e[i] = d[i + 1] /\ e[i - 1] = d[i] /\ q[i + 1] # CR /\ i + 1 \in 1 .. n
    <3>1. i \in 0 .. n - 1 /\ i - 1 \in 0 .. n - 1 /\ i - 1 + 1 = i /\ i + 1 \in 1 .. n
      BY <1>2
    <3>2. less[i] = q[i + 1]
      BY <1>2
    <3> QED BY <3>1, <3>2
  <2> QED BY <1>3, <2>1
<1>6. Spaced(less, e) /\ e[0] = d[1] /\ e[Len(less)] = top
  <2>1. e[0] = d[1] /\ e[n - 1] = d[n] /\ d[n] = top
    BY <1>1, <1>2 DEF n
  <2>2. Spaced(less, e)
    <3> HIDE DEF e
    <3> QED BY <1>2, <1>4, <1>5 DEF Spaced
  <2> QED BY <1>2, <2>1, <2>2
<1>7. d[1] \in 0 .. MaxLine /\ (Head(q) # CR => d[1] > low)
  BY <1>0, <1>1, <1>2, <1>3
<1> HIDE DEF e
<1>8. Places(less, d[1], top)
  BY <1>6 DEF Places
<1> QED BY <1>7, <1>8 DEF less

LEMMA WithinMore ==
  ASSUME NEW r \in Locals, NEW e \in Int, Within(r, e), session \in Sessions,
         NEW s \in Locals, s.msg_len = r.msg_len, s.buf_save = r.buf_save,
         NEW k \in Int, e <= k
  PROVE  Within(s, k)
<1>1. Length \in Nat /\ r.msg_len \in Nat /\ Len(r.buf_save) \in Nat
  BY SessionFacts, LocalsFields
<1> QED BY <1>1 DEF Within

LEMMA EditFields ==
  ASSUME session \in Sessions, NEW r \in Locals, r.msg # CR,
         NEW e \in Int, Within(r, e - 1)
  PROVE  Edit(r) \in Locals /\ Edit(r).call = r.call /\ Within(Edit(r), e)
<1>1. Length \in Nat \ {0} /\ r.msg_len \in Nat /\ Len(r.buf_save) \in Nat /\ r.msg \in Nat
      /\ r.string \in Seq(Nat) /\ r.buf_save \in Seq(Nat)
  BY SessionFacts, LocalsFields
<1>2. Front(r.string) \in Seq(Nat) /\ DEL \in Nat /\ DEL # CR
  BY <1>1, FrontOfSeq DEF DEL, CR
<1>3. \A c \in Nat : Append(r.buf_save, c) \in Seq(Nat) /\ Append(r.string, c) \in Seq(Nat)
  BY <1>1
<1> DEFINE s == Edit(r)
<1>4. /\ s \in Locals /\ s.call = r.call
      /\ \/ s.msg_len <= r.msg_len + 1 /\ s.buf_save = r.buf_save
         \/ /\ r.msg_len >= Length /\ s.msg_len <= r.msg_len + 1
            /\ s.buf_save = Append(r.buf_save, r.msg)
  <2>1. CASE r.msg = DEL
    <3>1. s = Erased(r)
      BY <2>1, EditBranches
    <3> HIDE DEF s
    <3>2. s \in Locals /\ s.msg_len \in Nat
      BY <3>1, ErasedFields, LocalsFields
    <3>3. s.call = r.call /\ s.msg_len <= r.msg_len + 1
      BY <1>1, <3>1, <3>2, ErasedFields
    <3>4. s.buf_save = r.buf_save
          \/ (r.msg_len >= Length /\ s.buf_save = Append(r.buf_save, r.msg))
      <4>1. s.buf_save = IF r.msg_len > Length THEN Append(r.buf_save, DEL) ELSE r.buf_save
        BY <3>1, ErasedFields
      <4> QED BY <1>1, <2>1, <4>1
    <3> QED BY <3>2, <3>3, <3>4
  <2>2. CASE r.msg # DEL /\ r.msg_len >= Length
    <3>1. s = Saved(r)
      BY <2>2, EditBranches
    <3> HIDE DEF s
    <3>2. /\ s \in Locals /\ s.call = r.call /\ s.buf_save = Append(r.buf_save, r.msg)
          /\ s.msg_len = r.msg_len + 1
      BY <3>1, SavedFields
    <3> QED BY <1>1, <2>2, <3>2
  <2>3. CASE r.msg # DEL /\ ~(r.msg_len >= Length)
    <3>1. s = Stored(r)
      BY <2>3, EditBranches
    <3> HIDE DEF s
    <3>2. /\ s \in Locals /\ s.call = r.call /\ s.buf_save = r.buf_save
          /\ s.msg_len = r.msg_len + 1
      BY <3>1, SavedFields
    <3> QED BY <1>1, <3>2
  <2> QED BY <2>1, <2>2, <2>3
<1> HIDE DEF s
<1>5. s.msg_len \in Nat
  BY <1>4, LocalsFields
<1>6. CASE s.msg_len <= r.msg_len + 1 /\ s.buf_save = r.buf_save
  <2>1. r.msg_len <= e - 1 /\ (r.buf_save # <<>> => Len(r.buf_save) + Length <= e - 1)
        /\ (\A i \in 1 .. Len(r.buf_save) : r.buf_save[i] # CR)
    BY DEF Within
  <2>2. s.msg_len <= e
    BY <1>1, <1>5, <1>6, <2>1
  <2>3. r.buf_save # <<>> => Len(r.buf_save) + Length <= e
    BY <1>1, <2>1
  <2>4. Within(s, e)
    BY <1>6, <2>1, <2>2, <2>3 DEF Within
  <2> QED BY <1>4, <2>4 DEF s
<1>7. CASE /\ r.msg_len >= Length /\ s.msg_len <= r.msg_len + 1
           /\ s.buf_save = Append(r.buf_save, r.msg)
  <2>1. r.msg \in Nat /\ s.buf_save = Append(r.buf_save, r.msg)
    BY <1>1, <1>7
  <2>2. Len(s.buf_save) = Len(r.buf_save) + 1 /\ s.buf_save[Len(r.buf_save) + 1] = r.msg
        /\ \A i \in 1 .. Len(r.buf_save) : s.buf_save[i] = r.buf_save[i]
    BY <1>1, <2>1
  <2>3. Len(r.buf_save) + 1 + Length <= e
    <3>1. CASE r.buf_save = <<>>
      BY <1>1, <1>7, <3>1 DEF Within
    <3>2. CASE r.buf_save # <<>>
      BY <1>1, <3>2 DEF Within
    <3> QED BY <3>1, <3>2
  <2>4. s.msg_len <= e
    BY <1>1, <1>5, <1>7 DEF Within
  <2>5. \A i \in 1 .. Len(s.buf_save) : s.buf_save[i] # CR
    BY <1>1, <2>1, <2>2 DEF Within
  <2>6. Within(s, e)
    BY <1>1, <2>2, <2>3, <2>4, <2>5 DEF Within
  <2> QED BY <1>4, <2>6 DEF s
<1> QED BY <1>4, <1>6, <1>7

-----------------------------------------------------------------------------
LEMMA PutAt ==
  ASSUME NEW f \in [Processes -> Locals], NEW p \in Processes, NEW s \in Locals,
         NEW q \in Processes
  PROVE  Put(f, p, s)[q] = IF q = p THEN s ELSE f[q]
BY PutFields

LEMMA PutReader ==
  ASSUME session \in Sessions, ByLine(session), NEW f \in [Processes -> Locals],
         NEW s \in Locals
  PROVE  /\ Put(f, Reader, s) \in [Processes -> Locals] /\ Put(f, Reader, s)[Reader] = s
         /\ \A p \in Processes : p # Reader => Put(f, Reader, s)[p] = f[p]
BY ReaderFacts, PutFields

(* Reader goes on with its call. *)
LEMMA ShapeReader ==
  ASSUME session \in Sessions, ByLine(session), NEW f \in [Processes -> Locals], Shape(f),
         NEW s \in Locals,
         \/ s.call = "none" /\ s.mode \in {"user", "keys"}
         \/ s.call = "readline" /\ s.mode \in {"received", "empty", "unread"}
  PROVE  Shape(Put(f, Reader, s))
BY PutReader DEF Shape

LEMMA ShapeOther ==
  ASSUME session \in Sessions, ByLine(session), NEW f \in [Processes -> Locals], Shape(f),
         NEW p \in Processes, f[p].mode \in {"user", "keys"},
         NEW s \in Locals, s.call = "none", s.mode \in {"user", "keys"}
  PROVE  Shape(Put(f, p, s))
<1> DEFINE g == Put(f, p, s)
<1>1. \A q \in Processes : g[q] = IF q = p THEN s ELSE f[q]
  BY PutAt
<1> HIDE DEF g
<1>2. Reader \in Processes
  BY ReaderFacts
<1>3. \A q \in Processes : q # Reader => g[q].call = "none" /\ g[q].mode \in {"user", "keys"}
  BY <1>1 DEF Shape
<1>4. \/ g[Reader].call = "none" /\ g[Reader].mode \in {"user", "keys"}
      \/ g[Reader].call = "readline" /\ g[Reader].mode \in {"received", "empty", "unread"}
  BY <1>1, <1>2 DEF Shape
<1>5. Shape(g)
  BY <1>3, <1>4 DEF Shape
<1> QED BY <1>5 DEF g

(* The reader enters preceive with a line begun at most low characters     *)
(* before the first message.                                               *)
LEMMA LineReceives ==
  ASSUME session \in Sessions, ByLine(session),
         NEW q \in Seq(Nat), NEW ep, NEW f \in [Processes -> Locals],
         NEW acc \in Seq(Entry), Lines(q, ep, f, acc),
         NEW low \in 0 .. MaxLine, NEW top \in 0 .. MaxLine, Places(q, low, top),
         top <= TypedIn(acc),
         NEW r \in Locals, r.call = "readline", Within(r, low),
         f[Reader].mode \in {"user", "received"}
  PROVE  /\ q = <<>> => Lines(q, <<Reader>>, Put(f, Reader, InMode(r, "empty")), acc)
         /\ q # <<>> => Lines(Tail(q), ep, Put(f, Reader, Got(r, Head(q))), acc)
<1>1. Shape(f) /\ ep = <<>>
  BY DEF Lines
<1>2. CASE q = <<>>
  <2> DEFINE s == InMode(r, "empty")
             g == Put(f, Reader, s)
  <2>1. s \in Locals /\ s.mode = "empty" /\ s.call = "readline"
        /\ s.msg_len = r.msg_len /\ s.buf_save = r.buf_save
    BY InModeFields DEF Modes
  <2> HIDE DEF s
  <2>2. g[Reader] = s /\ Shape(g)
    BY <1>1, <2>1, PutReader, ShapeReader
  <2> HIDE DEF g
  <2>3. Within(s, low)
    BY <2>1, WithinMore
  <2>4. AtLine(s, Len(q), TypedIn(acc), low, top)
    BY <2>1, <2>3 DEF AtLine
  <2> QED BY <1>1, <1>2, <2>1, <2>2, <2>4 DEF Lines, g, s
<1>3. CASE q # <<>>
  <2> DEFINE s == Got(r, Head(q))
             g == Put(f, Reader, s)
  <2>1. s \in Locals /\ s.mode = "received" /\ s.call = "readline" /\ s.msg = Head(q)
        /\ s.msg_len = r.msg_len /\ s.buf_save = r.buf_save
    <3>1. Head(q) \in Nat
      BY <1>3
    <3> QED BY <3>1, GotFields
  <2> HIDE DEF s
  <2>2. g[Reader] = s /\ Shape(g)
    BY <1>1, <2>1, PutReader, ShapeReader
  <2> HIDE DEF g
  <2>3. PICK t \in 0 .. MaxLine : Places(Tail(q), t, top) /\ (Head(q) # CR => t > low)
    BY <1>3, PlacesTail
  <2>4. AtLine(s, Len(Tail(q)), TypedIn(acc), t, top)
    <3>1. MaxLine \in Nat
      BY SessionFacts
    <3>2. Within(s, MaxLine)
      BY <2>1, <3>1, WithinMore
    <3>3. Head(q) # CR => t >= 1 /\ Within(s, t - 1)
      BY <2>1, <2>3, <3>1, WithinMore
    <3> QED BY <2>1, <3>2, <3>3 DEF AtLine
  <2> QED BY <1>1, <1>3, <2>1, <2>2, <2>3, <2>4 DEF Lines, g, s
<1> QED BY <1>2, <1>3

(* The character e passed on by p goes into the ring. *)
LEMMA LineAppends ==
  ASSUME session \in Sessions, ByLine(session),
         NEW q \in Seq(Nat), NEW ep, NEW f \in [Processes -> Locals],
         NEW acc \in Seq(Entry), Lines(q, ep, f, acc),
         NEW p \in Processes, f[p].mode = "keys", f[Reader].mode \notin {"empty", "unread"},
         NEW s \in Locals, s.call = "none", s.mode \in {"user", "keys"},
         NEW e \in Entry, e.char # CR => TypedIn(acc) + 1 <= MaxLine
  PROVE  Lines(Append(q, e.char), ep, Put(f, p, s), Append(acc, e))
<1> DEFINE typed == TypedIn(acc)
           g == Put(f, p, s)
           x == e.char
           more == Append(q, x)
           k == IF x = CR THEN 0 ELSE typed + 1
<1>1. typed \in Nat /\ MaxLine \in Nat /\ x \in Nat
  BY TypedValue, SessionFacts, EntryFields
<1>2. Shape(f) /\ ep = <<>>
  BY DEF Lines
<1>3. TypedIn(Append(acc, e)) = k
  BY TypedMore
<1>4. k \in 0 .. MaxLine
  <2> HIDE DEF typed, x
  <2> QED BY <1>1 DEF typed, x
<1>5. PICK low \in 0 .. MaxLine, top \in 0 .. MaxLine :
        Places(q, low, top) /\ AtLine(f[Reader], Len(q), typed, low, top)
  BY DEF Lines
<1>6. top <= typed
  BY <1>5 DEF AtLine
<1>7. Places(more, low, k)
  <2> HIDE DEF typed, x
  <2>1. x # CR => k > top
    BY <1>1, <1>6
  <2> HIDE DEF k
  <2> QED BY <1>1, <1>4, <1>5, <2>1, PlacesMore
<1> HIDE DEF x, typed, more
<1>8. Shape(g)
  BY <1>2, ShapeOther
<1>9. g[Reader] = IF p = Reader THEN s ELSE f[Reader]
  BY ReaderFacts, PutFields
<1> HIDE DEF g, k
<1>10. AtLine(g[Reader], Len(more), k, low, k)
  <2>1. CASE p = Reader
    BY <1>4, <1>9, <2>1 DEF AtLine
  <2>2. CASE p # Reader
    BY <1>4, <1>5, <1>9, <2>2 DEF AtLine
  <2> QED BY <2>1, <2>2
<1>11. g[Reader].mode # "empty"
  BY <1>9
<1>12. Lines(more, ep, g, Append(acc, e))
  BY <1>2, <1>3, <1>4, <1>7, <1>8, <1>10, <1>11 DEF Lines
<1> QED BY <1>12 DEF more, g, x

(* It goes to the waiting reader. *)
LEMMA LineHands ==
  ASSUME session \in Sessions, ByLine(session),
         NEW q \in Seq(Nat), NEW ep, NEW f \in [Processes -> Locals],
         NEW acc \in Seq(Entry), Lines(q, ep, f, acc),
         NEW p \in Processes, f[p].mode = "keys", f[Reader].mode = "empty",
         NEW s \in Locals, s.call = "none", s.mode \in {"user", "keys"},
         NEW e \in Entry, e.char # CR => TypedIn(acc) + 1 <= MaxLine
  PROVE  Lines(<<>>, <<>>, Put(Put(f, Reader, Got(f[Reader], e.char)), p, s), Append(acc, e))
<1> DEFINE x == e.char
           r == Got(f[Reader], x)
           typed == TypedIn(acc)
           d == Put(f, Reader, r)
           g == Put(d, p, s)
           k == IF x = CR THEN 0 ELSE typed + 1
<1>1. typed \in Nat /\ f[Reader] \in Locals /\ x \in Nat /\ MaxLine \in Nat
      /\ p # Reader /\ Reader \in Processes
  BY ReaderFacts, TypedValue, EntryFields, SessionFacts
<1>2. Shape(f) /\ q = <<>> /\ f[Reader].call = "readline"
  BY DEF Lines, Shape
<1>3. TypedIn(Append(acc, e)) = k
  BY TypedMore
<1>4. k \in 0 .. MaxLine
  <2> HIDE DEF typed, x
  <2> QED BY <1>1 DEF typed, x
<1>5. /\ r \in Locals /\ r.mode = "received" /\ r.msg = x /\ r.call = "readline"
      /\ r.msg_len = f[Reader].msg_len /\ r.buf_save = f[Reader].buf_save
  BY <1>1, <1>2, GotFields
<1>6. PICK low \in 0 .. MaxLine, top \in 0 .. MaxLine :
        Places(q, low, top) /\ AtLine(f[Reader], Len(q), typed, low, top)
  BY DEF Lines
<1>7. top <= typed /\ low = top /\ Within(f[Reader], low)
  BY <1>2, <1>6, PlacesNone DEF AtLine
<1>8. Places(<<>>, k, k)
  BY <1>4, PlacesEmpty
<1> HIDE DEF x, typed, r
<1>9. d \in [Processes -> Locals] /\ d[Reader] = r /\ d[p] = f[p] /\ Shape(d)
  BY <1>1, <1>2, <1>5, PutReader, ShapeReader
<1> HIDE DEF d
<1>10. Shape(g) /\ g[Reader] = r
  BY <1>1, <1>9, ShapeOther, PutFields
<1> HIDE DEF g
<1>11. Within(r, MaxLine) /\ (x # CR => k >= 1 /\ Within(r, k - 1))
  <2>1. Within(r, MaxLine)
    <3>1. low \in Int /\ MaxLine \in Int /\ low <= MaxLine
      BY <1>1
    <3> QED BY <1>1, <1>5, <1>7, <3>1, WithinMore
  <2>2. ASSUME x # CR PROVE k >= 1 /\ Within(r, k - 1)
    <3>1. k = typed + 1 /\ low <= k - 1 /\ k - 1 \in Int /\ k >= 1
      BY <1>1, <1>7, <2>2
    <3> HIDE DEF k
    <3> QED BY <1>1, <1>5, <1>7, <3>1, WithinMore
  <2> QED BY <2>1, <2>2
<1> HIDE DEF k
<1>12. AtLine(r, Len(<<>>), k, k, k)
  BY <1>4, <1>5, <1>11 DEF AtLine
<1>13. Lines(<<>>, <<>>, g, Append(acc, e))
  BY <1>3, <1>4, <1>5, <1>8, <1>10, <1>12 DEF Lines
<1> QED BY <1>13 DEF g, d, r, x

(* The line ends, or the reader has sent back what was left of it. *)
LEMMA LineReturns ==
  ASSUME session \in Sessions, ByLine(session),
         NEW q \in Seq(Nat), NEW ep, NEW f \in [Processes -> Locals],
         NEW acc \in Seq(Entry), Lines(q, ep, f, acc),
         \/ f[Reader].mode = "received"
         \/ f[Reader].mode = "unread" /\ f[Reader].rest = <<>>
  PROVE  Lines(q, ep, Put(f, Reader, AtRest), acc)
<1> DEFINE g == Put(f, Reader, AtRest)
           typed == TypedIn(acc)
<1>1. typed \in Nat
  BY TypedValue
<1>2. Shape(f) /\ ep = <<>>
  BY DEF Lines
<1>3. g[Reader] = AtRest /\ Shape(g)
  BY <1>2, PutReader, ShapeReader, AtRestFields
<1>4. PICK low \in 0 .. MaxLine, top \in 0 .. MaxLine :
        Places(q, low, top) /\ AtLine(f[Reader], Len(q), typed, low, top)
  BY DEF Lines
<1>5. top <= typed
  BY <1>1, <1>4 DEF AtLine, Unread
<1> HIDE DEF g, typed
<1>6. AtLine(AtRest, Len(q), typed, low, top)
  BY <1>5, AtRestFields DEF AtLine
<1>7. Lines(q, ep, g, acc)
  BY <1>2, <1>3, <1>4, <1>6, AtRestFields DEF Lines, typed
<1> QED BY <1>7 DEF g

(* A long line: its end, and Enter, fit the buffer that preset emptied. *)
LEMMA LineUnread ==
  ASSUME session \in Sessions, ByLine(session),
         NEW q, NEW ep, NEW f \in [Processes -> Locals],
         NEW acc \in Seq(Entry), Lines(q, ep, f, acc),
         f[Reader].mode = "received", f[Reader].msg = CR,
         NEW s \in Locals, s.mode = "unread", s.call = "readline",
         Len(s.rest) = Len(f[Reader].buf_save) + 1,
         \A i \in 1 .. Len(f[Reader].buf_save) : s.rest[i].char = f[Reader].buf_save[i],
         s.rest[Len(s.rest)].char = CR
  PROVE  Lines(<<>>, <<>>, Put(f, Reader, s), acc)
<1> DEFINE g == Put(f, Reader, s)
           typed == TypedIn(acc)
           b == f[Reader].buf_save
<1>1. typed \in Nat /\ f[Reader] \in Locals /\ Len(b) \in Nat
  BY TypedValue, ReaderFacts, LocalsFields
<1>2. g[Reader] = s /\ Shape(g)
  BY PutReader, ShapeReader DEF Lines
<1>3. Within(f[Reader], MaxLine)
  BY DEF Lines, AtLine
<1>4. MaxLine \in Nat /\ Length \in Nat /\ BUFFER_SIZE \in Nat \ {0}
      /\ MaxLine < Length + BUFFER_SIZE
  BY SessionFacts, ReaderFacts
<1>5. Len(b) + 1 <= BUFFER_SIZE /\ Len(b) <= MaxLine /\ \A i \in 1 .. Len(b) : b[i] # CR
  <2>1. \A i \in 1 .. Len(b) : b[i] # CR
    BY <1>3 DEF Within
  <2>2. CASE b = <<>>
    BY <1>4, <2>1, <2>2
  <2>3. CASE b # <<>>
    <3>1. Len(b) + Length <= MaxLine
      BY <1>3, <2>3 DEF Within
    <3>2. Len(b) + 1 <= BUFFER_SIZE /\ Len(b) <= MaxLine
      BY <1>1, <1>4, <3>1
    <3> QED BY <2>1, <3>2
  <2> QED BY <2>2, <2>3
<1>6. Unread(s.rest, Len(<<>>), 0)
  <2>1. s.rest # <<>> /\ Len(s.rest) - 1 = Len(b) /\ Len(<<>>) = 0
    BY <1>1
  <2>2. \A i \in 1 .. Len(b) : s.rest[i].char # CR /\ 0 + i <= MaxLine
    <3> TAKE i \in 1 .. Len(b)
    <3>1. s.rest[i].char = b[i] /\ b[i] # CR
      BY <1>5
    <3>2. i <= MaxLine /\ 0 + i = i
      BY <1>1, <1>4, <1>5
    <3> QED BY <3>1, <3>2
  <2> QED BY <1>1, <1>5, <2>1, <2>2 DEF Unread
<1>7. Places(<<>>, 0, 0) /\ 0 \in 0 .. MaxLine
  BY <1>4, PlacesEmpty
<1> HIDE DEF g, typed
<1>8. AtLine(s, Len(<<>>), typed, 0, 0)
  BY <1>6 DEF AtLine
<1>9. Lines(<<>>, <<>>, g, acc)
  BY <1>2, <1>7, <1>8 DEF Lines, typed
<1> QED BY <1>9 DEF g

LEMMA LineSendsBack ==
  ASSUME session \in Sessions, ByLine(session),
         NEW q \in Seq(Nat), NEW ep, NEW f \in [Processes -> Locals],
         NEW acc \in Seq(Entry), Lines(q, ep, f, acc),
         f[Reader].mode = "unread", f[Reader].rest # <<>>
  PROVE  /\ Len(q) < BUFFER_SIZE
         /\ Lines(Append(q, Head(f[Reader].rest).char), ep,
                  Put(f, Reader, Past(f[Reader])), acc)
<1> DEFINE r == f[Reader]
           rest == r.rest
           less == Tail(rest)
           x == Head(rest).char
           s == Past(r)
           g == Put(f, Reader, s)
           typed == TypedIn(acc)
           more == Append(q, x)
<1>1. typed \in Nat /\ r \in Locals /\ rest \in Seq(Entry)
  BY TypedValue, ReaderFacts, LocalsFields
<1>2. Shape(f) /\ ep = <<>>
  BY DEF Lines
<1>3. r.call = "readline"
  BY <1>2 DEF Shape
<1>4. s \in Locals /\ s.rest = less /\ s.call = "readline" /\ s.mode = "unread"
  BY <1>1, <1>3, PastFields
<1>5. PICK low \in 0 .. MaxLine, top \in 0 .. MaxLine :
        Places(q, low, top) /\ AtLine(r, Len(q), typed, low, top)
  BY DEF Lines
<1>6. Unread(rest, Len(q), top)
  BY <1>5 DEF AtLine
<1>7. x \in Nat
  BY <1>1, FirstOfRest
<1>8. /\ Len(rest) \in Nat /\ Len(rest) >= 1 /\ x = rest[1].char
      /\ Len(less) = Len(rest) - 1 /\ \A i \in 1 .. Len(less) : less[i] = rest[i + 1]
      /\ less # <<>> => Len(rest) > 1
      /\ less = <<>> => Len(rest) = 1
  <2>1. rest # <<>>
    OBVIOUS
  <2> HIDE DEF rest
  <2> QED BY <1>1, <2>1, TailFacts
<1>9. Len(more) = Len(q) + 1 /\ Len(q) \in Nat
  BY <1>7
<1>10. BUFFER_SIZE \in Nat /\ MaxLine \in Nat
  BY SessionFacts
<1> DEFINE t == IF x = CR THEN 0 ELSE top + 1
<1> HIDE DEF x, s, typed, more, rest, less, r
<1>11. Len(q) + Len(rest) <= BUFFER_SIZE /\ (Len(rest) = 1 => x = CR)
       /\ (Len(rest) > 1 => x # CR /\ top + 1 <= MaxLine)
  <2>1. Len(q) + Len(rest) <= BUFFER_SIZE
    BY <1>6 DEF Unread
  <2>2. ASSUME Len(rest) = 1 PROVE x = CR
    <3>1. rest # <<>>
      BY DEF rest, r
    <3> QED BY <1>6, <1>8, <2>2, <3>1 DEF Unread
  <2>3. ASSUME Len(rest) > 1 PROVE x # CR /\ top + 1 <= MaxLine
    <3>1. 1 \in 1 .. Len(rest) - 1
      BY <1>8, <2>3
    <3> QED BY <1>6, <1>8, <3>1 DEF Unread
  <2> QED BY <2>1, <2>2, <2>3
<1>12. t \in 0 .. MaxLine /\ (x # CR => t > top)
  BY <1>8, <1>10, <1>11
<1>13. Places(more, low, t)
  BY <1>5, <1>7, <1>12, PlacesMore DEF more
<1>14. Unread(less, Len(more), t)
  <2>1. Len(more) + Len(less) <= BUFFER_SIZE
    BY <1>8, <1>9, <1>10, <1>11
  <2>2. less = <<>> => t = 0
    BY <1>8, <1>11
  <2>3. ASSUME less # <<>> PROVE less[Len(less)].char = CR
    <3>1. Len(less) \in 1 .. Len(less) /\ Len(less) + 1 = Len(rest) /\ rest # <<>>
      BY <1>8, <2>3
    <3> QED BY <1>6, <1>8, <3>1 DEF Unread
  <2>4. ASSUME NEW i \in 1 .. Len(less) - 1 PROVE less[i].char # CR /\ t + i <= MaxLine
    <3>1. i \in 1 .. Len(less) /\ i + 1 \in 1 .. Len(rest) - 1 /\ Len(rest) > 1
      BY <1>8
    <3>2. less[i] = rest[i + 1] /\ rest[i + 1].char # CR /\ top + (i + 1) <= MaxLine
      BY <1>6, <1>8, <3>1 DEF Unread
    <3>3. t = top + 1 /\ t + i = top + (i + 1)
      BY <1>11, <3>1
    <3> QED BY <3>2, <3>3
  <2> QED BY <2>1, <2>2, <2>3, <2>4 DEF Unread
<1>15. g[Reader] = s /\ Shape(g)
  BY <1>2, <1>4, PutReader, ShapeReader
<1> HIDE DEF g, t
<1>16. AtLine(s, Len(more), typed, low, t)
  BY <1>4, <1>14 DEF AtLine
<1>18. Lines(more, ep, g, acc)
  BY <1>2, <1>4, <1>5, <1>12, <1>13, <1>15, <1>16 DEF Lines, typed
<1>19. Len(q) < BUFFER_SIZE
  BY <1>8, <1>9, <1>10, <1>11
<1> QED BY <1>18, <1>19 DEF g, more, s, x, rest, r

(* p enters or leaves keyboard_data, and nothing else changes. *)
LEMMA LineElsewhere ==
  ASSUME session \in Sessions, ByLine(session),
         NEW q \in Seq(Nat), NEW ep, NEW f \in [Processes -> Locals],
         NEW acc \in Seq(Entry), Lines(q, ep, f, acc),
         NEW p \in Processes, f[p].mode \in {"user", "keys"},
         NEW s \in Locals, s.call = "none", s.mode \in {"user", "keys"}
  PROVE  Lines(q, ep, Put(f, p, s), acc)
<1> DEFINE g == Put(f, p, s)
           typed == TypedIn(acc)
<1>1. Shape(f) /\ (ep = IF f[Reader].mode = "empty" THEN <<Reader>> ELSE <<>>)
      /\ (f[Reader].mode = "empty" => q = <<>>)
  BY DEF Lines
<1>2. PICK low \in 0 .. MaxLine, top \in 0 .. MaxLine :
        Places(q, low, top) /\ AtLine(f[Reader], Len(q), typed, low, top)
  BY DEF Lines
<1>3. Shape(g) /\ g[Reader] = IF p = Reader THEN s ELSE f[Reader]
  BY <1>1, ShapeOther, ReaderFacts, PutFields
<1> HIDE DEF g, typed
<1>4. CASE p = Reader
  <2>1. AtLine(s, Len(q), typed, low, top)
    BY <1>2, <1>4 DEF AtLine
  <2>2. Lines(q, ep, g, acc)
    BY <1>1, <1>2, <1>3, <1>4, <2>1 DEF Lines, typed
  <2> QED BY <2>2 DEF g
<1>5. CASE p # Reader
  <2>1. Lines(q, ep, g, acc)
    BY <1>1, <1>2, <1>3, <1>5 DEF Lines, typed
  <2> QED BY <2>1 DEF g
<1> QED BY <1>4, <1>5

-----------------------------------------------------------------------------
(* The steps. *)

LEMMA LineFacts ==
  ASSUME LineInv, ByLine(session)
  PROVE  /\ Types /\ session \in Sessions /\ messages \in Seq(Nat)
         /\ proc \in [Processes -> Locals] /\ pressed \in Nat /\ accepted \in Seq(Entry)
         /\ full_process = <<>> /\ empty_process \in Seq(Processes)
         /\ Lines(messages, empty_process, proc, accepted) /\ Shape(proc)
         /\ proc[Reader] \in Locals /\ Reader \in Processes
         /\ empty_process = (IF proc[Reader].mode = "empty" THEN <<Reader>> ELSE <<>>)
         /\ proc[Reader].mode = "empty" => messages = <<>>
<1>1. Types /\ Lines(messages, empty_process, proc, accepted)
  BY DEF LineInv
<1>2. session \in Sessions /\ messages \in Seq(Nat)
      /\ proc \in [Processes -> Locals] /\ pressed \in Nat /\ accepted \in Seq(Entry)
      /\ full_process = <<>> /\ empty_process \in Seq(Processes)
  BY <1>1 DEF Types
<1>3. Reader \in Processes
  BY <1>2, ReaderFacts
<1> QED BY <1>1, <1>2, <1>3 DEF Lines

LEMMA LineSettled ==
  ASSUME LineInv, ByLine(session)
  PROVE  Settled
<1>1. \A p \in Processes :
        /\ proc[p].mode # "full"
        /\ proc[p].mode = "keys" => proc[p].call = "none"
        /\ proc[p].mode = "unread" => p = Reader /\ proc[p].call # "none"
  BY LineFacts DEF Shape
<1>2. empty_process # <<>> => proc[Head(empty_process)].mode = "empty"
  BY LineFacts
<1>3. proc[Reader].mode = "unread" /\ proc[Reader].rest # <<>> => Len(messages) # BUFFER_SIZE
  <2> SUFFICES ASSUME proc[Reader].mode = "unread", proc[Reader].rest # <<>>
               PROVE  Len(messages) # BUFFER_SIZE
    OBVIOUS
  <2>1. Len(messages) < BUFFER_SIZE
    BY LineFacts, LineSendsBack
  <2> QED BY <2>1, LineFacts, SessionFacts
<1> QED BY <1>1, <1>2, <1>3, LineFacts DEF Settled

LEMMA LineKeyboardData ==
  ASSUME LineInv, ByLine(session), KeyInv, NEW p \in Processes, keyboard_data(p)
  PROVE  LineInv'
<1> DEFINE e == Head(proc[p].rest)
<1>1. active = p /\ proc[p].mode = "keys" /\ session' = session /\ pressed' = pressed
  BY DEF keyboard_data
<1>2. proc[p] \in Locals /\ session \in Sessions /\ Reader \in Processes
      /\ proc[p].call = "none" /\ proc[Reader].mode # "unread"
  BY <1>1, LineFacts DEF Shape, LineInv
<1>3. proc[p].rest # <<>> /\ (e.char # CR => TypedIn(accepted) + 1 <= MaxLine)
  BY LineSettled, KeyPasses
<1>4. e \in Entry /\ e.char \in Nat
  BY <1>2, <1>3, FirstOfRest
<1>5. CASE pcount(Mailbox) = BUFFER_SIZE
  <2> DEFINE s == Stopped(proc[p])
  <2>1. accepted' = accepted
        /\ SetMailbox([Mailbox EXCEPT !.proc[p].mode = "user", !.proc[p].rest = <<>>])
    BY <1>5 DEF keyboard_data
  <2>2. UNCHANGED <<messages, empty_process, full_process>> /\ proc' = Put(proc, p, s)
    BY <2>1, LineFacts, StopEffect
  <2>3. s \in Locals /\ s.mode = "user" /\ s.call = "none"
    BY <1>2, StoppedFields
  <2> HIDE DEF s
  <2>4. Lines(messages, empty_process, Put(proc, p, s), accepted)
    BY <1>1, <1>2, <2>3, LineFacts, LineElsewhere
  <2>5. proc' \in [Processes -> Locals]
        /\ proc'[Reader] = IF Reader = p THEN s ELSE proc[Reader]
    <3>1. Put(proc, p, s) \in [Processes -> Locals]
      BY <2>3, LineFacts, PutFields
    <3>2. Put(proc, p, s)[Reader] = IF Reader = p THEN s ELSE proc[Reader]
      BY <1>2, <2>3, LineFacts, PutAt
    <3> QED BY <2>2, <3>1, <3>2
  <2>6. proc'[Reader].mode # "unread"
    BY <1>2, <2>3, <2>5
  <2>7. Types'
    BY <1>1, <2>1, <2>2, <2>5, LineFacts, SessionStays DEF Types
  <2> QED BY <1>1, <2>1, <2>2, <2>4, <2>6, <2>7, LinePrimed
<1>6. CASE pcount(Mailbox) # BUFFER_SIZE
  <2> DEFINE s == Past(proc[p])
  <2>1. /\ accepted' = Append(accepted, e)
        /\ SetMailbox(psend([Mailbox EXCEPT !.proc[p].rest = Tail(@)], p, e.char))
    BY <1>6 DEF keyboard_data
  <2>2. Len(messages) # BUFFER_SIZE
    <3>1. messages = <<>> => Len(messages) = 0
      OBVIOUS
    <3> QED BY <1>6, <3>1, LineFacts, SessionFacts DEF pcount, Mailbox
  <2>3. empty_process # <<>> => Head(empty_process) # p
    BY <1>1, <1>2, LineFacts
  <2>4. s \in Locals /\ s.call = "none" /\ s.mode \in {"user", "keys"}
        /\ accepted' \in Seq(Entry)
    BY <1>2, <1>3, <1>4, <2>1, LineFacts, PastFields, AppendFields
  <2>5. full_process' = <<>>
    BY <1>3, <1>4, <2>1, <2>2, <2>3, LineFacts, SendEffect
  <2>6. CASE proc[Reader].mode # "empty"
    <3>1. empty_process = <<>>
      BY <2>6, LineFacts
    <3>2. messages' = Append(messages, e.char) /\ empty_process' = empty_process
          /\ proc' = Put(proc, p, s)
      BY <1>3, <1>4, <2>1, <2>2, <2>3, <3>1, LineFacts, SendEffect
    <3> HIDE DEF e, s
    <3>3. Lines(Append(messages, e.char), empty_process, Put(proc, p, s), Append(accepted, e))
      BY <1>1, <1>2, <1>3, <1>4, <2>4, <2>6, LineFacts, LineAppends
    <3>4. proc' \in [Processes -> Locals]
          /\ proc'[Reader] = IF Reader = p THEN s ELSE proc[Reader]
      <4>1. Put(proc, p, s) \in [Processes -> Locals]
        BY <2>4, LineFacts, PutFields
      <4>2. Put(proc, p, s)[Reader] = IF Reader = p THEN s ELSE proc[Reader]
        BY <1>2, <2>4, LineFacts, PutAt
      <4> QED BY <3>2, <4>1, <4>2
    <3>5. messages' \in Seq(Nat)
      <4>1. messages \in Seq(Nat)
        BY LineFacts
      <4> QED BY <1>4, <3>2, <4>1
    <3>6. proc'[Reader].mode # "unread"
      BY <1>2, <2>4, <3>4
    <3>7. Types'
      BY <1>1, <2>4, <2>5, <3>2, <3>4, <3>5, LineFacts, SessionStays DEF Types
    <3> QED BY <1>1, <2>1, <3>2, <3>3, <3>6, <3>7, LinePrimed
  <2>7. CASE proc[Reader].mode = "empty"
    <3> DEFINE g == Got(proc[Reader], e.char)
               d == Put(proc, Reader, g)
               f == Put(d, p, s)
    <3>1. p # Reader /\ messages = <<>> /\ empty_process = <<Reader>>
      BY <1>1, <2>7, LineFacts
    <3>2. Head(empty_process) = Reader /\ Tail(empty_process) = <<>> /\ empty_process # <<>>
      BY <3>1
    <3>3. messages' = <<>> /\ empty_process' = <<>> /\ proc' = f
      BY <1>3, <1>4, <2>1, <2>2, <2>3, <3>1, <3>2, LineFacts, SendEffect
    <3> HIDE DEF e, s
    <3>4. Lines(<<>>, <<>>, f, Append(accepted, e))
      BY <1>1, <1>2, <1>3, <1>4, <2>4, <2>7, LineFacts, LineHands
    <3>5. g \in Locals /\ g.mode = "received"
      BY <1>4, LineFacts, GotFields
    <3> HIDE DEF g
    <3>6. d \in [Processes -> Locals] /\ d[Reader] = g
      BY <1>2, <3>5, LineFacts, PutReader
    <3> HIDE DEF d
    <3>7. f \in [Processes -> Locals] /\ f[Reader].mode = "received"
      BY <1>2, <2>4, <3>1, <3>5, <3>6, PutFields
    <3> HIDE DEF f
    <3>8. <<>> \in Seq(Nat) /\ <<>> \in Seq(Processes)
      OBVIOUS
    <3>9. Types'
      BY <1>1, <2>4, <2>5, <3>3, <3>7, <3>8, LineFacts, SessionStays DEF Types
    <3> QED BY <1>1, <2>1, <3>3, <3>4, <3>7, <3>9, LinePrimed
  <2> QED BY <2>6, <2>7
<1> QED BY <1>5, <1>6

LEMMA InsertFirst ==
  ASSUME NEW S, NEW e \in S, NEW list \in Seq(S)
  PROVE  /\ InsertAt(list, 1, e) \in Seq(S)
         /\ Len(InsertAt(list, 1, e)) = Len(list) + 1
         /\ InsertAt(list, 1, e)[1] = e
<1> DEFINE i == 1
           t == InsertAt(list, i, e)
<1>1. Len(list) \in Nat /\ i \in 1 .. Len(list) + 1 /\ i = 1
  OBVIOUS
<1> HIDE DEF i
<1>2. t \in Seq(S)
  BY <1>1, InsertAtElements
<1>3. Len(t) = Len(list) + 1
  BY <1>1, InsertAtElements
<1>4. t[i] = e
  BY <1>1, InsertAtElements
<1> HIDE DEF t
<1> QED BY <1>1, <1>2, <1>3, <1>4 DEF t

LEMMA InsertInEmpty ==
  ASSUME NEW S, NEW e \in S, NEW none \in Seq(S), Len(none) = 0
  PROVE  InsertAt(none, 1, e) = <<e>>
<1> DEFINE l == InsertAt(none, 1, e)
           u == <<e>>
<1>2. l \in Seq(S) /\ Len(l) = Len(none) + 1 /\ l[1] = e
  BY InsertFirst
<1>3. u \in Seq(S) /\ Len(u) = 1 /\ u[1] = e
  OBVIOUS
<1> HIDE DEF l, u
<1>4. Len(l) = Len(u) /\ \A j \in 1 .. Len(l) : l[j] = u[j]
  BY <1>2, <1>3
<1>5. l = u
  BY <1>2, <1>3, <1>4, SeqEqual
<1> QED BY <1>5 DEF l, u

LEMMA InsertAlone ==
  ASSUME NEW S, NEW e \in S
  PROVE  InsertAt(<<>>, 1, e) = <<e>>
<1> DEFINE none == <<>>
<1>1. none \in Seq(S) /\ Len(none) = 0
  OBVIOUS
<1> HIDE DEF none
<1>2. InsertAt(none, 1, e) = <<e>>
  BY <1>1, InsertInEmpty
<1> QED BY <1>2 DEF none

(* What EndOfLine stores. *)
LEMMA EndNumbered ==
  ASSUME Types, NEW p \in Processes, NEW saved \in Seq(Nat)
  PROVE  LET rest == Numbered(p, Append(saved, CR)) IN
         /\ rest \in Seq(Entry) /\ Len(rest) = Len(saved) + 1
         /\ rest[Len(rest)].char = CR
         /\ \A i \in 1 .. Len(saved) : rest[i].char = saved[i]
<1> DEFINE b == Append(saved, CR)
           rest == Numbered(p, b)
<1>1. b \in Seq(Nat) /\ b # <<>> /\ Len(b) = Len(saved) + 1 /\ Len(saved) \in Nat
      /\ b[Len(saved) + 1] = CR /\ (\A i \in 1 .. Len(saved) : b[i] = saved[i])
  BY DEF CR
<1> HIDE DEF b
<1>2. /\ rest \in Seq(Entry) /\ Len(rest) = Len(b)
      /\ \A i \in 1 .. Len(b) :
           rest[i] = [key |-> pressed, place |-> i, char |-> b[i], by |-> p]
  BY <1>1, NumberedFields
<1> HIDE DEF rest
<1>3. \A i \in 1 .. Len(b) : rest[i].char = b[i]
  <2> TAKE i \in 1 .. Len(b)
  <2>1. rest[i] = [key |-> pressed, place |-> i, char |-> b[i], by |-> p]
    BY <1>2
  <2> QED BY <2>1
<1>4. \A i \in 1 .. Len(saved) : i \in 1 .. Len(b)
  BY <1>1
<1>5. Len(b) \in 1 .. Len(b)
  BY <1>1
<1>6. rest[Len(rest)].char = CR
  BY <1>1, <1>2, <1>3, <1>5
<1>7. \A i \in 1 .. Len(saved) : rest[i].char = saved[i]
  BY <1>1, <1>3, <1>4
<1> QED BY <1>1, <1>2, <1>6, <1>7 DEF rest, b

(* The reader, with the locals r, enters preceive. *)
LEMMA LinePreceive ==
  ASSUME LineInv, ByLine(session), NEW r \in Locals, r.call = "readline",
         NEW low \in 0 .. MaxLine, NEW top \in 0 .. MaxLine, Places(messages, low, top),
         top <= TypedIn(accepted), Within(r, low),
         \/ proc[Reader].mode = "user"
         \/ proc[Reader].mode = "received" /\ proc[Reader].msg # CR,
         SetMailbox(preceive([Mailbox EXCEPT !.proc[Reader] = r], Reader)),
         UNCHANGED <<session, pressed, accepted>>
  PROVE  LineInv'
<1>1. /\ Types /\ session \in Sessions /\ messages \in Seq(Nat) /\ empty_process = <<>>
      /\ proc \in [Processes -> Locals] /\ pressed \in Nat /\ accepted \in Seq(Entry)
      /\ Lines(messages, empty_process, proc, accepted)
      /\ Reader \in Processes /\ session' = session /\ pressed' = pressed
      /\ accepted' = accepted
  BY LineFacts
<1>2. full_process' = <<>>
  BY <1>1, ReceiveEffect
<1>3. CASE messages = <<>>
  <2> DEFINE s == InMode(r, "empty")
             f == Put(proc, Reader, s)
  <2>1. /\ messages' = messages /\ empty_process' = push_waiting_process(empty_process, Reader)
        /\ proc' = f
    BY <1>1, <1>3, ReceiveEffect
  <2>2. push_waiting_process(empty_process, Reader) = <<Reader>>
    <3> DEFINE i == PrioSlot(<<>>, Prio, Reader)
    <3>1. <<>> \in Seq(Processes) /\ Len(<<>>) = 0
      OBVIOUS
    <3>2. i \in 1 .. Len(<<>>) + 1
      BY <3>1, PrioSlotRange
    <3>3. i = 1
      BY <3>1, <3>2
    <3> HIDE DEF i
    <3>4. InsertAt(<<>>, i, Reader) = <<Reader>>
      BY <1>1, <3>3, InsertAlone
    <3> QED BY <1>1, <3>4 DEF push_waiting_process, i
  <2>3. Lines(messages, <<Reader>>, f, accepted)
    BY <1>1, <1>3, LineReceives
  <2>4. s \in Locals /\ s.mode # "unread"
    BY InModeFields DEF Modes
  <2> HIDE DEF s
  <2>5. f \in [Processes -> Locals] /\ f[Reader] = s
    BY <1>1, <2>4, PutReader
  <2> HIDE DEF f
  <2>7. <<Reader>> \in Seq(Processes)
    BY <1>1
  <2>6. Types'
    BY <1>1, <1>2, <2>1, <2>2, <2>5, <2>7, SessionStays DEF Types
  <2> QED BY <1>1, <2>1, <2>2, <2>3, <2>4, <2>5, <2>6, LinePrimed
<1>4. CASE messages # <<>>
  <2> DEFINE s == Got(r, Head(messages))
             f == Put(proc, Reader, s)
  <2>1. messages' = Tail(messages) /\ empty_process' = empty_process /\ proc' = f
    BY <1>1, <1>4, ReceiveEffect
  <2>2. Head(messages) \in Nat /\ Tail(messages) \in Seq(Nat)
    BY <1>1, <1>4
  <2>3. Lines(Tail(messages), empty_process, f, accepted)
    BY <1>1, <1>4, LineReceives
  <2>4. s \in Locals /\ s.mode # "unread"
    BY <2>2, GotFields
  <2> HIDE DEF s
  <2>5. f \in [Processes -> Locals] /\ f[Reader] = s
    BY <1>1, <2>4, PutReader
  <2> HIDE DEF f
  <2>6. Types'
    BY <1>1, <1>2, <2>1, <2>2, <2>5, SessionStays DEF Types
  <2> QED BY <1>1, <2>1, <2>3, <2>4, <2>5, <2>6, LinePrimed
<1> QED BY <1>3, <1>4

LEMMA LineReadline ==
  ASSUME LineInv, ByLine(session), NEW p \in Processes, cons_readline(p)
  PROVE  LineInv'
<1>1. proc[p].mode = "received" /\ proc[p].call = "readline" /\ proc[p].msg # CR
      /\ SetMailbox(preceive([Mailbox EXCEPT !.proc[p] = Edit(proc[p])], p))
      /\ UNCHANGED <<session, pressed, accepted>>
  BY DEF cons_readline
<1>2. p = Reader /\ proc[Reader] \in Locals /\ session \in Sessions
  BY <1>1, LineFacts DEF Shape
<1>3. PICK low \in 0 .. MaxLine, top \in 0 .. MaxLine :
        /\ Places(messages, low, top)
        /\ AtLine(proc[Reader], Len(messages), TypedIn(accepted), low, top)
  BY LineFacts DEF Lines
<1>4. top <= TypedIn(accepted) /\ Within(proc[Reader], low - 1)
  BY <1>1, <1>2, <1>3 DEF AtLine
<1>5. Edit(proc[Reader]) \in Locals /\ Edit(proc[Reader]).call = "readline"
      /\ Within(Edit(proc[Reader]), low)
  BY <1>1, <1>2, <1>4, EditFields
<1> QED BY <1>1, <1>2, <1>3, <1>4, <1>5, LinePreceive

LEMMA LineCall ==
  ASSUME LineInv, ByLine(session), NEW p \in Readers, NEW call \in Calls, Call(p, call)
  PROVE  LineInv'
<1>1. p = Reader /\ call = "readline" /\ session \in Sessions
  BY LineFacts, ReaderFacts
<1>2. PICK junk \in Junk :
        SetMailbox(preceive([Mailbox EXCEPT
          !.proc[p] = [AtRest EXCEPT !.call = call, !.msg = junk]], p))
  BY DEF Call
<1> DEFINE r == Called(call, junk)
<1>3. r \in Locals /\ r.call = "readline" /\ r.msg_len = 0 /\ r.buf_save = <<>>
  BY <1>1, CalledFields, SessionsAssumption DEF SessionsAssumption
<1>4. SetMailbox(preceive([Mailbox EXCEPT !.proc[Reader] = r], Reader))
  BY <1>1, <1>2 DEF Called
<1>5. proc[Reader].mode = "user" /\ UNCHANGED <<session, pressed, accepted>>
  BY <1>1 DEF Call
<1> HIDE DEF r
<1>6. PICK low \in 0 .. MaxLine, top \in 0 .. MaxLine :
        /\ Places(messages, low, top)
        /\ AtLine(proc[Reader], Len(messages), TypedIn(accepted), low, top)
  BY LineFacts DEF Lines
<1>7. top <= TypedIn(accepted)
  BY <1>5, <1>6 DEF AtLine
<1>8. Within(r, low)
  BY <1>3 DEF Within
<1> QED BY <1>3, <1>4, <1>5, <1>6, <1>7, <1>8, LinePreceive

LEMMA LineReturn ==
  ASSUME LineInv, ByLine(session), NEW result, Return(Mailbox, Reader, result),
         \/ proc[Reader].mode = "received" /\ proc[Reader].msg = CR
         \/ proc[Reader].mode = "unread" /\ proc[Reader].rest = <<>>
  PROVE  LineInv'
<1> DEFINE f == Put(proc, Reader, AtRest)
<1>1. SetMailbox([Mailbox EXCEPT !.proc[Reader] = AtRest])
      /\ session' = session /\ pressed' = pressed /\ accepted' = accepted
  BY DEF Return
<1>2. /\ messages' = messages /\ empty_process' = empty_process /\ full_process' = full_process
      /\ proc' = f
  BY <1>1, LineFacts, SetEffect
<1>3. Lines(messages, empty_process, f, accepted)
  BY LineFacts, LineReturns
<1>4. f \in [Processes -> Locals] /\ f[Reader].mode # "unread"
  BY LineFacts, AtRestFields, PutReader
<1> HIDE DEF f
<1>5. Types'
  BY <1>1, <1>2, <1>4, LineFacts, SessionStays DEF Types
<1> QED BY <1>1, <1>2, <1>3, <1>4, <1>5, LinePrimed

(* preset wakes nobody: no other process is blocked. *)
LEMMA PresetEffect ==
  ASSUME LineInv, ByLine(session), proc[Reader].mode = "received", NEW s \in Locals,
         s.mode = "unread", SetMailbox(preset([Mailbox EXCEPT !.proc[Reader] = s]))
  PROVE  /\ messages' = <<>> /\ empty_process' = <<>> /\ full_process' = <<>>
         /\ proc' = Put(proc, Reader, s)
<1> DEFINE f == Put(proc, Reader, s)
           m == Box(messages, empty_process, f)
           woken == [p \in Processes |->
                       CASE f[p].mode = "empty" -> [f[p] EXCEPT !.mode = "received"]
                         [] f[p].mode = "full" -> Sent(m, p).proc[p]
                         [] OTHER -> f[p]]
<1>1. Mailbox = Box(messages, empty_process, proc)
  BY LineFacts DEF Mailbox, Box
<1>2. [Box(messages, empty_process, proc) EXCEPT !.proc[Reader] = s] = m
  BY DEF Box, Put
<1>3. SetMailbox(preset(m))
  BY <1>1, <1>2
<1>4. f \in [Processes -> Locals] /\ f[Reader] = s
      /\ \A p \in Processes : p # Reader => f[p].mode \in {"user", "keys"}
  BY LineFacts, PutReader DEF Shape
<1> HIDE DEF f
<1>5. woken = f
  <2>1. \A p \in Processes : f[p].mode \notin {"empty", "full"}
    BY <1>4
  <2>2. \A p \in Processes : woken[p] = f[p]
    BY <2>1
  <2> QED BY <1>4, <2>2
<1>6. m.proc = f
  BY DEF Box
<1>7. preset(m) = [[m EXCEPT !.messages = <<>>, !.empty_process = <<>>, !.full_process = <<>>]
                     EXCEPT !.proc = woken]
  BY <1>6 DEF preset
<1> HIDE DEF woken
<1>8. preset(m) = Box(<<>>, <<>>, f)
  BY <1>5, <1>7 DEF Box
<1> QED BY <1>3, <1>8, BoxSet DEF f

(* Nobody can run now who could not before. *)
LEMMA StaysActive ==
  ASSUME LineInv, ByLine(session), KeyInv, NEW m, SetMailbox(m), session' = session,
         NEW s \in Locals, s.mode = "unread", proc' = Put(proc, Reader, s),
         proc[Reader].mode \in {"received", "unread"}
  PROVE  active' = active
<1>1. Elected /\ session \in Sessions /\ sleeping \subseteq Processes
      /\ \A q \in sleeping : proc[q].mode # "keys"
  BY LineFacts DEF KeyInv, Elected
<1>2. \A q \in Processes : proc'[q] = IF q = Reader THEN s ELSE proc[q]
  BY LineFacts, PutAt
<1>3. \A q \in sleeping : proc'[q].mode # "keys"
  BY <1>1, <1>2
<1>4. \A q \in Processes : proc'[q].mode \in {"empty", "full"} <=> proc[q].mode \in {"empty", "full"}
  BY <1>2
<1>5. CanRun(proc', sleeping) = CanRun(proc, sleeping)
  BY <1>4 DEF CanRun
<1> QED BY <1>1, <1>3, <1>5, CallElects

LEMMA LineEnd ==
  ASSUME LineInv, ByLine(session), KeyInv, NEW p \in Processes, EndOfLine(p)
  PROVE  LineInv'
<1> DEFINE r == proc[Reader]
           rest == Numbered(p, Append(r.buf_save, CR))
           s == [r EXCEPT !.mode = "unread", !.rest = rest]
           f == Put(proc, Reader, s)
<1>1. active = p /\ proc[p].mode = "received" /\ proc[p].call = "readline" /\ proc[p].msg = CR
  BY DEF EndOfLine
<1>2. p = Reader /\ r \in Locals /\ session \in Sessions /\ Types /\ r.buf_save \in Seq(Nat)
  BY <1>1, LineFacts, LocalsFields DEF Shape
<1>3. CASE Return(Mailbox, p, proc[p].string)
  BY <1>1, <1>2, <1>3, LineReturn
<1>4. CASE /\ SetMailbox(preset([Mailbox EXCEPT
                !.proc[p].mode = "unread",
                !.proc[p].rest = Numbered(p, Append(proc[p].buf_save, CR))]))
           /\ UNCHANGED <<session, pressed, accepted>>
  <2>2. /\ rest \in Seq(Entry) /\ Len(rest) = Len(r.buf_save) + 1
        /\ rest[Len(rest)].char = CR
        /\ \A i \in 1 .. Len(r.buf_save) : rest[i].char = r.buf_save[i]
    BY <1>2, EndNumbered
  <2>4. [Mailbox EXCEPT !.proc[Reader].mode = "unread", !.proc[Reader].rest = rest] =
          [Mailbox EXCEPT !.proc[Reader] = s]
    <3> HIDE DEF rest
    <3> QED BY <1>2, LineFacts DEF Mailbox, Locals
  <2>5. SetMailbox(preset([Mailbox EXCEPT !.proc[Reader] = s]))
    BY <1>2, <1>4, <2>4
  <2>6. s \in Locals /\ s.mode = "unread" /\ s.call = "readline" /\ s.rest = rest
    <3> HIDE DEF rest
    <3> QED BY <1>1, <1>2, <2>2 DEF Locals, Modes
  <2> HIDE DEF s, rest
  <2>7. /\ messages' = <<>> /\ empty_process' = <<>> /\ full_process' = <<>> /\ proc' = f
    BY <1>1, <1>2, <2>5, <2>6, PresetEffect
  <2>8. Lines(<<>>, <<>>, f, accepted)
    BY <1>1, <1>2, <2>2, <2>6, LineFacts, LineUnread
  <2>9. f \in [Processes -> Locals]
    BY <2>6, LineFacts, PutReader
  <2> HIDE DEF f, r
  <2>10. session' = session /\ pressed' = pressed /\ accepted' = accepted
    BY <1>4
  <2>13. active' = Reader
    <3>1. proc[Reader].mode = "received" /\ proc' = Put(proc, Reader, s)
      BY <1>1, <1>2, <2>7 DEF f
    <3>2. active' = active
      BY <1>4, <2>6, <2>10, <3>1, StaysActive
    <3> QED BY <1>1, <1>2, <3>2
  <2>11. <<>> \in Seq(Nat) /\ <<>> \in Seq(Processes)
    OBVIOUS
  <2>12. Types'
    BY <2>7, <2>9, <2>10, <2>11, LineFacts, SessionStays DEF Types
  <2> QED BY <2>7, <2>8, <2>10, <2>12, <2>13, LinePrimed
<1> QED BY <1>3, <1>4 DEF EndOfLine

LEMMA LineSendBack ==
  ASSUME LineInv, ByLine(session), KeyInv, NEW p \in Processes, SendBack(p)
  PROVE  LineInv'
<1>1. active = p /\ proc[p].mode = "unread" /\ p = Reader /\ proc[Reader] \in Locals
      /\ session \in Sessions
  BY LineFacts DEF SendBack, Shape
<1>2. CASE proc[p].rest = <<>>
  BY <1>1, <1>2, LineReturn DEF SendBack
<1>3. CASE proc[p].rest # <<>>
  <2> DEFINE x == Head(proc[Reader].rest).char
             s == Past(proc[Reader])
             f == Put(proc, Reader, s)
  <2>1. SetMailbox(psend([Mailbox EXCEPT !.proc[Reader].rest = Tail(@)], Reader, x))
        /\ session' = session /\ pressed' = pressed /\ accepted' = accepted
    BY <1>1, <1>3 DEF SendBack
  <2>2. Len(messages) < BUFFER_SIZE
        /\ Lines(Append(messages, x), empty_process, f, accepted)
    BY <1>1, <1>3, LineFacts, LineSendsBack
  <2>3. x \in Nat /\ s \in Locals /\ s.mode = "unread"
    BY <1>1, <1>3, FirstOfRest, PastFields, LineFacts DEF Shape
  <2>4. Len(messages) # BUFFER_SIZE /\ empty_process = <<>> /\ Types /\ Reader \in Processes
        /\ messages \in Seq(Nat) /\ proc \in [Processes -> Locals]
    BY <1>1, <2>2, LineFacts, SessionFacts
  <2>5. /\ messages' = Append(messages, x) /\ empty_process' = empty_process
        /\ full_process' = <<>> /\ proc' = f
    BY <1>1, <1>3, <2>1, <2>3, <2>4, SendEffect
  <2> HIDE DEF x, s
  <2>6. f \in [Processes -> Locals]
    BY <1>1, <2>3, <2>4, PutReader
  <2>7. Append(messages, x) \in Seq(Nat)
    BY <2>3, <2>4
  <2>9. active' = Reader
    <3>1. active' = active
      BY <1>1, <2>1, <2>3, <2>5, StaysActive
    <3> QED BY <1>1, <3>1
  <2> HIDE DEF f
  <2>8. Types'
    BY <2>1, <2>4, <2>5, <2>6, <2>7, LineFacts, SessionStays DEF Types
  <2> QED BY <2>1, <2>2, <2>5, <2>8, <2>9, LinePrimed
<1> QED BY <1>2, <1>3

LEMMA LinePress ==
  ASSUME LineInv, ByLine(session), NEW p \in Processes, NEW key \in KeyStrings,
         PressKey(p, key)
  PROVE  LineInv'
<1> DEFINE rest == Numbered(p, key)
           s == Interrupted(proc[p], rest)
           f == Put(proc, p, s)
<1>1. /\ active = p /\ proc[p].mode = "user" /\ session' = session /\ pressed' = pressed + 1
      /\ proc' = [proc EXCEPT ![p].mode = "keys", ![p].rest = rest]
      /\ messages' = messages /\ empty_process' = empty_process /\ full_process' = full_process
      /\ accepted' = accepted
  BY DEF PressKey
<1>2. proc[p] \in Locals /\ session \in Sessions /\ Types /\ proc \in [Processes -> Locals]
      /\ pressed \in Nat /\ key \in Seq(Nat) /\ key # <<>> /\ Reader \in Processes
      /\ proc[p].call = "none" /\ proc[Reader].mode # "unread"
  BY <1>1, LineFacts, SessionFacts DEF Shape, LineInv
<1>3. rest \in Seq(Entry)
  BY <1>2, NumberedFields
<1>4. s \in Locals /\ s.mode = "keys" /\ s.call = "none"
  BY <1>2, <1>3, InterruptedFields
<1> HIDE DEF rest
<1>5. proc' = f
  BY <1>1, <1>2 DEF Put, Interrupted
<1> HIDE DEF s
<1>6. Lines(messages, empty_process, f, accepted)
  BY <1>1, <1>2, <1>4, LineFacts, LineElsewhere
<1>7. f \in [Processes -> Locals]
  BY <1>2, <1>4, PutFields
<1>8. f[Reader] = IF Reader = p THEN s ELSE proc[Reader]
  BY <1>2, <1>4, PutAt
<1> HIDE DEF f
<1>9. proc'[Reader].mode # "unread"
  BY <1>2, <1>4, <1>5, <1>8
<1>10. pressed + 1 \in Nat
  BY <1>2
<1>11. Types'
  BY <1>1, <1>5, <1>7, <1>10, LineFacts, SessionStays DEF Types
<1> QED BY <1>1, <1>5, <1>6, <1>9, <1>11, LinePrimed

(* The clock, and a process that goes to sleep: active is not sending back. *)
LEMMA LineClock ==
  ASSUME LineInv, ByLine(session), proc[active].mode = "user",
         UNCHANGED <<session, messages, empty_process, full_process, proc, pressed, accepted>>
  PROVE  LineInv'
<1>1. /\ messages' = messages /\ empty_process' = empty_process /\ full_process' = full_process
      /\ accepted' = accepted /\ session' = session /\ pressed' = pressed /\ proc' = proc
  OBVIOUS
<1>2. proc'[Reader].mode # "unread"
  BY <1>1 DEF LineInv
<1>3. Types'
  BY <1>1, LineFacts, SessionStays DEF Types
<1> QED BY <1>1, <1>2, <1>3, LineFacts, LinePrimed

LEMMA LineStep ==
  ASSUME LineInv, ByLine(session), KeyInv, InputNext
  PROVE  LineInv'
<1>1. CASE \E p \in Processes : Kernel(p)
  <2>1. PICK p \in Processes : Kernel(p)
    BY <1>1
  <2>2. ~cons_read(p)
    BY LineFacts DEF cons_read, Shape
  <2> QED BY <2>1, <2>2, LineKeyboardData, LineReadline, LineEnd, LineSendBack DEF Kernel
<1>2. CASE \E p \in Processes, key \in KeyStrings : PressKey(p, key)
  BY <1>2, LinePress
<1>3. CASE \E p \in Readers, call \in Calls : Call(p, call)
  BY <1>3, LineCall
<1>4. CASE \E p \in Processes \ {Idle} : wait_clock(p)
  BY <1>4, LineClock DEF wait_clock
<1>5. CASE ClockTick
  BY <1>5, LineClock DEF ClockTick
<1> QED BY <1>1, <1>2, <1>3, <1>4, <1>5 DEF InputNext

LEMMA LineStart ==
  ASSUME InputInit, ByLine(session)
  PROVE  LineInv
<1>1. /\ session \in Sessions /\ messages = <<>> /\ empty_process = <<>> /\ full_process = <<>>
      /\ proc = [p \in Processes |-> AtRest] /\ pressed = 0 /\ accepted = <<>>
  BY DEF InputInit
<1>2. Types
  BY <1>1, AtRestFields DEF Types
<1>3. proc[Reader] = AtRest /\ \A p \in Processes : proc[p] = AtRest
  BY <1>1, ReaderFacts
<1>4. TypedIn(accepted) \in Nat
  BY <1>2, TypedValue DEF Types
<1>5. Shape(proc)
  BY <1>3, AtRestFields DEF Shape
<1>7. Places(messages, 0, 0) /\ 0 \in 0 .. MaxLine
  BY <1>1, PlacesEmpty, SessionFacts
<1>8. AtLine(proc[Reader], Len(messages), TypedIn(accepted), 0, 0)
  BY <1>3, <1>4, AtRestFields DEF AtLine
<1>9. Lines(messages, empty_process, proc, accepted)
  BY <1>1, <1>3, <1>5, <1>7, <1>8, AtRestFields DEF Lines
<1> QED BY <1>2, <1>3, <1>9, AtRestFields DEF LineInv

InputInv ==
  /\ session \in Sessions /\ (ByCharacter(session) \/ ByLine(session)) /\ KeyInv
  /\ ByCharacter(session) => CharInv
  /\ ByLine(session) => LineInv

LEMMA CharSettled ==
  ASSUME CharInv
  PROVE  Settled
<1>1. Types /\ (\A p \in Processes : CharLocals(proc[p]))
      /\ IsListOf(empty_process, In(proc, "empty"))
  BY DEF CharInv
<1>2. \A p \in Processes :
        /\ proc[p].mode # "full" /\ proc[p].mode # "unread"
        /\ proc[p].mode = "keys" => proc[p].call = "none"
  BY <1>1 DEF CharLocals
<1>3. empty_process # <<>> => proc[Head(empty_process)].mode = "empty"
  <2> SUFFICES ASSUME empty_process # <<>> PROVE proc[Head(empty_process)].mode = "empty"
    OBVIOUS
  <2>2. Head(empty_process) \in In(proc, "empty")
    BY <1>1, TailList DEF Types
  <2> QED BY <2>2 DEF In
<1> QED BY <1>1, <1>2, <1>3 DEF Settled

LEMMA KeyStart ==
  ASSUME InputInit
  PROVE  KeyInv
<1>1. /\ session \in Sessions /\ proc = [p \in Processes |-> AtRest] /\ pressed = 0
      /\ accepted = <<>> /\ active = Idle /\ sleeping = Processes \ {Idle}
  BY DEF InputInit
<1>2. Idle \in Processes /\ Prio \in [Processes -> Nat] /\ MaxLine \in Nat
  BY <1>1, SessionFacts
<1>3. \A p \in Processes : proc[p].mode = "user"
  BY <1>1, AtRestFields
<1>4. CanRun(proc, sleeping) = {Idle}
  BY <1>1, <1>2, <1>3 DEF CanRun
<1>5. Elected
  <2>1. Prio[Idle] <= Prio[Idle]
    BY <1>2
  <2> QED BY <1>1, <1>3, <1>4, <2>1 DEF Elected
<1>6. Handling(proc) = {} /\ Len(accepted) = 0 /\ DOMAIN accepted = {}
  BY <1>1, <1>3 DEF Handling
<1>7. Stacked(proc, accepted, pressed)
  BY <1>6 DEF Stacked
<1>8. WaitingIn(proc) = {}
  BY <1>6 DEF WaitingIn
<1>9. TypedIn(accepted) = 0
  BY <1>6 DEF TypedIn
<1>10. Loaded(proc, accepted)
  BY <1>2, <1>8, <1>9, FS_EmptySet DEF Loaded
<1> QED BY <1>5, <1>6, <1>7, <1>10 DEF KeyInv, KeysInOrder, OvertakenByHigher

LEMMA InputStep == InputInv /\ [InputNext]_input_vars => InputInv'
<1> SUFFICES ASSUME InputInv, [InputNext]_input_vars PROVE InputInv'
  OBVIOUS
<1>1. CASE InputNext
  <2>1. session' = session
    BY <1>1 DEF InputNext, Kernel, keyboard_data, cons_read, cons_readline, EndOfLine, SendBack,
                Return, PressKey, Call, wait_clock, ClockTick
  <2>4. Settled
    BY CharSettled, LineSettled DEF InputInv
  <2>5. KeyInv'
    BY <1>1, <2>4, KeyStep DEF InputInv
  <2>2. ByCharacter(session) => CharInv'
    BY <1>1, CharStep DEF InputInv
  <2>3. ByLine(session) => LineInv'
    BY <1>1, LineStep DEF InputInv
  <2> QED BY <2>1, <2>2, <2>3, <2>5 DEF InputInv
<1>2. CASE UNCHANGED input_vars
  <2>1. /\ session' = session /\ messages' = messages /\ empty_process' = empty_process
        /\ full_process' = full_process /\ proc' = proc /\ pressed' = pressed
        /\ accepted' = accepted /\ returned' = returned /\ active' = active
        /\ sleeping' = sleeping
    BY <1>2 DEF input_vars
  <2>2. Types => Types'
    BY <2>1, SessionStays DEF Types
  <2>3. ByCharacter(session) => CharInv'
    <3>1. In(proc, "empty")' = In(proc, "empty") /\ In(proc, "received")' = In(proc, "received")
      BY <2>1, SessionStays DEF In
    <3>2. (\A p \in Processes : CharLocals(proc[p])) => (\A p \in Processes : CharLocals(proc[p]))'
      BY <2>1, SessionStays DEF CharLocals
    <3> QED BY <2>1, <2>2, <3>1, <3>2 DEF InputInv, CharInv, IsListOf, IsInjective, Range
  <2>4. ByLine(session) => LineInv'
    BY <2>1, <2>2, LinePrimed DEF InputInv, LineInv
  <2>5. Settled
    BY CharSettled, LineSettled DEF InputInv
  <2>6. Elected'
    BY <2>1, SessionStays DEF InputInv, KeyInv, Elected, CanRun
  <2>7. KeyInv'
    BY <2>1, <2>5, <2>6, KeyOthers DEF InputInv, NoNewKeys
  <2> QED BY <2>1, <2>3, <2>4, <2>7 DEF InputInv
<1> QED BY <1>1, <1>2

LEMMA CharDelivered ==
  ASSUME CharInv, KeyInv
  PROVE  KeysDelivered
<1>1. \A p \in Processes : proc[p].mode # "full"
  BY DEF CharInv, CharLocals
<1>2. {p \in Processes : proc[p].mode \in {"full"}} = {}
      /\ {p \in Processes : proc[p].mode \in {"received"}} = In(proc, "received")
  BY <1>1 DEF In
<1>3. Cardinality({}) = 0
  BY FS_EmptySet
<1>4. Len(accepted) = Len(returned) + Len(messages) + Cardinality(In(proc, "received"))
      /\ Len(returned) \in Nat /\ Len(messages) \in Nat
      /\ Cardinality(In(proc, "received")) \in Nat
  <2>1. In(proc, "received") \subseteq Processes /\ IsFiniteSet(Processes)
    BY SessionFacts DEF CharInv, Types, In
  <2>2. Cardinality(In(proc, "received")) \in Nat
    BY <2>1, FS_Subset, FS_CardinalityType
  <2> QED BY <2>2 DEF CharInv, Types
<1> DEFINE Count(S) == Cardinality({p \in Processes : proc[p].mode \in S})
<1>5. ReadOnce
  <2>1. Count({"full"}) = 0
    BY <1>2, <1>3
  <2>2. Count({"received"}) = Cardinality(In(proc, "received"))
    BY <1>2
  <2> SUFFICES Len(accepted) = Len(returned) + Len(messages) + Count({"received"}) + Count({"full"})
    BY DEF ReadOnce
  <2> HIDE DEF Count
  <2> QED BY <1>4, <2>1, <2>2
<1>6. KeysInOrder /\ OvertakenByHigher
  BY DEF KeyInv
<1>7. InterruptNeverBlocks
  BY <1>1 DEF InterruptNeverBlocks
<1> QED BY <1>5, <1>6, <1>7 DEF KeysDelivered

LEMMA LineDelivered ==
  ASSUME LineInv, KeyInv, ByLine(session)
  PROVE  KeysDelivered
<1>1. \A p \in Processes : proc[p].mode # "full"
  BY LineFacts DEF Shape
<1>2. InterruptNeverBlocks
  BY <1>1 DEF InterruptNeverBlocks
<1>3. ReadOnce
  BY DEF ReadOnce, ByLine, Calls
<1>4. KeysInOrder /\ OvertakenByHigher
  BY DEF KeyInv
<1> QED BY <1>2, <1>3, <1>4 DEF KeysDelivered

(* keyboard_data, cons_read, cons_readline and the scheduler, for any       *)
(* number of processes of any priorities, equal ones included: where the   *)
(* readers of the console read single characters, or one process reads     *)
(* lines of fewer than BUFFER_SIZE characters beyond its length, the       *)
(* interrupt handler never blocks the process it interrupted, the          *)
(* characters of a key are accepted in order and without a gap, a later    *)
(* key overtakes the rest of one only through another process of at least  *)
(* the same priority, and no character is lost or read twice.              *)
THEOREM KeysAlwaysDelivered ==
  ASSUME \A s \in Sessions : ByCharacter(s) \/ ByLine(s)
  PROVE  InputSpec => []KeysDelivered
<1>1. InputSpec => InputInit /\ [][InputNext]_input_vars
  BY PTL DEF InputSpec
<1>2. InputInit => InputInv
  BY CharStart, LineStart, KeyStart DEF InputInv, InputInit
<1>3. InputInit /\ [][InputNext]_input_vars => []InputInv
  BY <1>2, InputStep, PTL
<1>4. InputInv => KeysDelivered
  BY CharDelivered, LineDelivered DEF InputInv
<1> QED BY <1>1, <1>3, <1>4, PTL
=============================================================================
