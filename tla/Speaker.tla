------------------------------ MODULE Speaker --------------------------------
(***************************************************************************)
(* The PC speaker: kernel/driver/beep.c, with echo of driver/keyboard.c    *)
(* and the clock interrupt as its users.                                   *)
(*                                                                         *)
(* beep sounds while its process sleeps, async_beep sounds until the clock *)
(* interrupt finds beeping_end passed; both drive one speaker.  Deadlines  *)
(* are kept as ticks left, so that the clock need not be a variable; the   *)
(* sentinel beeping_end == 0 is None.                                      *)
(***************************************************************************)
EXTENDS Integers

CONSTANTS
  Users,       \* who may use the speaker: [players, typed, kill, beeps]
  Delays,      \* delays of the calls of beep, in ticks
  AsyncDelay   \* delay of every call of async_beep, .1 s in the code

ASSUME SpeakerAssumption == Delays \subseteq Nat /\ AsyncDelay \in Nat

None == -1

VARIABLES
  users,       \* those who do
  sounding,    \* bits 0 and 1 of port 0x61
  beeping_end, \* ticks left of the asynchronous beep, or None
  asleep,      \* ticks left of the beep each player sleeps in, or None
  piano,       \* keyboard.c: the keys are notes
  echo_on,
  started,     \* beeps started so far
  due          \* history: ticks until the end of the last asynchronous beep

speaker_vars == <<users, sounding, beeping_end, asleep, piano, echo_on, started, due>>

Players == users.players  \* processes that call beep
Typed == users.typed      \* characters typed: "note", "bell", "ctrl_p", "letter"
MayKill == users.kill     \* whether a player may be killed
MaxBeeps == users.beeps   \* bound: beeps started

SpeakerInit ==
  /\ users \in Users
  /\ sounding = FALSE
  /\ beeping_end = None
  /\ asleep = [p \in Players |-> None]
  /\ piano = FALSE
  /\ echo_on = TRUE
  /\ started = 0
  /\ due = 0

start_beep == /\ started < MaxBeeps
              /\ started' = started + 1
              /\ sounding' = TRUE

(* Fault: the deadline of a beep still sounding is kept. *)
async_beep_KeepEnd ==
  /\ start_beep
  /\ beeping_end' = IF beeping_end = None THEN AsyncDelay ELSE beeping_end
  /\ due' = AsyncDelay

(* A late beep takes the place of an earlier one. *)
async_beep == /\ start_beep
              /\ beeping_end' = AsyncDelay
              /\ due' = AsyncDelay

(* beep: wait_clock puts the player to sleep, *)
beep(p, d) ==
  /\ asleep[p] = None
  /\ start_beep
  /\ asleep' = [asleep EXCEPT ![p] = d]
  /\ UNCHANGED <<users, beeping_end, piano, echo_on, due>>

(* Fault: the speaker is left on. *)
BeepEnds_On(p) ==
  /\ asleep[p] = 0
  /\ asleep' = [asleep EXCEPT ![p] = None]
  /\ UNCHANGED <<users, sounding, beeping_end, piano, echo_on, started, due>>

(* and stop_beep follows when it runs again. *)
BeepEnds(p) ==
  /\ asleep[p] = 0
  /\ sounding' = FALSE
  /\ asleep' = [asleep EXCEPT ![p] = None]
  /\ UNCHANGED <<users, beeping_end, piano, echo_on, started, due>>

(* Fault: the deadline is forgotten, not served, once it is reached. *)
check_buzzer_Forgets ==
  /\ beeping_end' = IF beeping_end \in {None, 0} THEN None ELSE beeping_end - 1
  /\ UNCHANGED sounding

(* Fault: no beep counts as one that is over. *)
check_buzzer_NoSentinel ==
  IF beeping_end <= 1
  THEN sounding' = FALSE /\ beeping_end' = None
  ELSE beeping_end' = beeping_end - 1 /\ UNCHANGED sounding

check_buzzer ==
  IF beeping_end = None THEN UNCHANGED <<sounding, beeping_end>>
  ELSE IF beeping_end <= 1
  THEN sounding' = FALSE /\ beeping_end' = None
  ELSE beeping_end' = beeping_end - 1 /\ UNCHANGED sounding

(* The clock interrupt: the count, then check_buzzer. *)
tic_PIT ==
  /\ asleep' = [p \in Players |-> IF asleep[p] > 0 THEN asleep[p] - 1 ELSE asleep[p]]
  /\ check_buzzer
  /\ due' = IF due > 0 THEN due - 1 ELSE 0
  /\ UNCHANGED <<users, piano, echo_on, started>>

(* A key: keyboard_data calls echo.  Text goes to the console. *)
echo(c) ==
  /\ echo_on
  /\ \/ /\ (piano /\ c = "note") \/ (~piano /\ c = "bell")
        /\ async_beep
        /\ UNCHANGED <<users, asleep, piano, echo_on>>
     \/ /\ c = "ctrl_p"
        /\ piano' = ~piano
        /\ UNCHANGED <<users, sounding, beeping_end, asleep, echo_on, started, due>>

cons_echo(on) ==
  /\ echo_on' = on
  /\ UNCHANGED <<users, sounding, beeping_end, asleep, piano, started, due>>

(* kill, of a player that sleeps in beep (module Kernel). *)
Kill(p) ==
  /\ MayKill
  /\ asleep[p] # None
  /\ asleep' = [asleep EXCEPT ![p] = None]
  /\ UNCHANGED <<users, sounding, beeping_end, piano, echo_on, started, due>>

SpeakerNext ==
  \/ \E p \in Players, d \in Delays : beep(p, d)
  \/ \E p \in Players : BeepEnds(p)
  \/ \E p \in Players : Kill(p)
  \/ \E c \in Typed : echo(c)
  \/ \E on \in BOOLEAN : cons_echo(on)
  \/ tic_PIT

(* The clock ticks, and a process that is awake runs in the end. *)
SomeBeepEnds == \E p \in Players : BeepEnds(p)
SpeakerSpec ==
  /\ SpeakerInit /\ [][SpeakerNext]_speaker_vars
  /\ WF_speaker_vars(tic_PIT)
  /\ WF_speaker_vars(SomeBeepEnds)

-----------------------------------------------------------------------------
(* Properties. *)

(* The speaker sounds only while someone is bound to silence it: a player  *)
(* in beep, or the clock interrupt.  (A player killed in beep leaves it    *)
(* on.)                                                                    *)
SomeoneStops == sounding /\ ~MayKill => beeping_end # None \/ \E p \in Players : asleep[p] # None

(* Once no more beeps are started the speaker falls silent for good.       *)
FallsSilent == ~MayKill => <>[](~sounding)

(* async_beep and beep: a beep is heard until its delay has passed, though *)
(* a later one may have taken over.  With a player and the keys, or two    *)
(* players, the end of one beep cuts another short.                        *)
OneSource == Players = {} \/ (Typed = {} /\ \A p, q \in Players : p = q)
HeardToTheEnd ==
  OneSource /\ (due > 0 \/ \E p \in Players : asleep[p] > 0) => sounding

(* beep, async_beep and check_buzzer: a beep lasts its delay and no longer. *)
BeepsHeard == [](SomeoneStops /\ HeardToTheEnd) /\ FallsSilent
=============================================================================
