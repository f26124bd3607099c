----------------------------- MODULE MCKeyboard ------------------------------
(***************************************************************************)
(* The keyboard and the speaker for TLC: the translation of scan codes     *)
(* (LinuxKeyboard), the way of the characters to the readers of the        *)
(* console (ConsoleInput) and the speaker (Speaker).  part is the one that *)
(* is looked at; the others stay as they start.                            *)
(***************************************************************************)
EXTENDS LinuxKeyboard, ConsoleInput, Speaker

VARIABLE part                 \* "codes", "input" or "speaker"
all_vars == <<kbd_vars, input_vars, speaker_vars, part>>

(* All modifiers, with a letter; the keypad, two modifiers possibly held   *)
(* while the system starts; and the keys that behave in their own way.     *)
Modifiers == [keys |-> {16, 42, 54, 29, 97, 100, 58}, boot |-> {}, held |-> 7]
Keypad == [keys |-> {79, 72, 69, 56, 42, 96, 119, 59}, boot |-> {56, 42}, held |-> 3]
Others == [keys |-> {79, 56, 42, 70, 111, 103, 59, 57, 28}, boot |-> {}, held |-> 3]
MCKeyboards == {Modifiers, Keypad, Others}

(* Lines in pieces, with no type-ahead; short lines with type-ahead on a   *)
(* buffer that fills up; the same beside two processes of one priority     *)
(* that do not read; and three readers of single characters, two of them   *)
(* of one priority.  A key sends a letter, Delete, Enter, or several       *)
(* characters.                                                             *)
LineKeys == {<<97>>, <<DEL>>, <<CR>>, <<98, 99, 100>>}
LongLines == [buffer |-> 4, prio |-> [p \in 0 .. 1 |-> p], readers |-> {1},
              calls |-> {"readline"}, length |-> 2, keys |-> LineKeys, ahead |-> FALSE,
              pressed |-> 7, line |-> 5]
ShortLines == [LongLines EXCEPT !.buffer = 3, !.length = 6, !.ahead = TRUE, !.pressed = 4]
Beside == [ShortLines EXCEPT !.prio = [p \in 0 .. 3 |-> IF p = 1 THEN 2 ELSE Min({p, 1})],
                             !.keys = {<<97>>, <<CR>>, <<98, 99>>}, !.pressed = 3]
Characterwise == [buffer |-> 2, prio |-> [p \in 0 .. 3 |-> Min({p, 2})], readers |-> {1, 2, 3},
                  calls |-> {"read"}, length |-> 1, keys |-> {<<98, 99>>}, ahead |-> TRUE,
                  pressed |-> 3, line |-> 99]
MCSessions == {LongLines, ShortLines, Beside, Characterwise}

(* Two players and the keys; the keys alone; one player, who may be killed. *)
AllKeys == {"note", "bell", "ctrl_p"}
Together == [players |-> {1, 2}, typed |-> AllKeys, kill |-> FALSE, beeps |-> 4]
Piano == [players |-> {}, typed |-> AllKeys, kill |-> FALSE, beeps |-> 12]
Alone == [players |-> {1}, typed |-> {}, kill |-> TRUE, beeps |-> 12]
MCUsers == {Together, Piano, Alone}

-----------------------------------------------------------------------------
CodesAtRest == keyboard = Modifiers /\ KbdInit
InputAtRest == session = ShortLines /\ InputInit
SpeakerAtRest == users = Piano /\ SpeakerInit

Init ==
  \/ part = "codes" /\ KbdInit /\ InputAtRest /\ SpeakerAtRest
  \/ part = "input" /\ InputInit /\ CodesAtRest /\ SpeakerAtRest
  \/ part = "speaker" /\ SpeakerInit /\ CodesAtRest /\ InputAtRest

OfInput(A) == part = "input" /\ A /\ UNCHANGED <<kbd_vars, speaker_vars, part>>
OfSpeaker(A) == part = "speaker" /\ A /\ UNCHANGED <<kbd_vars, input_vars, part>>

CodesStep == part = "codes" /\ KbdNext /\ UNCHANGED <<input_vars, speaker_vars, part>>
InputStep == OfInput(InputNext)
SpeakerStep == OfSpeaker(SpeakerNext)

Next == CodesStep \/ InputStep \/ SpeakerStep

(* The fairness of ConsoleInput and of Speaker. *)
Spec ==
  /\ Init /\ [][Next]_all_vars
  /\ WF_all_vars(OfInput(InKernel))
  /\ WF_all_vars(OfSpeaker(tic_PIT)) /\ WF_all_vars(OfSpeaker(SomeBeepEnds))
=============================================================================
