------------------------------ MODULE MCScreen -------------------------------
(***************************************************************************)
(* The screen and the mouse for TLC: the console with its writers, the     *)
(* mouse on the console, and the initialisation of the mouse (Ps2).  part  *)
(* is what is looked at.                                                   *)
(***************************************************************************)
EXTENDS Mouse, Ps2

VARIABLE part                 \* "console", "mouse" or "ps2"
screen_vars == <<console_vars, mouse_vars, ps2_vars, part>>

Flags(dx, dy, buttons) ==
  8 + buttons + (IF dx < 0 THEN 16 ELSE 0) + (IF dy < 0 THEN 32 ELSE 0)
Byte(d) == IF d < 0 THEN d + 256 ELSE d
Packet(dx, dy, buttons) == <<Flags(dx, dy, buttons), Byte(dx), Byte(dy)>>

(* Displacements of -1, 0 and 1 cells.  The bytes have their bit 3 clear,  *)
(* so only a first byte can pass for one.                                  *)
LowPackets == {Packet(dx, dy, 0) : dx, dy \in {-16, 0, 16}}

(* Displacements of any size and direction, an overflow, fourth bytes with *)
(* the unused bits set, and clicks in the last column.                     *)
WidePackets ==
  {Append(Packet(dx, dy, 0), extra) :
     dx \in {-256, -9, 0, 255}, dy \in {-8, 255}, extra \in {0, 64}}
  \union {<<8 + 64, 20, 0, 0>>}
  \union {Append(Packet(255, 0, buttons), 0) : buttons \in {1, 2}}

Plain == [packets |-> LowPackets, lost |-> 2]
Wheel == [packets |-> WidePackets, lost |-> 1]
MCMice == {Plain, Wheel}

-----------------------------------------------------------------------------
MouseAtRest == mouse = Plain /\ MouseInit
Ps2AtRest == device = NoDevice /\ broken = "none" /\ config = PS2_CFG_FIRST_PORT /\ Ps2Init

Init ==
  \/ part = "mouse" /\ MouseInit /\ Ps2AtRest
  \/ part = "console" /\ MouseAtRest /\ Ps2AtRest
  \/ part = "ps2" /\ MouseAtRest /\ Ps2Init

OfMouse(A) == part = "mouse" /\ A /\ UNCHANGED <<ps2_vars, part>>

WriteStep == part = "console" /\ ConsoleStep /\ UNCHANGED <<ps2_vars, part>>
MouseStep == OfMouse(mouse_IT)
SendStep == OfMouse(MouseSends)
LoseStep == OfMouse(Lose)
ClockStep == OfMouse(~rebooted /\ tic_PIT /\ UNCHANGED mouse_vars)
Ps2Step == part = "ps2" /\ Ps2Next /\ UNCHANGED <<console_vars, mouse_vars, part>>

Next == WriteStep \/ MouseStep \/ SendStep \/ LoseStep \/ ClockStep \/ Ps2Step

(* The fairness of Mouse and of Ps2. *)
Spec ==
  /\ Init /\ [][Next]_screen_vars
  /\ WF_screen_vars(MouseStep) /\ WF_screen_vars(SendStep) /\ WF_screen_vars(Ps2Step)

(* mouse_IT, mouse_handle_packet and mouse_callback: the pointer stays on  *)
(* the screen and highlights one cell, and the start of the packets is     *)
(* found again after bytes were lost.                                      *)
PointerFollows ==
  [](OneHighlight /\ OnScreen) /\ (part = "mouse" => FindsStep)

(* init_ps2 and init_mouse end, the keyboard keeps its interrupts, and a   *)
(* mouse that passes its tests sends packets of the size expected.         *)
MouseReady ==
  [](PacketSizesAgree /\ KeyboardKept) /\ (part = "ps2" => MouseWorks)
=============================================================================
