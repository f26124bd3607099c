------------------------------- MODULE Mouse ---------------------------------
(***************************************************************************)
(* The mouse: the bytes read by mouse_IT and the packets decoded by        *)
(* mouse_handle_packet of kernel/driver/mouse.c, and mouse_callback of     *)
(* kernel/interrupt.c, which colours the console.                          *)
(*                                                                         *)
(* The mouse (external) sends well-formed packets without end, all of the  *)
(* size that the initialisation found (PacketSizesAgree of module Ps2);    *)
(* the line may lose bytes of them.                                        *)
(***************************************************************************)
EXTENDS Console

CONSTANT
  Mice            \* mice and their use, [packets, lost]

VARIABLES
  mouse,          \* the one that is plugged in
  mouse_state,    \* position and buttons
  mouse_previous, \* the position whose colour mouse_callback takes back
  packet,         \* the bytes received of the current packet
  rebooted,
  line,           \* bytes of the current packet the mouse has yet to send
  lost,           \* bytes lost so far
  clicked         \* history: cells on which the left button was down

mouse_vars == <<mouse, mouse_state, mouse_previous, packet, rebooted, line, lost, clicked>>
all_vars == <<console_vars, mouse_vars>>

Packets == mouse.packets   \* packets it may send, sequences of bytes
MaxLost == mouse.lost      \* bound: bytes lost on the line

SizeIn(packets) == Len(CHOOSE p \in packets : TRUE)
ASSUME PacketsAssumption ==
  \A m \in Mice :
    /\ SizeIn(m.packets) \in {3, 4}
    /\ \A p \in m.packets : p \in Seq(0 .. 255) /\ Len(p) = SizeIn(m.packets)

packet_size == SizeIn(Packets)   \* bytes_per_packet

Bit(byte, k) == (byte \div 2^k) % 2 = 1
MOUSE_LEFT == 0
MOUSE_RIGHT == 1
MOUSE_MIDDLE == 2
MOUSE_ALWAYS_SET == 3
MOUSE_X_NEG == 4
MOUSE_Y_NEG == 5
MOUSE_X_OVERFLOW == 6
MOUSE_Y_OVERFLOW == 7

(* C division: towards zero. *)
Quotient(n, d) == IF n >= 0 THEN n \div d ELSE -((-n) \div d)
(* The nine-bit displacement of a packet. *)
Delta(flags, neg, byte) == IF Bit(flags, neg) THEN byte - 256 ELSE byte

(* Fault: only the far edges are guarded. *)
Clamp_High(n, size) == IF n >= size - 1 THEN size - 1 ELSE n

Clamp(n, size) == IF n >= size - 1 THEN size - 1 ELSE IF n <= 0 THEN 0 ELSE n

(* The state a packet leads to. *)
Moved(state, flags, dx, dy) ==
  [x |-> Clamp(state.x + Quotient(Delta(flags, MOUSE_X_NEG, dx), 10), CONSOLE_COL),
   y |-> Clamp(state.y - Quotient(Delta(flags, MOUSE_Y_NEG, dy), 8), CONSOLE_LIG),
   left |-> Bit(flags, MOUSE_LEFT), right |-> Bit(flags, MOUSE_RIGHT),
   middle |-> Bit(flags, MOUSE_MIDDLE)]

(* mouse_handle_packet returns at once. *)
Ignored(p) ==
  \/ Len(p) = 4 /\ (Bit(p[4], 7) \/ Bit(p[4], 6))
  \/ Bit(p[1], MOUSE_X_OVERFLOW) \/ Bit(p[1], MOUSE_Y_OVERFLOW)

-----------------------------------------------------------------------------
(* mouse_callback, on the console and the previous position.               *)

Place(s) == <<s.x, s.y>>
Colour(c, place, colour) == console_set_background_at(c, place[1], place[2], colour)

ButtonColour(s) ==
  IF s.left THEN BLUE ELSE IF s.right THEN RED ELSE GREEN
Pressed(s) == s.left \/ s.right \/ s.middle

(* Fault: the previous position is never recorded. *)
PreviousOf_Never(s) == mouse_previous

(* The early returns of mouse_callback leave mouse_previous alone. *)
PreviousOf(s) == IF Pressed(s) THEN mouse_previous ELSE Place(s)

OnCross(s) == s.x = CONSOLE_COL - 1 /\ s.y = 0

mouse_callback(s) ==
  /\ con' = Colour(Colour(con, mouse_previous, BLACK), Place(s), ButtonColour(s))
  /\ rebooted' = (s.left /\ OnCross(s))
  /\ mouse_previous' = IF rebooted' THEN mouse_previous ELSE PreviousOf(s)
  /\ clicked' = IF s.left THEN clicked \union {Place(s)} ELSE clicked

mouse_handle_packet(p) ==
  LET s == Moved(mouse_state, p[1], p[2], p[3]) IN
  IF Ignored(p)
  THEN UNCHANGED <<con, mouse_state, mouse_previous, rebooted, clicked>>
  ELSE /\ mouse_state' = s
       /\ IF s = mouse_state
          THEN UNCHANGED <<con, mouse_previous, rebooted, clicked>>
          ELSE mouse_callback(s)

(* Fault: the first byte of a packet is not looked at. *)
Skipped_Never(byte) == FALSE

(* A byte that cannot be the first of a packet. *)
Skipped(byte) == packet = <<>> /\ ~Bit(byte, MOUSE_ALWAYS_SET)

(* The interrupt: one byte.  packet stands for packet and current_byte. *)
mouse_IT ==
  LET byte == Head(line)
      full == Append(packet, byte)
  IN /\ ~rebooted
     /\ line # <<>>
     /\ line' = Tail(line)
     /\ IF Skipped(byte)
        THEN UNCHANGED <<con, mouse_state, mouse_previous, packet, rebooted, clicked>>
        ELSE IF Len(full) < packet_size
        THEN /\ packet' = full
             /\ UNCHANGED <<con, mouse_state, mouse_previous, rebooted, clicked>>
        ELSE packet' = <<>> /\ mouse_handle_packet(full)
     /\ UNCHANGED <<pit_count, paper, position, mouse, lost>>

(* The mouse starts a packet. *)
SendPacket(p) ==
  /\ line = <<>>
  /\ line' = p
  /\ UNCHANGED <<console_vars, mouse, mouse_state, mouse_previous, packet, rebooted, lost, clicked>>

Lose ==
  /\ line # <<>>
  /\ lost < MaxLost
  /\ line' = Tail(line)
  /\ lost' = lost + 1
  /\ UNCHANGED <<console_vars, mouse, mouse_state, mouse_previous, packet, rebooted, clicked>>

ConsoleStep == ~rebooted /\ ConsoleNext /\ UNCHANGED mouse_vars

MouseInit ==
  /\ ConsoleInit
  /\ mouse \in Mice
  /\ mouse_state = [x |-> 0, y |-> 0, left |-> FALSE, right |-> FALSE, middle |-> FALSE]
  /\ mouse_previous = <<0, 0>>
  /\ packet = <<>>
  /\ rebooted = FALSE
  /\ line = <<>>
  /\ lost = 0
  /\ clicked = {}

MouseSends == \E p \in Packets : SendPacket(p)

MouseNext == mouse_IT \/ MouseSends \/ Lose \/ ConsoleStep

(* The mouse keeps sending, and its interrupts are served. *)
MouseSpec ==
  /\ MouseInit /\ [][MouseNext]_all_vars
  /\ WF_all_vars(mouse_IT) /\ WF_all_vars(MouseSends)

-----------------------------------------------------------------------------
(* Properties. *)

(* mouse_handle_packet: whatever a packet holds, out of step or not, both  *)
(* positions that mouse_callback writes to lie on the screen.              *)
OnScreen ==
  /\ mouse_state.x \in Cols /\ mouse_state.y \in Ligs
  /\ mouse_previous \in Cols \X Ligs

(* mouse_callback: while no button is used, the pointer leaves nothing     *)
(* behind on a screen that does not scroll.                                *)
NoButtons == \A p \in Packets : \A k \in {MOUSE_LEFT, MOUSE_RIGHT, MOUSE_MIDDLE} : ~Bit(p[1], k)
OneHighlight ==
  NoButtons => \A l \in Ligs, c \in Cols :
    con.screen[l][c].cf # BLACK => <<c, l>> \in {Place(mouse_state), <<CONSOLE_COL - 1, 0>>}

InStep == Len(packet) = (IF line = <<>> THEN 0 ELSE packet_size - Len(line))

(* mouse_IT: after bytes were lost, the driver finds the start of the      *)
(* packets again, if no other byte can be taken for a first one.           *)
FirstsKnown ==
  \A p \in Packets : \A i \in 2 .. Len(p) : ~Bit(p[i], MOUSE_ALWAYS_SET)
FindsStep == FirstsKnown => <>[](InStep \/ rebooted)

(* mouse_callback: a click paints its cell, which keeps the colour when    *)
(* the pointer is elsewhere.                                               *)
ClickPaints ==
  \A place \in clicked \ {Place(mouse_state)} :
    con.screen[place[2]][place[1]].cf = BLUE
=============================================================================
