-------------------------------- MODULE Ps2 ----------------------------------
(***************************************************************************)
(* The initialisation of the PS/2 controller and of the mouse:             *)
(* kernel/driver/ps2.c and the first half of kernel/driver/mouse.c.        *)
(*                                                                         *)
(* The driver is a straight line of writes and reads between decisions on  *)
(* the bytes read: todo is what is left of the current line, and stage the *)
(* decision that follows it.  It runs before interrupts are allowed.        *)
(*                                                                         *)
(* Controller and mouse (external) are those of the PS/2 protocol: one     *)
(* byte written waits in the input buffer until the controller takes it,   *)
(* replies queue up in the output buffer.                                  *)
(***************************************************************************)
EXTENDS Integers, Sequences, SequencesExt

CONSTANTS
  Devices,        \* what may be on the second port: "none", "plain", "wheel",
                  \* "five" (mice), "keyboard", "unknown"
  Faults,         \* what may fail its test: "none", "controller", "port", "device"
  FastController  \* whether a byte is taken before the driver goes on

VARIABLES
  stage, todo, got,   \* got: the bytes read in this stage
  ps2_config, second, \* second: all_controllers[1]
  bytes_per_packet,
  input,              \* <<>> or the <<port, byte>> in the input buffer
  output, stale,      \* replies, and the last one read
  config, pending,    \* the controller: its configuration, a command awaiting data
  device,             \* the device: [kind, id, rates, scan, awaiting]
  broken              \* the part that does not pass its test

driver == <<stage, todo, got, ps2_config, second, bytes_per_packet>>
hardware == <<output, stale, config, pending, device, broken>>
ps2_vars == <<driver, input, hardware>>

-----------------------------------------------------------------------------
(* ps2.h, mouse.h *)

PS2_DISABLE_SECOND == 167
PS2_ENABLE_SECOND == 168
PS2_READ_CONFIG == 32
PS2_WRITE_CONFIG == 96
PS2_SELF_TEST == 170
PS2_TEST_SECOND == 169
PS2_WRITE_SECOND == 212
PS2_SELF_TEST_OK == 85
PS2_TEST_OK == 0
PS2_DEV_RESET == 255
PS2_DEV_IDENTIFY == 242
PS2_DEV_ENABLE_SCAN == 244
PS2_DEV_DISABLE_SCAN == 245
PS2_DEV_ACK == 250
PS2_DEV_RESET_ACK == 170
PS2_MOUSE_SCROLL_WHEEL == 3
PS2_MOUSE_FIVE_BUTTONS == 4
MOUSE_SET_SAMPLE == 243
MOUSE_SET_RESOLUTION == 232
MOUSE_DISABLE_SCALING == 231
PS2_CFG_FIRST_PORT == 1         \* interrupts of the keyboard
PS2_CFG_SECOND_PORT == 2
PS2_CFG_SECOND_CLOCK == 32      \* set while the second port is off

Has(byte, bit) == (byte \div bit) % 2 = 1
With(byte, bit) == IF Has(byte, bit) THEN byte ELSE byte + bit
Without(byte, bit) == IF Has(byte, bit) THEN byte - bit ELSE byte

-----------------------------------------------------------------------------
(* The driver. *)

Command(c) == <<"command", c>>
Data(c) == <<"data", c>>
Read == <<"read", 0>>
ps2_write_device(value) == <<Command(PS2_WRITE_SECOND), Data(value)>>
Acked(value) == Append(ps2_write_device(value), Read)
ps2_enable_port(on) ==
  <<Command(IF on THEN PS2_ENABLE_SECOND ELSE PS2_DISABLE_SECOND), Read>>
ps2_identity_device ==
  Acked(PS2_DEV_DISABLE_SCAN) \o Acked(PS2_DEV_IDENTIFY) \o <<Read, Read>>

(* ps2_identity_bytes_to_type, of the last two bytes read. *)
IsMouse(bytes) ==
  bytes[Len(bytes) - 1] \in {0, PS2_MOUSE_SCROLL_WHEEL, PS2_MOUSE_FIVE_BUTTONS}
IsKeyboard(bytes) == bytes[Len(bytes) - 1] = 171 /\ Last(bytes) \in {65, 193, 131}
IsType(bytes, type) == bytes[Len(bytes) - 1] = type

mouse_set_sample_rate(rate) == Acked(MOUSE_SET_SAMPLE) \o Acked(rate)
SampleRates(a, b, c) ==
  mouse_set_sample_rate(a) \o mouse_set_sample_rate(b) \o mouse_set_sample_rate(c)
WriteConfig(c) == <<Command(PS2_WRITE_CONFIG), Data(c)>>

InitScript == <<Command(PS2_DISABLE_SECOND), Read, Command(PS2_READ_CONFIG), Read>>

(* Fault: the mouse is configured and never told to send. *)
MouseSettings_NoScan ==
  mouse_set_sample_rate(100) \o Acked(MOUSE_SET_RESOLUTION) \o Acked(3)
    \o Acked(MOUSE_DISABLE_SCALING)

(* The end of init_mouse: rate, resolution, scaling, and packets on. *)
MouseSettings ==
  mouse_set_sample_rate(100) \o Acked(MOUSE_SET_RESOLUTION) \o Acked(3)
    \o Acked(MOUSE_DISABLE_SCALING) \o Acked(PS2_DEV_ENABLE_SCAN)

Goto(next, script) == stage' = next /\ todo' = script /\ got' = <<>>

FirstConfig ==
  /\ stage = "config"
  /\ ps2_config' = With(Last(got), PS2_CFG_SECOND_PORT)
  /\ Goto("self test", WriteConfig(ps2_config') \o <<Command(PS2_SELF_TEST), Read>>)
  /\ UNCHANGED <<second, bytes_per_packet>>

(* Fault: the configuration the self-test may reset is not written again. *)
SelfTest_NoRewrite ==
  /\ stage = "self test"
  /\ Last(got) = PS2_SELF_TEST_OK
  /\ Goto("channels", <<Command(PS2_ENABLE_SECOND), Command(PS2_READ_CONFIG), Read>>)
  /\ UNCHANGED <<ps2_config, second, bytes_per_packet>>

SelfTest ==
  /\ stage = "self test"
  /\ \/ /\ Last(got) = PS2_SELF_TEST_OK
        /\ Goto("channels", WriteConfig(ps2_config) \o
                  <<Command(PS2_ENABLE_SECOND), Command(PS2_READ_CONFIG), Read>>)
        /\ UNCHANGED second
     \/ /\ Last(got) # PS2_SELF_TEST_OK
        /\ second' = FALSE
        /\ Goto("done", <<>>)
  /\ UNCHANGED <<ps2_config, bytes_per_packet>>

Channels ==
  /\ stage = "channels"
  /\ ps2_config' = Last(got)
  /\ \/ /\ Has(ps2_config', PS2_CFG_SECOND_CLOCK)
        /\ second' = FALSE
        /\ Goto("end", WriteConfig(ps2_config'))
     \/ /\ ~Has(ps2_config', PS2_CFG_SECOND_CLOCK)
        /\ UNCHANGED second
        /\ Goto("test", <<Command(PS2_DISABLE_SECOND), Command(PS2_TEST_SECOND), Read>>)
  /\ UNCHANGED bytes_per_packet

TestSecond ==
  /\ stage = "test"
  /\ \/ /\ Last(got) # PS2_TEST_OK
        /\ second' = FALSE
        /\ Goto("end", WriteConfig(ps2_config))
     \/ /\ Last(got) = PS2_TEST_OK
        /\ UNCHANGED second
        /\ Goto("reset", ps2_enable_port(TRUE) \o Acked(PS2_DEV_RESET) \o <<Read, Read>>)
  /\ UNCHANGED <<ps2_config, bytes_per_packet>>

ResetAcked(ret, ret2) ==
  \/ ret = PS2_DEV_RESET_ACK /\ ret2 \in {PS2_DEV_ACK, 0}
  \/ ret \in {PS2_DEV_ACK, 0} /\ ret2 = PS2_DEV_RESET_ACK

ResetDevice ==
  /\ stage = "reset"
  /\ \/ /\ ResetAcked(got[Len(got) - 1], Last(got))
        /\ Goto("identify", ps2_identity_device)
        /\ UNCHANGED second
     \/ /\ ~ResetAcked(got[Len(got) - 1], Last(got))
        /\ second' = FALSE
        /\ Goto("end", ps2_enable_port(FALSE) \o WriteConfig(ps2_config))
  /\ UNCHANGED <<ps2_config, bytes_per_packet>>

Enabled == Without(With(ps2_config, PS2_CFG_SECOND_PORT), PS2_CFG_SECOND_CLOCK)

Identify ==
  /\ stage = "identify"
  /\ \/ /\ IsMouse(got)
        /\ UNCHANGED ps2_config
        /\ Goto("wheel", SampleRates(200, 100, 80) \o ps2_identity_device)
     \/ /\ IsKeyboard(got)
        /\ ps2_config' = Enabled
        /\ Goto("end", WriteConfig(Enabled))
     \/ /\ ~IsMouse(got) /\ ~IsKeyboard(got)
        /\ UNCHANGED ps2_config
        /\ Goto("end", WriteConfig(ps2_config))
  /\ UNCHANGED <<second, bytes_per_packet>>

(* Fault: only the id of the fifth button is taken for a wheel. *)
EnableWheel_Five ==
  /\ stage = "wheel"
  /\ bytes_per_packet' = IF IsType(got, PS2_MOUSE_FIVE_BUTTONS) THEN 4 ELSE 3
  /\ ps2_config' = Enabled
  /\ Goto("end", MouseSettings \o WriteConfig(Enabled))
  /\ UNCHANGED second

(* mouse_enable_scroll_wheel and mouse_enable_five_buttons. *)
EnableWheel ==
  /\ stage = "wheel"
  /\ bytes_per_packet' = IF IsType(got, PS2_MOUSE_SCROLL_WHEEL) THEN 4 ELSE 3
  /\ ps2_config' = Enabled
  /\ Goto("end",
       (IF bytes_per_packet' = 4
        THEN SampleRates(200, 200, 80) \o ps2_identity_device ELSE <<>>)
       \o MouseSettings \o WriteConfig(Enabled))
  /\ UNCHANGED second

End ==
  /\ stage = "end"
  /\ Goto("done", <<>>)
  /\ UNCHANGED <<ps2_config, second, bytes_per_packet>>

Decide ==
  /\ todo = <<>>
  /\ \/ FirstConfig \/ SelfTest \/ Channels \/ TestSecond
     \/ ResetDevice \/ Identify \/ EnableWheel \/ End
  /\ UNCHANGED <<input, hardware>>

Pace == FastController => input = <<>>

(* ps2_write: the loop ends at once when bit 1 of the status is set, and   *)
(* otherwise when the timer has gone past 0: the byte is always written.   *)
ps2_write ==
  /\ todo # <<>> /\ Head(todo)[1] # "read"
  /\ Pace
  /\ input' = Head(todo)
  /\ todo' = Tail(todo)
  /\ UNCHANGED <<stage, got, ps2_config, second, bytes_per_packet, hardware>>

(* What ps2_read may return, with what it leaves in the output buffer.  A  *)
(* timer that ran out is past 0, which counts as success, and the port     *)
(* then gives its last byte again.  A timer of exactly 0 is that of a reply *)
(* that came at the last moment: it stays unread.                          *)
ReadOutcomes ==
  IF output = <<>> THEN {[byte |-> stale, left |-> <<>>]}
  ELSE {[byte |-> Head(output), left |-> Tail(output)]}
         \cup IF FastController THEN {} ELSE {[byte |-> 255, left |-> output]}

ps2_read ==
  /\ todo # <<>> /\ Head(todo)[1] = "read"
  /\ Pace
  /\ todo' = Tail(todo)
  /\ \E r \in ReadOutcomes :
       /\ got' = Append(got, r.byte)
       /\ output' = r.left
       /\ stale' = IF r.left = output THEN stale ELSE r.byte
  /\ UNCHANGED <<stage, ps2_config, second, bytes_per_packet, input,
                 config, pending, device, broken>>

-----------------------------------------------------------------------------
(* The hardware (external). *)

NoDevice == [kind |-> "none", id |-> 0, rates |-> <<>>, scan |-> FALSE, awaiting |-> FALSE]

IdBytes(d) ==
  CASE d.kind = "keyboard" -> <<171, 131>>
    [] d.kind = "unknown" -> <<7>>
    [] OTHER -> <<d.id>>

(* Three sample rates in a row unlock the wheel, then the buttons. *)
IdAfter(d, rates) ==
  CASE rates = <<200, 100, 80>> /\ d.kind \in {"wheel", "five"} -> 3
    [] rates = <<200, 200, 80>> /\ d.kind = "five" -> 4
    [] OTHER -> d.id

LastThree(rates) == IF Len(rates) > 3 THEN Tail(rates) ELSE rates

(* <<the device after a byte, its reply>> *)
DeviceTakes(d, byte) ==
  LET rates == LastThree(Append(d.rates, byte)) IN
  CASE d.awaiting ->
         <<[d EXCEPT !.awaiting = FALSE, !.rates = rates, !.id = IdAfter(d, rates)],
           <<PS2_DEV_ACK>>>>
    [] byte = PS2_DEV_RESET ->
         <<[NoDevice EXCEPT !.kind = d.kind],
           <<PS2_DEV_ACK, IF broken = "device" THEN 252 ELSE PS2_DEV_RESET_ACK, 0>>>>
    [] byte = PS2_DEV_IDENTIFY -> <<d, <<PS2_DEV_ACK>> \o IdBytes(d)>>
    [] byte \in {MOUSE_SET_SAMPLE, MOUSE_SET_RESOLUTION} ->
         <<[d EXCEPT !.awaiting = TRUE], <<PS2_DEV_ACK>>>>
    [] byte \in {PS2_DEV_ENABLE_SCAN, PS2_DEV_DISABLE_SCAN} ->
         <<[d EXCEPT !.scan = (byte = PS2_DEV_ENABLE_SCAN)], <<PS2_DEV_ACK>>>>
    [] OTHER -> <<d, <<PS2_DEV_ACK>>>>

(* The controller takes the byte of the input buffer.  A self-test may     *)
(* bring back the configuration of the reset, without interrupts.          *)
TakesCommand(c) ==
  /\ pending' = c
  /\ \/ /\ c = PS2_DISABLE_SECOND
        /\ config' = With(config, PS2_CFG_SECOND_CLOCK) /\ UNCHANGED output
     \/ /\ c = PS2_ENABLE_SECOND
        /\ config' = IF device.kind = "none" THEN config
                     ELSE Without(config, PS2_CFG_SECOND_CLOCK)
        /\ UNCHANGED output
     \/ c = PS2_READ_CONFIG /\ output' = Append(output, config) /\ UNCHANGED config
     \/ /\ c = PS2_SELF_TEST
        /\ output' = Append(output, IF broken = "controller" THEN 252 ELSE PS2_SELF_TEST_OK)
        /\ \/ UNCHANGED config
           \/ config' = Without(Without(config, PS2_CFG_FIRST_PORT), PS2_CFG_SECOND_PORT)
     \/ /\ c = PS2_TEST_SECOND
        /\ output' = Append(output, IF broken = "port" THEN 1 ELSE PS2_TEST_OK)
        /\ UNCHANGED config
     \/ /\ c \in {PS2_WRITE_CONFIG, PS2_WRITE_SECOND}
        /\ UNCHANGED <<config, output>>
  /\ UNCHANGED device

TakesData(c) ==
  /\ pending' = 0
  /\ \/ /\ pending = PS2_WRITE_CONFIG
        /\ config' = c /\ UNCHANGED <<output, device>>
     \/ /\ pending = PS2_WRITE_SECOND /\ ~Has(config, PS2_CFG_SECOND_CLOCK)
        /\ device' = DeviceTakes(device, c)[1]
        /\ output' = output \o DeviceTakes(device, c)[2]
        /\ UNCHANGED config
     \/ /\ \/ pending \notin {PS2_WRITE_CONFIG, PS2_WRITE_SECOND}
           \/ pending = PS2_WRITE_SECOND /\ Has(config, PS2_CFG_SECOND_CLOCK)
        /\ UNCHANGED <<config, output, device>>

Controller ==
  /\ input # <<>>
  /\ input' = <<>>
  /\ \/ input[1] = "command" /\ TakesCommand(input[2])
     \/ input[1] = "data" /\ TakesData(input[2])
  /\ UNCHANGED <<driver, stale, broken>>

Ps2Init ==
  /\ stage = "config" /\ todo = InitScript /\ got = <<>>
  /\ ps2_config = 0 /\ second = TRUE /\ bytes_per_packet = 3
  /\ input = <<>> /\ output = <<>> /\ stale = 0 /\ pending = 0
  /\ config \in {PS2_CFG_FIRST_PORT, PS2_CFG_FIRST_PORT + PS2_CFG_SECOND_CLOCK}
  /\ device \in {[NoDevice EXCEPT !.kind = kind] : kind \in Devices}
  /\ broken \in Faults

Ps2Next == Decide \/ ps2_write \/ ps2_read \/ Controller

Ps2Spec == Ps2Init /\ [][Ps2Next]_ps2_vars /\ WF_ps2_vars(Ps2Next)

-----------------------------------------------------------------------------
(* Properties. *)

Done == stage = "done"
PacketSize == IF device.id \in {3, 4} THEN 4 ELSE 3

(* init_mouse: mouse and driver agree on the size of the packets whenever  *)
(* the mouse sends any, whichever wheel and buttons it has and whichever   *)
(* of the two sequences of sample rates it answered.                       *)
PacketSizesAgree == Done /\ device.scan => bytes_per_packet = PacketSize

(* init_ps2: the keyboard keeps its interrupts, although the self-test may *)
(* reset the configuration of the controller and whatever part fails.      *)
KeyboardKept == Done /\ broken # "controller" => Has(config, PS2_CFG_FIRST_PORT)

(* init_ps2: a mouse that passes its tests ends up sending packets over an *)
(* enabled port with its interrupts on, and no other device does.          *)
MouseWorks ==
  <>[](/\ Done
       /\ (device.kind \in {"plain", "wheel", "five"} /\ broken = "none") <=>
          (device.scan /\ Has(config, PS2_CFG_SECOND_PORT)
             /\ ~Has(config, PS2_CFG_SECOND_CLOCK)))

(* ps2_write: no byte is written before the controller has taken the       *)
(* previous one.                                                           *)
WritesWhenClear == [][input = <<>> \/ input' \in {input, <<>>}]_ps2_vars
=============================================================================
