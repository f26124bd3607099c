--------------------------- MODULE LinuxKeyboard -----------------------------
(***************************************************************************)
(* From scan codes to characters: keyboard_IT, do_scancode of              *)
(* kernel/driver/keyboard-glue.c, kernel/kbd-linux/scancode.c and          *)
(* kernel/kbd-linux/keyboard.c, with the keymap of defkeymap.c.            *)
(*                                                                         *)
(* The physical keyboard is external: a key event puts its bytes on the    *)
(* wire, and each byte is one interrupt.  The character a handler sends    *)
(* may wake a reader, which then runs, and takes further interrupts,       *)
(* before the handler goes on: such handlers are in suspended.             *)
(*                                                                         *)
(* S is the record of the globals; each C function is an operator on it.   *)
(* shift_state is the set of its bits.  The keymap has rows for the keys   *)
(* of the model; it has no dead, lock or slock keys, so diacr, lockstate   *)
(* and slockstate keep their initial 0, and kbdmode is always VC_XLATE.    *)
(***************************************************************************)
EXTENDS Integers, Sequences, FiniteSets, TLC

CONSTANTS
  Keyboards,   \* keyboards that may be plugged in: [keys, boot, held]
  MaxNpad,     \* bound of npadch, for TLC
  MaxSuspended \* bound: handlers suspended at a time, each on a process of its own

VARIABLES
  keyboard,    \* the one that is
  held,        \* keys physically down
  wire,        \* bytes sent by the keyboard and not read yet
  S,           \* the globals of the translator
  suspended    \* handlers suspended in a send: of do_shift (TRUE), of the others

kbd_vars == <<keyboard, held, wire, S, suspended>>

KeyCodes == keyboard.keys   \* keycodes of its keys
BootKeys == keyboard.boot   \* keys that may be held down while the system starts
MaxHeld == keyboard.held    \* keys it can tell apart when held together

-----------------------------------------------------------------------------
(* Scan codes (external): keycodes up to 88 are their own scan codes.      *)

e0_keys == (28 :> 96) @@ (29 :> 97) @@ (56 :> 100) @@ (72 :> 103) @@ (83 :> 111)
high_keys == (89 :> 124) @@ (115 :> 89)
Extended == {e0_keys[c] : c \in DOMAIN e0_keys}
PAUSE == 119

(* Codes(k, up): the bytes of a press or a release of key k. *)
Codes(k, up) ==
  LET bit == IF up THEN 128 ELSE 0 IN
  IF k = PAUSE THEN IF up THEN <<>> ELSE <<225, 29, 69, 225, 157, 197>>
  ELSE IF k \in Extended
       THEN <<224, bit + (CHOOSE c \in DOMAIN e0_keys : e0_keys[c] = k)>>
       ELSE <<bit + k>>

-----------------------------------------------------------------------------
(* defkeymap.c: <<type, value>> for each key in each map.                  *)

LATIN == 0
FN == 1
SPEC == 2
PAD == 3
CONS == 5
CUR == 6
SHIFT == 7
META == 8
ASCII == 9
LETTER == 11
KG_SHIFT == 0
KG_ALTGR == 1
KG_CTRL == 2
KG_ALT == 3
HOLE == <<SPEC, 0>>

plain_map ==
  (16 :> <<LETTER, 97>>) @@ (28 :> <<SPEC, 1>>) @@ (57 :> <<LATIN, 32>>) @@
  (59 :> <<FN, 0>>) @@ (69 :> <<SPEC, 8>>) @@ (70 :> <<SPEC, 9>>) @@
  (72 :> <<PAD, 8>>) @@ (79 :> <<PAD, 1>>) @@ (96 :> <<PAD, 14>>) @@ (111 :> <<FN, 22>>) @@
  (119 :> <<FN, 29>>) @@
  (103 :> <<CUR, 3>>) @@ (58 :> <<SPEC, 7>>) @@
  (42 :> <<SHIFT, KG_SHIFT>>) @@ (54 :> <<SHIFT, KG_SHIFT>>) @@
  (29 :> <<SHIFT, KG_CTRL>>) @@ (97 :> <<SHIFT, KG_CTRL>>) @@
  (56 :> <<SHIFT, KG_ALT>>) @@ (100 :> <<SHIFT, KG_ALTGR>>)
shift_map ==
  (16 :> <<LETTER, 65>>) @@ (59 :> <<FN, 12>>) @@ (70 :> <<SPEC, 3>>) @@ plain_map
altgr_map ==
  (57 :> HOLE) @@ (59 :> HOLE) @@ (69 :> <<ASCII, 20>>) @@ (70 :> <<SPEC, 2>>) @@
  (72 :> <<ASCII, 18>>) @@ (79 :> <<ASCII, 11>>) @@ (96 :> <<ASCII, 25>>) @@ plain_map
ctrl_map ==
  (16 :> <<LATIN, 1>>) @@ (57 :> <<LATIN, 0>>) @@ (59 :> <<FN, 34>>) @@
  (70 :> <<SPEC, 4>>) @@ plain_map
altgr_ctrl_map ==
  (57 :> HOLE) @@ (59 :> HOLE) @@ (70 :> HOLE) @@ (111 :> <<SPEC, 12>>) @@ ctrl_map
alt_map ==
  (16 :> <<META, 97>>) @@ (28 :> <<META, 13>>) @@ (57 :> <<META, 32>>) @@
  (59 :> <<CONS, 0>>) @@ (72 :> <<ASCII, 8>>) @@ (79 :> <<ASCII, 1>>) @@ (103 :> <<SPEC, 18>>) @@ plain_map
ctrl_alt_map ==
  (16 :> <<META, 1>>) @@ (57 :> HOLE) @@ (59 :> <<CONS, 0>>) @@ (70 :> HOLE) @@
  (111 :> <<SPEC, 12>>) @@ plain_map

key_maps ==
  ({} :> plain_map) @@ ({KG_SHIFT} :> shift_map) @@ ({KG_ALTGR} :> altgr_map) @@
  ({KG_CTRL} :> ctrl_map) @@ ({KG_ALTGR, KG_CTRL} :> altgr_ctrl_map) @@
  ({KG_ALT} :> alt_map) @@ ({KG_CTRL, KG_ALT} :> ctrl_alt_map)

Sym(m, k) == IF k \in DOMAIN m THEN m[k] ELSE HOLE

-----------------------------------------------------------------------------
(* put_queue and the functions that send strings; a string is one token.   *)
put_queue(s, ch) == [s EXCEPT !.out = Append(@, ch)]
puts_queue(s, str) == [s EXCEPT !.out = Append(@, str)]
applkey(s, key) == puts_queue(s, 2000 + key)

(* chg_vc_kbd_led, guarded by rep in caps_toggle and bare_num. *)
chg_led(s, led) ==
  IF s.rep THEN s ELSE [s EXCEPT !.leds = (@ \ {led}) \cup ({led} \ @)]

hold(s) == IF s.rep THEN s ELSE [s EXCEPT !.stopped = ~@]

Symbols(k) == Sym(plain_map, k)
ShiftKeys(down, v) == {k \in down : Symbols(k) = <<SHIFT, v>>}

compute_shiftstate(s) ==
  [s EXCEPT !.k_down = [v \in 0 .. 3 |-> Cardinality(ShiftKeys(s.key_down, v))],
            !.shift_state = {v \in 0 .. 3 : ShiftKeys(s.key_down, v) # {}}]

(* The functions of spec_fn_table; those left out do nothing on this console. *)
spec_fn(s, value) ==
  CASE value = 0 -> compute_shiftstate(s)             \* do_null
    [] value = 1 -> put_queue(s, 13)                  \* enter
    [] value = 7 -> chg_led(s, "caps")
    [] value \in {8, 19} -> chg_led(s, "num")
    [] value = 9 -> hold(s)
    [] OTHER -> s

do_spec(s, value, up) == IF up \/ value >= 20 THEN s ELSE spec_fn(s, value)

do_fn(s, value, up) ==
  IF up \/ value >= 26 THEN s ELSE puts_queue(s, 1000 + value)

do_cur(s, value, up) ==
  IF up THEN s ELSE applkey(s, <<66, 68, 67, 65>>[value + 1])

(* Without NumLock the digits are function strings and cursor keys. *)
PadFn == (0 :> 21) @@ (1 :> 23) @@ (3 :> 25) @@ (7 :> 20) @@ (9 :> 24) @@ (15 :> 22) @@ (16 :> 22)
PadCur == (2 :> 0) @@ (4 :> 1) @@ (6 :> 2) @@ (8 :> 3)
do_pad(s, value, up) ==
  IF up THEN s
  ELSE IF "num" \notin s.leds /\ value \in DOMAIN PadFn THEN do_fn(s, PadFn[value], FALSE)
  ELSE IF "num" \notin s.leds /\ value \in DOMAIN PadCur THEN do_cur(s, PadCur[value], FALSE)
  ELSE IF "num" \notin s.leds /\ value = 5 THEN applkey(s, 71)
  ELSE put_queue(s, IF value < 10 THEN 48 + value
                    ELSE <<43, 45, 42, 47, 13, 44, 46>>[value - 9])

(* flush: npadch = -1 comes after the number typed on the pad is sent. *)
do_shift(s, value, up) ==
  LET n == [s.k_down EXCEPT ![value] = IF ~up THEN @ + 1 ELSE IF @ > 0 THEN @ - 1 ELSE 0]
      t == [s EXCEPT !.k_down = n,
                     !.shift_state = IF n[value] > 0 THEN @ \cup {value} ELSE @ \ {value}]
  IN IF s.rep THEN s
     ELSE IF up /\ t.shift_state # s.shift_state /\ s.npadch # -1
          THEN put_queue([t EXCEPT !.flush = TRUE], s.npadch % 256)
          ELSE t

do_meta(s, value, up) == IF up THEN s ELSE put_queue(put_queue(s, 27), value)

do_ascii(s, value, up) ==
  LET base == IF value < 10 THEN 10 ELSE 16
      v == IF value < 10 THEN value ELSE value - 10
  IN IF up THEN s
     ELSE [s EXCEPT !.npadch = IF @ = -1 THEN v ELSE @ * base + v]

do_self(s, value, up) == IF up THEN s ELSE put_queue(s, value)

key_handler(s, sym, up) ==
  CASE sym[1] = LATIN -> do_self(s, sym[2], up)
    [] sym[1] = FN    -> do_fn(s, sym[2], up)
    [] sym[1] = SPEC  -> do_spec(s, sym[2], up)
    [] sym[1] = PAD   -> do_pad(s, sym[2], up)
    [] sym[1] = CUR   -> do_cur(s, sym[2], up)
    [] sym[1] = SHIFT -> do_shift(s, sym[2], up)
    [] sym[1] = META  -> do_meta(s, sym[2], up)
    [] sym[1] = ASCII -> do_ascii(s, sym[2], up)
    [] OTHER -> s                               \* do_cons: set_console is empty

(* The lookup of handle_scancode: a letter under CapsLock comes from the   *)
(* map with Shift inverted, where there is one.                            *)
Lookup(s, keycode) ==
  LET sym == Sym(key_maps[s.shift_state], keycode)
      other == (s.shift_state \ {KG_SHIFT}) \cup ({KG_SHIFT} \ s.shift_state)
  IN IF sym[1] # LETTER THEN sym
     ELSE IF "caps" \in s.leds /\ other \in DOMAIN key_maps
          THEN <<LATIN, Sym(key_maps[other], keycode)[2]>>
          ELSE <<LATIN, sym[2]>>

(* keyboard_pckbd_translate: the keycode, 0 if there is none yet. *)
translate(prev, scancode) ==
  LET c == scancode % 128 IN
  CASE scancode \in {224, 225} -> [prev |-> scancode, keycode |-> 0]
    [] scancode \in {0, 255}   -> [prev |-> 0, keycode |-> 0]
    [] scancode \notin {0, 224, 225, 255} /\ prev = 225 /\ c = 29 ->
         [prev |-> 256, keycode |-> 0]
    [] scancode \notin {0, 224, 225, 255} /\ prev = 256 /\ c = 69 ->
         [prev |-> 0, keycode |-> PAUSE]
    [] scancode \notin {0, 224, 225, 255} /\ prev = 224 ->
         [prev |-> 0, keycode |-> IF c \in DOMAIN e0_keys \ {42, 54} THEN e0_keys[c] ELSE 0]
    [] scancode \notin {0, 224, 225, 255} /\ prev = 0 ->
         [prev |-> 0,
          keycode |-> IF c < 89 THEN c ELSE IF c \in DOMAIN high_keys THEN high_keys[c] ELSE 0]
    [] OTHER -> [prev |-> 0, keycode |-> 0]

unexpected_up(keycode) == keycode < 89 /\ keycode # 85

(* Fault: a key that no map translates leaves shift_state as it is. *)
FaultNoMap(s, keycode, up) ==
  LET down == keycode \in s.key_down
      t == [s EXCEPT !.rep = ~up /\ down,
                     !.key_down = IF up THEN @ \ {keycode} ELSE @ \cup {keycode}]
  IN IF s.shift_state \in DOMAIN key_maps
     THEN key_handler(t, Lookup(t, keycode), up /\ (down \/ unexpected_up(keycode)))
     ELSE t

(* handle_scancode once the keycode is known. *)
handle_keycode(s, keycode, up) ==
  LET down == keycode \in s.key_down
      rel  == up /\ (down \/ unexpected_up(keycode))
      t == [s EXCEPT !.rep = ~up /\ down,
                     !.key_down = IF up THEN @ \ {keycode} ELSE @ \cup {keycode}]
  IN IF s.shift_state \in DOMAIN key_maps
     THEN key_handler(t, Lookup(t, keycode), rel)
     ELSE compute_shiftstate(t)

handle_scancode(s, scancode) ==
  LET r == translate(s.prev_scancode, scancode)
      t == [s EXCEPT !.prev_scancode = r.prev, !.out = <<>>]
  IN IF r.keycode = 0 THEN t ELSE handle_keycode(t, r.keycode, scancode >= 128)

(* kbd_bh, which do_scancode runs after every scan code *)
kbd_bh(s) == [s EXCEPT !.ledstate = s.leds]

(* The rest of do_scancode from the last send on. *)
AfterSend(s) ==
  kbd_bh([s EXCEPT !.npadch = IF s.flush THEN -1 ELSE @, !.flush = FALSE])

do_scancode(s, scancode) == AfterSend(handle_scancode(s, scancode))

-----------------------------------------------------------------------------
KbdInit ==
  /\ keyboard \in Keyboards /\ held \in SUBSET BootKeys /\ wire = <<>>
  /\ S = [key_down |-> {}, k_down |-> [v \in 0 .. 3 |-> 0], shift_state |-> {},
          rep |-> FALSE, npadch |-> -1, leds |-> {}, ledstate |-> {},
          prev_scancode |-> 0, stopped |-> FALSE, out |-> <<>>, flush |-> FALSE]
  /\ suspended = [flush \in BOOLEAN |-> 0]

(* A held key may be sent again and again. *)
Press(k) ==
  /\ wire = <<>> /\ S.npadch <= MaxNpad
  /\ Cardinality(held \cup {k}) <= MaxHeld
  /\ held' = held \cup ({k} \ {PAUSE}) /\ wire' = Codes(k, FALSE)
  /\ UNCHANGED <<keyboard, S, suspended>>

Release(k) ==
  /\ wire = <<>> /\ k \in held
  /\ held' = held \ {k} /\ wire' = Codes(k, TRUE)
  /\ UNCHANGED <<keyboard, S, suspended>>

keyboard_IT ==
  /\ wire # <<>>
  /\ wire' = Tail(wire)
  /\ \/ S' = do_scancode(S, Head(wire)) /\ UNCHANGED suspended
     \/ LET s == handle_scancode(S, Head(wire)) IN
        /\ s.out # <<>> /\ suspended[TRUE] + suspended[FALSE] < MaxSuspended
        /\ S' = [s EXCEPT !.flush = FALSE]
        /\ suspended' = [suspended EXCEPT ![s.flush] = @ + 1]
  /\ UNCHANGED <<keyboard, held>>

(* A process suspended in the handler runs again. *)
Resume(flush) ==
  /\ suspended[flush] > 0
  /\ suspended' = [suspended EXCEPT ![flush] = @ - 1]
  /\ S' = AfterSend([S EXCEPT !.flush = flush])
  /\ UNCHANGED <<keyboard, held, wire>>

KbdNext ==
  \/ keyboard_IT
  \/ \E flush \in BOOLEAN : Resume(flush)
  \/ \E k \in KeyCodes : Press(k) \/ Release(k)

KbdSpec == KbdInit /\ [][KbdNext]_kbd_vars

-----------------------------------------------------------------------------
(* Each counter of k_down is at most the number of keys with its symbol.  *)
KbdTypeOK ==
  /\ held \subseteq KeyCodes
  /\ S.key_down \subseteq KeyCodes \cup {PAUSE} /\ S.k_down \in [0 .. 3 -> 0 .. 2]
  /\ S.shift_state \subseteq 0 .. 3 /\ S.npadch \in Int
  /\ S.prev_scancode \in {0, 224, 225, 256}
  /\ S.rep \in BOOLEAN /\ S.stopped \in BOOLEAN /\ S.flush = FALSE
  /\ suspended \in [BOOLEAN -> 0 .. MaxSuspended]
  /\ S.leds \subseteq {"caps", "num"} /\ S.ledstate \subseteq {"caps", "num"}

(* "recompute k_down[] and shift_state from key_down[]": the counters and  *)
(* the shift state kept by do_shift are the ones compute_shiftstate would  *)
(* find, whatever keys are pressed, repeated and released in which order.  *)
ShiftStateHeld ==
  /\ S.k_down = [v \in 0 .. 3 |-> Cardinality(ShiftKeys(S.key_down, v))]
  /\ S.shift_state = {v \in 0 .. 3 : S.k_down[v] > 0}

(* With no key held, no modifier is in effect and the number typed on the  *)
(* pad has been sent, although a modifier may be released while no keymap  *)
(* exists for the combination.  The number is forgotten once no handler is *)
(* suspended between sending and forgetting it.                            *)
NothingSticks ==
  wire = <<>> /\ held = {} =>
    /\ S.shift_state = {} /\ S.key_down \subseteq {PAUSE}
    /\ suspended[TRUE] = 0 => S.npadch = -1

(* Not so: a number that has been sent is forgotten before the next is     *)
(* typed.  While its handler is suspended the next digit continues it.     *)
NumbersApart == suspended[TRUE] > 0 => S.npadch = -1

(* A letter is upper case if one of Shift and CapsLock is in effect.       *)
LetterCase ==
  [][wire = <<16>> /\ wire' = <<>> /\ held \subseteq {16, 42, 54, 58} =>
       S'.out = <<IF (held \cap {42, 54} # {}) # ("caps" \in S.leds) THEN 65 ELSE 97>>]_kbd_vars

(* One stroke of CapsLock or NumLock inverts the light, however long the   *)
(* key is held: only the first byte of a key that is up changes it.        *)
OneStrokeOneToggle ==
  [][S'.leds # S.leds => S.key_down # S'.key_down /\ S.key_down \subseteq S'.key_down]_kbd_vars

(* handle_scancode: in whatever order keys are pressed, repeated and       *)
(* released, modifiers and locks act exactly as long as they should.       *)
ModifiersExact ==
  /\ [](KbdTypeOK /\ ShiftStateHeld /\ NothingSticks)
  /\ LetterCase /\ OneStrokeOneToggle
=============================================================================
