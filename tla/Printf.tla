-------------------------------- MODULE Printf --------------------------------
(***************************************************************************)
(* shared/doprnt.c, printf.c, sprintf.c, strtol.c and strtoul.c.           *)
(*                                                                         *)
(* A format is a line break, one directive and a percent sign.  The        *)
(* directive is a record: what _doprnt has in its variables once it has    *)
(* read the flags, the width and the precision.  A run sends the text that *)
(* _doprnt makes of it character by character to printf's buffer and to    *)
(* snprintf's area.  A character is a string of length one, a long has W   *)
(* bits.  The descriptor of %b is given as its base and a sequence of      *)
(* entries, bit number (and last bit of a field, or 0) with the name;      *)
(* there is no float, and no %r or %n, whose radix every caller leaves 0.  *)
(***************************************************************************)
EXTENDS Integers, Sequences

CONSTANTS W,                  \* bits of a long
          BUFMAX,             \* PRINTF_BUFMAX
          Numbers, Texts, Registers   \* calls, see MCLibrary

VARIABLES call,               \* the format and the arguments of the call
          rest,               \* what _doprnt still has to hand to putc
          buf, screen,        \* printf_state.buf, characters printed
          area,               \* what vsnprintf has written, from s[0] on
          returned            \* whether the calls have returned
printf_vars == <<call, rest, buf, screen, area, returned>>

Signed(u) == IF u < 2^(W - 1) THEN u ELSE u - 2^W

-----------------------------------------------------------------------------
(* _doprnt                                                                 *)

Digit == <<"0","1","2","3","4","5","6","7","8","9","a","b","c","d","e","f">>
Times(n, c) == [i \in 1 .. n |-> c]
Positive(n) == IF n > 0 THEN n ELSE 0

RECURSIVE printnum(_, _)
printnum(u, base) ==
  (IF u >= base THEN printnum(u \div base, base) ELSE <<>>) \o <<Digit[(u % base) + 1]>>

(* Width and precision may be arguments; a negative width adjusts the      *)
(* other way.                                                              *)
Directive(d, args) ==
  IF ~d.star THEN [d EXCEPT !.args = args]
  ELSE LET n == Signed(args[1]) IN
       [d EXCEPT !.length = IF n < 0 THEN -n ELSE n, !.ladjust = IF n < 0 THEN ~@ ELSE @,
                 !.prec = Signed(args[2]), !.args = Tail(Tail(args))]

(* Fault: the sign is not counted in the width. *)
FaultPrintNum(d, sign, u, base) ==
  LET ds == printnum(u, base) IN
  Times(Positive(d.length - Len(ds)), " ") \o (IF sign = "" THEN <<>> ELSE <<sign>>) \o ds

(* length is one counter for the three paddings. *)
print_num(d, sign, u, base) ==
  LET ds     == printnum(u, base)
      sgn    == IF sign = "" THEN <<>> ELSE <<sign>>
      prefix == IF u = 0 \/ ~d.altfmt THEN <<>>
                ELSE IF base = 8 THEN <<"0">> ELSE IF base = 16 THEN <<"0", "x">> ELSE <<>>
      zeros  == Positive(d.prec - Len(ds))
      pad    == Positive(d.length - Len(ds) - Len(sgn) - Len(prefix) - zeros)
  IN (IF d.padc = " " /\ ~d.ladjust THEN Times(pad, " ") ELSE <<>>)
     \o sgn \o prefix \o Times(zeros, "0")
     \o (IF d.padc = "0" THEN Times(pad, "0") ELSE <<>>) \o ds
     \o (IF d.padc = " " /\ d.ladjust THEN Times(pad, " ") ELSE <<>>)

print_signed(d, base) ==
  LET n == Signed(Head(d.args)) IN
  print_num(d, IF n >= 0 THEN d.plus ELSE "-", IF n >= 0 THEN n ELSE (-n) % 2^W, base)
print_unsigned(d, base) == print_num(d, "", Head(d.args), base)

(* n goes one past prec when the string is cut. *)
print_string(d) ==
  LET s     == Head(d.args)
      prec  == IF d.prec = -1 THEN Len(s) ELSE d.prec
      shown == IF Len(s) < prec THEN Len(s) ELSE Positive(prec)
      n     == IF Len(s) > shown THEN shown + 1 ELSE shown
  IN (IF d.ladjust THEN <<>> ELSE Times(Positive(d.length - shown), " "))
     \o SubSeq(s, 1, shown)
     \o (IF d.ladjust THEN Times(Positive(d.length - n), " ") ELSE <<>>)

(* %b *)
print_bits(u, base, entries) ==
  LET RECURSIVE go(_, _)
      go(es, any) ==
        IF es = <<>> THEN IF any THEN <<">">> ELSE <<>>
        ELSE LET e   == Head(es)
                 sep == <<IF any THEN "," ELSE "<">>
             IN IF e.last # 0
                THEN sep \o e.name
                     \o printnum((u \div 2^(e.last - 1)) % 2^(e.bit - e.last + 1), base)
                     \o go(Tail(es), TRUE)
                ELSE IF (u \div 2^(e.bit - 1)) % 2 = 1 THEN sep \o e.name \o go(Tail(es), TRUE)
                ELSE go(Tail(es), any)
  IN printnum(u, base) \o (IF u = 0 THEN <<>> ELSE go(entries, FALSE))

OctalOrDecimal(d) ==
  IF d.conv \in {"o", "O"} THEN print_unsigned(d, 8) ELSE print_signed(d, 10)

(* The switch. *)
Convert(d) ==
  CASE d.conv \in {"o", "O", "d", "i", "D"} -> OctalOrDecimal(d)
    [] d.conv \in {"u", "U"}      -> print_unsigned(d, 10)
    [] d.conv \in {"x", "X"}      -> print_unsigned(d, 16)
    [] d.conv \in {"z", "Z"}      -> print_signed(d, 16)
    [] d.conv = "p" ->
         <<"0", "x">> \o print_unsigned([d EXCEPT !.padc = "0", !.length = 8], 16)
    [] d.conv = "c" -> <<Head(d.args)>>
    [] d.conv = "s" -> print_string(d)
    [] d.conv \in {"b", "B"} -> print_bits(d.args[1], d.args[2].base, d.args[2].entries)
    [] OTHER -> <<d.conv>>

doprnt(d, args) == <<"\n">> \o Convert(Directive(d, args)) \o <<"%">>

-----------------------------------------------------------------------------
(* strtol and strtoul on the characters p: value and number of characters  *)
(* read.  A letter of either case is a digit in a base that has it.        *)

Capitals == <<"A","B","C","D","E","F">>
DigitOf(c) ==
  IF c \in {Capitals[i] : i \in 1 .. 6} THEN 9 + CHOOSE i \in 1 .. 6 : Capitals[i] = c
  ELSE IF c \in {Digit[i] : i \in 1 .. 16} THEN (CHOOSE i \in 1 .. 16 : Digit[i] = c) - 1
  ELSE 36

toword(p, base) ==
  LET hex  == base \in {0, 16} /\ Len(p) >= 2 /\ p[1] = "0" /\ p[2] \in {"x", "X"}
      from == IF hex THEN 3 ELSE 1
      b    == IF hex THEN 16
              ELSE IF base # 0 THEN base
              ELSE IF p # <<>> /\ p[1] = "0" THEN 8 ELSE 10
      RECURSIVE go(_, _)
      go(i, v) == IF i > Len(p) THEN [v |-> v, n |-> i - 1]
                  ELSE IF DigitOf(p[i]) >= b THEN [v |-> v, n |-> i - 1]
                  ELSE go(i + 1, (v * b + DigitOf(p[i])) % 2^W)
  IN go(from, 0)

RECURSIVE Spaces(_)
Spaces(p) == IF p # <<>> /\ Head(p) \in {" ", "\n", "\t"} THEN 1 + Spaces(Tail(p)) ELSE 0

strtoul(p, base) ==
  LET sp == Spaces(p)
      r  == toword(SubSeq(p, sp + 1, Len(p)), base)
  IN [r EXCEPT !.n = @ + sp]

(* A '+' is seen and not skipped. *)
strtol(p, base) ==
  LET sp  == Spaces(p)
      neg == Len(p) > sp /\ p[sp + 1] = "-"
      k   == IF neg THEN sp + 1 ELSE sp
      r   == toword(SubSeq(p, k + 1, Len(p)), base)
  IN [v |-> IF neg THEN (-r.v) % 2^W ELSE r.v, n |-> r.n + k]

-----------------------------------------------------------------------------
(* vprintf and vsnprintf with the text that _doprnt makes.                 *)

Text == doprnt(call.directive, call.args)

PrintfInit ==
  /\ call \in Numbers \/ call \in Texts \/ call \in Registers
  /\ rest = Text /\ buf = <<>> /\ screen = <<>> /\ area = <<>> /\ returned = FALSE

flush == screen \o buf

printf_char(c) ==
  IF c \in {"NUL", "\n"} \/ Len(buf) >= BUFMAX
  THEN screen' = Append(flush, c) /\ buf' = <<>>
  ELSE buf' = Append(buf, c) /\ UNCHANGED screen

savechar(c) == area' = IF Len(area) = call.size THEN area ELSE Append(area, c)

Putc ==
  /\ rest # <<>> /\ printf_char(Head(rest)) /\ savechar(Head(rest))
  /\ rest' = Tail(rest) /\ UNCHANGED <<call, returned>>

(* vprintf prints what is left, vsnprintf ends the string after the last   *)
(* character it has kept.                                                  *)
vprintf_end == screen' = flush /\ buf' = <<>>
vsnprintf_end == area' = Append(area, "NUL")
Return ==
  /\ rest = <<>> /\ ~returned /\ returned' = TRUE
  /\ vprintf_end /\ vsnprintf_end /\ UNCHANGED <<call, rest>>

PrintfNext == Putc \/ Return
PrintfSpec == PrintfInit /\ [][PrintfNext]_printf_vars

-----------------------------------------------------------------------------
(* Reference: the field between the line break and the percent sign that   *)
(* every call prints around it.                                            *)

Field == SubSeq(Text, 2, Len(Text) - 1)
Count(t, cs) == Len(SelectSeq(t, LAMBDA c : c \in cs))
Without(t, cs) == SelectSeq(t, LAMBDA c : c \notin cs)
Blanks(t, from, to) == \A i \in from .. to : t[i] = " "

(* A number comes out in a field of the width asked for, blanks on the     *)
(* side of the adjustment only, with the sign, the prefix and at least as  *)
(* many digits as the precision says; strtol or strtoul of what is printed *)
(* gives the number back.                                                  *)
NumbersExact ==
  call.kind = "number" =>
    LET t      == Field
        body   == Without(t, {" "})
        blanks == Len(t) - Len(body)
        neg    == call.signed /\ Signed(call.arg) < 0
        sign   == IF neg THEN {"-"} ELSE IF call.signed /\ call.plus THEN {"+"} ELSE {}
        plain  == Without(body, {"+"})
        base   == IF call.base = 8 THEN 8 ELSE IF call.base = 16 /\ call.alt THEN 0 ELSE call.base
        back   == IF call.signed THEN strtol(plain, base) ELSE strtoul(plain, base)
    IN /\ Len(t) >= call.width
       /\ blanks > 0 => Len(t) = call.width /\ ~call.zero
       /\ IF call.left THEN Blanks(t, Len(body) + 1, Len(t)) ELSE Blanks(t, 1, blanks)
       /\ \A c \in {"+", "-"} : Count(body, {c}) = IF c \in sign THEN 1 ELSE 0
       /\ sign # {} => body[1] \in sign
       /\ (Count(body, {"x"}) = 1) <=> (call.alt /\ call.base = 16 /\ call.arg # 0)
       /\ Len(body) >= call.prec
       /\ back = [v |-> call.arg, n |-> Len(plain)]

(* A string is cut at the precision and filled to the width, on the left   *)
(* or, when it is not cut, on the right.                                   *)
StringsExact ==
  call.kind = "text" =>
    LET t     == Field
        cut   == IF call.prec = -1 \/ call.prec > Len(call.arg) THEN Len(call.arg) ELSE call.prec
        shown == SubSeq(call.arg, 1, cut)
    IN ~call.left \/ cut = Len(call.arg) =>
         t = IF call.left THEN shown \o Times(Positive(call.width - cut), " ")
             ELSE Times(Positive(call.width - cut), " ") \o shown

(* What reaches the screen is the text, in order and complete, however     *)
(* often the buffer fills up or a line ends; snprintf leaves the first     *)
(* call.size characters of it, ended by a NUL, and never more than one     *)
(* byte beyond them.                                                       *)
Delivered ==
  LET kept == IF call.size < Len(Text) THEN call.size ELSE Len(Text) IN
  /\ Len(buf) <= BUFMAX
  /\ screen \o buf \o rest = Text
  /\ Len(area) <= call.size + 1
  /\ returned => buf = <<>> /\ area = SubSeq(Text, 1, kept) \o <<"NUL">>

(* Not so: vsnprintf stays within the size bytes of s.  Of a text of size  *)
(* characters or more it keeps size, and the NUL goes to s[size].          *)
WithinSize == Len(area) <= call.size

(* doprnt.c:82 "%-m.n left adjustment": the field has the width also when  *)
(* the string is cut.                                                      *)
LeftAdjusted == call.kind = "text" => Len(Field) >= call.width

(* doprnt.c:77 "%X hexadecimal conversion with capital letters".           *)
CapitalLetters ==
  call.kind = "number" /\ call.conv = "X" => Count(Text, {Digit[i] : i \in 11 .. 16}) = 0

(* doprnt.c:118-120: the value and the descriptor of the comment print     *)
(* "b<FIELD1=2,BITONE>".                                                   *)
BitFieldExample ==
  call.kind = "register" /\ call.example =>
    Field = <<"b", "<", "FIELD1=", "2", ",", "BITONE", ">">>

(* A register: the value, then the names of the fields and of the bits     *)
(* that are set, in the order of the descriptor.                           *)
RegistersExact ==
  call.kind = "register" /\ call.arg # 0 =>
    LET named == Without(Field, {"<", ",", ">"} \cup {Digit[i] : i \in 1 .. 16})
        es    == call.args[2].entries
        on    == SelectSeq(es, LAMBDA e : e.last # 0 \/ (call.arg \div 2^(e.bit - 1)) % 2 = 1)
    IN /\ named = [i \in 1 .. Len(on) |-> on[i].name[1]]
       /\ \A i \in 1 .. Len(Field) - 1 :
            \A e \in {es[j] : j \in 1 .. Len(es)} :
              e.last # 0 /\ <<Field[i]>> = e.name =>
                strtoul(SubSeq(Field, i + 1, Len(Field)), call.args[2].base).v
                  = (call.arg % 2^e.bit) \div 2^(e.last - 1)

(* _doprnt and the buffers of printf and snprintf: every field is right,   *)
(* and every character reaches the screen or the string.                   *)
FormatsExact == NumbersExact /\ StringsExact /\ RegistersExact /\ Delivered
=============================================================================
