-------------------------------- MODULE Div64 --------------------------------
(***************************************************************************)
(* shared/div64.c: the division of two-word numbers from one-word ones,    *)
(* with words of DivBits bits (32 in the code).  Each action is a stretch  *)
(* of do_div64; the loop that corrects the quotient is a step per round.   *)
(***************************************************************************)
EXTENDS Integers

CONSTANTS DivBits,            \* bits of a word
          OnesDivisors        \* whether the leading bits of a divisor may all be 1

ASSUME DivAssumption == DivBits \in Nat \ {0}

Power[k \in 0 .. DivBits] == IF k = 0 THEN 1 ELSE 2 * Power[k - 1]       \* of two
DivWord == Power[DivBits]
Bits(n) == CHOOSE k \in 1 .. DivBits : Power[k - 1] <= n /\ n < Power[k]

VARIABLES x, y,               \* arguments
          pc,                 \* "call", "loop", "return", or "trap": divide error
          q, r,               \* quotient (x0) and remainder so far
          rounds              \* rounds of the loop
div_vars == <<x, y, pc, q, r, rounds>>

(* divl: hi:lo by d into quotient and remainder; the processor traps when  *)
(* d is 0 or the quotient does not fit a word.                             *)
div64_32(hi, lo, d) ==
  IF d = 0 THEN [trap |-> TRUE]
  ELSE LET n == hi * DivWord + lo IN
       IF n \div d >= DivWord THEN [trap |-> TRUE]
       ELSE [trap |-> FALSE, q |-> n \div d, r |-> n % d]

(* Fault: the shift is one bit short. *)
FaultRshift64(n, k) == n \div Power[k - 1]

rshift64(n, k) == n \div Power[k]

(* The arguments of the calls. *)
Numerators == 0 .. DivWord * DivWord - 1
Divisors ==
  {n \in Numerators : OnesDivisors \/ n < DivWord \/ rshift64(n, Bits(n \div DivWord)) # DivWord - 1}

DivInit ==
  /\ x \in Numerators /\ y \in Divisors
  /\ pc = "call" /\ q = 0 /\ r = 0 /\ rounds = 0

(* y has a high word: an estimate of the quotient from the leading word of *)
(* y, plus one, and x shifted alike.                                       *)
LargeDivisor ==
  /\ pc = "call" /\ y >= DivWord
  /\ LET l  == Bits(y \div DivWord)
         xs == rshift64(x, l)
         d  == div64_32(xs \div DivWord, xs % DivWord, (rshift64(y, l) + 1) % DivWord)
     IN IF d.trap THEN pc' = "trap" /\ UNCHANGED <<q, r>>
        ELSE pc' = "loop" /\ q' = d.q /\ r' = (x - y * d.q) % (DivWord * DivWord)
  /\ UNCHANGED <<x, y, rounds>>

Correct ==
  /\ pc = "loop"
  /\ IF r >= y THEN q' = (q + 1) % DivWord /\ r' = r - y /\ rounds' = rounds + 1 /\ UNCHANGED pc
     ELSE pc' = "return" /\ UNCHANGED <<q, r, rounds>>
  /\ UNCHANGED <<x, y>>

(* One division is enough when the quotient is one word, two otherwise;    *)
(* nothing is divided by zero.                                             *)
FaultSmallDivisor ==
  /\ pc = "call" /\ y < DivWord /\ pc' = "return"
  /\ IF x \div DivWord <= y /\ y # 0
     THEN q' = ((x % DivWord) \div y) /\ r' = (x % DivWord) % y
     ELSE IF y # 0 THEN q' = x \div y /\ r' = x % y ELSE q' = 0 /\ r' = x
  /\ UNCHANGED <<x, y, rounds>>

SmallDivisor ==
  /\ pc = "call" /\ y < DivWord
  /\ LET x1   == x \div DivWord
         x0   == x % DivWord
         one  == div64_32(x1, x0, y)
         high == div64_32(0, x1, y)
         low  == div64_32(high.r, x0, y)
     IN IF x1 < y THEN IF one.trap THEN pc' = "trap" /\ UNCHANGED <<q, r>>
                       ELSE pc' = "return" /\ q' = one.q /\ r' = one.r
        ELSE IF y = 0 THEN pc' = "return" /\ q' = 0 /\ r' = x
        ELSE IF high.trap \/ low.trap THEN pc' = "trap" /\ UNCHANGED <<q, r>>
        ELSE pc' = "return" /\ q' = high.q * DivWord + low.q /\ r' = low.r
  /\ UNCHANGED <<x, y, rounds>>

DivNext == LargeDivisor \/ Correct \/ SmallDivisor
DivSpec == DivInit /\ [][DivNext]_div_vars /\ WF_div_vars(DivNext)

-----------------------------------------------------------------------------
DivTypeOK ==
  /\ x \in 0 .. DivWord * DivWord - 1 /\ y \in 0 .. DivWord * DivWord - 1
  /\ q \in 0 .. DivWord * DivWord - 1 /\ r \in 0 .. DivWord * DivWord - 1
  /\ pc \in {"call", "loop", "return", "trap"} /\ rounds \in 0 .. 2

(* Every call that returns has divided: quotient and remainder are those   *)
(* of the integers, whatever branch computed them.                         *)
Divides == pc = "return" /\ y # 0 => q = x \div y /\ r = x % y

(* The estimate is never above the quotient and never more than two below: *)
(* the loop of do_div64 runs at most twice.                                *)
NearEstimate == pc = "loop" => y * q + r = x /\ rounds + r \div y <= 2

(* Every call returns. *)
Returns == <>(pc = "return")

(* div64.h:2 "The division needs an helper function that is not available. *)
(* Use these functions instead": the processor never traps.                *)
NeverTraps == pc # "trap"
=============================================================================
