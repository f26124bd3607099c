--------------------------- MODULE DivisionProofs ----------------------------
(***************************************************************************)
(* Theorems about do_div64 for words of any length: the estimate of the    *)
(* quotient is at most two too small, quotient and remainder are those of  *)
(* the integers, and without a divisor that begins with a word of ones no  *)
(* divl traps.                                                             *)
(***************************************************************************)
EXTENDS Div64, ListLemmas

-----------------------------------------------------------------------------
(* Words.                                                                  *)

LEMMA Powers ==
  /\ Power \in [0 .. DivBits -> Nat \ {0}]
  /\ Power[0] = 1 /\ \A k \in 1 .. DivBits : Power[k] = 2 * Power[k - 1]
<1> DEFINE N == DivBits
           S == Nat \ {0}
           F == [i \in 1 .. N |-> [n \in S |-> 2 * n]]
           Body(f) == [k \in 0 .. DivBits |-> IF k = 0 THEN 1 ELSE 2 * f[k - 1]]
<1>1. N \in Nat /\ 1 \in S /\ F \in LoopBodies(N, S)
      /\ \A i \in 1 .. N, n \in S : F[i][n] = 2 * n
  BY DivAssumption DEF LoopBodies
<1>2. PICK g : LoopRun(g, N, S, 1, F)
  <2> HIDE DEF N, S, F
  <2> QED BY <1>1, LoopExists
<1>3. /\ g \in [0 .. N -> S] /\ g[0] = 1
      /\ \A i \in 1 .. N : i - 1 \in 0 .. N /\ g[i] = 2 * g[i - 1]
  <2> HIDE DEF S, F
  <2> QED BY <1>1, <1>2 DEF LoopRun
<1>4. g = Body(g)
  <2>1. \A k \in 0 .. N : g[k] = IF k = 0 THEN 1 ELSE 2 * g[k - 1]
    BY <1>1, <1>3
  <2> QED BY <1>3, <2>1
<1>5. Power = Body(Power)
  <2>1. Power = CHOOSE f : f = Body(f)
    BY DEF Power
  <2> HIDE DEF Body
  <2> QED BY <1>4, <2>1
<1> DEFINE G == {k \in 0 .. N : Power[k] = g[k]}
<1>6. \A k \in 0 .. N : k \in G
  <2>1. 0 \in G
    BY <1>1, <1>3, <1>5
  <2>2. ASSUME NEW k \in 1 .. N, k - 1 \in G PROVE k \in G
    <3>1. k \in 0 .. N /\ k # 0 /\ g[k] = 2 * g[k - 1] /\ Power[k - 1] = g[k - 1]
      BY <1>1, <1>3, <2>2
    <3>2. Power[k] = 2 * Power[k - 1]
      <4>1. Body(Power)[k] = 2 * Power[k - 1]
        BY <3>1
      <4> HIDE DEF Body
      <4> QED BY <1>5, <4>1
    <3> QED BY <3>1, <3>2
  <2> HIDE DEF G, N
  <2> QED BY <1>1, <2>1, <2>2, UpTo
<1>7. Power = g
  BY <1>3, <1>5, <1>6
<1> QED BY <1>3, <1>7

LEMMA Word == DivWord \in Nat \ {0} /\ DivWord * DivWord \in Nat \ {0} /\ DivWord >= 2
<1>1. DivBits \in 1 .. DivBits /\ DivBits - 1 \in 0 .. DivBits
  BY DivAssumption
<1>2. Power[DivBits] = 2 * Power[DivBits - 1] /\ Power[DivBits - 1] \in Nat \ {0}
  BY <1>1, Powers
<1>3. DivWord \in Nat \ {0} /\ DivWord >= 2
  BY <1>2 DEF DivWord
<1> QED BY <1>3

(* log2 + 1: the number of bits. *)
LEMMA BitsOf ==
  ASSUME NEW n \in 1 .. DivWord - 1
  PROVE  /\ Bits(n) \in 1 .. DivBits
         /\ Power[Bits(n) - 1] \in Nat \ {0} /\ Power[Bits(n)] = 2 * Power[Bits(n) - 1]
         /\ Power[Bits(n) - 1] <= n /\ n < Power[Bits(n)]
<1> DEFINE T == {k \in 0 .. DivBits : n < Power[k]}
<1>1. DivBits \in Nat /\ DivBits \in T /\ T \in SUBSET Nat
  BY DivAssumption, Word DEF DivWord
<1>2. PICK k \in T : \A m \in T : k <= m
  <2> HIDE DEF T
  <2> QED BY <1>1, LeastNat
<1>3. k # 0
  BY <1>2, Powers
<1>4. k \in 1 .. DivBits /\ k - 1 \in 0 .. DivBits /\ k - 1 \notin T
  BY <1>1, <1>2, <1>3
<1>5. Power[k - 1] \in Nat
  BY <1>4, Powers
<1>6. Power[k - 1] <= n /\ n < Power[k]
  BY <1>2, <1>4, <1>5, Word
<1>7. Bits(n) \in 1 .. DivBits /\ Power[Bits(n) - 1] <= n /\ n < Power[Bits(n)]
  BY <1>4, <1>6 DEF Bits
<1>8. Bits(n) - 1 \in 0 .. DivBits
  BY <1>1, <1>7
<1> QED BY <1>7, <1>8, Powers

(* A number in two words. *)
LEMMA Words ==
  ASSUME NEW n \in 0 .. DivWord * DivWord - 1
  PROVE  /\ n \div DivWord \in 0 .. DivWord - 1 /\ n % DivWord \in 0 .. DivWord - 1
         /\ n = (n \div DivWord) * DivWord + (n % DivWord)
<1>1. DivWord \in Nat \ {0} /\ n \in Nat /\ n < DivWord * DivWord
  BY Word
<1> DEFINE W == DivWord
<1> HIDE DEF W
<1>2. n \div W \in 0 .. W - 1 /\ n % W \in 0 .. W - 1 /\ n = W * (n \div W) + (n % W)
  BY <1>1, QuotientRange DEF W
<1>3. W * (n \div W) = (n \div W) * W
  BY <1>1, <1>2 DEF W
<1> QED BY <1>2, <1>3 DEF W

(* divl, when the quotient of the two-word n fits. *)
Divided(t, n, d) ==
  /\ t.trap = FALSE /\ t.q = n \div d /\ t.r = n % d
  /\ n \div d \in 0 .. DivWord - 1 /\ n % d \in 0 .. d - 1
  /\ n = d * (n \div d) + (n % d)

LEMMA Divl ==
  ASSUME NEW hi \in Nat, NEW lo \in Nat, NEW d \in Nat \ {0}, NEW n \in Nat,
         n = hi * DivWord + lo, n < d * DivWord
  PROVE  Divided(div64_32(hi, lo, d), n, d)
<1> DEFINE W == DivWord
           a == n \div d
           b == n % d
           t == div64_32(hi, lo, d)
<1>1. W \in Nat
  BY Word
<1>3. a \in 0 .. W - 1 /\ b \in 0 .. d - 1 /\ n = d * a + b
  <2>1. n < d * W
    OBVIOUS
  <2> HIDE DEF W
  <2> QED BY <1>1, <2>1, QuotientRange
<1>4. t = IF d = 0 THEN [trap |-> TRUE]
          ELSE IF a >= W THEN [trap |-> TRUE] ELSE [trap |-> FALSE, q |-> a, r |-> b]
  BY DEF div64_32
<1> HIDE DEF a, b, t, W
<1>5. t = [trap |-> FALSE, q |-> a, r |-> b]
  BY <1>1, <1>3, <1>4
<1>6. t.trap = FALSE /\ t.q = a /\ t.r = b
  BY <1>5
<1> QED BY <1>3, <1>6 DEF Divided, t, a, b, W

(* The quotient fits when the high word is below the divisor. *)
LEMMA DivlFits ==
  ASSUME NEW b \in Nat \ {0}, NEW hi \in 0 .. b - 1, NEW lo \in 0 .. DivWord - 1
  PROVE  LET t == div64_32(hi, lo, b)
         IN /\ t.trap = FALSE /\ t.q \in 0 .. DivWord - 1 /\ t.r \in 0 .. b - 1
            /\ hi * DivWord + lo = b * t.q + t.r
<1> DEFINE W == DivWord
<1>1. W \in Nat \ {0} /\ hi \in Nat /\ lo \in Nat /\ lo < W /\ hi + 1 <= b
  BY Word
<1> HIDE DEF W
<1>2. (hi + 1) * W <= b * W /\ (hi + 1) * W = hi * W + W
  BY <1>1, SMT
<1>3. hi * W \in Nat /\ b * W \in Nat
  BY <1>1, SMT
<1>4. hi * W + lo < b * W
  BY <1>1, <1>2, <1>3
<1> DEFINE n == hi * W + lo
<1>5. n \in Nat /\ n = hi * DivWord + lo /\ n < b * DivWord
  BY <1>1, <1>3, <1>4 DEF W
<1> HIDE DEF n
<1>6. Divided(div64_32(hi, lo, b), n, b)
  BY <1>1, <1>5, Divl
<1> QED BY <1>5, <1>6 DEF Divided

LEMMA SomeQuotient ==
  ASSUME NEW a \in Nat, NEW b \in Nat \ {0}
  PROVE  a \div b \in Nat /\ a % b \in 0 .. b - 1 /\ a = b * (a \div b) + (a % b)
<1> DEFINE n == a + 1
<1>1. n \in Nat /\ a < b * n
  <2>1. b * n >= 1 * n
    BY SMT
  <2> QED BY <2>1, SMT
<1> HIDE DEF n
<1>2. a \div b \in 0 .. n - 1 /\ a % b \in 0 .. b - 1 /\ a = b * (a \div b) + (a % b)
  BY <1>1, QuotientRange
<1> QED BY <1>1, <1>2

-----------------------------------------------------------------------------
(* The estimate.                                                           *)

(* y is shifted to one word ys of which the first bit is set, and x alike; *)
(* the quotient e of xs and ys + 1 fits a word and is at most two below    *)
(* the one of x and y.                                                     *)
LEMMA Estimate ==
  ASSUME NEW W \in Nat \ {0}, NEW h \in Nat \ {0}, NEW a \in Nat, NEW b \in Nat,
         a < W * W, h * W <= b, b < (2 * h) * W,
         NEW xs \in Nat, NEW ar \in Nat, NEW ys \in Nat, NEW br \in Nat,
         a = (2 * h) * xs + ar, b = (2 * h) * ys + br, br < 2 * h, ar < 2 * h,
         NEW e \in Nat, NEW er \in Nat, xs = (ys + 1) * e + er, er < ys + 1
  PROVE  e < W /\ b * e <= a /\ a < b * e + 3 * b
<1> DEFINE p == 2 * h
           d == ys + 1
<1>1. p \in Nat /\ d \in Nat /\ p >= 2 /\ b < p * d /\ p * d = p * ys + p
  BY SMT
<1>2. W < 2 * d
  <2>1. p * d = h * (2 * d)
    BY SMT
  <2>2. h * W < h * (2 * d)
    BY <1>1, <2>1, SMT
  <2>3. CASE W >= 2 * d
    <3>1. h * W >= h * (2 * d)
      BY <1>1, <2>3, SMT
    <3> QED BY <1>1, <2>2, <3>1, SMT
  <2> QED BY <1>1, <2>3, SMT
<1> HIDE DEF p, d
<1>3. /\ a = p * xs + ar /\ b = p * ys + br /\ br < p /\ ar < p
      /\ xs = d * e + er /\ er < d
  BY DEF p, d
<1>4. p * xs = (p * d) * e + p * er
  BY <1>1, <1>3, SMT
<1>5. (p * d) * e <= a
  <2>1. p * er >= 0
    BY <1>1, SMT
  <2> QED BY <1>1, <1>3, <1>4, <2>1, SMT
<1>6. b * e <= a
  <2>1. b * e <= (p * d) * e
    BY <1>1, SMT
  <2>2. b * e \in Nat /\ (p * d) * e \in Nat
    BY <1>1, SMT
  <2> QED BY <1>5, <2>1, <2>2, SMT
<1>7. e < W
  <2> SUFFICES ASSUME e >= W PROVE FALSE
    BY SMT
  <2>1. (p * d) * W <= (p * d) * e
    BY <1>1, SMT
  <2>2. (2 * d) * W <= (p * d) * W
    <3>1. 2 * d <= p * d
      BY <1>1, SMT
    <3> QED BY <1>1, <3>1, SMT
  <2>3. W * W <= (2 * d) * W
    BY <1>1, <1>2, SMT
  <2>4. (p * d) * W \in Nat /\ (p * d) * e \in Nat /\ (2 * d) * W \in Nat /\ W * W \in Nat
    BY <1>1, SMT
  <2> QED BY <1>5, <2>1, <2>2, <2>3, <2>4, SMT
<1>8. a < (p * d) * (e + 1)
  <2>1. p * er + p <= p * d
    <3>1. er + 1 <= d
      BY <1>1, <1>3
    <3>2. p * (er + 1) <= p * d
      BY <1>1, <3>1, SMT
    <3> QED BY <1>1, <3>2, SMT
  <2>2. (p * d) * (e + 1) = (p * d) * e + p * d
    BY <1>1, SMT
  <2>3. p * d \in Nat /\ (p * d) * e \in Nat /\ p * er \in Nat
    BY <1>1, SMT
  <2> QED BY <1>1, <1>3, <1>4, <2>1, <2>2, <2>3, SMT
<1>9. p * (e + 1) <= 2 * b
  <2>1. p * (e + 1) <= p * W
    <3>1. e + 1 <= W
      BY <1>7
    <3> QED BY <1>1, <3>1, SMT
  <2>2. p * W = 2 * (h * W)
    BY SMT DEF p
  <2>3. p * (e + 1) \in Nat /\ p * W \in Nat /\ h * W \in Nat
    BY <1>1, SMT
  <2> QED BY <2>1, <2>2, <2>3, SMT
<1>10. (p * d) * (e + 1) <= b * e + b + p * (e + 1)
  <2>1. p * ys <= b
    BY <1>1, <1>3, SMT
  <2>2. (p * ys) * (e + 1) <= b * (e + 1)
    BY <1>1, <2>1, SMT
  <2>3. (p * d) * (e + 1) = (p * ys) * (e + 1) + p * (e + 1)
    BY <1>1, SMT
  <2>4. b * (e + 1) = b * e + b
    BY SMT
  <2>5. /\ (p * ys) * (e + 1) \in Nat /\ p * (e + 1) \in Nat /\ (p * d) * (e + 1) \in Nat
        /\ b * e \in Nat /\ b * (e + 1) \in Nat
    BY <1>1, SMT
  <2> QED BY <2>2, <2>3, <2>4, <2>5, SMT
<1>11. a < b * e + 3 * b
  <2>1. /\ p * (e + 1) \in Nat /\ (p * d) * (e + 1) \in Nat /\ b * e \in Nat
    BY <1>1, SMT
  <2> QED BY <1>8, <1>9, <1>10, <2>1, SMT
<1> QED BY <1>6, <1>7, <1>11

-----------------------------------------------------------------------------
(* The calls.                                                              *)

(* Before the loop the arguments are those of the call; in it, quotient    *)
(* and remainder make x, and the rounds left are enough.                   *)
InLoop ==
  /\ y >= DivWord /\ q \in 0 .. DivWord - 1 /\ y * q + r = x
  /\ rounds \in 0 .. 2 /\ r < (3 - rounds) * y

DivInv ==
  /\ x \in Numerators /\ y \in Numerators /\ q \in Numerators /\ r \in Numerators
  /\ pc \in {"call", "loop", "return", "trap"} /\ rounds \in 0 .. 2
  /\ pc = "call" => y \in Divisors /\ rounds = 0
  /\ pc = "loop" => InLoop
  /\ pc = "return" /\ y # 0 => y * q + r = x /\ r < y
  /\ ~OnesDivisors => pc # "trap"

LEMMA DivStart == DivInit => DivInv
<1>1. 0 \in Numerators
  BY Word DEF Numerators
<1> QED BY <1>1 DEF DivInit, DivInv, Divisors

(* What is subtracted leaves a two-word number. *)
LEMMA Wraps ==
  ASSUME NEW n \in Numerators
  PROVE  n % (DivWord * DivWord) = n
<1> DEFINE b == DivWord * DivWord
<1>1. b \in Nat \ {0} /\ n \in 0 .. b - 1
  BY Word DEF Numerators
<1> HIDE DEF b
<1>2. n % b = n
  BY <1>1
<1> QED BY <1>2 DEF b

LEMMA LargeStep ==
  ASSUME DivInv, LargeDivisor
  PROVE  DivInv'
<1> DEFINE W == DivWord
           n == y \div W
           l == Bits(n)
           h == Power[l - 1]
           p == Power[l]
           xs == x \div p
           ys == y \div p
           t == div64_32(xs \div W, xs % W, (ys + 1) % W)
<1>1. /\ pc = "call" /\ y >= W /\ x' = x /\ y' = y /\ rounds' = rounds
      /\ \/ t.trap /\ pc' = "trap" /\ q' = q /\ r' = r
         \/ ~t.trap /\ pc' = "loop" /\ q' = t.q /\ r' = (x - y * t.q) % (W * W)
  BY DEF LargeDivisor, rshift64
<1>2. /\ x \in Nat /\ x < W * W /\ y \in Nat /\ y < W * W /\ W \in Nat \ {0} /\ W >= 2
      /\ y \in Divisors /\ rounds = 0 /\ x \in Numerators /\ y \in Numerators
      /\ q \in Numerators /\ r \in Numerators
  BY <1>1, Word DEF DivInv, Numerators
<1>3. n \in 0 .. W - 1 /\ y % W \in 0 .. W - 1 /\ y = n * W + (y % W)
  BY <1>2, Words
<1>4. n \in 1 .. W - 1
  <2>1. CASE n = 0
    BY <1>1, <1>2, <1>3, <2>1
  <2> HIDE DEF n
  <2> QED BY <1>2, <1>3, <2>1
<1>5. h \in Nat \ {0} /\ p = 2 * h /\ h <= n /\ n < p
  <2> HIDE DEF n
  <2> QED BY <1>4, BitsOf
<1> HIDE DEF h, p, n
<1>6. h * W <= y /\ y < p * W
  <2>1. h * W <= n * W /\ (n + 1) * W <= p * W /\ (n + 1) * W = n * W + W
    BY <1>2, <1>4, <1>5, SMT
  <2>2. h * W \in Nat /\ n * W \in Nat /\ p * W \in Nat
    BY <1>2, <1>4, <1>5, SMT
  <2> HIDE DEF W
  <2> QED BY <1>2, <1>3, <2>1, <2>2, SMT
<1>7. /\ ys \in 0 .. W - 1 /\ y % p \in 0 .. p - 1 /\ y = p * ys + (y % p)
  <2>1. p \in Nat \ {0}
    BY <1>5
  <2> HIDE DEF W
  <2> QED BY <1>2, <1>6, <2>1, QuotientRange
<1>8. /\ xs \in 0 .. W * W - 1 /\ x % p \in 0 .. p - 1 /\ x = p * xs + (x % p)
  <2>1. x < p * (W * W) /\ W * W \in Nat
    BY <1>2, <1>5, SMT
  <2> HIDE DEF W
  <2> QED BY <1>2, <1>5, <2>1, QuotientRange
<1>9. /\ xs \div W \in 0 .. W - 1 /\ xs % W \in 0 .. W - 1
      /\ xs = (xs \div W) * W + (xs % W)
  BY <1>8, Words
<1>10. CASE ys = W - 1
  <2>1. (ys + 1) % W = 0
    BY <1>2, <1>10
  <2>2. t = [trap |-> TRUE]
    BY <2>1 DEF div64_32
  <2>3. OnesDivisors
    BY <1>1, <1>2, <1>10 DEF Divisors, rshift64, p, n
  <2> QED BY <1>1, <1>2, <2>2, <2>3 DEF DivInv
<1>11. CASE ys # W - 1
  <2> DEFINE d == ys + 1
             e == xs \div d
             er == xs % d
  <2>1. d \in 1 .. W - 1 /\ d % W = d
    BY <1>2, <1>7, <1>11
  <2> HIDE DEF d, xs, ys
  <2>2. xs \in Nat /\ e \in Nat /\ er \in 0 .. d - 1 /\ xs = d * e + er
    <3>1. xs \in Nat /\ d \in Nat \ {0}
      <4>1. W * W \in Nat /\ W \in Nat
        BY <1>2
      <4> HIDE DEF W
      <4> QED BY <1>8, <2>1, <4>1
    <3> QED BY <3>1, SomeQuotient
  <2> HIDE DEF e, er
  <2>3. e < W /\ y * e <= x /\ x < y * e + 3 * y
    <3>1. x % p \in Nat /\ y % p \in Nat /\ x % p < p /\ y % p < p /\ er \in Nat /\ er < d
          /\ ys \in Nat
      BY <1>5, <1>7, <1>8, <2>1, <2>2
    <3> DEFINE xr == x % p
               yr == y % p
    <3>2. x = (2 * h) * xs + xr /\ y = (2 * h) * ys + yr /\ y < (2 * h) * W
      BY <1>5, <1>6, <1>7, <1>8
    <3> HIDE DEF xr, yr, W
    <3> QED BY <1>2, <1>5, <1>6, <2>2, <3>1, <3>2, Estimate DEF d, xr, yr
  <2>4. t.trap = FALSE /\ t.q = e
    <3> DEFINE hi == xs \div W
               lo == xs % W
    <3>1. hi \in Nat /\ lo \in Nat /\ xs = hi * W + lo /\ d \in Nat \ {0}
      <4>1. W \in Nat
        BY <1>2
      <4> HIDE DEF W
      <4> QED BY <1>9, <2>1, <4>1
    <3>2. xs < d * W
      <4>1. d * (e + 1) <= d * W /\ d * (e + 1) = d * e + d
        BY <1>2, <2>1, <2>2, <2>3, SMT
      <4>2. d * e \in Nat /\ d * W \in Nat
        BY <1>2, <2>1, <2>2, SMT
      <4> HIDE DEF W
      <4> QED BY <2>1, <2>2, <4>1, <4>2, SMT
    <3> HIDE DEF hi, lo
    <3>3. div64_32(hi, lo, d).trap = FALSE /\ div64_32(hi, lo, d).q = xs \div d
      <4>1. xs \in Nat /\ d \in Nat \ {0} /\ hi \in Nat /\ lo \in Nat
            /\ xs = hi * DivWord + lo /\ xs < d * DivWord
        BY <2>2, <3>1, <3>2
      <4>2. Divided(div64_32(hi, lo, d), xs, d)
        BY <4>1, Divl
      <4> QED BY <4>2 DEF Divided
    <3> QED BY <2>1, <3>3 DEF d, hi, lo, e
  <2>5. x - y * e \in Numerators /\ (x - y * e) % (W * W) = x - y * e
    <3>1. y * e \in Nat
      BY <1>2, <2>2, SMT
    <3>2. x - y * e \in 0 .. W * W - 1
      BY <1>2, <2>3, <3>1, SMT
    <3> QED BY <3>2, Wraps DEF Numerators
  <2>6. pc' = "loop" /\ q' = e /\ r' = x - y * e
    BY <1>1, <2>4, <2>5
  <2>7. e \in 0 .. W - 1 /\ e \in Numerators
    <3>1. W <= W * W /\ W * W \in Nat
      BY <1>2, SMT
    <3> QED BY <1>2, <2>2, <2>3, <3>1, SMT DEF Numerators
  <2>8. y * e + (x - y * e) = x /\ x - y * e < (3 - 0) * y
    <3>1. y * e \in Nat
      BY <1>2, <2>2, SMT
    <3> QED BY <1>2, <2>3, <3>1, SMT
  <2>9. InLoop'
    BY <1>1, <1>2, <2>6, <2>7, <2>8 DEF InLoop
  <2> QED BY <1>1, <1>2, <2>5, <2>6, <2>7, <2>9 DEF DivInv
<1> QED BY <1>10, <1>11

LEMMA CorrectStep ==
  ASSUME DivInv, Correct
  PROVE  DivInv'
<1> DEFINE W == DivWord
<1>1. /\ pc = "loop" /\ x' = x /\ y' = y
      /\ \/ r >= y /\ q' = (q + 1) % W /\ r' = r - y /\ rounds' = rounds + 1 /\ pc' = pc
         \/ ~(r >= y) /\ pc' = "return" /\ q' = q /\ r' = r /\ rounds' = rounds
  BY DEF Correct
<1>2. /\ InLoop /\ x \in Numerators /\ y \in Numerators /\ q \in Numerators /\ r \in Numerators
      /\ x \in Nat /\ y \in Nat /\ r \in Nat /\ W \in Nat \ {0} /\ x < W * W /\ r < W * W
  BY <1>1, Word DEF DivInv, Numerators
<1>3. /\ y >= W /\ q \in 0 .. W - 1 /\ y * q + r = x /\ rounds \in 0 .. 2
      /\ r < (3 - rounds) * y
  BY <1>2 DEF InLoop
<1>4. CASE r >= y
  <2> HIDE DEF W
  <2>1. y * (q + 1) = y * q + y /\ y * q \in Nat
    BY <1>2, <1>3, SMT
  <2>2. y * (q + 1) <= x
    BY <1>2, <1>3, <1>4, <2>1, SMT
  <2>3. q + 1 < W
    <3> SUFFICES ASSUME q + 1 >= W PROVE FALSE
      BY <1>2, <1>3
    <3>1. W * W <= y * W /\ y * W <= y * (q + 1)
      BY <1>2, <1>3, SMT
    <3>2. y * W \in Nat /\ W * W \in Nat /\ y * (q + 1) \in Nat
      BY <1>2, <1>3, SMT
    <3> QED BY <1>2, <2>2, <3>1, <3>2, SMT
  <2>4. q' = q + 1 /\ q' \in 0 .. W - 1
    BY <1>1, <1>2, <1>3, <1>4, <2>3
  <2>5. rounds < 2 /\ r - y < (3 - (rounds + 1)) * y
    <3>1. (3 - rounds) * y = (3 - (rounds + 1)) * y + y
      BY <1>2, <1>3, SMT
    <3>2. rounds = 2 => (3 - rounds) * y = y
      BY <1>2, SMT
    <3>3. (3 - (rounds + 1)) * y \in Int
      BY <1>2, <1>3
    <3> QED BY <1>2, <1>3, <1>4, <3>1, <3>2, <3>3
  <2>6. y * (q + 1) + (r - y) = x
    BY <1>2, <1>3, <2>1, SMT
  <2>7. r' = r - y /\ r - y \in Numerators /\ rounds' = rounds + 1 /\ rounds' \in 0 .. 2
        /\ pc' = "loop"
    <3>1. r - y \in Nat /\ r - y <= r
      BY <1>2, <1>4
    <3>2. r - y \in Numerators
      BY <1>2, <3>1, Word DEF Numerators
    <3>3. rounds + 1 \in 0 .. 2
      BY <1>3, <2>5
    <3> QED BY <1>1, <1>4, <3>2, <3>3
  <2>8. q + 1 \in Numerators
    <3>1. W <= W * W /\ W * W \in Nat
      BY <1>2, SMT
    <3> QED BY <1>2, <1>3, <2>3, <3>1, SMT DEF Numerators, W
  <2>9. InLoop'
    BY <1>1, <1>3, <2>4, <2>5, <2>6, <2>7 DEF InLoop, W
  <2> QED BY <1>1, <1>2, <2>4, <2>7, <2>8, <2>9 DEF DivInv
<1>5. CASE ~(r >= y)
  BY <1>1, <1>2, <1>3, <1>5 DEF DivInv
<1> QED BY <1>4, <1>5

(* Two divisions, as on paper. *)
LEMMA LongDivision ==
  ASSUME NEW W \in Nat, NEW n \in Nat, NEW n1 \in Nat, NEW n0 \in Nat, NEW b \in Nat,
         NEW q1 \in Nat, NEW r1 \in Nat, NEW q0 \in Nat, NEW r0 \in Nat,
         n = n1 * W + n0, n1 = b * q1 + r1, r1 * W + n0 = b * q0 + r0
  PROVE  b * (q1 * W + q0) + r0 = n
<1>1. n1 * W = (b * q1) * W + r1 * W
  BY SMT
<1>2. b * (q1 * W + q0) = (b * q1) * W + b * q0
  BY SMT
<1>3. n1 * W \in Nat /\ (b * q1) * W \in Nat /\ r1 * W \in Nat /\ b * q0 \in Nat
      /\ b * (q1 * W + q0) \in Nat
  BY SMT
<1> QED BY <1>1, <1>2, <1>3, SMT

LEMMA SmallStep ==
  ASSUME DivInv, SmallDivisor
  PROVE  DivInv'
<1> DEFINE W == DivWord
           x1 == x \div W
           x0 == x % W
           one == div64_32(x1, x0, y)
           high == div64_32(0, x1, y)
           low == div64_32(high.r, x0, y)
<1>1. /\ pc = "call" /\ y < W /\ x' = x /\ y' = y /\ rounds' = rounds
      /\ x1 < y => \/ one.trap /\ pc' = "trap"
                   \/ ~one.trap /\ pc' = "return" /\ q' = one.q /\ r' = one.r
      /\ ~(x1 < y) /\ y = 0 => pc' = "return" /\ q' = 0 /\ r' = x
      /\ ~(x1 < y) /\ y # 0 =>
           \/ (high.trap \/ low.trap) /\ pc' = "trap"
           \/ /\ ~(high.trap \/ low.trap) /\ pc' = "return"
              /\ q' = high.q * W + low.q /\ r' = low.r
  BY DEF SmallDivisor
<1>2. /\ x \in Numerators /\ y \in Numerators /\ rounds \in 0 .. 2 /\ W \in Nat \ {0} /\ W >= 2
      /\ x \in Nat /\ y \in Nat /\ W * W \in Nat \ {0} /\ x < W * W
  BY Word DEF DivInv, Numerators
<1>3. x1 \in 0 .. W - 1 /\ x0 \in 0 .. W - 1 /\ x = x1 * W + x0
  BY <1>2, Words DEF Numerators
<1>4. W <= W * W
  BY <1>2, SMT
<1> HIDE DEF W, x1, x0
<1>5. CASE x1 < y
  <2>1. y \in Nat \ {0} /\ x1 \in 0 .. y - 1
    BY <1>2, <1>3, <1>5
  <2>2. /\ one.trap = FALSE /\ one.q \in 0 .. W - 1 /\ one.r \in 0 .. y - 1
        /\ x1 * W + x0 = y * one.q + one.r
    BY <1>3, <2>1, DivlFits DEF W
  <2>3. x = y * one.q + one.r
    BY <1>3, <2>2
  <2> HIDE DEF one
  <2>4. one.q \in Numerators /\ one.r \in Numerators
    BY <1>1, <1>2, <1>4, <2>1, <2>2, SMT DEF Numerators, W
  <2>5. pc' = "return" /\ q' = one.q /\ r' = one.r
    BY <1>1, <1>5, <2>2
  <2>6. y * one.q + one.r = x /\ one.r < y
    BY <2>1, <2>2, <2>3
  <2> QED BY <1>1, <1>2, <2>4, <2>5, <2>6 DEF DivInv
<1>6. CASE ~(x1 < y) /\ y = 0
  <2>1. 0 \in Numerators
    BY <1>2 DEF Numerators, W
  <2> QED BY <1>1, <1>2, <1>6, <2>1 DEF DivInv
<1>7. CASE ~(x1 < y) /\ y # 0
  <2>1. y \in Nat \ {0} /\ 0 \in 0 .. y - 1 /\ x1 \in Nat /\ x0 \in Nat
    BY <1>2, <1>3, <1>7
  <2>2. /\ high.trap = FALSE /\ high.q \in 0 .. W - 1 /\ high.r \in 0 .. y - 1
        /\ 0 * W + x1 = y * high.q + high.r
    BY <1>3, <2>1, DivlFits DEF W
  <2> HIDE DEF high
  <2>3. x1 = y * high.q + high.r
    <3>1. 0 * W + x1 = x1
      BY <1>2, <2>1
    <3> QED BY <2>2, <3>1
  <2> DEFINE hr == high.r
  <2>4. hr \in 0 .. y - 1
    BY <2>2
  <2> HIDE DEF hr
  <2>5. /\ low.trap = FALSE /\ low.q \in 0 .. W - 1 /\ low.r \in 0 .. y - 1
        /\ high.r * W + x0 = y * low.q + low.r
    <3> DEFINE t == div64_32(hr, x0, y)
    <3>1. /\ t.trap = FALSE /\ t.q \in 0 .. W - 1 /\ t.r \in 0 .. y - 1
          /\ hr * W + x0 = y * t.q + t.r
      BY <1>3, <2>1, <2>4, DivlFits DEF W
    <3>2. low = t
      BY DEF hr
    <3> HIDE DEF low, t
    <3> QED BY <3>1, <3>2 DEF hr
  <2> HIDE DEF low
  <2>6. pc' = "return" /\ q' = high.q * W + low.q /\ r' = low.r
    BY <1>1, <1>7, <2>2, <2>5
  <2>7. low.r \in Numerators /\ low.r < y
    BY <1>1, <1>2, <1>4, <2>1, <2>5, SMT DEF Numerators, W
  <2>8. high.q * W + low.q \in Numerators
    <3>1. (high.q + 1) * W <= W * W /\ (high.q + 1) * W = high.q * W + W
      BY <1>2, <2>2, SMT
    <3>2. high.q * W \in Nat
      BY <1>2, <2>2, SMT
    <3> QED BY <1>2, <2>5, <3>1, <3>2, SMT DEF Numerators, W
  <2>9. y * (high.q * W + low.q) + low.r = x
    <3>1. high.q \in Nat /\ high.r \in Nat /\ low.q \in Nat /\ low.r \in Nat
      BY <2>1, <2>2, <2>5
    <3> DEFINE q1 == high.q
               r1 == high.r
               q0 == low.q
               r0 == low.r
    <3>2. /\ W \in Nat /\ x \in Nat /\ x1 \in Nat /\ x0 \in Nat /\ y \in Nat
          /\ q1 \in Nat /\ r1 \in Nat /\ q0 \in Nat /\ r0 \in Nat
          /\ x = x1 * W + x0 /\ x1 = y * q1 + r1 /\ r1 * W + x0 = y * q0 + r0
      BY <1>2, <1>3, <2>1, <2>3, <2>5, <3>1
    <3> HIDE DEF q1, r1, q0, r0
    <3>3. y * (q1 * W + q0) + r0 = x
      BY <3>2, LongDivision
    <3> QED BY <3>3 DEF q1, r1, q0, r0
  <2> QED BY <1>1, <1>2, <2>6, <2>7, <2>8, <2>9 DEF DivInv
<1> QED BY <1>5, <1>6, <1>7

LEMMA DivStep == DivInv /\ [DivNext]_div_vars => DivInv'
<1>1. ASSUME DivInv, UNCHANGED div_vars PROVE DivInv'
  BY <1>1 DEF DivInv, InLoop, div_vars
<1> QED BY <1>1, LargeStep, CorrectStep, SmallStep DEF DivNext

LEMMA DivHolds == DivInv => DivTypeOK /\ Divides /\ NearEstimate /\ (~OnesDivisors => NeverTraps)
<1> SUFFICES ASSUME DivInv PROVE DivTypeOK /\ Divides /\ NearEstimate /\ (~OnesDivisors => NeverTraps)
  OBVIOUS
<1>1. /\ x \in Numerators /\ y \in Numerators /\ q \in Numerators /\ r \in Numerators
      /\ x \in Nat /\ y \in Nat /\ q \in Nat /\ r \in Nat
  BY Word DEF DivInv, Numerators
<1>2. DivTypeOK
  BY DEF DivInv, DivTypeOK, Numerators
<1>3. ASSUME pc = "return", y # 0 PROVE q = x \div y /\ r = x % y
  <2>1. y * q + r = x /\ r \in 0 .. y - 1 /\ y \in Nat \ {0} /\ q \in Int
    BY <1>1, <1>3 DEF DivInv
  <2>2. (y * q + r) \div y = q /\ (y * q + r) % y = r
    BY <2>1, Division
  <2> QED BY <2>1, <2>2
<1>4. ASSUME pc = "loop" PROVE y * q + r = x /\ rounds + r \div y <= 2
  <2>1. y * q + r = x /\ rounds \in 0 .. 2 /\ r < (3 - rounds) * y /\ y \in Nat \ {0}
    BY <1>1, <1>4, Word DEF DivInv, InLoop
  <2> DEFINE m == 3 - rounds
  <2>2. m \in Nat /\ r < y * m
    BY <1>1, <2>1, SMT
  <2> HIDE DEF m
  <2>3. r \div y \in 0 .. m - 1
    BY <1>1, <2>1, <2>2, QuotientRange
  <2> QED BY <2>1, <2>3 DEF m
<1>5. ~OnesDivisors => NeverTraps
  BY DEF DivInv, NeverTraps
<1> QED BY <1>2, <1>3, <1>4, <1>5 DEF Divides, NearEstimate

(* do_div64, for every length of a word: what is returned is the quotient  *)
(* and the remainder, by whichever branch; the estimate is at most two     *)
(* below the quotient, so the loop has at most two rounds.                 *)
THEOREM DivisionsAreExact == DivSpec => [](DivTypeOK /\ Divides /\ NearEstimate)
<1>1. DivSpec => DivInit /\ [][DivNext]_div_vars
  BY PTL DEF DivSpec
<1>2. DivInit /\ [][DivNext]_div_vars => []DivInv
  BY DivStart, DivStep, PTL
<1> QED BY <1>1, <1>2, DivHolds, PTL

(* do_div64: unless the leading word of the divisor is all ones, no divl   *)
(* traps, neither by a divisor of 0 nor by a quotient of more than a word. *)
THEOREM DivisionsNeverTrap ==
  ASSUME ~OnesDivisors
  PROVE  DivSpec => []NeverTraps
<1>1. DivSpec => DivInit /\ [][DivNext]_div_vars
  BY PTL DEF DivSpec
<1>2. DivInit /\ [][DivNext]_div_vars => []DivInv
  BY DivStart, DivStep, PTL
<1>3. DivInv => NeverTraps
  BY DivHolds
<1> QED BY <1>1, <1>2, <1>3, PTL
=============================================================================
