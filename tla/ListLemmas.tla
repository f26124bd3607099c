----------------------------- MODULE ListLemmas ------------------------------
(***************************************************************************)
(* Facts about the process lists of module ProcessLists, quotients and     *)
(* remainders, and induction over naturals as a least counterexample.      *)
(***************************************************************************)
EXTENDS ProcessLists, SequenceTheorems, WellFoundedInduction, TLAPS

(* A non-empty set of naturals has a least element. *)
LEMMA LeastNat ==
  ASSUME NEW T \in SUBSET Nat, T # {}
  PROVE  \E n \in T : \A m \in T : n <= m
<1>1. PICK n \in T : \A m \in T : ~(<<m, n>> \in OpToRel(<, Nat))
  BY NatLessThanWellFounded, WFMin
<1>2. \A m \in T : ~(m < n)
  BY <1>1 DEF OpToRel
<1> QED BY <1>2

(* Induction up to N, for a property given as a set of naturals. *)
LEMMA UpTo ==
  ASSUME NEW N \in Nat, NEW G,
         0 \in G,
         \A n \in 1 .. N : n - 1 \in G => n \in G
  PROVE  \A n \in 0 .. N : n \in G
<1> DEFINE T == {n \in 0 .. N : n \notin G}
<1> SUFFICES ASSUME T # {} PROVE FALSE
  OBVIOUS
<1>0. T \in SUBSET Nat
  OBVIOUS
<1>1. PICK n \in T : \A m \in T : n <= m
  <2> HIDE DEF T
  <2> QED BY <1>0, LeastNat
<1>2. n \in 1 .. N /\ n - 1 \notin T
  BY <1>1
<1>3. n - 1 \in G
  BY <1>2
<1> QED BY <1>2, <1>3

(* F gives the effect of each of the N turns of a loop on a state of S, *)
(* and g the state after each turn.                                     *)
LoopBodies(N, S) == [1 .. N -> [S -> S]]
LoopRun(g, N, S, s, F) ==
  /\ g \in [0 .. N -> S]
  /\ g[0] = s
  /\ \A i \in 1 .. N : g[i] = F[i][g[i - 1]]

(* A loop whose body keeps the state in S has a run. *)
LEMMA LoopExists ==
  ASSUME NEW N \in Nat, NEW S, NEW s \in S, NEW F \in LoopBodies(N, S)
  PROVE  \E g : LoopRun(g, N, S, s, F)
<1> USE DEF LoopBodies
<1> DEFINE G == {n \in 0 .. N : \E g \in [0 .. n -> S] :
                   g[0] = s /\ \A i \in 1 .. n : g[i] = F[i][g[i - 1]]}
<1>1. 0 \in G
  <2> DEFINE h == [i \in 0 .. 0 |-> s]
  <2>1. h \in [0 .. 0 -> S] /\ h[0] = s
    OBVIOUS
  <2>2. \A i \in 1 .. 0 : FALSE
    OBVIOUS
  <2> HIDE DEF h
  <2> QED BY <2>1, <2>2
<1>2. ASSUME NEW n \in 1 .. N, n - 1 \in G
      PROVE  n \in G
  <2>1. PICK g \in [0 .. n - 1 -> S] :
          g[0] = s /\ \A i \in 1 .. n - 1 : g[i] = F[i][g[i - 1]]
    BY <1>2
  <2> DEFINE h == [i \in 0 .. n |-> IF i = n THEN F[n][g[n - 1]] ELSE g[i]]
  <2>2. g[n - 1] \in S /\ F[n][g[n - 1]] \in S
    OBVIOUS
  <2>3. h \in [0 .. n -> S] /\ h[0] = s
    BY <2>1, <2>2
  <2>4. \A i \in 1 .. n : h[i] = F[i][h[i - 1]]
    <3> TAKE i \in 1 .. n
    <3>0. i - 1 \in 0 .. n - 1 /\ i - 1 \in 0 .. n /\ i - 1 # n
      OBVIOUS
    <3>1. h[i - 1] = g[i - 1]
      <4>1. \A j \in 0 .. n : j # n => h[j] = g[j]
        OBVIOUS
      <4> HIDE DEF h
      <4> QED BY <3>0, <4>1
    <3>2. CASE i = n
      <4>1. n \in 0 .. n /\ h[n] = F[n][g[n - 1]]
        OBVIOUS
      <4> HIDE DEF h
      <4> QED BY <3>1, <3>2, <4>1
    <3>3. CASE i # n
      <4>1. i \in 1 .. n - 1 /\ h[i] = g[i]
        BY <3>3
      <4> HIDE DEF h
      <4> QED BY <2>1, <3>1, <4>1
    <3> QED BY <3>2, <3>3
  <2> HIDE DEF h
  <2> QED BY <2>3, <2>4
<1> HIDE DEF G
<1>3. \A n \in 0 .. N : n \in G
  BY <1>1, <1>2, UpTo
<1>4. N \in G
  BY <1>3
<1> QED BY <1>4 DEF G, LoopRun

(* FiniteSetsExt!Min of a set of naturals is its least element. *)
LEMMA MinProperty ==
  ASSUME NEW T \in SUBSET Nat, T # {}
  PROVE  Min(T) \in T /\ \A m \in T : Min(T) <= m
<1>1. \E n \in T : \A m \in T : n <= m
  BY LeastNat
<1> QED BY <1>1 DEF Min

(* push_runnable inserts somewhere in the list or at its end. *)
LEMMA PrioSlotRange ==
  ASSUME NEW S, NEW list \in Seq(S), NEW prio, NEW ps
  PROVE  PrioSlot(list, prio, ps) \in 1 .. Len(list) + 1
<1> DEFINE T == {i \in 1 .. Len(list) : prio[ps] > prio[list[i]]} \cup {Len(list) + 1}
<1>1. Len(list) \in Nat
  OBVIOUS
<1>2. T \in SUBSET Nat /\ T # {} /\ T \subseteq 1 .. Len(list) + 1
  BY <1>1
<1>3. Min(T) \in T
  BY <1>2, MinProperty
<1> QED BY <1>2, <1>3 DEF PrioSlot

(* So does wait_clock in the asleep list. *)
LEMMA ClockSlotRange ==
  ASSUME NEW S, NEW list \in Seq(S), NEW clocks, NEW clock
  PROVE  ClockSlot(list, clocks, clock) \in 1 .. Len(list) + 1
<1> DEFINE T == {i \in 1 .. Len(list) : clock <= clocks[list[i]]} \cup {Len(list) + 1}
<1>1. Len(list) \in Nat
  OBVIOUS
<1>2. T \in SUBSET Nat /\ T # {} /\ T \subseteq 1 .. Len(list) + 1
  BY <1>1
<1>3. Min(T) \in T
  BY <1>2, MinProperty
<1> QED BY <1>2, <1>3 DEF ClockSlot

-----------------------------------------------------------------------------
(* Insertion and removal, element by element. *)

(* The elements of a list after an insertion. *)
LEMMA InsertAtElements ==
  ASSUME NEW S, NEW list \in Seq(S), NEW e \in S, NEW i \in 1 .. Len(list) + 1
  PROVE  /\ InsertAt(list, i, e) \in Seq(S)
         /\ Len(InsertAt(list, i, e)) = Len(list) + 1
         /\ \A j \in 1 .. Len(list) + 1 :
              InsertAt(list, i, e)[j] = IF j < i THEN list[j]
                                        ELSE IF j = i THEN e ELSE list[j - 1]
<1>1. Len(list) \in Nat
  OBVIOUS
<1> DEFINE a == SubSeq(list, 1, i - 1)
           b == SubSeq(list, i, Len(list))
<1>2. a \in Seq(S) /\ Len(a) = i - 1 /\ \A j \in 1 .. i - 1 : a[j] = list[j]
  BY <1>1, SubSeqProperties
<1>3. b \in Seq(S) /\ Len(b) = Len(list) + 1 - i
      /\ \A j \in 1 .. Len(list) + 1 - i : b[j] = list[i + j - 1]
  BY <1>1, SubSeqProperties
<1>4. <<e>> \in Seq(S) /\ Len(<<e>>) = 1 /\ <<e>>[1] = e
  OBVIOUS
<1>5. InsertAt(list, i, e) = (a \o <<e>>) \o b
  BY DEF InsertAt
<1> HIDE DEF a, b
<1>6. a \o <<e>> \in Seq(S) /\ Len(a \o <<e>>) = i
      /\ \A j \in 1 .. i : (a \o <<e>>)[j] = IF j < i THEN list[j] ELSE e
  BY <1>1, <1>2, <1>4, ConcatProperties
<1> QED BY <1>1, <1>3, <1>5, <1>6, ConcatProperties

(* The elements of a list after a removal. *)
LEMMA RemoveAtElements ==
  ASSUME NEW S, NEW list \in Seq(S), NEW i \in 1 .. Len(list)
  PROVE  /\ RemoveAt(list, i) \in Seq(S)
         /\ Len(RemoveAt(list, i)) = Len(list) - 1
         /\ \A j \in 1 .. Len(list) - 1 :
              RemoveAt(list, i)[j] = IF j < i THEN list[j] ELSE list[j + 1]
<1>1. Len(list) \in Nat
  OBVIOUS
<1> DEFINE a == SubSeq(list, 1, i - 1)
           b == SubSeq(list, i + 1, Len(list))
<1>2. a \in Seq(S) /\ Len(a) = i - 1 /\ \A j \in 1 .. i - 1 : a[j] = list[j]
  BY <1>1, SubSeqProperties
<1>3. b \in Seq(S) /\ Len(b) = Len(list) - i
      /\ \A j \in 1 .. Len(list) - i : b[j] = list[i + j]
  BY <1>1, SubSeqProperties
<1>4. RemoveAt(list, i) = a \o b
  BY DEF RemoveAt
<1> HIDE DEF a, b
<1> QED BY <1>1, <1>2, <1>3, <1>4, ConcatProperties

-----------------------------------------------------------------------------
(* Lists of distinct processes. *)

(* Inserting a process that is not on the list, wherever the walk ends. *)
LEMMA InsertList ==
  ASSUME NEW S, NEW list \in Seq(S), NEW L, IsListOf(list, L),
         NEW e \in S, e \notin L, NEW i \in 1 .. Len(list) + 1
  PROVE  /\ InsertAt(list, i, e) \in Seq(S)
         /\ IsListOf(InsertAt(list, i, e), L \cup {e})
<1> DEFINE t == InsertAt(list, i, e)
<1>1. /\ t \in Seq(S) /\ Len(t) = Len(list) + 1
      /\ \A j \in 1 .. Len(list) + 1 :
           t[j] = IF j < i THEN list[j] ELSE IF j = i THEN e ELSE list[j - 1]
  BY InsertAtElements
<1> HIDE DEF t
<1>2. Len(list) \in Nat /\ DOMAIN list = 1 .. Len(list) /\ DOMAIN t = 1 .. Len(list) + 1
  BY <1>1
<1>3. \A j, k \in 1 .. Len(list) : list[j] = list[k] => j = k
  BY <1>2 DEF IsListOf, IsInjective
<1>4. L = {list[j] : j \in 1 .. Len(list)}
  BY <1>2 DEF IsListOf, Range
<1>5. ASSUME NEW j \in 1 .. Len(list) + 1, NEW k \in 1 .. Len(list) + 1, t[j] = t[k]
      PROVE  j = k
  BY <1>1, <1>2, <1>3, <1>4, <1>5
<1>6. \A j \in 1 .. Len(list) + 1 : t[j] \in L \cup {e}
  BY <1>1, <1>2, <1>4
<1>7. e = t[i] /\ i \in 1 .. Len(list) + 1
  BY <1>1, <1>2
<1>8. ASSUME NEW j \in 1 .. Len(list)
      PROVE  \E k \in 1 .. Len(list) + 1 : t[k] = list[j]
  <2>1. CASE j < i
    BY <1>1, <1>2, <2>1
  <2>2. CASE j >= i
    <3>1. j + 1 \in 1 .. Len(list) + 1 /\ t[j + 1] = list[j]
      BY <1>1, <1>2, <2>2
    <3> QED BY <3>1
  <2> QED BY <2>1, <2>2
<1>9. Range(t) = L \cup {e}
  BY <1>2, <1>4, <1>6, <1>7, <1>8 DEF Range
<1>10. IsInjective(t)
  BY <1>2, <1>5 DEF IsInjective
<1> QED BY <1>1, <1>9, <1>10 DEF IsListOf, t

(* Removing the element of position i. *)
LEMMA RemoveAtList ==
  ASSUME NEW S, NEW list \in Seq(S), NEW L, IsListOf(list, L),
         NEW i \in 1 .. Len(list)
  PROVE  /\ RemoveAt(list, i) \in Seq(S)
         /\ IsListOf(RemoveAt(list, i), L \ {list[i]})
<1> DEFINE t == RemoveAt(list, i)
<1>1. /\ t \in Seq(S) /\ Len(t) = Len(list) - 1
      /\ \A j \in 1 .. Len(list) - 1 :
           t[j] = IF j < i THEN list[j] ELSE list[j + 1]
  BY RemoveAtElements
<1> HIDE DEF t
<1>2. Len(list) \in Nat /\ DOMAIN list = 1 .. Len(list) /\ DOMAIN t = 1 .. Len(list) - 1
  BY <1>1
<1>3. \A j, k \in 1 .. Len(list) : list[j] = list[k] => j = k
  BY <1>2 DEF IsListOf, IsInjective
<1>4. L = {list[j] : j \in 1 .. Len(list)}
  BY <1>2 DEF IsListOf, Range
<1>5. \A j, k \in 1 .. Len(list) - 1 : t[j] = t[k] => j = k
  BY <1>1, <1>2, <1>3
<1>6. \A j \in 1 .. Len(list) - 1 : t[j] \in L \ {list[i]}
  BY <1>1, <1>2, <1>3, <1>4
<1>7. ASSUME NEW j \in 1 .. Len(list), j # i
      PROVE  \E k \in 1 .. Len(list) - 1 : t[k] = list[j]
  <2>1. CASE j < i
    BY <1>1, <1>2, <2>1
  <2>2. CASE j > i
    <3>1. j - 1 \in 1 .. Len(list) - 1 /\ t[j - 1] = list[j]
      BY <1>1, <1>2, <2>2
    <3> QED BY <3>1
  <2> QED BY <1>7, <2>1, <2>2
<1>8. Range(t) = L \ {list[i]}
  <2>1. \A x \in L \ {list[i]} : x \in Range(t)
    <3> TAKE x \in L \ {list[i]}
    <3>1. PICK j \in 1 .. Len(list) : j # i /\ x = list[j]
      BY <1>4
    <3> QED BY <1>2, <1>7, <3>1 DEF Range
  <2>2. \A x \in Range(t) : x \in L \ {list[i]}
    BY <1>2, <1>6 DEF Range
  <2> QED BY <2>1, <2>2
<1>9. IsInjective(t)
  BY <1>2, <1>5 DEF IsInjective
<1> QED BY <1>1, <1>8, <1>9 DEF IsListOf, t

(* Unlinking a process, on the list or not. *)
LEMMA RemoveList ==
  ASSUME NEW S, NEW list \in Seq(S), NEW L, IsListOf(list, L), NEW e
  PROVE  /\ RemoveFirst(list, e) \in Seq(S)
         /\ IsListOf(RemoveFirst(list, e), L \ {e})
<1> DEFINE I == {i \in 1 .. Len(list) : list[i] = e}
<1>1. CASE I = {}
  <2>1. RemoveFirst(list, e) = list
    BY <1>1 DEF RemoveFirst
  <2>2. e \notin L
    BY <1>1 DEF IsListOf, Range
  <2> QED BY <2>1, <2>2
<1>2. CASE I # {}
  <2>1. I \in SUBSET Nat
    OBVIOUS
  <2>2. Min(I) \in I
    BY <1>2, <2>1, MinProperty
  <2>3. RemoveFirst(list, e) = RemoveAt(list, Min(I))
    BY <1>2 DEF RemoveFirst, SelectInSeq
  <2> QED BY <2>2, <2>3, RemoveAtList
<1> QED BY <1>1, <1>2

(* Popping the head. *)
LEMMA TailList ==
  ASSUME NEW S, NEW list \in Seq(S), NEW L, IsListOf(list, L), list # <<>>
  PROVE  /\ Tail(list) \in Seq(S)
         /\ Head(list) \in S /\ Head(list) \in L
         /\ IsListOf(Tail(list), L \ {Head(list)})
<1>1. Len(list) \in Nat /\ Len(list) >= 1
  BY EmptySeq
<1>2. Head(list) = list[1] /\ list[1] \in S
  BY <1>1
<1>3. RemoveAt(list, 1) \in Seq(S) /\ Len(RemoveAt(list, 1)) = Len(list) - 1
      /\ \A j \in 1 .. Len(list) - 1 : RemoveAt(list, 1)[j] = list[j + 1]
  BY <1>1, RemoveAtElements
<1>4. Tail(list) \in Seq(S) /\ Len(Tail(list)) = Len(list) - 1
      /\ \A j \in 1 .. Len(list) - 1 : Tail(list)[j] = list[j + 1]
  BY <1>1, HeadTailProperties
<1>5. Tail(list) = RemoveAt(list, 1)
  BY <1>1, <1>3, <1>4, SeqEqual
<1>6. list[1] \in L
  BY <1>1 DEF IsListOf, Range
<1>7. IsListOf(RemoveAt(list, 1), L \ {list[1]})
  <2>1. 1 \in 1 .. Len(list)
    BY <1>1
  <2> QED BY <2>1, RemoveAtList
<1> QED BY <1>2, <1>4, <1>5, <1>6, <1>7

(* Pushing on a stack. *)
LEMMA PushList ==
  ASSUME NEW S, NEW list \in Seq(S), NEW L, IsListOf(list, L), NEW e \in S, e \notin L
  PROVE  <<e>> \o list \in Seq(S) /\ IsListOf(<<e>> \o list, L \cup {e})
<1>1. Len(list) \in Nat /\ 1 \in 1 .. Len(list) + 1
  OBVIOUS
<1> DEFINE t == InsertAt(list, 1, e)
           u == <<e>> \o list
<1>2. /\ t \in Seq(S) /\ Len(t) = Len(list) + 1
      /\ \A j \in 1 .. Len(list) + 1 : t[j] = IF j = 1 THEN e ELSE list[j - 1]
  BY <1>1, InsertAtElements
<1>3. <<e>> \in Seq(S) /\ Len(<<e>>) = 1 /\ <<e>>[1] = e
  OBVIOUS
<1>4. /\ u \in Seq(S) /\ Len(u) = Len(list) + 1
      /\ \A j \in 1 .. Len(list) + 1 : u[j] = IF j = 1 THEN e ELSE list[j - 1]
  BY <1>1, <1>3, ConcatProperties
<1> HIDE DEF t, u
<1>5. t = u
  <2>1. Len(t) = Len(u) /\ \A j \in 1 .. Len(t) : t[j] = u[j]
    BY <1>2, <1>4
  <2> QED BY <1>2, <1>4, <2>1, SeqEqual
<1>6. InsertAt(list, 1, e) \in Seq(S) /\ IsListOf(InsertAt(list, 1, e), L \cup {e})
  BY <1>1, InsertList
<1> QED BY <1>5, <1>6 DEF t, u

-----------------------------------------------------------------------------
(* Where an ordered insertion walks to. *)

(* Nothing in front of the slot is lower, what follows it is. *)
LEMMA PrioSlotPlace ==
  ASSUME NEW S, NEW list \in Seq(S), NEW prio \in [S -> Int], NEW p \in S
  PROVE  LET i == PrioSlot(list, prio, p) IN
         /\ i \in 1 .. Len(list) + 1
         /\ \A j \in 1 .. Len(list) : j < i => prio[list[j]] >= prio[p]
         /\ i <= Len(list) => prio[p] > prio[list[i]]
<1> DEFINE T == {i \in 1 .. Len(list) : prio[p] > prio[list[i]]} \cup {Len(list) + 1}
           i == PrioSlot(list, prio, p)
<1>1. Len(list) \in Nat /\ \A j \in 1 .. Len(list) : prio[list[j]] \in Int /\ prio[p] \in Int
  OBVIOUS
<1>2. T \in SUBSET Nat /\ T # {} /\ T \subseteq 1 .. Len(list) + 1
  BY <1>1
<1>3. Min(T) \in T /\ \A m \in T : Min(T) <= m
  BY <1>2, MinProperty
<1>4. i = Min(T)
  BY DEF PrioSlot
<1> HIDE DEF i
<1>5. /\ i \in 1 .. Len(list) + 1
      /\ \A j \in 1 .. Len(list) : j < i => prio[list[j]] >= prio[p]
      /\ i <= Len(list) => prio[p] > prio[list[i]]
  <2>1. i \in T /\ i \in 1 .. Len(list) + 1
    BY <1>2, <1>3, <1>4
  <2>2. ASSUME NEW j \in 1 .. Len(list), j < i
        PROVE  prio[list[j]] >= prio[p]
    <3>1. j \notin T
      BY <1>1, <1>3, <1>4, <2>1, <2>2
    <3>2. ~(prio[p] > prio[list[j]])
      BY <3>1
    <3> QED BY <1>1, <3>2
  <2>3. ASSUME i <= Len(list)
        PROVE  prio[p] > prio[list[i]]
    BY <1>1, <2>1, <2>3
  <2> QED BY <2>1, <2>2, <2>3
<1> QED BY <1>5 DEF i

(* Everything in front of the slot wakes earlier, nothing behind it does. *)
LEMMA ClockSlotPlace ==
  ASSUME NEW S, NEW list \in Seq(S), NEW clocks \in [S -> Int], NEW clock \in Int
  PROVE  LET i == ClockSlot(list, clocks, clock) IN
         /\ i \in 1 .. Len(list) + 1
         /\ \A j \in 1 .. Len(list) : j < i => clocks[list[j]] < clock
         /\ i <= Len(list) => clock <= clocks[list[i]]
<1> DEFINE T == {i \in 1 .. Len(list) : clock <= clocks[list[i]]} \cup {Len(list) + 1}
           i == ClockSlot(list, clocks, clock)
<1>1. Len(list) \in Nat /\ \A j \in 1 .. Len(list) : clocks[list[j]] \in Int
  OBVIOUS
<1>2. T \in SUBSET Nat /\ T # {} /\ T \subseteq 1 .. Len(list) + 1
  BY <1>1
<1>3. Min(T) \in T /\ \A m \in T : Min(T) <= m
  BY <1>2, MinProperty
<1>4. i = Min(T)
  BY DEF ClockSlot
<1> HIDE DEF i
<1>5. /\ i \in 1 .. Len(list) + 1
      /\ \A j \in 1 .. Len(list) : j < i => clocks[list[j]] < clock
      /\ i <= Len(list) => clock <= clocks[list[i]]
  <2>1. i \in T /\ i \in 1 .. Len(list) + 1
    BY <1>2, <1>3, <1>4
  <2>2. ASSUME NEW j \in 1 .. Len(list), j < i
        PROVE  clocks[list[j]] < clock
    <3>1. j \notin T
      BY <1>1, <1>3, <1>4, <2>1, <2>2
    <3>2. ~(clock <= clocks[list[j]])
      BY <3>1
    <3> QED BY <1>1, <3>2
  <2>3. ASSUME i <= Len(list)
        PROVE  clock <= clocks[list[i]]
    BY <1>1, <2>1, <2>3
  <2> QED BY <2>1, <2>2, <2>3
<1> QED BY <1>5 DEF i

-----------------------------------------------------------------------------
(* Quotients and remainders.                                               *)

(* Division has one quotient and one remainder. *)
LEMMA Division ==
  ASSUME NEW b \in Nat \ {0}, NEW q \in Int, NEW r \in 0 .. b - 1
  PROVE  (b * q + r) \div b = q /\ (b * q + r) % b = r
<1> DEFINE x == b * q + r
           d == x \div b
           m == x % b
<1>1. x \in Int /\ d \in Int /\ m \in 0 .. b - 1 /\ x = b * d + m
  BY SMT
<1>2. d = q
  <2>1. CASE d < q
    <3>1. d + 1 <= q /\ b * (d + 1) <= b * q
      BY <1>1, <2>1, SMT
    <3> QED BY <1>1, <3>1, SMT
  <2>2. CASE q < d
    <3>1. q + 1 <= d /\ b * (q + 1) <= b * d
      BY <1>1, <2>2, SMT
    <3> QED BY <1>1, <3>1, SMT
  <2> QED BY <1>1, <2>1, <2>2
<1>3. m = r
  BY <1>1, <1>2, SMT
<1> QED BY <1>2, <1>3

(* The quotient of a number below b * n is below n. *)
LEMMA QuotientRange ==
  ASSUME NEW b \in Nat \ {0}, NEW n \in Nat, NEW a \in Nat, a < b * n
  PROVE  /\ a \div b \in 0 .. n - 1 /\ a % b \in 0 .. b - 1
         /\ a = b * (a \div b) + (a % b)
<1> DEFINE q == a \div b
           r == a % b
<1>1. q \in Int /\ r \in 0 .. b - 1 /\ a = b * q + r
  BY SMT
<1>2. CASE q < 0
  <2>1. q + 1 <= 0 /\ b * (q + 1) <= 0
    BY <1>1, <1>2, SMT
  <2> QED BY <1>1, <2>1, SMT
<1>3. CASE q >= n
  <2>1. b * q >= b * n
    BY <1>1, <1>3, SMT
  <2> QED BY <1>1, <2>1, SMT
<1> QED BY <1>1, <1>2, <1>3

(* Numbers that follow a up to the next multiple of b. *)
LEMMA SameQuotient ==
  ASSUME NEW b \in Nat \ {0}, NEW a \in Nat, NEW k \in Nat, (a % b) + k < b
  PROVE  (a + k) \div b = a \div b /\ (a + k) % b = (a % b) + k
<1> DEFINE q == a \div b
           r == a % b
<1>1. q \in Int /\ r \in 0 .. b - 1 /\ a = b * q + r
  BY SMT
<1>2. r + k \in 0 .. b - 1 /\ a + k = b * q + (r + k)
  BY <1>1
<1> HIDE DEF q, r
<1>3. (b * q + (r + k)) \div b = q /\ (b * q + (r + k)) % b = r + k
  BY <1>1, <1>2, Division
<1> QED BY <1>2, <1>3 DEF q, r
=============================================================================
