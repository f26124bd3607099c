------------------------------- MODULE Strings -------------------------------
(***************************************************************************)
(* shared/string.c: every loop of the library, on a memory of N bytes,     *)
(* against what the call is for.  A pointer is an address, NULL is -1, and *)
(* the functions that write return the new memory.  The word-wise loops of *)
(* memcpy and memset are the i386 ones.  strtok keeps a static pointer; it *)
(* is the only state besides the memory.                                   *)
(***************************************************************************)
EXTENDS Integers, Sequences, FiniteSets

CONSTANTS Memories, Char      \* contents of memory, values of a byte (0 is NUL)

VARIABLES mem, holder
string_vars == <<mem, holder>>

Addr == DOMAIN mem
N == Cardinality(Addr)
NULL == -1

-----------------------------------------------------------------------------
RECURSIVE memccpy(_, _, _, _, _)
memccpy(m, d, s, c, n) ==
  IF n = 0 THEN [m |-> m, p |-> NULL]
  ELSE LET t == [m EXCEPT ![d] = m[s]]
       IN IF m[s] = c THEN [m |-> t, p |-> d + 1] ELSE memccpy(t, d + 1, s + 1, c, n - 1)

RECURSIVE memchr(_, _, _, _)
memchr(m, s, c, n) ==
  IF n = 0 THEN NULL ELSE IF m[s] = c THEN s ELSE memchr(m, s + 1, c, n - 1)

RECURSIVE memrchr(_, _, _, _)
memrchr(m, s, c, n) ==
  IF n = 0 THEN NULL ELSE IF m[s + n - 1] = c THEN s + n - 1 ELSE memrchr(m, s, c, n - 1)

RECURSIVE memcmp(_, _, _, _)
memcmp(m, a, b, n) ==
  IF n = 0 THEN 0
  ELSE IF m[a] # m[b] THEN m[a] - m[b] ELSE memcmp(m, a + 1, b + 1, n - 1)

(* One string instruction with direction flag and repeat count: n moves of *)
(* w bytes each, from s to d and on by w.                                  *)
RECURSIVE movs(_, _, _, _, _, _)
movs(m, d, s, n, w, step) ==
  IF n = 0 THEN m
  ELSE movs([i \in Addr |-> IF i \in d .. d + w - 1 THEN m[s + i - d] ELSE m[i]],
            d + step, s + step, n - 1, w, step)

RECURSIVE stos(_, _, _, _, _)
stos(m, d, c, n, w) ==
  IF n = 0 THEN m
  ELSE stos([i \in Addr |-> IF i \in d .. d + w - 1 THEN c ELSE m[i]], d + w, c, n - 1, w)

memcpy(m, d, s, n) ==
  LET l == n \div 4
  IN movs(movs(m, d, s, l, 4, 4), d + 4 * l, s + 4 * l, n % 4, 1, 1)

(* Fault: the areas are copied upwards whatever their order. *)
FaultMemmove(m, d, s, n) == movs(m, d, s, n, 1, 1)

memmove(m, d, s, n) ==
  IF d < s THEN movs(m, d, s, n, 1, 1) ELSE movs(m, d + n - 1, s + n - 1, n, 1, -1)

memset(m, d, c, n) ==
  LET l == n \div 4 IN stos(stos(m, d, c, l, 4), d + 4 * l, c, n % 4, 1)

RECURSIVE memswap(_, _, _, _)
memswap(m, p, q, n) ==
  IF n = 0 THEN m ELSE memswap([m EXCEPT ![p] = m[q], ![q] = m[p]], p + 1, q + 1, n - 1)

(* Fault: after a mismatch the window moves by two in both cases. *)
FaultMemmem(m, h, n, x, k) ==
  LET RECURSIVE try(_)
      try(j) ==
        IF j > n - k THEN NULL
        ELSE IF memcmp(m, x, h + j, k) = 0 THEN h + j ELSE try(j + 2)
  IN IF k > n \/ k = 0 THEN NULL ELSE try(0)

(* The "not so naive" search. *)
memmem(m, h, n, x, k) ==
  LET same == m[x] = m[x + 1]
      RECURSIVE try(_)
      try(j) ==
        IF j > n - k THEN NULL
        ELSE IF m[x + 1] # m[h + j + 1] THEN try(j + (IF same THEN 2 ELSE 1))
        ELSE IF memcmp(m, x + 2, h + j + 2, k - 2) = 0 /\ m[x] = m[h + j] THEN h + j
        ELSE try(j + (IF same THEN 1 ELSE 2))
  IN IF k > n \/ k = 0 \/ n = 0 THEN NULL
     ELSE IF k = 1 THEN memchr(m, h, m[x], n) ELSE try(0)

-----------------------------------------------------------------------------
RECURSIVE strlen(_, _)
strlen(m, s) == IF m[s] = 0 THEN 0 ELSE 1 + strlen(m, s + 1)

RECURSIVE strnlen(_, _, _)
strnlen(m, s, max) == IF max = 0 \/ m[s] = 0 THEN 0 ELSE 1 + strnlen(m, s + 1, max - 1)

RECURSIVE strchr(_, _, _)
strchr(m, s, c) == IF m[s] = c THEN s ELSE IF m[s] = 0 THEN NULL ELSE strchr(m, s + 1, c)

RECURSIVE strrchr(_, _, _, _)
strrchr(m, s, c, found) ==
  IF m[s] = 0 THEN found ELSE strrchr(m, s + 1, c, IF m[s] = c THEN s ELSE found)

RECURSIVE strncmp(_, _, _, _)
strncmp(m, a, b, n) ==
  IF n = 0 THEN 0
  ELSE IF m[a] # m[b] \/ m[a] = 0 THEN m[a] - m[b] ELSE strncmp(m, a + 1, b + 1, n - 1)

RECURSIVE strcmp(_, _, _)
strcmp(m, a, b) ==
  IF m[a] # m[b] \/ m[a] = 0 THEN m[a] - m[b] ELSE strcmp(m, a + 1, b + 1)

RECURSIVE strcpy(_, _, _)
strcpy(m, d, s) ==
  LET t == [m EXCEPT ![d] = m[s]] IN IF m[s] = 0 THEN t ELSE strcpy(t, d + 1, s + 1)

strcat(m, d, s) == strcpy(m, strchr(m, d, 0), s)

RECURSIVE ncat(_, _, _, _)
ncat(m, q, s, n) ==
  IF n = 0 THEN [m EXCEPT ![q] = 0]
  ELSE IF m[s] = 0 THEN [m EXCEPT ![q] = 0] ELSE ncat([m EXCEPT ![q] = m[s]], q + 1, s + 1, n - 1)
strncat(m, d, s, n) == ncat(m, strchr(m, d, 0), s, n)

(* Fault: the last byte of the area is used for a character. *)
FaultLcat(m, q, s, bytes, size) ==
  [i \in Addr |-> LET k == strlen(m, s)
                      fit == IF bytes + k <= size THEN k ELSE size - bytes IN
                  IF i \in q .. q + fit - 1 THEN m[s + i - q]
                  ELSE IF i = q + fit THEN 0 ELSE m[i]]

RECURSIVE lcat(_, _, _, _, _)
lcat(m, q, s, bytes, size) ==
  IF m[s] = 0 THEN [m EXCEPT ![q] = 0]
  ELSE IF bytes + 1 < size THEN lcat([m EXCEPT ![q] = m[s]], q + 1, s + 1, bytes + 1, size)
  ELSE lcat(m, q, s + 1, bytes + 1, size)
strlcat(m, d, s, size) ==
  LET k == strnlen(m, d, size) IN
  [m |-> IF k = size THEN m ELSE lcat(m, d + k, s, k, size), n |-> k + strlen(m, s)]

RECURSIVE strncpy(_, _, _, _)
strncpy(m, d, s, n) ==
  IF n = 0 THEN m
  ELSE LET t == [m EXCEPT ![d] = m[s]]
       IN IF m[s] = 0 THEN memset(t, d + 1, 0, n - 1) ELSE strncpy(t, d + 1, s + 1, n - 1)

-----------------------------------------------------------------------------
(* Fault: NUL is looked up in the map like any other byte. *)
FaultXspn(m, s, map, parity) ==
  LET set == {m[i] : i \in map .. map + strlen(m, map)}
      ends == {i \in s .. N - 1 : (m[i] \in set) # (parity = 0)}
  IN (CHOOSE i \in ends : \A j \in ends : i <= j) - s

(* __strxspn: the length of the part of s inside (parity 0) or outside     *)
(* (parity 1) the set map; NUL always ends it.                             *)
strxspn(m, s, map, parity) ==
  LET set == {m[i] : i \in map .. map + strlen(m, map) - 1}
      in(c) == IF c = 0 THEN parity = 1 ELSE c \in set
      RECURSIVE span(_)
      span(p) == IF in(m[p]) = (parity = 1) THEN 0 ELSE 1 + span(p + 1)
  IN span(s)

strspn(m, s, accept) == strxspn(m, s, accept, 0)
strcspn(m, s, reject) == strxspn(m, s, reject, 1)
strpbrk(m, s, accept) ==
  LET ss == s + strxspn(m, s, accept, 1) IN IF m[ss] = 0 THEN NULL ELSE ss
strstr(m, h, x) == memmem(m, h, strlen(m, h), x, strlen(m, x))

(* Fault: the byte after the field is not cut. *)
FaultStrsep(m, s, delim) ==
  LET e == strpbrk(m, s, delim) IN [m |-> m, next |-> IF e = NULL THEN NULL ELSE e + 1]

strsep(m, s, delim) ==
  LET e == strpbrk(m, s, delim) IN
  IF e = NULL THEN [m |-> m, next |-> NULL]
  ELSE [m |-> [m EXCEPT ![e] = 0], next |-> e + 1]

IsString(m, s) == \E i \in s .. N - 1 : m[i] = 0

(* strtok(s, delim), with s = NULL to go on with the same string. *)
strtok(s, delim) ==
  LET from == IF s # NULL THEN s ELSE holder IN
  IF from = NULL THEN holder' = NULL /\ UNCHANGED mem
  ELSE LET r == strsep(mem, from, delim) IN holder' = r.next /\ mem' = r.m

StringsInit ==
  /\ mem \in Memories /\ IsString(mem, N - 1) /\ holder = NULL

StringsNext ==
  \E s \in Addr \cup {NULL}, delim \in Addr :
    /\ (s # NULL => s < delim) /\ (s = NULL => holder < delim)
    /\ strtok(s, delim)

StringsSpec == StringsInit /\ [][StringsNext]_string_vars

-----------------------------------------------------------------------------
(* Reference definitions.                                                  *)

First(S) == IF S = {} THEN NULL ELSE CHOOSE i \in S : \A j \in S : i <= j
Last1(S) == IF S = {} THEN NULL ELSE CHOOSE i \in S : \A j \in S : i >= j
StrEnd(m, s) == First({i \in s .. N - 1 : m[i] = 0})
Str(m, s) == [i \in 1 .. StrEnd(m, s) - s |-> m[s + i - 1]]
Bytes(m, s, n) == [i \in 1 .. n |-> m[s + i - 1]]
Put(m, d, seq) == [i \in Addr |-> IF i \in d .. d + Len(seq) - 1 THEN seq[i - d + 1] ELSE m[i]]
Take(seq, n) == SubSeq(seq, 1, IF n < Len(seq) THEN n ELSE Len(seq))
Apart(d, k, s, l) == d + k <= s \/ s + l <= d
FirstDiff(u, v) ==
  LET at == {i \in 1 .. Len(u) : u[i] # v[i]} IN
  IF at = {} THEN 0 ELSE u[First(at)] - v[First(at)]

(* Copies and fills, word-wise, backwards and to the last byte, write what *)
(* was at the source and nothing else; memmove also when the areas overlap *)
(* in either direction.                                                    *)
CopiesExact ==
  \A d, s \in Addr : \A n \in 0 .. N - (IF d > s THEN d ELSE s) :
    LET copied == Put(mem, d, Bytes(mem, s, n)) IN
    /\ memmove(mem, d, s, n) = copied
    /\ memset(mem, d, 1, n) = Put(mem, d, [i \in 1 .. n |-> 1])
    /\ Apart(d, n, s, n) =>
         /\ memcpy(mem, d, s, n) = copied
         /\ memswap(mem, d, s, n) = Put(copied, s, Bytes(mem, d, n))
         /\ \A c \in Char :
              LET at == First({i \in s .. s + n - 1 : mem[i] = c})
                  r  == memccpy(mem, d, s, c, n) IN
              IF at = NULL THEN r = [m |-> copied, p |-> NULL]
              ELSE r = [m |-> Put(mem, d, Bytes(mem, s, at - s + 1)), p |-> d + at - s + 1]

(* Concatenation and bounded copies leave a terminated string that holds   *)
(* what fits, never write past the size they are given, and strlcat        *)
(* returns the length it tried to make.                                    *)
ConcatsExact ==
  \A d, s \in Addr : d < s =>
    LET k == Len(Str(mem, d))
        l == Len(Str(mem, s))
    IN \A n \in 0 .. s - d :
       /\ d + k + l < s => strcat(mem, d, s) = Put(mem, d + k, Str(mem, s) \o <<0>>)
       /\ l < s - d => strcpy(mem, d, s) = Put(mem, d, Str(mem, s) \o <<0>>)
       /\ d + k + n < s => strncat(mem, d, s, n) = Put(mem, d + k, Take(Str(mem, s), n) \o <<0>>)
       /\ strncpy(mem, d, s, n) =
            Put(mem, d, Take(Str(mem, s) \o [i \in 1 .. N |-> 0], n))
       /\ LET r == strlcat(mem, d, s, n) IN
            IF k >= n THEN r = [m |-> mem, n |-> n + l]
            ELSE r = [m |-> Put(mem, d + k, Take(Str(mem, s), n - k - 1) \o <<0>>), n |-> k + l]

(* The searches find the first (memrchr, strrchr: the last) match and the  *)
(* comparisons the first difference; the skips of memmem miss no match.    *)
SearchesExact ==
  \A a, b \in Addr :
    LET u == Str(mem, a)
        v == Str(mem, b)
    IN /\ strlen(mem, a) = Len(u)
       /\ strcmp(mem, a, b) = FirstDiff(u \o <<0>>, v \o [i \in 1 .. N |-> 0])
       /\ strspn(mem, a, b) = StrEnd([i \in Addr |-> IF \E j \in DOMAIN v : mem[i] = v[j] THEN 1 ELSE 0] , a) - a
       /\ \A c \in Char :
            /\ strchr(mem, a, c) = First({i \in a .. a + Len(u) : mem[i] = c})
            /\ strrchr(mem, a, c, NULL) = Last1({i \in a .. a + Len(u) - 1 : mem[i] = c})
       /\ LET e == First({i \in a .. a + Len(u) - 1 : \E j \in DOMAIN v : mem[i] = v[j]}) IN
            /\ strpbrk(mem, a, b) = e
            /\ strcspn(mem, a, b) = (IF e = NULL THEN Len(u) ELSE e - a)
       /\ v # <<>> =>
            strstr(mem, a, b) =
              First({j \in a .. a + Len(u) - Len(v) : Bytes(mem, j, Len(v)) = v})
       /\ \A n \in 0 .. N - (IF a > b THEN a ELSE b) :
            /\ memcmp(mem, a, b, n) = FirstDiff(Bytes(mem, a, n), Bytes(mem, b, n))
            /\ strncmp(mem, a, b, n) =
                 FirstDiff(Take(u \o <<0>>, n), Take(v \o [i \in 1 .. N |-> 0], n))
            /\ strnlen(mem, a, n) = Len(Take(u, n))
            /\ \A c \in Char : memrchr(mem, a, c, n) = Last1({i \in a .. a + n - 1 : mem[i] = c})

(* strtok goes through a string field by field: each call cuts the field   *)
(* it returns, and what is left to cut lies behind it.                     *)
FieldsInOrder ==
  [][holder # NULL /\ holder' # NULL /\ holder' > holder =>
       mem'[holder' - 1] = 0 /\ \A i \in Addr : i # holder' - 1 => mem'[i] = mem[i]]_string_vars

(* The functions of string.c compute what their definitions say, at every  *)
(* pair of addresses and every size, over overlapping and cut strings.     *)
StringsFollowed ==
  [](CopiesExact /\ ConcatsExact /\ SearchesExact) /\ FieldsInOrder
=============================================================================
