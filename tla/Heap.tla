-------------------------------- MODULE Heap --------------------------------
(***************************************************************************)
(* The memory allocator of shared/malloc.c.h as CalmOS builds it: no mmap, *)
(* a heap of fixed end behind sbrk, and the defensive wrapper mem_alloc /  *)
(* mem_free.  Addresses and sizes are bytes.                               *)
(*                                                                         *)
(* M is malloc_state with the heap it manages.  M.chunks has one record    *)
(* for each chunk: its size, its PREV_INUSE bit and its prev_size field,   *)
(* which is the foot of the chunk before when that one is free and 0 (user *)
(* data) otherwise.  A bin is the sequence of its chunks from fd to bk;    *)
(* bin 1 is the unsorted list; empty lists are left out of the functions.  *)
(***************************************************************************)
EXTENDS Integers, Sequences, FiniteSets, SequencesExt

CONSTANTS
  Word,            \* number of values of an unsigned long
  mem_heap,        \* first byte of the heap
  mem_heap_end,    \* first byte after it
  PageSize,        \* malloc_getpagesize
  TrimThreshold,   \* DEFAULT_TRIM_THRESHOLD
  Lengths,         \* lengths the callers ask for
  MaxBlocks        \* bound on the number of live blocks, for TLC

VARIABLES
  M,               \* av_ and the heap
  blocks,          \* live blocks: their length by their address
  asked            \* the last request: its chunk size, or 0 if it was served

heap_vars == <<M, blocks, asked>>

MINSIZE == 16
MALLOC_ALIGNMENT == 8
MIN_LARGE_SIZE == 256
MaxFast == 72                                 \* request2size(DEFAULT_MXFAST)

RoundUp(n, to) == ((n + to - 1) \div to) * to
(* Fault: the size is not rounded up to the alignment. *)
FaultRequest(req) == IF req + 4 < MINSIZE THEN MINSIZE ELSE req + 4

request2size(req) == IF req + 11 < MINSIZE THEN MINSIZE ELSE ((req + 11) \div 8) * 8
in_smallbin_range(sz) == sz < MIN_LARGE_SIZE
HighestBit(x) == CHOOSE m \in 0 .. 16 : 2^m <= x /\ x < 2^(m + 1)
largebin_index(sz) ==
  LET x == sz \div 256 IN
  IF x >= 65536 THEN 95
  ELSE LET m == HighestBit(x) IN 32 + 4 * m + ((sz \div 2^(m + 6)) % 4)
bin_index(sz) == IF in_smallbin_range(sz) THEN sz \div 8 ELSE largebin_index(sz)
fastbin_index(sz) == sz \div 8 - 2

-----------------------------------------------------------------------------
(* Lists and boundary tags.                                                *)

List(f, i) == IF i \in DOMAIN f THEN f[i] ELSE <<>>
SetList(f, i, s) ==
  [j \in {k \in DOMAIN f \cup {i} : k # i \/ s # <<>>} |-> IF j = i THEN s ELSE f[j]]
Bin(m, i) == List(m.bins, i)
SetBin(m, i, s) == [m EXCEPT !.bins = SetList(@, i, s)]
Size(m, p) == m.chunks[p].size
inuse(m, p) == m.chunks[p + Size(m, p)].pinuse

(* set_head and set_foot; Drop forgets a header that is no longer one. *)
set_head(m, p, size, pinuse) ==
  [m EXCEPT !.chunks =
     [q \in DOMAIN @ \cup {p} |->
        IF q = p THEN [size |-> size, pinuse |-> pinuse,
                       prev |-> IF p \in DOMAIN @ THEN @[p].prev ELSE 0]
        ELSE @[q]]]
set_foot(m, p, size) == [m EXCEPT !.chunks[p + size].prev = size]
Drop(m, p) == [m EXCEPT !.chunks = [q \in DOMAIN @ \ {p} |-> @[q]]]
set_inuse_bit_at_offset(m, p, size) ==
  [m EXCEPT !.chunks[p + size].pinuse = TRUE, !.chunks[p + size].prev = 0]

(* unlink takes p out of the list that holds it, whichever that is. *)
unlink(m, p) ==
  LET i == CHOOSE j \in DOMAIN m.bins : Contains(m.bins[j], p)
  IN SetBin(m, i, SelectSeq(m.bins[i], LAMBDA q : q # p))

(* A split: nb bytes at victim, which is in no list, and the rest as the   *)
(* only chunk of the unsorted list.                                        *)
Split(m, victim, nb) ==
  LET size == Size(m, victim)
      r == victim + nb
      t == set_head(set_head(SetBin(m, 1, <<r>>), victim, nb, TRUE), r, size - nb, TRUE)
  IN set_foot(t, r, size - nb)

Result(m, p) == [m |-> m, p |-> p]

-----------------------------------------------------------------------------
(* Fault: the space before a chunk is not merged. *)
FaultRelease(m, p) ==
  LET size == Size(m, p)
      next == p + size
      nfree == next # m.top /\ ~inuse(m, next)
      a == IF nfree THEN Drop(unlink(m, next), next) ELSE m
      total == size + (IF nfree \/ next = m.top THEN Size(m, next) ELSE 0)
  IN IF next = m.top
     THEN [set_head(Drop(m, next), p, total, m.chunks[p].pinuse) EXCEPT !.top = p]
     ELSE LET b == IF nfree THEN a ELSE [a EXCEPT !.chunks[next].pinuse = FALSE]
              c == SetBin(b, 1, <<p>> \o Bin(b, 1))
          IN set_foot(set_head(c, p, total, m.chunks[p].pinuse), p, total)

(* Fault: the chunk after a released one keeps its PREV_INUSE bit. *)
FaultKeepBit(m, p) ==
  LET size == Size(m, p)
      next == p + size
  IN IF next = m.top
     THEN [set_head(Drop(m, next), p, size + Size(m, next), m.chunks[p].pinuse) EXCEPT !.top = p]
     ELSE set_foot(SetBin(m, 1, <<p>> \o Bin(m, 1)), p, size)

(* The consolidation of fREe and malloc_consolidate: p merges with a free  *)
(* neighbour on each side and becomes part of top or goes to the front of  *)
(* the unsorted list.                                                      *)
Release(m, p) ==
  LET size == Size(m, p)
      next == p + size
      back == ~m.chunks[p].pinuse
      q    == IF back THEN p - m.chunks[p].prev ELSE p
      a    == IF back THEN Drop(unlink(m, q), p) ELSE m
      nfree == next # m.top /\ ~inuse(m, next)
      b    == IF nfree THEN Drop(unlink(a, next), next) ELSE a
      total == (next - q) + (IF nfree \/ next = m.top THEN Size(m, next) ELSE 0)
  IN IF next = m.top
     THEN [set_head(Drop(a, next), q, total, TRUE) EXCEPT !.top = q]
     ELSE LET c == IF nfree THEN b ELSE [b EXCEPT !.chunks[next].pinuse = FALSE]
              d == SetBin(c, 1, <<q>> \o Bin(c, 1))
          IN set_foot(set_head(d, q, total, TRUE), q, total)

malloc_init_state(m) == [m EXCEPT !.init = TRUE]

malloc_consolidate(m) ==
  IF ~m.init THEN malloc_init_state(m)
  ELSE FoldLeft(Release, [m EXCEPT !.fastchunks = FALSE, !.fast = <<>>],
                FlattenSeq([i \in 1 .. 8 |-> List(m.fast, i - 1)]))

-----------------------------------------------------------------------------
(* sbrk of malloc.c.h: negative increments are refused. *)
sbrk(m, diff) ==
  LET c == (m.brk + diff) % Word IN
  IF c < m.brk \/ c > mem_heap_end THEN Result(m, -1)
  ELSE Result([m EXCEPT !.brk = c], m.brk)

(* Fault: a top of exactly the size asked for is used up. *)
FaultTakeTop(m, nb) ==
  IF m.top = 0 \/ Size(m, m.top) <= nb THEN Result(m, 0)
  ELSE LET r == m.top + nb
           t == set_head(set_head(m, m.top, nb, TRUE), r, Size(m, m.top) - nb, TRUE)
       IN Result([t EXCEPT !.top = r], m.top)

(* The split of top, in mALLOc and at the end of sYSMALLOc. *)
TakeTop(m, nb) ==
  IF m.top = 0 \/ Size(m, m.top) < nb + MINSIZE THEN Result(m, 0)
  ELSE LET r == m.top + nb
           t == set_head(set_head(m, m.top, nb, TRUE), r, Size(m, m.top) - nb, TRUE)
       IN Result([t EXCEPT !.top = r], m.top)

(* The first memory from sbrk: top starts at an aligned address and ends   *)
(* at a page boundary if the heap reaches it.                              *)
FirstTop(m, brk, size) ==
  LET front == (8 - (brk % 8)) % 8
      end   == brk + size + front
      snd   == sbrk(m, front + RoundUp(end, PageSize) - end)
      top   == brk + front
  IN [set_head(snd.m, top, snd.m.brk - top, TRUE) EXCEPT !.top = top]

(* The growth of the heap in sYSMALLOc.  sbrk has no other caller, so the  *)
(* space it returns borders top except the first time.                     *)
Grow(m, nb) ==
  LET old  == IF m.top = 0 THEN 0 ELSE Size(m, m.top)
      size == RoundUp(nb + MINSIZE - old, PageSize)
      r    == IF size < Word \div 2 THEN sbrk(m, size) ELSE Result(m, -1)
      grown == IF m.top = 0 THEN FirstTop(r.m, r.p, size)
               ELSE set_head(r.m, m.top, old + size, TRUE)
  IN IF r.p = -1 THEN Result(m, 0) ELSE TakeTop(grown, nb)

(* Of the trim done by fREe; the memory given back is what sbrk accepts. *)
sYSTRIm(m) ==
  LET extra == ((Size(m, m.top) - MINSIZE + PageSize - 1) \div PageSize - 1) * PageSize
      new   == IF extra > 0 THEN sbrk(m, -extra).m.brk ELSE m.brk
  IN IF new = m.brk THEN m
     ELSE set_head([m EXCEPT !.brk = new], m.top, Size(m, m.top) - (m.brk - new), TRUE)

-----------------------------------------------------------------------------
(* The searches of mALLOc, in their order; each ends in a Result.          *)

RECURSIVE mALLOc(_, _)

sYSMALLOc(m, nb) ==
  IF m.fastchunks THEN mALLOc(malloc_consolidate(m), nb - 7) ELSE Grow(m, nb)

use_top(m, nb) ==
  LET r == TakeTop(m, nb) IN IF r.p # 0 THEN r ELSE sYSMALLOc(m, nb)

(* Fault: a chunk that is used whole stays in its bin. *)
FaultTakeFrom(m, victim, nb) ==
  LET size == Size(m, victim)
  IN IF size - nb < MINSIZE
     THEN Result(set_inuse_bit_at_offset(m, victim, size), victim)
     ELSE Result(Split(unlink(m, victim), victim, nb), victim)

(* A chunk found in a bin: used whole, or split with its rest unsorted. *)
TakeFrom(m, victim, nb) ==
  LET t == unlink(m, victim)
      size == Size(m, victim)
  IN IF size - nb < MINSIZE
     THEN Result(set_inuse_bit_at_offset(t, victim, size), victim)
     ELSE Result(Split(t, victim, nb), victim)

RECURSIVE ScanBins(_, _, _)
ScanBins(m, idx, nb) ==
  LET marked == {i \in m.binmap : i >= idx}
      i == CHOOSE k \in marked : \A l \in marked : k <= l
      victim == Last(Bin(m, i))
      r == TakeFrom(m, victim, nb)
  IN IF marked = {} THEN use_top(m, nb)
     ELSE IF Bin(m, i) = <<>> THEN ScanBins([m EXCEPT !.binmap = @ \ {i}], i + 1, nb)
     ELSE IF in_smallbin_range(nb) /\ Size(m, victim) - nb >= MINSIZE
          THEN [r EXCEPT !.m.last_remainder = victim + nb]
          ELSE r

SearchBins(m, nb) ==
  LET idx == bin_index(nb)
      fits == {k \in DOMAIN Bin(m, idx) : Size(m, Bin(m, idx)[k]) >= nb}
  IN IF ~in_smallbin_range(nb) /\ fits # {}
     THEN TakeFrom(m, Bin(m, idx)[CHOOSE k \in fits : \A l \in fits : l <= k], nb)
     ELSE ScanBins(m, idx + 1, nb)

(* Fault: large bins are not kept in order. *)
FaultPlace(m, victim) ==
  LET i == bin_index(Size(m, victim))
  IN SetBin([m EXCEPT !.binmap = @ \cup {i}], i, <<victim>> \o Bin(m, i))

(* Fault: the bin of a chunk is not marked in binmap. *)
FaultMark(m, victim) ==
  LET i == bin_index(Size(m, victim)) IN SetBin(m, i, <<victim>> \o Bin(m, i))

(* A chunk of the unsorted list goes to its bin: small bins are queues,    *)
(* large ones are sorted by decreasing size.                               *)
Place(m, victim) ==
  LET size == Size(m, victim)
      i == bin_index(size)
      b == Bin(m, i)
      larger == IF b # <<>> /\ size <= Size(m, Last(b)) THEN b
                ELSE SelectSeq(b, LAMBDA q : size < Size(m, q))
      new == IF in_smallbin_range(size) THEN <<victim>> \o b
             ELSE larger \o <<victim>> \o SubSeq(b, Len(larger) + 1, Len(b))
  IN SetBin([m EXCEPT !.binmap = @ \cup {i}], i, new)

RECURSIVE Unsorted(_, _)
Unsorted(m, nb) ==
  LET u == Bin(m, 1)
      victim == Last(u)
      size == Size(m, victim)
      t == SetBin(m, 1, Front(u))
  IN IF u = <<>> THEN SearchBins(m, nb)
     ELSE IF /\ in_smallbin_range(nb) /\ Len(u) = 1
             /\ victim = m.last_remainder /\ size > nb + MINSIZE
          THEN Result([Split(m, victim, nb) EXCEPT !.last_remainder = victim + nb], victim)
     ELSE IF size = nb THEN Result(set_inuse_bit_at_offset(t, victim, size), victim)
     ELSE Unsorted(Place(t, victim), nb)

mALLOc(m, bytes) ==
  LET nb == request2size(bytes)
      small == in_smallbin_range(nb)
      fb == List(m.fast, fastbin_index(nb))
      b == Bin(m, bin_index(nb))
  IN IF bytes >= Word - 2 * MINSIZE THEN Result(m, 0)
     ELSE IF ~m.anychunks
          THEN use_top(IF m.init THEN m ELSE malloc_consolidate(m), nb)
     ELSE IF nb <= MaxFast /\ fb # <<>>
          THEN Result([m EXCEPT !.fast = SetList(@, fastbin_index(nb), Tail(fb))], Head(fb))
     ELSE IF small /\ b # <<>>
          THEN Result(set_inuse_bit_at_offset(SetBin(m, bin_index(nb), Front(b)), Last(b), nb),
                      Last(b))
     ELSE Unsorted(IF ~small /\ m.fastchunks THEN malloc_consolidate(m) ELSE m, nb)

(* A chunk of at least half the trim threshold also empties the fast bins. *)
fREe(m, p) ==
  LET i == fastbin_index(Size(m, p))
      t == [Release(m, p) EXCEPT !.anychunks = TRUE]
      q == CHOOSE c \in DOMAIN t.chunks : c <= p /\ p < c + Size(t, c)
      u == IF t.fastchunks THEN malloc_consolidate(t) ELSE t
  IN IF Size(m, p) <= MaxFast
     THEN [m EXCEPT !.fastchunks = TRUE, !.anychunks = TRUE,
                    !.fast = SetList(@, i, <<p>> \o List(@, i))]
     ELSE IF Size(t, q) < TrimThreshold \div 2 THEN t
     ELSE IF Size(u, u.top) >= TrimThreshold THEN sYSTRIm(u) ELSE u

-----------------------------------------------------------------------------
HeapInit ==
  /\ M = [brk |-> mem_heap, chunks |-> <<>>, top |-> 0, fast |-> <<>>, bins |-> <<>>,
          binmap |-> {}, last_remainder |-> 0, init |-> FALSE,
          anychunks |-> FALSE, fastchunks |-> FALSE]
  /\ blocks = <<>> /\ asked = 0

(* mem_alloc adds two words before the block and two after it.  The sum is *)
(* an unsigned long; chunk2mem adds two more words.                        *)
WithMarks(length) == ((((length + 3) % Word) \div 4 + 4) * 4) % Word

(* Fault: the length is rounded and padded with no test for wrapping. *)
FaultMemAlloc(length) ==
  LET r == mALLOc(M, WithMarks(length))
      z == r.p + 16
  IN /\ Cardinality(DOMAIN blocks) < MaxBlocks
     /\ M' = r.m
     /\ IF r.p = 0 THEN UNCHANGED blocks
        ELSE blocks' = [y \in DOMAIN blocks \cup {z} |-> IF y = z THEN length ELSE blocks[y]]
     /\ asked' = 0

mem_alloc(length) ==
  LET l2 == WithMarks(length)
      r  == IF length = 0 \/ l2 <= length THEN Result(M, 0) ELSE mALLOc(M, l2)
      z  == r.p + 16
  IN /\ Cardinality(DOMAIN blocks) < MaxBlocks
     /\ M' = r.m
     /\ IF r.p = 0 THEN UNCHANGED blocks
        ELSE blocks' = [y \in DOMAIN blocks \cup {z} |-> IF y = z THEN length ELSE blocks[y]]
     /\ asked' = IF r.p = 0 /\ l2 > length /\ length > 0 THEN request2size(l2) ELSE 0

(* mem_free by the block's owner with the length it asked for. *)
mem_free(zone) ==
  /\ M' = fREe(M, zone - 16)
  /\ blocks' = [y \in DOMAIN blocks \ {zone} |-> blocks[y]]
  /\ asked' = 0

HeapNext ==
  \/ \E length \in Lengths : mem_alloc(length)
  \/ \E zone \in DOMAIN blocks : mem_free(zone)

HeapSpec == HeapInit /\ [][HeapNext]_heap_vars

-----------------------------------------------------------------------------
Binned(m) == UNION {Range(m.bins[i]) : i \in DOMAIN m.bins}
Fast(m) == UNION {Range(m.fast[i]) : i \in DOMAIN m.fast}
Chunks(m) == DOMAIN m.chunks

(* Every chunk is aligned, has at least MINSIZE bytes, and lists hold chunks. *)
HeapTypeOK ==
  /\ M.brk \in mem_heap .. mem_heap_end /\ M.top \in 0 .. mem_heap_end
  /\ \A p \in Chunks(M) :
       /\ p % 8 = 0 /\ M.chunks[p].size \in MINSIZE .. mem_heap_end
       /\ M.chunks[p].pinuse \in BOOLEAN /\ M.chunks[p].prev \in 0 .. mem_heap_end
  /\ Binned(M) \cup Fast(M) \subseteq Chunks(M)
  /\ M.binmap \subseteq 2 .. 95

(* The chunks tile the memory obtained from sbrk, and the boundary tags    *)
(* tell the truth: a chunk is marked free exactly if a bin holds it, its   *)
(* foot repeats its size, it is in the list of its size, and no other free *)
(* chunk borders it (do_check_free_chunk, do_check_inuse_chunk).           *)
TagsConsistent ==
  M.top # 0 =>
    /\ M.top + Size(M, M.top) = M.brk /\ M.chunks[M.top].pinuse
    /\ \A p \in Chunks(M) \ {M.top} :
         LET next == p + Size(M, p) IN
         /\ next \in Chunks(M) /\ Size(M, p) % 8 = 0
         /\ inuse(M, p) <=> p \notin Binned(M)
         /\ p \in Binned(M) =>
              /\ M.chunks[next].prev = Size(M, p) /\ M.chunks[p].pinuse
              /\ next # M.top /\ next \notin Binned(M)
    /\ \A i \in DOMAIN M.bins : \A k \in 1 .. Len(M.bins[i]) :
         /\ i # 1 => bin_index(Size(M, M.bins[i][k])) = i
         /\ i # 1 /\ k > 1 => Size(M, M.bins[i][k]) <= Size(M, M.bins[i][k - 1])
    /\ DOMAIN M.bins \subseteq M.binmap \cup {1}

(* Every live block is a chunk in use that is large enough for the block   *)
(* and the four words mem_alloc wraps it in, and every chunk in use is a   *)
(* live block or waits in a fast bin: nothing is lost, nothing is owned    *)
(* twice.                                                                  *)
BlocksOwned ==
  LET owned == {z - 16 : z \in DOMAIN blocks} IN
  /\ \A z \in DOMAIN blocks :
       z - 16 \in Chunks(M) /\ Size(M, z - 16) - 4 >= blocks[z] + 16
  /\ owned \cap (Fast(M) \cup Binned(M) \cup {M.top}) = {}
  /\ Chunks(M) \ {M.top} = owned \cup Fast(M) \cup Binned(M)

(* Once every block is freed and the fast bins are consolidated, the heap  *)
(* is one chunk again.                                                     *)
AllFreedIsOneChunk ==
  blocks = <<>> /\ ~M.fastchunks => Chunks(M) \subseteq {M.top}

(* A request fails only if no free chunk is large enough, nothing is left  *)
(* in the fast bins, and the rest of the heap cannot make top large enough *)
(* (short of the last page): the search through the bins, the binmap and   *)
(* the retry after consolidation misses nothing.                           *)
FailsOnlyWhenFull ==
  asked # 0 =>
    /\ \A p \in Binned(M) : Size(M, p) < asked
    /\ Fast(M) = {}
    /\ (IF M.top = 0 THEN 0 ELSE Size(M, M.top)) + (mem_heap_end - M.brk)
         < asked + MINSIZE + PageSize

(* "M_TRIM_THRESHOLD is the maximum amount of unused top-most memory to    *)
(* keep before releasing via malloc_trim in free()": freeing a block large *)
(* enough to check the threshold leaves no more than that in top.          *)
FreeTrims ==
  [][\A z \in DOMAIN blocks \ DOMAIN blocks' :
       2 * blocks[z] >= TrimThreshold => Size(M', M'.top) <= TrimThreshold]_heap_vars

Memory == INSTANCE Allocator WITH Lo <- mem_heap, Hi <- mem_heap_end

(* The allocator implements the abstract one: blocks are inside the heap   *)
(* and never overlap.                                                      *)
IsAllocator == Memory!Spec

(* mALLOc and fREe: after any sequence of calls the boundary tags, the     *)
(* lists and the blocks handed out agree, nothing is lost to fragmentation *)
(* once freed, and no request fails that could be served.                  *)
HeapWhole ==
  /\ HeapTypeOK /\ TagsConsistent /\ BlocksOwned
  /\ AllFreedIsOneChunk /\ FailsOnlyWhenFull
=============================================================================
