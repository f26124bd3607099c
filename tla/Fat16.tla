-------------------------------- MODULE Fat16 --------------------------------
(***************************************************************************)
(* The FAT16 file system, kernel/filesystem/fat16.c, on a disk that does   *)
(* what disk.h says (module BlockDevice), and the shell's cat and find.    *)
(*                                                                         *)
(* The disk is the first allocation table, the root directory and the data *)
(* area, addressed in bytes from its start.  Files are written with one    *)
(* value per call; a read's bytes are in reply.  Loops along a chain are   *)
(* written over the chain: the clusters up to the end-of-chain mark.       *)
(***************************************************************************)
EXTENDS Integers, Sequences, SequencesExt

CONSTANTS
  CLUSTERS,     \* fat_get_cluster_count, which a table of 16-bit values limits
  ENTRIES,      \* rootEntryCount
  BPC,          \* bytesPerCluster
  WORD,         \* 2^32, the size of size_t arithmetic
  Bytes, Sizes, \* contents and sizes programs give to files
  PartOffsets, Lens, \* offsets, lengths programs pass to fs_read, fs_write
  CHUNK         \* bytes the shell's cat reads at a time

MEDIA == 65528
EOC == 65535        \* end of chain, the value of cluster 1

ASSUME Fat16Assumption ==
  /\ CLUSTERS \in 2 .. MEDIA /\ ENTRIES \in Nat \ {0}
  /\ BPC \in Nat \ {0} /\ CHUNK \in Nat \ {0} /\ WORD \in Nat \ {0}
  /\ Sizes \subseteq 0 .. WORD - 1 /\ PartOffsets \cup Lens \subseteq Nat
  /\ 0 \in Bytes

VARIABLES
  fat,      \* cluster values
  root,     \* directory entries: [used, cluster, size, system]
  data,     \* data area
  reply,    \* bytes of the last read
  fat_mode  \* "run", or "panic" after a failed assert

fat_vars == <<fat, root, data, reply, fat_mode>>

Slots == 0 .. ENTRIES - 1
Free == 0

(* A formatted disk without files.  fat_format does not touch the root     *)
(* directory, so an entry's attributes are what the disk had there: 0xe5,  *)
(* which has the system bit, on new_mem_disk, and anything on a floppy.    *)
FatInit ==
  /\ fat = [c \in 0 .. CLUSTERS - 1 |->
              IF c = 0 THEN MEDIA ELSE IF c = 1 THEN EOC ELSE Free]
  /\ \E marked \in SUBSET Slots :
       root = [e \in Slots |-> [used |-> FALSE, cluster |-> 0, size |-> 0,
                                system |-> e \in marked]]
  /\ data = [a \in 0 .. CLUSTERS * BPC - 1 |-> 0]
  /\ reply = <<>> /\ fat_mode = "run"

fat_get_cluster_addr(c) == (c - 2) * BPC

-----------------------------------------------------------------------------
(* The clusters from c to the end-of-chain mark.  A chain that leaves the  *)
(* table (the assert of fat_get_cluster_value) or does not end is Broken.  *)

Broken == <<-1>>

Chain(f, c) ==
  LET walk[n \in 0 .. CLUSTERS] ==
        [x \in DOMAIN f \cup Range(f) \cup {c} |->
           IF x = EOC THEN <<>>
           ELSE IF x \notin DOMAIN f \/ n = 0 THEN Broken
           ELSE <<x>> \o walk[n - 1][f[x]]]
  IN walk[CLUSTERS][c]

IsBroken(ch) == -1 \in Range(ch)

(* Fault: only the last cluster of a chain counts as used. *)
FaultFindFree(f) ==
  LET S == {c \in 2 .. CLUSTERS - 1 : f[c] # EOC}
  IN  IF S = {} THEN 0 ELSE CHOOSE c \in S : \A x \in S : c <= x

fat_find_free_cluster(f) ==
  LET S == {c \in 2 .. CLUSTERS - 1 : f[c] = Free}
  IN  IF S = {} THEN 0 ELSE CHOOSE c \in S : \A x \in S : c <= x

(* Fault: clusters after the first are not given back. *)
FaultRemoveData(f, fatIndex, c) == [f EXCEPT ![c] = fatIndex]

(* Fault: freed clusters get the mark of erased directory entries. *)
FaultFreeMark(f, fatIndex, c) ==
  [x \in DOMAIN f |-> IF Contains(Chain(f, c), x) THEN 229 ELSE f[x]]

fat_remove_data(f, fatIndex, c) ==
  [x \in DOMAIN f |-> IF Contains(Chain(f, c), x) THEN fatIndex ELSE f[x]]

(* One turn of the loop of fat_add_data, with count bytes of value b: s is *)
(* [fat, data, root, prev, full], full once the function has returned.     *)
AddTurn(s, fatIndex, b, count) ==
  LET c     == fat_find_free_cluster(s.fat)
      at    == fat_get_cluster_addr(c)
      ended == [s.fat EXCEPT ![c] = EOC]
  IN
  IF s.full THEN s
  ELSE IF c = 0
       THEN [s EXCEPT !.fat = IF s.root = 0 THEN @
                              ELSE fat_remove_data(@, fatIndex, s.root),
                      !.root = 0, !.full = TRUE]
  ELSE [s EXCEPT !.fat = IF s.prev = 0 THEN ended ELSE [ended EXCEPT ![s.prev] = c],
                 !.data = [a \in DOMAIN s.data |->
                             IF a \in at .. at + count - 1 THEN b ELSE s.data[a]],
                 !.root = IF s.prev = 0 THEN c ELSE @,
                 !.prev = c]

(* Turns of a loop that moves len bytes, a cluster at a time, and the      *)
(* bytes that turn i moves.                                                *)
TurnsFor(len) == (len + BPC - 1) \div BPC
Count(len, i) == IF len - (i - 1) * BPC > BPC THEN BPC ELSE len - (i - 1) * BPC

fat_add_data(fatIndex, b, len) ==
  LET after[i \in 0 .. TurnsFor(len)] ==
        IF i = 0
        THEN [fat |-> fat, data |-> data, root |-> 0, prev |-> 0, full |-> FALSE]
        ELSE AddTurn(after[i - 1], fatIndex, b, Count(len, i))
  IN after[TurnsFor(len)]

-----------------------------------------------------------------------------
(* The transfers of fat_read_data and fat_write_data: where on the disk,   *)
(* and how many bytes.                                                     *)

(* Fault: the clusters of a file are taken to be contiguous. *)
FaultTransfers(ch, len, skip) ==
  [k \in 1 .. TurnsFor(len) |->
     [addr  |-> fat_get_cluster_addr(ch[1]) + skip + (k - 1) * BPC,
      count |-> Count(len, k)]]

Transfers(ch, len, skip) ==
  LET first == skip \div BPC + 1     \* the turn where read_size + BPC > skip
      turns == {i \in first .. Len(ch) : (i - first) * BPC < len}
      read_size(i) == (i - 1) * BPC
      start(i) == IF read_size(i) > skip THEN 0 ELSE skip - read_size(i)
  IN [k \in 1 .. Cardinality(turns) |->
        LET i == first + k - 1 IN
        [addr  |-> fat_get_cluster_addr(ch[i]) + start(i),
         count |-> Count(len, k)]]

(* Fault: the end of the file is forgotten. *)
FaultTrim(size, offset, len) == len

(* len, or what is left of the file *)
Trim(size, offset, len) ==
  IF len > (size - offset) % WORD THEN (size - offset) % WORD ELSE len

BytesAt(a, n) == [i \in 1 .. n |-> data[a + i - 1]]

(* fat_fs_read, the bytes it delivers *)
fat_fs_read(e, offset, len) ==
  LET ts == Transfers(Chain(fat, root[e].cluster),
                      Trim(root[e].size, offset, len), offset)
  IN FlattenSeq([k \in 1 .. Len(ts) |-> BytesAt(ts[k].addr, ts[k].count)])

(* fat_fs_write of value b, the data area it leaves *)
fat_fs_write(e, offset, b, len) ==
  LET ts == Transfers(Chain(fat, root[e].cluster),
                      Trim(root[e].size, offset, len), offset)
  IN [a \in DOMAIN data |->
        IF \E k \in 1 .. Len(ts) : a \in ts[k].addr .. ts[k].addr + ts[k].count - 1
        THEN b ELSE data[a]]

(* Fault: a search for a file starts one entry late. *)
FaultFindEntry(free, skip) ==
  LET S == {e \in Slots : e + (IF free THEN 1 ELSE 0) > skip /\ root[e].used = ~free}
  IN  IF S = {} THEN -1 ELSE CHOOSE e \in S : \A x \in S : e <= x

fat_find_entry(free, skip) ==
  LET S == {e \in Slots : e >= skip /\ root[e].used = ~free}
  IN  IF S = {} THEN -1 ELSE CHOOSE e \in S : \A x \in S : e <= x

(* One turn of the inner loop of fat_fs_list: s is [current, files].       *)
ListTurn(s, nfiles) ==
  LET e == fat_find_entry(FALSE, s.current) IN
  IF Len(s.files) = nfiles \/ e = -1 THEN s
  ELSE [current |-> e + 1,
        files |-> IF root[e].system THEN s.files ELSE Append(s.files, e)]

(* The first nfiles entries from offset that are not system.               *)
fat_fs_list(nfiles, offset) ==
  LET after[i \in 0 .. ENTRIES] ==
        IF i = 0 THEN [current |-> offset, files |-> <<>>]
        ELSE ListTurn(after[i - 1], nfiles)
  IN after[ENTRIES].files

-----------------------------------------------------------------------------
(* The shell: find_file asks for one file at a time, cat reads CHUNK bytes *)
(* at a time.                                                              *)

find_file(e) ==
  \E i \in 0 .. ENTRIES :
    /\ fat_fs_list(1, i) = <<e>>
    /\ \A j \in 0 .. i - 1 : fat_fs_list(1, j) # <<>>

cat(e) ==
  LET part(k) == fat_fs_read(e, (k - 1) * CHUNK, CHUNK)
      stops == {k \in 1 .. root[e].size + 1 :
                  (k - 1) * CHUNK >= root[e].size \/ part(k) = <<>>}
  IN FlattenSeq([k \in 1 .. Min(stops) - 1 |-> part(k)])

-----------------------------------------------------------------------------
fat_add_file ==
  \E size \in Sizes, b \in Bytes :
    LET e == fat_find_entry(TRUE, 0)
        s == fat_add_data(0, b, size)
    IN /\ e # -1
       /\ fat' = s.fat /\ data' = s.data
       /\ root' = IF s.root = 0 THEN root
                  ELSE [root EXCEPT ![e] = [@ EXCEPT !.used = TRUE,
                                              !.cluster = s.root, !.size = size]]
       /\ UNCHANGED <<reply, fat_mode>>

fat_remove_file ==
  \E e \in Slots :
    /\ root[e].used
    /\ fat' = fat_remove_data(fat, 0, root[e].cluster)
    /\ root' = [root EXCEPT ![e].used = FALSE]
    /\ fat_mode' = IF root[e].cluster = 0 \/ IsBroken(Chain(fat, root[e].cluster))
               THEN "panic" ELSE "run"
    /\ UNCHANGED <<data, reply>>

ReadFile ==
  \E e \in Slots, offset \in PartOffsets, len \in Lens :
    /\ root[e].used
    /\ reply' = fat_fs_read(e, offset, len)
    /\ fat_mode' = IF IsBroken(Chain(fat, root[e].cluster)) THEN "panic" ELSE "run"
    /\ UNCHANGED <<fat, root, data>>

WriteFile ==
  \E e \in Slots, offset \in PartOffsets, len \in Lens, b \in Bytes :
    /\ root[e].used
    /\ data' = fat_fs_write(e, offset, b, len)
    /\ fat_mode' = IF IsBroken(Chain(fat, root[e].cluster)) THEN "panic" ELSE "run"
    /\ UNCHANGED <<fat, root, reply>>

FatNext == fat_mode = "run" /\ (fat_add_file \/ fat_remove_file \/ ReadFile \/ WriteFile)

FatSpec == FatInit /\ [][FatNext]_fat_vars

-----------------------------------------------------------------------------
FatTypeOK ==
  /\ fat \in [0 .. CLUSTERS - 1 -> 0 .. CLUSTERS - 1 \cup {MEDIA, EOC}]
  /\ \A e \in Slots : root[e].cluster \in 0 .. CLUSTERS - 1 /\ root[e].size \in Nat
  /\ data \in [0 .. CLUSTERS * BPC - 1 -> Bytes]
  /\ fat_mode \in {"run", "panic"}

Used == {e \in Slots : root[e].used}
ChainOf(e) == Chain(fat, root[e].cluster)
ClustersOf(e) == Range(ChainOf(e))

(* Every cluster that is not free belongs to the chain of exactly one      *)
(* file, chains end, and their length fits the size: nothing is shared and *)
(* nothing leaks, also when fat_add_data runs out of space half way.  The  *)
(* mark of the end, which every loop reads from cluster 1, stays there.    *)
ChainsPartition ==
  /\ fat[1] = EOC
  /\ \A e \in Used : /\ ~IsBroken(ChainOf(e))
                     /\ Len(ChainOf(e)) = TurnsFor(root[e].size)
  /\ \A e, x \in Used : e # x => ClustersOf(e) \cap ClustersOf(x) = {}
  /\ \A c \in 2 .. CLUSTERS - 1 :
       (fat[c] # Free) = (\E e \in Used : c \in ClustersOf(e))

(* The asserts of fat_get_cluster_value and fat_remove_data hold.          *)
FatNoPanic == fat_mode = "run"

(* The bytes a file has on the disk. *)
OnDisk(e) ==
  LET ch == ChainOf(e) IN
  IF ~root[e].used THEN <<>>
  ELSE [i \in 1 .. root[e].size |->
          data[fat_get_cluster_addr(ch[(i - 1) \div BPC + 1]) + ((i - 1) % BPC)]]

(* The file system implements files as byte sequences: a call changes the  *)
(* bytes of its own file only and a read returns what the chain holds.     *)
Files == INSTANCE FileStore WITH
  MaxLen <- (CLUSTERS - 2) * BPC, files <- [e \in Slots |-> OnDisk(e)]

IsFileStore == Files!Spec

(* "Print file content": the shell's cat shows the bytes of the file.  Not *)
(* so for files longer than CHUNK, see Transfers.                          *)
CatShowsFile == \A e \in Used : cat(e) = OnDisk(e)

(* "Get file list in directory": every file is listed, once and in order,  *)
(* and find_file, which walks the list one by one, finds it.  Not so: new  *)
(* files keep the system bit of new_mem_disk and are skipped.              *)
ListComplete ==
  LET l == fat_fs_list(ENTRIES, 0) IN
  /\ \A e \in Used : find_file(e)
  /\ {l[i] : i \in 1 .. Len(l)} = Used /\ Len(l) = Cardinality(Used)

(* "Read file part": a read returns part of the file, at most what is left *)
(* after the offset.                                                       *)
ReadsPart ==
  [][reply' # reply =>
       \E e \in Used, offset \in PartOffsets : \E len \in Lens :
         reply' = Files!Part(OnDisk(e), offset, len)]_fat_vars

(* The files whose entry is not marked as the system's. *)
Visible == {e \in Used : ~root[e].system}

(* fs_list, asked at once, and find_file, which asks for one file at a     *)
(* time and skips by what it was answered, come to the same: the visible   *)
(* files, each once and in the order of their entries.                     *)
ListExact ==
  LET l == fat_fs_list(ENTRIES, 0) IN
  /\ \A e \in Slots : find_file(e) <=> e \in Visible
  /\ {l[i] : i \in 1 .. Len(l)} = Visible
  /\ \A i, j \in 1 .. Len(l) : i < j => l[i] < l[j]

(* The shell's cat shows the bytes of a file that it reads in one call or  *)
(* whole clusters at a time.  Its own 2000 bytes and 512-byte clusters     *)
(* leave the first, and CatShowsFile is what it says of all files.         *)
CatExact ==
  \A e \in Used : root[e].size <= CHUNK \/ CHUNK % BPC = 0 => cat(e) = OnDisk(e)

(* Whatever is added, written and removed, wherever the disk fills up and  *)
(* whatever its entries were marked with, the chains stay whole, no assert *)
(* fails, ls and find show each visible file once, and cat shows the bytes *)
(* of the files it can read without starting inside a cluster.             *)
FilesWhole == FatTypeOK /\ FatNoPanic /\ ChainsPartition /\ ListExact /\ CatExact
=============================================================================
