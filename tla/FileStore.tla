----------------------------- MODULE FileStore -------------------------------
(***************************************************************************)
(* What kernel/filesystem/filesystem.h promises: files are byte sequences, *)
(* each call touches one file, and a read returns part of it.              *)
(***************************************************************************)
EXTENDS Naturals, Sequences

CONSTANTS Slots, Bytes, MaxLen

VARIABLES files, reply

NoFile == <<>>

Init == files = [e \in Slots |-> NoFile] /\ reply = <<>>

(* A call touches file e at most. *)
Only(e) == reply' = reply /\ files' = [files EXCEPT ![e] = files'[e]]

(* A file gets the value of the call, for its size. *)
Add(e) ==
  /\ Only(e)
  /\ files[e] = NoFile
  /\ \E n \in 1 .. MaxLen, b \in Bytes : files'[e] = [i \in 1 .. n |-> b]

Remove(e) == Only(e) /\ files'[e] = NoFile

(* Bytes from offset on, as many as asked for and as the file has. *)
Part(f, offset, len) ==
  SubSeq(f, offset + 1, IF offset + len < Len(f) THEN offset + len ELSE Len(f))

Read(e) ==
  /\ files' = files
  /\ \E offset, len \in 0 .. MaxLen : reply' = Part(files[e], offset, len)

Write(e) ==
  /\ Only(e)
  /\ \E offset, len \in 0 .. MaxLen, b \in Bytes :
       files'[e] = [i \in 1 .. Len(files[e]) |->
                      IF i \in offset + 1 .. offset + len THEN b ELSE files[e][i]]

Next == \E e \in Slots : Add(e) \/ Remove(e) \/ Read(e) \/ Write(e)

Spec == Init /\ [][Next]_<<files, reply>>
=============================================================================
