----------------------------- MODULE QueueMemory -----------------------------
(***************************************************************************)
(* The message buffers of the queues in the kernel heap: pcreate and       *)
(* pdelete of kernel/queues.c as callers of mem_alloc and mem_free.        *)
(***************************************************************************)
EXTENDS Heap

CONSTANTS NBQUEUE, Counts      \* queues, and the capacities asked for

VARIABLES
  capacity,      \* 0 for a free queue
  messages,      \* the buffer of a queue
  failed         \* the last pcreate returned -2

qvars == <<heap_vars, capacity, messages, failed>>
Fids == 0 .. NBQUEUE - 1

QInit ==
  /\ HeapInit
  /\ capacity = [f \in Fids |-> 0] /\ messages = [f \in Fids |-> 0] /\ failed = FALSE

(* The first free queue is taken, even if its buffer cannot be allocated. *)
pcreate(count) ==
  LET free == {f \in Fids : capacity[f] = 0}
      fid  == CHOOSE f \in free : \A g \in free : f <= g
      new  == DOMAIN blocks' \ DOMAIN blocks
  IN /\ free # {}
     /\ mem_alloc(4 * count)
     /\ capacity' = [capacity EXCEPT ![fid] = count]
     /\ messages' = [messages EXCEPT ![fid] = IF new = {} THEN 0 ELSE CHOOSE z \in new : TRUE]
     /\ failed' = (new = {})

(* capacity is 0 when its product is passed to mem_free, which returns. *)
pdelete(fid) ==
  /\ capacity[fid] # 0
  /\ capacity' = [capacity EXCEPT ![fid] = 0]
  /\ failed' = FALSE
  /\ UNCHANGED <<heap_vars, messages>>

QNext ==
  \/ \E count \in Counts : pcreate(count)
  \/ \E fid \in Fids : pdelete(fid)

QSpec == QInit /\ [][QNext]_qvars

(* pcreate returns "a negative number if count negative or nul or no more  *)
(* available queue": with the other queues deleted, a valid count that     *)
(* fits the heap is served.                                                *)
PcreateServes == failed => \E f, g \in Fids : f # g /\ capacity[f] # 0 /\ capacity[g] # 0
=============================================================================
