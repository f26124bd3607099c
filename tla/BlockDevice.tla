---------------------------- MODULE BlockDevice ------------------------------
(***************************************************************************)
(* What the users of a disk_t (kernel/driver/disk.h) rely on: a read, or a *)
(* view, delivers bytes the disk holds; a write changes no byte but its    *)
(* own and is over only once all of them are on the disk.                  *)
(***************************************************************************)
EXTENDS Naturals, Sequences

CONSTANTS Procs, Addresses, Sizes, Values, Ops

VARIABLES contents, job

NoJob == [op |-> "none", addr |-> 0, size |-> 0, value |-> 0,
          done |-> 0, got |-> <<>>]

Init ==
  /\ contents \in [Addresses -> Values]
  /\ job = [p \in Procs |-> NoJob]

Submit(p) ==
  /\ job[p].op = "none"
  /\ \E op \in Ops, a \in Addresses, n \in Sizes, v \in Values :
       job' = [job EXCEPT ![p] = [NoJob EXCEPT !.op = op, !.addr = a,
                                               !.size = n, !.value = v]]
  /\ UNCHANGED contents

(* The next n bytes of a read come from the disk. *)
Advanced(j, n, bytes) == [j EXCEPT !.done = @ + n, !.got = @ \o bytes]
Next_(j) == j.addr + j.done
Part(j, n) == [i \in 1 .. n |-> contents[Next_(j) + i - 1]]

Deliver(p) ==
  /\ job[p].op # "write"
  /\ \E n \in 1 .. job[p].size - job[p].done :
       job' = [job EXCEPT ![p] = Advanced(@, n, Part(@, n))]
  /\ UNCHANGED contents

(* Bytes of a write reach the disk: any of those not yet acknowledged. *)
Land(p) ==
  /\ job[p].op = "write"
  /\ contents' \in [Addresses -> Values]
  /\ LET own == Next_(job[p]) .. job[p].addr + job[p].size - 1 IN
       \A a \in Addresses : \/ contents'[a] = contents[a]
                            \/ a \in own /\ contents'[a] = job[p].value
  /\ UNCHANGED job

Acknowledge(p) ==
  /\ job[p].op = "write"
  /\ \E n \in 1 .. job[p].size - job[p].done :
       /\ \A i \in 1 .. n : Part(job[p], n)[i] = job[p].value
       /\ job' = [job EXCEPT ![p] = Advanced(@, n, <<>>)]
  /\ UNCHANGED contents

Finish(p) ==
  /\ job[p].op # "none" /\ job[p].done = job[p].size
  /\ job' = [job EXCEPT ![p] = NoJob]
  /\ UNCHANGED contents

Next == \E p \in Procs :
  Submit(p) \/ Deliver(p) \/ Land(p) \/ Acknowledge(p) \/ Finish(p)

Spec == Init /\ [][Next]_<<contents, job>>
=============================================================================
