------------------------------ MODULE MCFloppy -------------------------------
(* Instances of Floppy for TLC. *)
EXTENDS Floppy

Request(op, addr, size, value) ==
  [op |-> op, addr |-> addr, size |-> size, value |-> value]

(* Reads and writes of up to three bytes, inside a cylinder and across two. *)
AllRequests ==
  {Request("write", q[1], q[2], v) : q \in {<<0, 1>>, <<1, 2>>, <<3, 1>>}, v \in Values}
  \cup {Request("read", 0, 3, 0), Request("read", 1, 0, 0)}
  \cup {Request("view", a, 0, 0) : a \in {1, 2}}

(* Readers of the two cylinders. *)
SharedRequests == {Request("read", 0, 1, 0), Request("read", 2, 1, 0)}

(* Process 2 is only followed where its calls are served from the buffer, so *)
(* that the commands of the two processes never mix in the controller.       *)
HitsOnly == run[2].pc \in {"idle", "call", "return"}
=============================================================================
