----------------------------- MODULE MCDebugger ------------------------------
(***************************************************************************)
(* The kernel's debugger for TLC.  The commands (GdbStub) and the line     *)
(* they come over (GdbLine) share no state: part says which is looked at,  *)
(* and with which packets; the other stays as it starts.                   *)
(***************************************************************************)
EXTENDS GdbStub, GdbLine

VARIABLE part                 \* "control", "memory", "line" or "runs"
all_vars == <<stub_vars, line_vars, part>>

Bare == {[c |-> c] : c \in {"g", "?", "D", "R", "k", "d", "!", "other"}}
Threads == {[c |-> c, ok |-> ok] : c \in {"H", "T"}, ok \in BOOLEAN}
SetRegs == {[c |-> "G", ok |-> TRUE, regs |-> [eip |-> NEip - 1, eax |-> 1, tf |-> FALSE]]}
SetReg(bads) == {[c |-> "P", reg |-> r, val |-> 1, bad |-> b] :
                   r \in {"eax", "eip", "orig_eax", "bogus"}, b \in bads}
Gos == {[c |-> c, sig |-> s, eip |-> e] : c \in {"c", "s", "C", "S"}, s \in {0, 9}, e \in {-1, 1}}

Control == Bare \cup Threads \cup SetRegs \cup SetReg({"no", "form"}) \cup Gos

BadRegs == {[c |-> "G", ok |-> FALSE, regs |-> [eip |-> NEip - 1, eax |-> 1, tf |-> FALSE]]}
           \cup SetReg({"value"})
Malformed == Control \cup BadRegs

(* Writes of up to three bytes around a page and a table boundary. *)
Datas == {<<>>, <<1>>, <<2, 1>>, <<1, 2, 1>>}
Quoted(data) == [i \in 1 .. 2 * Len(data) |-> IF i % 2 = 1 THEN Quote ELSE data[i \div 2] + 8]
Reads == {[c |-> "m", ok |-> a # 0, addr |-> a, len |-> n] : a \in {0, 1, 7}, n \in {2, 4}}
Writes == {[c |-> "M", ok |-> a # 0, addr |-> a, data |-> dt] : a \in {0, 1, 3, 7}, dt \in Datas}
Binaries == {[c |-> "X", ok |-> TRUE, addr |-> 2, data |-> dt, raw |-> dt, len |-> Len(dt)] :
               dt \in Datas}
Escaped == {[c |-> "X", ok |-> TRUE, addr |-> 0, data |-> dt, raw |-> Quoted(dt), len |-> Len(dt)] :
              dt \in Datas}
Memory == Reads \cup Writes \cup Binaries
MemoryEscaped == Memory \cup Escaped

(* Two pages out of order, a large page, no entry. *)
Tables == <<[kind |-> "table", pages |-> <<6, 4>>],
            [kind |-> "super", base |-> 0],
            [kind |-> "table", pages |-> <<-1, -1>>]>>

(* The packets and tables are of the kind the theorems speak of. *)
ASSUME MemoryAssumption == NoAliases /\ \A p \in Memory : Proper(p) /\ Unquoted(p)

-----------------------------------------------------------------------------
(* "g"; "m+", which holds what may be read for an acknowledgement; and a   *)
(* quoted "#".                                                             *)
ThreeCommands == <<<<103>>, <<109, 43>>, <<88, 125, 35>>>>
FewReplies == {[hexify |-> TRUE, data |-> <<0, 0>>], [hexify |-> FALSE, data |-> <<79>>]}

(* For the first report, every short text and runs around the longest that *)
(* one count can stand for.                                                *)
Short(S, n) == UNION {[1 .. k -> S] : k \in 0 .. n}
Long(c, ns) == {[i \in 1 .. n |-> c] : n \in ns}
AllReplies ==
  [hexify : {TRUE}, data : Short({0, 17, 18}, 5) \cup Long(0, {48, 49, 50, 51})]
  \cup [hexify : {FALSE}, data : Short({79, 80}, 7) \cup Long(79, {97, 98, 99, 101, 102})]

Ok == [hexify |-> FALSE, data |-> <<79>>]
OnlyReport(r) == answers = [i \in 0 .. Len(Packets) |-> IF i = 0 THEN r ELSE Ok] /\ Reported

-----------------------------------------------------------------------------
Init ==
  /\ StubInit
  /\ \/ part \in {"control", "memory"} /\ OnlyReport(Ok)
     \/ part = "line" /\ LineInit
     \/ part = "runs" /\ \E r \in AllReplies : OnlyReport(r)

OfStub(where, A) == part = where /\ A /\ UNCHANGED <<line_vars, part>>
OfLine(where, A) == part = where /\ A /\ UNCHANGED <<stub_vars, part>>

ControlStep == OfStub("control", StubNext)
(* The first trap is taken at once, and gdb never lets the program go. *)
MemoryStep == OfStub("memory", Exception \/ KeyD \/ CommandOf(Memory))
NoiseStep == OfLine("line", Noise)
LineStub == OfLine("line", Stub)
LineGdb == OfLine("line", Gdb)
RunsStep == OfLine("runs", got = <<>> /\ LineNext)

Next == ControlStep \/ MemoryStep \/ NoiseStep \/ LineStub \/ LineGdb \/ RunsStep

Spec == Init /\ [][Next]_all_vars /\ WF_all_vars(LineStub) /\ WF_all_vars(LineGdb)

(* Every command gets its answer, and no other one, however the faults     *)
(* fall: neither getpacket and putfrags nor gdb waits for the other for    *)
(* ever.                                                                   *)
CommandsAnswered ==
  [](LineTypeOK /\ RightAnswers) /\ (part = "line" => Finishes)
=============================================================================
