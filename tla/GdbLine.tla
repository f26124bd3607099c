-------------------------------- MODULE GdbLine --------------------------------
(***************************************************************************)
(* getpacket and putfrags of kernel/gdb_serial.c on a serial line that may *)
(* spoil or lose characters, with the debugger at the other end (external, *)
(* as the remote protocol of gdb has it).  Characters are their ASCII      *)
(* codes, the checksum is the sum modulo 256.                              *)
(***************************************************************************)
EXTENDS Integers, Sequences, SequencesExt

CONSTANTS Packets,            \* packets gdb sends, in this order
          Replies,            \* possible answers: [hexify, data]
          LINE_BUFMAX,        \* size of the stub's buffer
          MaxRun,             \* longest run that is encoded (98), even
          MaxFaults, Spoils   \* faults of the line, characters noise makes

ASSUME BufferFits == \A i \in 1 .. Len(Packets) : Len(Packets[i]) < LINE_BUFMAX

Dollar == 36
Hash == 35
Plus == 43
Minus == 45
Star == 42
Escape == 125

VARIABLES toStub, toGdb,      \* characters on the line
          line_mode,          \* of the stub: "start", "data", "csum1", "csum2", "handle", "ack"
          inbuf, checksum, xmitcsum,
          frame,              \* packet putfrags repeats until it is liked
          executed,           \* commands the stub has carried out
          gmode, sent,        \* of gdb: waits for "reply" or "ack"; commands sent
          got,                \* answers gdb has accepted
          answers,            \* the answer to each command; answers[0] is the first report
          faults
stub == <<line_mode, inbuf, checksum, xmitcsum, frame, executed>>
gdb == <<gmode, sent, got>>
line_vars == <<toStub, toGdb, stub, gdb, answers, faults>>

-----------------------------------------------------------------------------
(* Frames.                                                                 *)

hexchar(n) == IF n < 10 THEN 48 + n ELSE 87 + n
hex(c) == IF c \in 48 .. 57 THEN c - 48
          ELSE IF c \in 97 .. 102 THEN c - 87 ELSE IF c \in 65 .. 70 THEN c - 55 ELSE -1

Sum(s) == FoldLeft(+, 0, s) % 256

(* Length of the run at the start of data that is encoded, 0 if none. *)
Run(f, data) ==
  LET limit == IF f.hexify THEN MaxRun \div 2 ELSE MaxRun
      min   == IF f.hexify THEN 2 ELSE 4
      same  == {n \in 0 .. Len(data) : n <= limit /\ \A i \in 1 .. n : data[i] = data[1]}
      n     == CHOOSE i \in same : \A j \in same : j <= i
  IN IF n < min \/ (f.hexify /\ data[1] \div 16 # data[1] % 16) THEN 0 ELSE n

(* Fault: the count is that of the bytes also when each is two digits. *)
FaultEncode(f, data) ==
  LET n == Run(f, data) IN
  IF data = <<>> THEN <<>>
  ELSE IF n # 0 THEN <<IF f.hexify THEN hexchar(data[1] % 16) ELSE data[1], Star, 29 + n - 1>>
  ELSE IF f.hexify THEN <<hexchar(data[1] \div 16), hexchar(data[1] % 16)>> ELSE <<data[1]>>

RECURSIVE Encode(_, _)
Encode(f, data) ==
  IF data = <<>> THEN <<>>
  ELSE LET n == Run(f, data) IN
       (IF n # 0
        THEN <<IF f.hexify THEN hexchar(data[1] % 16) ELSE data[1], Star,
               29 + (IF f.hexify THEN 2 * n ELSE n) - 1>>
        ELSE IF f.hexify THEN <<hexchar(data[1] \div 16), hexchar(data[1] % 16)>>
        ELSE <<data[1]>>)
       \o Encode(f, SubSeq(data, (IF n = 0 THEN 1 ELSE n) + 1, Len(data)))

Frame(payload) ==
  <<Dollar>> \o payload
  \o <<Hash, hexchar(Sum(payload) \div 16), hexchar(Sum(payload) % 16)>>

-----------------------------------------------------------------------------
(* The stub: one step per character it receives.                           *)

Recv == toStub # <<>> /\ toStub' = Tail(toStub)
Ch == Head(toStub)
Send(s) == toGdb' = toGdb \o s

(* Bytes at the end of the buffer that getpacket reads before '#'.         *)
Quoting == inbuf # <<>> /\ Last(inbuf) = Escape

GetStart ==
  /\ line_mode = "start" /\ Recv
  /\ IF Ch = Dollar THEN line_mode' = "data" /\ inbuf' = <<>> /\ checksum' = 0 /\ xmitcsum' = 255
     ELSE UNCHANGED <<line_mode, inbuf, checksum, xmitcsum>>
  /\ UNCHANGED <<toGdb, frame, executed, gdb, answers, faults>>

(* Fault: the end of the buffer is not looked at. *)
FaultGetData ==
  /\ line_mode = "data" /\ Recv
  /\ IF Ch = Hash /\ ~Quoting THEN line_mode' = "csum1" /\ UNCHANGED <<inbuf, checksum>>
     ELSE inbuf' = Append(inbuf, Ch) /\ checksum' = (checksum + Ch) % 256 /\ UNCHANGED line_mode
  /\ UNCHANGED <<toGdb, xmitcsum, frame, executed, gdb, answers, faults>>

(* A buffer that fills up ends the packet without '#': it is taken only if *)
(* its sum happens to be the initial xmitcsum.                             *)
GetData ==
  /\ line_mode = "data" /\ Recv
  /\ LET sum == (checksum + Ch) % 256 IN
     IF Ch = Hash /\ ~Quoting THEN line_mode' = "csum1" /\ UNCHANGED <<inbuf, checksum>>
     ELSE /\ inbuf' = Append(inbuf, Ch) /\ checksum' = sum
          /\ line_mode' = IF Len(inbuf) + 1 < LINE_BUFMAX THEN "data"
                     ELSE IF Ch = Hash THEN "csum1"
                     ELSE IF sum = xmitcsum THEN "handle" ELSE "start"
  /\ UNCHANGED <<toGdb, xmitcsum, frame, executed, gdb, answers, faults>>

GetCsum1 ==
  /\ line_mode = "csum1" /\ Recv
  /\ xmitcsum' = (16 * hex(Ch)) % 256 /\ line_mode' = "csum2"
  /\ UNCHANGED <<toGdb, inbuf, checksum, frame, executed, gdb, answers, faults>>

(* Fault: the packet is taken whatever its sum. *)
FaultGetCsum2 ==
  /\ line_mode = "csum2" /\ Recv
  /\ xmitcsum' = (xmitcsum + hex(Ch)) % 256 /\ line_mode' = "handle" /\ Send(<<Plus>>)
  /\ UNCHANGED <<inbuf, checksum, frame, executed, gdb, answers, faults>>

(* A sequence id, two characters and a colon, is echoed and removed.       *)
GetCsum2 ==
  /\ line_mode = "csum2" /\ Recv
  /\ LET x  == (xmitcsum + hex(Ch)) % 256
         id == Len(inbuf) >= 3 /\ inbuf[3] = 58
     IN /\ xmitcsum' = x
        /\ IF x # checksum THEN line_mode' = "start" /\ Send(<<Minus>>) /\ UNCHANGED inbuf
           ELSE /\ line_mode' = "handle"
                /\ Send(<<Plus>> \o IF id THEN SubSeq(inbuf, 1, 2) ELSE <<>>)
                /\ inbuf' = IF id THEN SubSeq(inbuf, 4, Len(inbuf)) ELSE inbuf
  /\ UNCHANGED <<checksum, frame, executed, gdb, answers, faults>>

(* gdb_serial_converse carries the command out (GdbStub) and answers it.   *)
Answered(n) == LET a == answers[n] IN Encode(a, a.data)
Handle ==
  /\ line_mode = "handle"
  /\ LET at == {i \in 1 .. Len(Packets) : Packets[i] = inbuf}
         c  == IF at = {} THEN 0 ELSE CHOOSE i \in at : TRUE
         f  == Frame(IF c = 0 THEN <<>> ELSE Answered(c))
     IN executed' = Append(executed, c) /\ frame' = f /\ Send(f)
  /\ line_mode' = "ack"
  /\ UNCHANGED <<toStub, inbuf, checksum, xmitcsum, gdb, answers, faults>>

(* Fault: the packet is sent once. *)
FaultPutAck ==
  /\ line_mode = "ack" /\ Recv
  /\ line_mode' = (IF Ch = Plus THEN "start" ELSE line_mode)
  /\ UNCHANGED <<toGdb, inbuf, checksum, xmitcsum, frame, executed, gdb, answers, faults>>

PutAck ==
  /\ line_mode = "ack" /\ Recv
  /\ IF Ch = Plus THEN line_mode' = "start" /\ UNCHANGED toGdb
     ELSE Send(frame) /\ UNCHANGED line_mode
  /\ UNCHANGED <<inbuf, checksum, xmitcsum, frame, executed, gdb, answers, faults>>

-----------------------------------------------------------------------------
(* gdb (external).  It reads a frame when all of it has come.              *)

Ends == {i \in 2 .. Len(toGdb) - 2 : toGdb[i] = Hash /\ toGdb[i - 1] # Star}
HasFrame == toGdb # <<>> /\ Head(toGdb) = Dollar /\ Ends # {}
End == CHOOSE i \in Ends : \A j \in Ends : i <= j
Payload == SubSeq(toGdb, 2, End - 1)
Good == /\ hex(toGdb[End + 1]) * 16 + hex(toGdb[End + 2]) = Sum(Payload)
        /\ Dollar \notin {Payload[i] : i \in {j \in 2 .. Len(Payload) : Payload[j - 1] # Star}}

RECURSIVE Decode(_)
Decode(s) ==
  IF s = <<>> THEN <<>>
  ELSE IF Len(s) >= 3 /\ s[2] = Star
       THEN [i \in 1 .. s[3] - 28 |-> s[1]] \o Decode(SubSeq(s, 4, Len(s)))
       ELSE <<s[1]>> \o Decode(Tail(s))

Issue(n) == toStub' = toStub \o Frame(Packets[n])

(* The answer to the last command: acknowledged, and the next is sent.     *)
GdbReply ==
  /\ gmode = "reply" /\ HasFrame
  /\ toGdb' = SubSeq(toGdb, End + 3, Len(toGdb))
  /\ IF ~Good THEN toStub' = Append(toStub, Minus) /\ UNCHANGED gdb
     ELSE /\ got' = Append(got, Decode(Payload))
          /\ IF sent < Len(Packets)
             THEN /\ sent' = sent + 1 /\ gmode' = "ack"
                  /\ toStub' = Append(toStub, Plus) \o Frame(Packets[sent + 1])
             ELSE /\ gmode' = "end" /\ UNCHANGED sent /\ toStub' = Append(toStub, Plus)
  /\ UNCHANGED <<stub, answers, faults>>

(* A packet where an acknowledgement is due is an old answer: it is        *)
(* acknowledged and dropped.                                               *)
GdbOldReply ==
  /\ gmode \in {"ack", "end"} /\ HasFrame
  /\ toGdb' = SubSeq(toGdb, End + 3, Len(toGdb)) /\ toStub' = Append(toStub, Plus)
  /\ UNCHANGED <<stub, gdb, answers, faults>>

GdbOther ==
  /\ toGdb # <<>> /\ Head(toGdb) # Dollar /\ toGdb' = Tail(toGdb)
  /\ IF gmode = "ack" /\ Head(toGdb) = Plus THEN gmode' = "reply" /\ UNCHANGED toStub
     ELSE IF gmode = "ack" /\ Head(toGdb) = Minus THEN Issue(sent) /\ UNCHANGED gmode
     ELSE UNCHANGED <<gmode, toStub>>
  /\ UNCHANGED <<stub, sent, got, answers, faults>>

(* The line is quiet: gdb repeats its command, or asks for the answer; a   *)
(* frame that never ended is dropped.                                      *)
GdbTimeout ==
  /\ toStub = <<>> /\ ~HasFrame /\ (toGdb # <<>> => Head(toGdb) = Dollar)
  /\ line_mode # "handle" /\ toGdb' = <<>>
  /\ \/ gmode = "ack" /\ Issue(sent)
     \/ gmode = "reply" /\ toStub' = Append(toStub, Minus)
  /\ UNCHANGED <<stub, gdb, answers, faults>>

-----------------------------------------------------------------------------
(* The line.                                                               *)

Spoil(l) == \E i \in 1 .. Len(l), c \in Spoils : c # l[i] /\ l' = [l EXCEPT ![i] = c]
Lose(l) == \E i \in 1 .. Len(l) : l' = SubSeq(l, 1, i - 1) \o SubSeq(l, i + 1, Len(l))

Noise ==
  /\ faults < MaxFaults /\ faults' = faults + 1
  /\ \/ (Spoil(toStub) \/ Lose(toStub)) /\ UNCHANGED toGdb
     \/ (Spoil(toGdb) \/ Lose(toGdb)) /\ UNCHANGED toStub
  /\ UNCHANGED <<stub, gdb, answers>>

(* The first report has been sent. *)
Reported ==
  /\ toStub = <<>> /\ line_mode = "ack" /\ inbuf = <<>> /\ checksum = 0 /\ xmitcsum = 255
  /\ frame = Frame(Answered(0)) /\ toGdb = frame /\ executed = <<>>
  /\ gmode = "reply" /\ sent = 0 /\ got = <<>> /\ faults = 0

LineInit == answers \in [0 .. Len(Packets) -> Replies] /\ Reported

Stub == GetStart \/ GetData \/ GetCsum1 \/ GetCsum2 \/ Handle \/ PutAck
Gdb == GdbReply \/ GdbOldReply \/ GdbOther \/ GdbTimeout
LineNext == Stub \/ Gdb \/ Noise

LineSpec == LineInit /\ [][LineNext]_line_vars /\ WF_line_vars(Stub) /\ WF_line_vars(Gdb)

-----------------------------------------------------------------------------
LineTypeOK ==
  /\ line_mode \in {"start", "data", "csum1", "csum2", "handle", "ack"}
  /\ Len(inbuf) <= LINE_BUFMAX /\ checksum \in 0 .. 255 /\ xmitcsum \in 0 .. 255
  /\ gmode \in {"reply", "ack", "end"} /\ sent \in 0 .. Len(Packets)

(* Every answer gdb takes for the answer of a command is that command's,   *)
(* digit by digit after the runs are expanded, and never an old one that   *)
(* was repeated because an acknowledgement did not arrive; the counts of   *)
(* the runs are printing characters.                                       *)
Plain(n) ==
  LET a == answers[n] IN
  IF a.hexify
  THEN [i \in 1 .. 2 * Len(a.data) |->
          hexchar(IF i % 2 = 1 THEN a.data[(i + 1) \div 2] \div 16 ELSE a.data[i \div 2] % 16)]
  ELSE a.data
RightAnswers ==
  /\ \A i \in 1 .. Len(got) : got[i] = Plain(i - 1)
  /\ \A i \in 1 .. Len(frame) : frame[i] \in 32 .. 126

(* A command is carried out only as gdb sent it, in order, none skipped,   *)
(* and answered commands have been carried out.                            *)
calls == INSTANCE RemoteCalls WITH
  NCommands <- Len(Packets),
  answered <- IF got = <<>> THEN 0 ELSE Len(got) - 1,
  done <- IF executed = <<>> THEN 0 ELSE Last(executed)
IsRemoteCalls == calls!Spec

(* Every command gets its answer, however the faults fall: neither side    *)
(* waits for the other for ever.                                           *)
Finishes == <>(Len(got) = Len(Packets) + 1)
=============================================================================
