------------------------------- MODULE Floppy --------------------------------
(***************************************************************************)
(* The floppy driver, kernel/driver/floppy.c, under the disk_t interface   *)
(* of kernel/driver/disk.c.                                                *)
(*                                                                         *)
(* A driver call runs with interrupts masked from one timer_sleep to the   *)
(* next: run[p].pc names the sleep process p is in, and a step of p is the *)
(* code from there to the next sleep.  Other processes run in between and  *)
(* share every global below.  A C function is an operator from the record  *)
(* G of the globals to the record it leaves.                               *)
(*                                                                         *)
(* The controller (fdc, with the disk and the head) is external: it        *)
(* collects command bytes, executes, interrupts and offers result bytes.   *)
(* An execution may fail whenever it likes.                                *)
(***************************************************************************)
EXTENDS Integers, Sequences

CONSTANTS
  Procs,            \* processes that use the disk
  CYLINDERS,        \* cylinders of the disk (80)
  CYLINDER_SIZE,    \* FLOPPY_144_CYLINDER_SIZE
  Values,           \* bytes; 0 is what the buffer holds at boot
  Requests,         \* calls programs make: [op, addr, size, value]
  SEEK_RETRIES,     \* 10
  TRACK_RETRIES,    \* 20
  CMD_TRIES,        \* polls of MSR before write_cmd gives up (600)
  MOTOR_TICKS       \* value of motor_ticks for three seconds (300)

ASSUME FloppyAssumption ==
  /\ CYLINDERS \in Nat \ {0} /\ CYLINDER_SIZE \in Nat \ {0}
  /\ SEEK_RETRIES \in Nat \ {0} /\ TRACK_RETRIES \in Nat \ {0}
  /\ CMD_TRIES \in Nat \ {0} /\ MOTOR_TICKS \in Nat
  /\ 0 \in Values

(* Callers stay on the disk; the size of a view is the driver's business. *)
ASSUME RequestsAssumption ==
  \A q \in Requests :
    /\ q.op \in {"read", "view", "write"} /\ q.value \in Values
    /\ q.addr \in 0 .. CYLINDERS * CYLINDER_SIZE - 1
    /\ q.size \in Nat /\ q.addr + q.size <= CYLINDERS * CYLINDER_SIZE

VARIABLES
  interrupted, floppy_dmacyl, floppy_dmabuf, dma_dir, sleep_timer_pid,
  motor_state, motor_ticks, motor_dor,   \* motor_dor: MOTA of the DOR byte
  fdc, disk,                             \* the controller and the medium
  job, run,                              \* by process: its call, its locals
  mode                                   \* "run", or "panic"

floppy_vars ==
  <<interrupted, floppy_dmacyl, floppy_dmabuf, dma_dir, sleep_timer_pid,
    motor_state, motor_ticks, motor_dor, fdc, disk, job, run, mode>>

G == [interrupted |-> interrupted, floppy_dmacyl |-> floppy_dmacyl,
      floppy_dmabuf |-> floppy_dmabuf, dma_dir |-> dma_dir,
      sleep_timer_pid |-> sleep_timer_pid, motor_state |-> motor_state,
      motor_ticks |-> motor_ticks, motor_dor |-> motor_dor, fdc |-> fdc,
      disk |-> disk, job |-> job, run |-> run, mode |-> mode]

(* The quantifier has TLC evaluate s once. *)
Becomes(s) ==
  \E t \in {s} :
    /\ interrupted' = t.interrupted /\ floppy_dmacyl' = t.floppy_dmacyl
    /\ floppy_dmabuf' = t.floppy_dmabuf /\ dma_dir' = t.dma_dir
    /\ sleep_timer_pid' = t.sleep_timer_pid /\ motor_state' = t.motor_state
    /\ motor_ticks' = t.motor_ticks /\ motor_dor' = t.motor_dor
    /\ fdc' = t.fdc /\ disk' = t.disk /\ job' = t.job /\ run' = t.run
    /\ mode' = t.mode

Offsets == 0 .. CYLINDER_SIZE - 1
CMD_WRITE_DATA == 5 + 192     \* with MT and MFM, the flags of do_track
CMD_READ_DATA == 6 + 192
CMD_SENSE_INTERRUPT == 8
CMD_SEEK == 15

NoJob == [op |-> "none", addr |-> 0, size |-> 0, value |-> 0,
          done |-> 0, got |-> <<>>]
Idle == [pc |-> "idle", kind |-> "none", dir |-> "none", cyl |-> 0, head |-> 0,
         try |-> 0, polls |-> 0, out |-> <<>>, in |-> <<>>]

Panic(s) == [s EXCEPT !.mode = "panic"]
Set(s, p, r) == [s EXCEPT !.run[p] = r]

OK == 0
ERROR == 64          \* some error bit of st0, st1 or st2
PROTECTED == 66      \* st1 says the disk is write protected

-----------------------------------------------------------------------------
(* The controller (external).  A command is complete when it has its       *)
(* number of bytes; SENSE_INTERRUPT and unknown commands answer at once.   *)

CommandLength(c) ==
  IF c = CMD_SEEK THEN 3
  ELSE IF c \in {CMD_READ_DATA, CMD_WRITE_DATA} THEN 9 ELSE 1

Ready(s) == s.fdc.phase # "exec"

(* A byte written outside the command phase is ignored. *)
FifoWrite(s, byte) ==
  LET cmd == Append(s.fdc.cmd, byte) IN
  IF s.fdc.phase # "cmd" THEN s
  ELSE IF Len(cmd) < CommandLength(cmd[1]) THEN [s EXCEPT !.fdc.cmd = cmd]
  ELSE [s EXCEPT !.fdc =
          [@ EXCEPT !.cmd = cmd,
                    !.phase = IF Len(cmd) = 1 THEN "result" ELSE "exec",
                    !.result = IF cmd[1] = CMD_SENSE_INTERRUPT
                               THEN <<s.fdc.st0, s.fdc.cyl>>
                               ELSE IF Len(cmd) = 1 THEN <<ERROR>> ELSE <<>>]]

(* The byte read, and the controller after it. *)
FifoByte(s) == IF s.fdc.result = <<>> THEN ERROR ELSE Head(s.fdc.result)
FifoRead(s) ==
  IF s.fdc.phase # "result" THEN s
  ELSE IF Len(s.fdc.result) <= 1
       THEN [s EXCEPT !.fdc = [@ EXCEPT !.phase = "cmd", !.cmd = <<>>, !.result = <<>>]]
       ELSE [s EXCEPT !.fdc.result = Tail(@)]

SameBytes(st) == [i \in 1 .. 7 |-> st]

(* floppy_IT, raised at the end of an execution. *)
floppy_IT(s) == [s EXCEPT !.interrupted = TRUE]

SeekEnds(s) ==
  LET Ends(st, cyl) ==
        floppy_IT([s EXCEPT !.fdc = [@ EXCEPT !.phase = "cmd", !.cmd = <<>>,
                                              !.st0 = st, !.cyl = cyl]])
  IN {Ends(ERROR, s.fdc.cyl), Ends(OK, s.fdc.cyl)}
     \cup {Ends(OK, cyl) : cyl \in {s.fdc.cmd[3]} \cap 0 .. CYLINDERS - 1}

(* A failed transfer may have moved part of the bytes. *)
Mixed(new, old) ==
  {[o \in Offsets |-> IF o < n THEN new[o] ELSE old[o]] : n \in Offsets}

TransferEnds(s) ==
  LET here  == s.fdc.cyl
      right == s.fdc.cmd[3] = here /\ s.motor_dor
      reading == s.fdc.cmd[1] = CMD_READ_DATA
      Ends(st, buf, track) ==
        floppy_IT([s EXCEPT !.fdc = [@ EXCEPT !.phase = "result",
                                              !.result = SameBytes(st)],
                            !.floppy_dmabuf = buf, !.disk[here] = track])
      buf == s.floppy_dmabuf
      trk == s.disk[here]
      agreed == (s.dma_dir = "read") = reading  \* else no bytes are moved
  IN
  (IF right /\ agreed
   THEN {IF reading THEN Ends(OK, trk, trk) ELSE Ends(OK, buf, buf)} ELSE {})
  \cup (IF agreed
        THEN IF reading THEN {Ends(ERROR, m, trk) : m \in Mixed(trk, buf)}
             ELSE {Ends(ERROR, buf, m) : m \in IF right THEN Mixed(buf, trk)
                                                 ELSE {trk}}
                  \cup {Ends(PROTECTED, buf, trk)}
        ELSE {Ends(ERROR, buf, trk)})

ControllerEnds ==
  /\ fdc.phase = "exec"
  /\ \E s \in IF fdc.cmd[1] = CMD_SEEK THEN SeekEnds(G) ELSE TransferEnds(G) :
       Becomes(s)

-----------------------------------------------------------------------------
(* Fault: the motor is not waited for. *)
FaultMotorOn(s, p, r) == Set([s EXCEPT !.motor_state = "on"], p, r)

(* motor(base, motor_on), r being what p does next: it sleeps first when   *)
(* the motor was off.                                                      *)
MotorOn(s, p, r) ==
  IF s.motor_state = "off"
  THEN Set([s EXCEPT !.motor_dor = TRUE], p, [r EXCEPT !.pc = "spin"])
  ELSE Set([s EXCEPT !.motor_state = "on"], p, r)

MotorOff(s) == [s EXCEPT !.motor_ticks = MOTOR_TICKS, !.motor_state = "wait"]

motor_kill(s) == [s EXCEPT !.motor_dor = FALSE, !.motor_state = "off"]

(* interrupted = false and the first write_cmd of a command. *)
SendCommand(s, p, bytes) ==
  Set([s EXCEPT !.interrupted = FALSE], p,
      [s.run[p] EXCEPT !.pc = "write", !.out = bytes, !.in = <<>>, !.polls = 0])

(* One turn of the loop of seek. *)
SeekTry(s, p) ==
  SendCommand(s, p, <<CMD_SEEK, 4 * s.run[p].head, s.run[p].cyl>>)

(* What follows motor(base, motor_on): the loop of seek, or dma_init and   *)
(* the sleep of 100 ms.                                                    *)
AfterMotor(s, p) ==
  IF s.run[p].kind = "seek" THEN SeekTry(s, p)
  ELSE [s EXCEPT !.dma_dir = s.run[p].dir, !.run[p].pc = "settle"]

WithMotor(s, p, r) ==
  LET t == MotorOn(s, p, r)
  IN  IF t.run[p].pc = "spin" THEN t ELSE AfterMotor(t, p)

seek(s, p, head) ==
  WithMotor(s, p, [s.run[p] EXCEPT !.kind = "seek", !.head = head, !.try = 0,
                                   !.pc = "loop"])

(* Fault: the number of the turn is lost. *)
FaultTrackTry(s, p, n) ==
  WithMotor(s, p, [s.run[p] EXCEPT !.kind = "track", !.try = 0, !.pc = "loop"])

(* One turn of the loop of do_track. *)
TrackTry(s, p, n) ==
  WithMotor(s, p, [s.run[p] EXCEPT !.kind = "track", !.try = n, !.pc = "loop"])

TrackCommand(r) ==
  <<IF r.dir = "read" THEN CMD_READ_DATA ELSE CMD_WRITE_DATA,
    0, r.cyl, 0, 1, 2, 18, 27, 255>>

do_track(s, p, cyl, dir) ==
  seek(Set([s EXCEPT !.sleep_timer_pid = IF @ = 0 THEN 1 ELSE @], p,
           [s.run[p] EXCEPT !.cyl = cyl, !.dir = dir]), p, 0)

(* Fault: the division rounds up. *)
FaultAddr2Coff(addr) == [cyl |-> (addr + CYLINDER_SIZE - 1) \div CYLINDER_SIZE,
                         offset |-> addr % CYLINDER_SIZE,
                         size |-> CYLINDER_SIZE - (addr % CYLINDER_SIZE)]

addr_2_coff(addr) == [cyl |-> addr \div CYLINDER_SIZE,
                      offset |-> addr % CYLINDER_SIZE,
                      size |-> CYLINDER_SIZE - (addr % CYLINDER_SIZE)]

-----------------------------------------------------------------------------
(* floppy_read, floppy_read_view and floppy_write.                         *)

Where(j) == addr_2_coff(j.addr + j.done)
working_size(j) ==
  IF Where(j).size > j.size - j.done THEN j.size - j.done ELSE Where(j).size

(* Fault: do_cached trusts the tag whatever the cylinder. *)
FaultCached(s, cyl) == s.floppy_dmacyl # -1

(* The test of do_cached for dir_read. *)
Cached(s, cyl) == cyl = s.floppy_dmacyl

Return(s, p) == Set(s, p, [Idle EXCEPT !.pc = "return"])

(* The loop condition after a cylinder; the next one is not the cached one. *)
NextCylinder(s, p) ==
  LET j == s.job[p] IN
  IF j.size > j.done THEN do_track(s, p, Where(j).cyl, "read") ELSE Return(s, p)

(* memcpy(dst + done_size, &floppy_dmabuf[offset], working_size) *)
CopyOut(s, p) ==
  LET j == s.job[p] IN
  [s EXCEPT !.job[p] =
     [j EXCEPT !.done = @ + working_size(j),
               !.got = @ \o [i \in 1 .. working_size(j) |->
                               s.floppy_dmabuf[Where(j).offset + i - 1]]]]

(* memcpy(&floppy_dmabuf[offset], src + done_size, working_size) *)
CopyIn(s, p) ==
  LET j == s.job[p]
      o == Where(j).offset
  IN [s EXCEPT !.floppy_dmabuf =
        [i \in Offsets |-> IF i \in o .. o + working_size(j) - 1 THEN j.value
                                                                 ELSE @[i]]]

(* What follows a do_cached that returned 0. *)
Loaded(s, p) ==
  IF s.job[p].op # "write" THEN NextCylinder(CopyOut(s, p), p)
  ELSE IF s.run[p].dir # "write"
       THEN do_track(CopyIn(s, p), p, Where(s.job[p]).cyl, "write")
       ELSE NextCylinder([s EXCEPT !.job[p].done = @ + working_size(s.job[p])], p)

(* floppy_disk_read, _write and _view; a failure is a failed assert. *)
Begin(p) ==
  /\ run[p].pc = "idle"
  /\ \E q \in Requests :
       LET n == IF q.op = "view" THEN addr_2_coff(q.addr).size ELSE q.size
           s == [G EXCEPT !.job[p] = [NoJob EXCEPT !.op = q.op, !.addr = q.addr,
                                        !.size = n, !.value = q.value],
                          !.run[p] = [Idle EXCEPT !.pc = "call"]]
       IN Becomes(s)

(* The first turn, which the call runs into at once: no sleep in between,  *)
(* so Call is taken before anything else.                                  *)
Call(p) ==
  /\ run[p].pc = "call"
  /\ Becomes(IF job[p].size = 0 THEN Return(G, p)
             ELSE IF Cached(G, Where(job[p]).cyl) THEN Loaded(G, p)
             ELSE do_track(G, p, Where(job[p]).cyl, "read"))

Leave(p) ==
  /\ run[p].pc = "return"
  /\ Becomes([G EXCEPT !.job[p] = NoJob, !.run[p] = Idle])

-----------------------------------------------------------------------------
(* Steps from one sleep to the next.                                       *)

Spin(p) ==
  /\ run[p].pc = "spin"
  /\ Becomes(AfterMotor([G EXCEPT !.motor_state = "on"], p))

Settle(p) ==
  /\ run[p].pc = "settle"
  /\ Becomes(SendCommand(G, p, TrackCommand(run[p])))

(* wait_interrupt, then SENSE_INTERRUPT after a seek or the result bytes. *)
Waited(s, p) ==
  IF ~s.interrupted THEN [s EXCEPT !.run[p].pc = "wait"]
  ELSE IF s.run[p].kind = "seek"
       THEN Set(s, p, [s.run[p] EXCEPT !.kind = "sense", !.pc = "write",
                                       !.out = <<CMD_SENSE_INTERRUPT>>])
       ELSE [s EXCEPT !.run[p].pc = "read"]

Poll(s, p) ==
  IF s.run[p].polls + 1 = CMD_TRIES THEN Panic(s)
  ELSE [s EXCEPT !.run[p].polls = @ + 1]

write_cmd(p) ==
  /\ run[p].pc = "write"
  /\ LET s == Set(FifoWrite(G, Head(run[p].out)), p,
                  [run[p] EXCEPT !.out = Tail(@), !.polls = 0])
     IN Becomes(IF ~Ready(G) THEN Poll(G, p)
                ELSE IF s.run[p].out # <<>> THEN s
                ELSE IF s.run[p].kind = "sense" THEN [s EXCEPT !.run[p].pc = "read"]
                ELSE Waited(s, p))

wait_interrupt(p) ==
  /\ run[p].pc = "wait" /\ interrupted
  /\ Becomes(Waited(G, p))

(* The end of a turn of the loop of seek. *)
SeekDone(s, p) ==
  LET r == s.run[p]
      found == r.in[1] < ERROR /\ r.in[2] = r.cyl
      t == Set(s, p, [r EXCEPT !.kind = "seek", !.try = @ + 1])
  IN IF found THEN IF r.head = 0 THEN seek(MotorOff(s), p, 1)
                                 ELSE TrackTry(MotorOff(s), p, 0)
     ELSE IF r.try + 1 < SEEK_RETRIES THEN SeekTry(t, p)
     ELSE Panic(MotorOff(s))

(* The end of a turn of the loop of do_track. *)
TrackDone(s, p) ==
  LET r == s.run[p]
      Saw(st) == \E i \in 1 .. Len(r.in) : r.in[i] = st
  IN IF Saw(PROTECTED) THEN Panic(MotorOff(s))
     ELSE IF ~Saw(ERROR)
          THEN Loaded([MotorOff(s) EXCEPT !.floppy_dmacyl = r.cyl], p)
     ELSE IF r.try + 1 < TRACK_RETRIES THEN TrackTry(s, p, r.try + 1)
     ELSE Panic(MotorOff(s))

(* Fault: the last result byte, bytes per sector, is not read. *)
FaultResultLength(kind) == IF kind = "sense" THEN 2 ELSE 6

ResultLength(kind) == IF kind = "sense" THEN 2 ELSE 7

read_data(p) ==
  /\ run[p].pc = "read"
  /\ LET s == Set(FifoRead(G), p, [run[p] EXCEPT !.in = Append(@, FifoByte(G))]) IN
     Becomes(IF ~Ready(G) THEN Poll(G, p)
             ELSE IF Len(s.run[p].in) < ResultLength(run[p].kind) THEN s
             ELSE IF run[p].kind = "sense" THEN SeekDone(s, p)
             ELSE TrackDone(s, p))

(* A turn of the process sleep_timer, if it was started. *)
SleepTimer ==
  /\ mode = "run" /\ sleep_timer_pid > 0 /\ motor_state = "wait"
  /\ LET s == [G EXCEPT !.motor_ticks = @ - 50]
     IN Becomes(IF s.motor_ticks <= 0 THEN motor_kill(s) ELSE s)

-----------------------------------------------------------------------------
FloppyInit ==
  /\ interrupted = FALSE /\ floppy_dmacyl = -1
  /\ floppy_dmabuf = [o \in Offsets |-> 0] /\ dma_dir = "none"
  /\ sleep_timer_pid = -1
  /\ motor_state = "off" /\ motor_ticks = 0 /\ motor_dor = FALSE
  /\ fdc = [phase |-> "cmd", cmd |-> <<>>, result |-> <<>>, st0 |-> OK,
            cyl |-> 0]
  /\ disk \in [0 .. CYLINDERS - 1 -> [Offsets -> Values]]
  /\ job = [p \in Procs |-> NoJob] /\ run = [p \in Procs |-> Idle]
  /\ mode = "run"

Unfinished == {p \in Procs : run[p].pc \in {"call", "return"}}

Resume(p) ==
  \/ Spin(p) \/ Settle(p) \/ write_cmd(p) \/ wait_interrupt(p) \/ read_data(p)

Step(p) ==
  /\ mode = "run"
  /\ IF Unfinished # {} THEN Call(p) \/ Leave(p) ELSE Resume(p) \/ Begin(p)

FloppyNext == (mode = "run" /\ ControllerEnds) \/ \E p \in Procs : Step(p)

FloppySpec == FloppyInit /\ [][FloppyNext]_floppy_vars

(* Programs need not call again; what they began goes on, and the          *)
(* controller ends what it executes.                                       *)
Continue(p) == run[p].pc # "idle" /\ Step(p)
Fairness ==
  /\ WF_floppy_vars(mode = "run" /\ ControllerEnds)
  /\ \A p \in Procs : WF_floppy_vars(Continue(p))
FairSpec == FloppySpec /\ Fairness

TimerSpec ==
  FloppyInit /\ [][FloppyNext \/ SleepTimer]_floppy_vars /\ Fairness /\ WF_floppy_vars(SleepTimer)

-----------------------------------------------------------------------------
FloppyTypeOK ==
  /\ interrupted \in BOOLEAN /\ floppy_dmacyl \in -1 .. CYLINDERS - 1
  /\ floppy_dmabuf \in [Offsets -> Values] /\ dma_dir \in {"none", "read", "write"}
  /\ sleep_timer_pid \in Int /\ motor_state \in {"off", "on", "wait"}
  /\ motor_ticks \in Int /\ motor_dor \in BOOLEAN /\ mode \in {"run", "panic"}
  /\ fdc.phase \in {"cmd", "exec", "result"} /\ fdc.cyl \in 0 .. CYLINDERS - 1
  /\ disk \in [0 .. CYLINDERS - 1 -> [Offsets -> Values]]
  /\ \A p \in Procs : /\ job[p].op \in {"none", "read", "view", "write"}
                      /\ job[p].done \in 0 .. job[p].size
                      /\ run[p].cyl \in 0 .. CYLINDERS - 1
                      /\ run[p].try \in 0 .. SEEK_RETRIES + TRACK_RETRIES

(* The driver implements the block device its users rely on: reads and     *)
(* views deliver what the disk holds although they are served from the     *)
(* cached cylinder, also after failed and retried transfers, and a write   *)
(* touches its own bytes only although whole cylinders are rewritten.      *)
Store == INSTANCE BlockDevice WITH
  Addresses <- 0 .. CYLINDERS * CYLINDER_SIZE - 1,
  Sizes <- 0 .. CYLINDERS * CYLINDER_SIZE, Ops <- {"read", "view", "write"},
  contents <- [a \in 0 .. CYLINDERS * CYLINDER_SIZE - 1 |->
                 disk[a \div CYLINDER_SIZE][a % CYLINDER_SIZE]],
  job <- job

IsBlockDevice == Store!Spec

(* A process waiting for the controller is in the phase the controller is  *)
(* in: no byte is written while results are pending and none is read while *)
(* a command is expected, so the 600 polls of write_cmd never run out.     *)
FifoInStep ==
  mode = "run" =>
    \A p \in Procs :
      /\ run[p].pc = "write" => fdc.phase = "cmd"
      /\ run[p].pc = "read" => fdc.phase = "result"

(* The controller executes with the motor running and accounted for.       *)
MotorTurns == fdc.phase = "exec" => motor_dor /\ motor_state = "on"

(* Every driver call ends: it returns or it panics after its retries.      *)
CallsEnd == \A p \in Procs : []<>(run[p].pc = "idle" \/ mode = "panic")

(* "Already in floppy_dmabuf": the bytes copied out of the buffer are the  *)
(* bytes the disk holds at the addresses of the request.                   *)
AlreadyInBuffer ==
  [][\A p \in Procs :
       job[p].op = "read" /\ job'[p].done > job[p].done =>
         \A i \in job[p].done + 1 .. job'[p].done :
           LET a == job[p].addr + i - 1 IN
           job'[p].got[i] = disk[a \div CYLINDER_SIZE][a % CYLINDER_SIZE]]_floppy_vars

(* "THIS SHOULD BE STARTED IN A SEPARATE THREAD": a motor that waits is    *)
(* switched off or used again.                                             *)
MotorStops == (motor_state = "wait") ~> (motor_state # "wait" \/ mode = "panic")

(* The driver and the controller stay in step: FifoInStep through every    *)
(* retry, with the motor running when a command needs it.                  *)
DriverInStep == FloppyTypeOK /\ FifoInStep /\ MotorTurns
=============================================================================
