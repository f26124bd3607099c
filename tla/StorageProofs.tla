---------------------------- MODULE StorageProofs ----------------------------
(***************************************************************************)
(* The floppy driver and the FAT16 file system.                            *)
(*                                                                         *)
(* First the driver with one process in it: the driver and the controller  *)
(* stay in step, and the driver implements the block device.  Then the     *)
(* file system on a disk of any size: chains stay whole, the shell sees    *)
(* every file, and the file system implements a store of files.            *)
(***************************************************************************)
EXTENDS Floppy, Fat16, ListLemmas, FiniteSetTheorems

(* States of the driver used by process p only. *)
Resting == {"idle", "call", "return"}
Cylinders == 0 .. CYLINDERS - 1
Capacity == CYLINDERS * CYLINDER_SIZE

Jobs == [op : {"none", "read", "view", "write"}, addr : Nat, size : Nat,
         value : Values, done : Nat, got : Seq(Values)]
Runs == [pc : Resting \cup {"loop", "spin", "settle", "write", "wait", "read"},
         kind : {"none", "seek", "track", "sense"}, dir : {"none", "read", "write"},
         cyl : Cylinders, head : {0, 1}, try : 0 .. SEEK_RETRIES + TRACK_RETRIES,
         polls : Nat, out : Seq(Int), in : Seq(Int)]
Controllers == [phase : {"cmd", "exec", "result"}, cmd : Seq(Int), result : Seq(Int),
                st0 : Int, cyl : Cylinders]
States(p) ==
  [interrupted : BOOLEAN, floppy_dmacyl : -1 .. CYLINDERS - 1,
   floppy_dmabuf : [Offsets -> Values], dma_dir : {"none", "read", "write"},
   sleep_timer_pid : Int, motor_state : {"off", "on", "wait"}, motor_ticks : Int,
   motor_dor : BOOLEAN, fdc : Controllers, disk : [Cylinders -> [Offsets -> Values]],
   job : [{p} -> Jobs], run : [{p} -> Runs], mode : {"run", "panic"}]

(* The request is on the disk, and no more than it was done. *)
Inside(j) == j.done <= j.size /\ j.addr + j.size <= Capacity

(* The turn of a loop is one of its turns. *)
Rounds(r) ==
  /\ r.kind \in {"seek", "sense"} => r.try < SEEK_RETRIES
  /\ r.kind = "track" => r.try < TRACK_RETRIES

(* The process moves the cylinder of the next byte of its request. *)
Moving(r, j) ==
  /\ j.op # "none" /\ j.done < j.size /\ r.cyl = Where(j).cyl
  /\ r.dir \in {"read", "write"}
  /\ r.dir = "write" => j.op = "write"
Errand(r, j) ==
  /\ r.pc = "idle" => j = NoJob
  /\ r.pc = "call" => j.op # "none" /\ j.done = 0 /\ r.dir = "none"
  /\ r.pc = "return" => j.op # "none" /\ j.done = j.size
  /\ r.pc \notin Resting => Moving(r, j) /\ r.kind # "none"

(* The i-th byte of the command, of which f has the first bytes. *)
Byte(f, r, i) == IF i <= Len(f.cmd) THEN f.cmd[i] ELSE r.out[i - Len(f.cmd)]
CommandByte(r) ==
  IF r.kind = "seek" THEN CMD_SEEK
  ELSE IF r.kind = "sense" THEN CMD_SENSE_INTERRUPT
  ELSE IF r.dir = "read" THEN CMD_READ_DATA ELSE CMD_WRITE_DATA
IsCommand(f, r) ==
  /\ Len(f.cmd) + Len(r.out) = CommandLength(CommandByte(r))
  /\ Byte(f, r, 1) = CommandByte(r)
  /\ r.kind # "sense" => Byte(f, r, 3) = r.cyl

Quiet(f) == f.phase = "cmd" /\ f.cmd = <<>>

(* Where process and controller are in a command. *)
InPhase(r, f, i) ==
  /\ r.pc # "loop"
  /\ r.pc \in Resting \cup {"spin", "settle"} => Quiet(f)
  /\ r.pc = "spin" => r.kind \in {"seek", "track"}
  /\ r.pc = "settle" => r.kind = "track"
  /\ r.pc = "write" =>
       /\ f.phase = "cmd" /\ r.out # <<>> /\ r.in = <<>> /\ IsCommand(f, r)
       /\ r.kind # "sense" => ~i
  /\ r.pc = "wait" =>
       /\ r.kind \in {"seek", "track"} /\ r.in = <<>>
       /\ ~i => f.phase = "exec" /\ r.out = <<>> /\ IsCommand(f, r)
       /\ i /\ r.kind = "seek" => Quiet(f)
       /\ i /\ r.kind = "track" => f.phase = "result" /\ Len(f.result) = 7
  /\ r.pc = "read" =>
       /\ r.kind \in {"sense", "track"} /\ f.phase = "result" /\ f.result # <<>>
       /\ Len(r.in) + Len(f.result) = ResultLength(r.kind)

(* The motor turns while a command is given or executed. *)
Spun(r, state, dor) ==
  /\ state # "off" => dor
  /\ r.pc = "spin" => dor
  /\ r.pc \in {"settle", "write", "wait", "read"} => state = "on"

(* What the buffer holds of a track, and of the track with the bytes of a  *)
(* write in it.                                                            *)
Merged(buf, track, j) ==
  \A o \in Offsets :
    buf[o] = IF o \in Where(j).offset .. Where(j).offset + working_size(j) - 1
             THEN j.value ELSE track[o]

(* The result bytes are all st. *)
AllBytes(r, f, st) ==
  /\ \A i \in 1 .. Len(r.in) : r.in[i] = st
  /\ \A i \in 1 .. Len(f.result) : f.result[i] = st

Ended(r, i) == r.kind = "track" /\ (r.pc = "read" \/ (r.pc = "wait" /\ i))

Held(r, j, f, i, buf, dmacyl, dsk) ==
  /\ r.pc \in Resting /\ dmacyl # -1 => buf = dsk[dmacyl]
  /\ r.pc \notin Resting /\ r.dir = "write" => Merged(buf, dsk[r.cyl], j)
  /\ Ended(r, i) => \E st \in {OK, ERROR, PROTECTED} :
                      AllBytes(r, f, st) /\ (st = OK => buf = dsk[r.cyl])

(* What holds between two steps while the kernel runs. *)
Working(s, p) ==
  /\ Rounds(s.run[p]) /\ Errand(s.run[p], s.job[p])
  /\ InPhase(s.run[p], s.fdc, s.interrupted)
  /\ Spun(s.run[p], s.motor_state, s.motor_dor)
  /\ Held(s.run[p], s.job[p], s.fdc, s.interrupted, s.floppy_dmabuf, s.floppy_dmacyl,
          s.disk)

Good(s, p) ==
  /\ s \in States(p) /\ Inside(s.job[p])
  /\ s.fdc.phase = "exec" => s.motor_dor /\ s.motor_state = "on"
  /\ s.mode = "run" => Working(s, p)

-----------------------------------------------------------------------------
(* Cylinders and offsets.                                                  *)

(* An address on the disk is an offset of one of its cylinders. *)
LEMMA DiskCells ==
  ASSUME NEW a \in 0 .. Capacity - 1
  PROVE  a \div CYLINDER_SIZE \in Cylinders /\ a % CYLINDER_SIZE \in Offsets
<1> DEFINE q == a \div CYLINDER_SIZE
           r == a % CYLINDER_SIZE
<1>1. CYLINDER_SIZE \in Nat \ {0} /\ CYLINDERS \in Nat \ {0}
  BY FloppyAssumption
<1>2. q \in Int /\ r \in 0 .. CYLINDER_SIZE - 1 /\ a = CYLINDER_SIZE * q + r
  BY <1>1, SMT
<1>3. CASE q < 0
  <2>1. q + 1 <= 0 /\ CYLINDER_SIZE * (q + 1) <= 0
    BY <1>1, <1>2, <1>3, SMT
  <2> QED BY <1>1, <1>2, <2>1, SMT
<1>4. CASE q >= CYLINDERS
  <2>1. CYLINDER_SIZE * q >= CYLINDER_SIZE * CYLINDERS
    BY <1>1, <1>2, <1>4, SMT
  <2> QED BY <1>1, <1>2, <2>1, SMT DEF Capacity
<1> QED BY <1>1, <1>2, <1>3, <1>4 DEF Cylinders, Offsets

(* Bytes that follow an address up to the end of its cylinder. *)
LEMMA SameCylinder ==
  ASSUME NEW a \in Nat, NEW k \in Nat, (a % CYLINDER_SIZE) + k < CYLINDER_SIZE
  PROVE  /\ (a + k) \div CYLINDER_SIZE = a \div CYLINDER_SIZE
         /\ (a + k) % CYLINDER_SIZE = (a % CYLINDER_SIZE) + k
<1> DEFINE q == a \div CYLINDER_SIZE
           r == a % CYLINDER_SIZE
<1>1. CYLINDER_SIZE \in Nat \ {0}
  BY FloppyAssumption
<1>2. q \in Int /\ r \in 0 .. CYLINDER_SIZE - 1 /\ a = CYLINDER_SIZE * q + r
  BY <1>1, SMT
<1>3. r + k \in 0 .. CYLINDER_SIZE - 1 /\ a + k = CYLINDER_SIZE * q + (r + k)
  BY <1>1, <1>2
<1> HIDE DEF q, r
<1>4. /\ (CYLINDER_SIZE * q + (r + k)) \div CYLINDER_SIZE = q
      /\ (CYLINDER_SIZE * q + (r + k)) % CYLINDER_SIZE = r + k
  BY <1>1, <1>2, <1>3, Division
<1> QED BY <1>3, <1>4 DEF q, r

(* The bytes a turn moves lie in one cylinder and in the request. *)
LEMMA Workload ==
  ASSUME NEW j \in Jobs, Inside(j), j.done < j.size
  PROVE  /\ Where(j).cyl \in Cylinders /\ Where(j).offset \in Offsets
         /\ working_size(j) \in 1 .. j.size - j.done
         /\ Where(j).offset + working_size(j) <= CYLINDER_SIZE
<1> DEFINE a == j.addr + j.done
<1>1. CYLINDER_SIZE \in Nat \ {0} /\ j.addr \in Nat /\ j.done \in Nat /\ j.size \in Nat
  BY FloppyAssumption DEF Jobs
<1>2. Capacity \in Nat
  BY FloppyAssumption DEF Capacity
<1>3. a \in 0 .. Capacity - 1
  BY <1>1, <1>2 DEF Inside
<1>4. a \div CYLINDER_SIZE \in Cylinders /\ a % CYLINDER_SIZE \in Offsets
  BY <1>3, DiskCells
<1>5. Where(j).cyl = a \div CYLINDER_SIZE /\ Where(j).offset = a % CYLINDER_SIZE
      /\ Where(j).size = CYLINDER_SIZE - (a % CYLINDER_SIZE)
  BY DEF Where, addr_2_coff
<1> HIDE DEF a
<1> QED BY <1>1, <1>4, <1>5 DEF working_size, Offsets

-----------------------------------------------------------------------------
(* Records.                                                                *)

(* Two states that differ in what the process does next only. *)
Alike(s, t) ==
  /\ t.interrupted = s.interrupted /\ t.floppy_dmacyl = s.floppy_dmacyl
  /\ t.floppy_dmabuf = s.floppy_dmabuf /\ t.dma_dir = s.dma_dir
  /\ t.sleep_timer_pid = s.sleep_timer_pid /\ t.motor_state = s.motor_state
  /\ t.motor_ticks = s.motor_ticks /\ t.motor_dor = s.motor_dor /\ t.fdc = s.fdc
  /\ t.disk = s.disk /\ t.job = s.job /\ t.mode = s.mode

(* The empty sequence. *)
LEMMA EmptySequence == <<>> \in Seq(Int) /\ Len(<<>>) = 0
OBVIOUS

(* It is the only one of length 0. *)
LEMMA EmptyLength ==
  ASSUME NEW x \in Seq(Int)
  PROVE  x = <<>> <=> Len(x) = 0
OBVIOUS

(* Seven result bytes are some. *)
LEMMA NonEmpty ==
  ASSUME NEW f \in Controllers, Len(f.result) = 7
  PROVE  f.result # <<>>
<1> DEFINE x == f.result
<1>1. x \in Seq(Int) /\ Len(x) = 7
  BY DEF Controllers
<1> HIDE DEF x
<1>2. x = <<>> => Len(x) = 0
  BY EmptySequence, Zenon
<1>3. 7 # 0
  BY SMT
<1>4. x # <<>>
  BY <1>1, <1>2, <1>3, Zenon
<1> QED BY <1>4 DEF x

(* Writing the locals of the process changes nothing else. *)
LEMMA SetRun ==
  ASSUME NEW p, NEW s \in States(p), NEW r \in Runs
  PROVE  Set(s, p, r) \in States(p) /\ Set(s, p, r).run[p] = r /\ Alike(s, Set(s, p, r))
BY DEF Set, States, Alike

(* The locals of an idle process. *)
LEMMA IdleRuns == Idle \in Runs
<1>1. 0 \in Cylinders /\ 0 \in 0 .. SEEK_RETRIES + TRACK_RETRIES
  BY FloppyAssumption DEF Cylinders
<1> QED BY <1>1, EmptySequence DEF Idle, Runs, Resting

(* Writing fields of the locals. *)
LEMMA SetPc ==
  ASSUME NEW p, NEW s \in States(p), NEW x
  PROVE  [s EXCEPT !.run[p].pc = x] = Set(s, p, [s.run[p] EXCEPT !.pc = x])
BY DEF Set, States, Runs

(* The parts of a state. *)
LEMMA Fields ==
  ASSUME NEW p, NEW s \in States(p)
  PROVE  s.run[p] \in Runs /\ s.job[p] \in Jobs /\ s.fdc \in Controllers
BY DEF States

-----------------------------------------------------------------------------
(* Starting commands.                                                      *)

(* The controller has nothing to do. *)
Vacant(s, p) ==
  /\ s \in States(p) /\ Inside(s.job[p]) /\ s.mode = "run" /\ Quiet(s.fdc)
  /\ s.motor_state # "off" => s.motor_dor

(* Between two commands of do_track. *)
Calm(s, p) ==
  /\ Vacant(s, p) /\ Moving(s.run[p], s.job[p])
  /\ s.run[p].dir = "write" =>
       Merged(s.floppy_dmabuf, s.disk[s.run[p].cyl], s.job[p])

(* The step leaves a good state, and neither the disk nor the answer of    *)
(* the call changed.                                                       *)
Inward(s, t, p) == Good(t, p) /\ t.job = s.job /\ t.disk = s.disk

(* A calm state in which the process is about to sleep. *)
LEMMA CalmGood ==
  ASSUME NEW p, NEW s, Calm(s, p), s.run[p].pc \in {"spin", "settle"},
         Rounds(s.run[p]), s.run[p].kind \in {"seek", "track"},
         s.run[p].pc = "settle" => s.run[p].kind = "track" /\ s.motor_state = "on",
         s.run[p].pc = "spin" => s.motor_dor
  PROVE  Good(s, p)
<1>1. Errand(s.run[p], s.job[p])
  BY DEF Calm, Vacant, Errand, Resting
<1>2. InPhase(s.run[p], s.fdc, s.interrupted)
  BY DEF Calm, Vacant, InPhase
<1>3. Spun(s.run[p], s.motor_state, s.motor_dor)
  BY DEF Calm, Vacant, Spun
<1>4. Held(s.run[p], s.job[p], s.fdc, s.interrupted, s.floppy_dmabuf,
           s.floppy_dmacyl, s.disk)
  BY DEF Calm, Vacant, Held, Ended, Resting
<1>5. s.fdc.phase # "exec"
  BY DEF Calm, Vacant, Quiet
<1> QED BY <1>1, <1>2, <1>3, <1>4, <1>5 DEF Calm, Vacant, Good, Working

(* Being calm does not depend on where the process is. *)
LEMMA CalmSet ==
  ASSUME NEW p, NEW s, Calm(s, p), NEW r \in Runs,
         r.cyl = s.run[p].cyl, r.dir = s.run[p].dir
  PROVE  Calm(Set(s, p, r), p)
<1>1. Set(s, p, r) \in States(p) /\ Set(s, p, r).run[p] = r /\ Alike(s, Set(s, p, r))
  BY SetRun DEF Calm, Vacant
<1> QED BY <1>1 DEF Calm, Vacant, Alike, Moving

(* A command is sent. *)
LEMMA SendGood ==
  ASSUME NEW p, NEW s, Calm(s, p), s.motor_state = "on",
         s.run[p].kind \in {"seek", "track"}, Rounds(s.run[p]),
         NEW bytes \in Seq(Int), Len(bytes) = CommandLength(CommandByte(s.run[p])),
         bytes[1] = CommandByte(s.run[p]), bytes[3] = s.run[p].cyl
  PROVE  Inward(s, SendCommand(s, p, bytes), p)
<1> DEFINE u == [s EXCEPT !.interrupted = FALSE]
           r == [s.run[p] EXCEPT !.pc = "write", !.out = bytes, !.in = <<>>, !.polls = 0]
           t == SendCommand(s, p, bytes)
<1>1. s \in States(p) /\ s.run[p] \in Runs
  BY Fields DEF Calm, Vacant
<1>2. r \in Runs
  BY <1>1, EmptySequence DEF Runs
<1>3. r.pc = "write" /\ r.out = bytes /\ r.in = <<>> /\ r.kind = s.run[p].kind
      /\ r.dir = s.run[p].dir /\ r.cyl = s.run[p].cyl /\ r.try = s.run[p].try
  BY <1>1 DEF Runs
<1>4. u \in States(p) /\ u.interrupted = FALSE /\ u.run = s.run /\ u.job = s.job
      /\ u.fdc = s.fdc /\ u.disk = s.disk /\ u.floppy_dmabuf = s.floppy_dmabuf
      /\ u.motor_state = s.motor_state /\ u.motor_dor = s.motor_dor /\ u.mode = s.mode
  BY <1>1 DEF States
<1>5. t = Set(u, p, r)
  BY DEF SendCommand
<1> HIDE DEF u, r, t
<1>6. t \in States(p) /\ t.run[p] = r /\ Alike(u, t)
  BY <1>2, <1>4, <1>5, SetRun
<1>7. t.interrupted = FALSE /\ t.job = s.job /\ t.fdc = s.fdc /\ t.disk = s.disk
      /\ t.floppy_dmabuf = s.floppy_dmabuf /\ t.motor_state = s.motor_state
      /\ t.motor_dor = s.motor_dor /\ t.mode = s.mode
  BY <1>4, <1>6 DEF Alike
<1>8. Rounds(r)
  BY <1>3 DEF Rounds
<1>9. Errand(r, s.job[p])
  BY <1>3 DEF Errand, Calm, Vacant, Moving, Resting
<1>10. CommandByte(r) = CommandByte(s.run[p])
  BY <1>3 DEF CommandByte
<1>11. Len(bytes) >= 3
  BY <1>3 DEF CommandLength, CommandByte, CMD_SEEK, CMD_READ_DATA, CMD_WRITE_DATA,
              CMD_SENSE_INTERRUPT
<1>12. s.fdc.phase = "cmd" /\ s.fdc.cmd = <<>> /\ Len(s.fdc.cmd) = 0
  BY DEF Calm, Vacant, Quiet
<1>13. IsCommand(s.fdc, r)
  BY <1>3, <1>10, <1>11, <1>12 DEF IsCommand, Byte
<1>14. InPhase(r, s.fdc, FALSE)
  BY <1>3, <1>11, <1>12, <1>13, EmptySequence DEF InPhase, Resting
<1>15. Spun(r, s.motor_state, s.motor_dor)
  BY <1>3 DEF Spun, Calm, Vacant
<1>16. Held(r, s.job[p], s.fdc, FALSE, s.floppy_dmabuf, t.floppy_dmacyl, s.disk)
  BY <1>3 DEF Held, Calm, Vacant, Ended, Resting
<1>17. Good(t, p)
  BY <1>6, <1>7, <1>8, <1>9, <1>12, <1>14, <1>15, <1>16 DEF Good, Working, Calm, Vacant
<1> QED BY <1>7, <1>17 DEF Inward, t

(* A turn of seek. *)
LEMMA SeekTryGood ==
  ASSUME NEW p, NEW s, Calm(s, p), s.motor_state = "on", s.run[p].kind = "seek",
         Rounds(s.run[p])
  PROVE  Inward(s, SeekTry(s, p), p)
<1> DEFINE bytes == <<CMD_SEEK, 4 * s.run[p].head, s.run[p].cyl>>
<1>1. s.run[p].head \in {0, 1} /\ s.run[p].cyl \in Cylinders
  BY Fields DEF Calm, Vacant, Runs
<1>2. CMD_SEEK \in Int /\ 4 * s.run[p].head \in Int /\ s.run[p].cyl \in Int
  BY <1>1, FloppyAssumption DEF CMD_SEEK, Cylinders
<1>3. bytes \in Seq(Int) /\ Len(bytes) = 3 /\ bytes[1] = CMD_SEEK /\ bytes[3] = s.run[p].cyl
  BY <1>2
<1>4. CommandByte(s.run[p]) = CMD_SEEK /\ CommandLength(CMD_SEEK) = 3
  BY DEF CommandByte, CommandLength
<1>5. SeekTry(s, p) = SendCommand(s, p, bytes)
  BY DEF SeekTry
<1> HIDE DEF bytes
<1> QED BY <1>3, <1>4, <1>5, SendGood

(* What follows the motor's start. *)
LEMMA AfterMotorGood ==
  ASSUME NEW p, NEW s, Calm(s, p), s.motor_state = "on",
         s.run[p].kind \in {"seek", "track"}, Rounds(s.run[p])
  PROVE  Inward(s, AfterMotor(s, p), p)
<1>1. CASE s.run[p].kind = "seek"
  BY <1>1, SeekTryGood DEF AfterMotor
<1>2. CASE s.run[p].kind = "track"
  <2> DEFINE u == [s EXCEPT !.dma_dir = s.run[p].dir]
             r == [s.run[p] EXCEPT !.pc = "settle"]
             t == Set(u, p, r)
  <2>1. s \in States(p) /\ s.run[p] \in Runs
    BY Fields DEF Calm, Vacant
  <2>2. AfterMotor(s, p) = t
    BY <1>2, <2>1 DEF AfterMotor, Set, States, Runs
  <2>3. r \in Runs /\ r.pc = "settle" /\ r.kind = "track" /\ r.cyl = s.run[p].cyl
        /\ r.dir = s.run[p].dir /\ r.try = s.run[p].try
    BY <1>2, <2>1 DEF Runs
  <2>4. s.run[p].dir \in {"none", "read", "write"}
    BY <2>1 DEF Runs
  <2>5. u \in States(p) /\ u.run = s.run /\ u.job = s.job
        /\ u.fdc = s.fdc /\ u.disk = s.disk /\ u.floppy_dmabuf = s.floppy_dmabuf
        /\ u.motor_state = s.motor_state /\ u.motor_dor = s.motor_dor /\ u.mode = s.mode
    BY <2>1, <2>4 DEF States
  <2> HIDE DEF u, r
  <2>6. Calm(u, p)
    BY <2>5 DEF Calm, Vacant
  <2>7. Calm(t, p) /\ t.run[p] = r /\ Alike(u, t)
    BY <2>3, <2>5, <2>6, CalmSet, SetRun
  <2>8. Rounds(r)
    BY <1>2, <2>3 DEF Rounds
  <2>9. t.motor_state = "on" /\ t.job = s.job /\ t.disk = s.disk
    BY <2>5, <2>7 DEF Alike
  <2> HIDE DEF t
  <2>10. Good(t, p)
    BY <2>3, <2>7, <2>8, <2>9, CalmGood
  <2> QED BY <2>2, <2>9, <2>10 DEF Inward
<1> QED BY <1>1, <1>2

(* motor(base, motor_on) and what follows. *)
LEMMA WithMotorGood ==
  ASSUME NEW p, NEW s, Calm(s, p), NEW r \in Runs, r.pc = "loop",
         r.cyl = s.run[p].cyl, r.dir = s.run[p].dir, r.kind \in {"seek", "track"},
         Rounds(r)
  PROVE  Inward(s, WithMotor(s, p, r), p)
<1>1. s \in States(p)
  BY DEF Calm, Vacant
<1>2. CASE s.motor_state = "off"
  <2> DEFINE u == [s EXCEPT !.motor_dor = TRUE]
             r2 == [r EXCEPT !.pc = "spin"]
             t == Set(u, p, r2)
  <2>1. MotorOn(s, p, r) = t
    BY <1>2 DEF MotorOn
  <2>2. r2 \in Runs /\ r2.pc = "spin" /\ r2.kind = r.kind /\ r2.cyl = r.cyl
        /\ r2.dir = r.dir /\ r2.try = r.try
    BY DEF Runs
  <2>3. u \in States(p) /\ u.run = s.run /\ u.job = s.job
        /\ u.fdc = s.fdc /\ u.disk = s.disk /\ u.floppy_dmabuf = s.floppy_dmabuf
        /\ u.motor_state = s.motor_state /\ u.motor_dor = TRUE /\ u.mode = s.mode
    BY <1>1 DEF States
  <2> HIDE DEF u, r2
  <2>4. Calm(u, p)
    BY <2>3 DEF Calm, Vacant
  <2>5. Calm(t, p) /\ t.run[p] = r2 /\ Alike(u, t)
    BY <2>2, <2>3, <2>4, CalmSet, SetRun
  <2>6. Rounds(r2)
    BY <2>2 DEF Rounds
  <2>7. t.motor_dor /\ t.job = s.job /\ t.disk = s.disk
    BY <2>3, <2>5 DEF Alike
  <2> HIDE DEF t
  <2>8. Good(t, p)
    BY <2>2, <2>5, <2>6, <2>7, CalmGood
  <2>9. WithMotor(s, p, r) = t
    BY <2>1, <2>2, <2>5 DEF WithMotor
  <2> QED BY <2>7, <2>8, <2>9 DEF Inward
<1>3. CASE s.motor_state # "off"
  <2> DEFINE u == [s EXCEPT !.motor_state = "on"]
             t == Set(u, p, r)
  <2>1. MotorOn(s, p, r) = t
    BY <1>3 DEF MotorOn
  <2>2. u \in States(p) /\ u.run = s.run /\ u.job = s.job
        /\ u.fdc = s.fdc /\ u.disk = s.disk /\ u.floppy_dmabuf = s.floppy_dmabuf
        /\ u.motor_state = "on" /\ u.motor_dor = s.motor_dor /\ u.mode = s.mode
    BY <1>1 DEF States
  <2> HIDE DEF u
  <2>3. Calm(u, p)
    BY <1>3, <2>2 DEF Calm, Vacant
  <2>4. Calm(t, p) /\ t.run[p] = r /\ Alike(u, t)
    BY <2>2, <2>3, CalmSet, SetRun
  <2>5. t.motor_state = "on" /\ t.job = s.job /\ t.disk = s.disk
    BY <2>2, <2>4 DEF Alike
  <2> HIDE DEF t
  <2>6. WithMotor(s, p, r) = AfterMotor(t, p)
    BY <2>1, <2>4 DEF WithMotor
  <2>7. Inward(t, AfterMotor(t, p), p)
    BY <2>4, <2>5, AfterMotorGood
  <2> QED BY <2>5, <2>6, <2>7 DEF Inward
<1> QED BY <1>2, <1>3

(* seek. *)
LEMMA SeekGood ==
  ASSUME NEW p, NEW s, Calm(s, p), NEW head \in {0, 1}
  PROVE  Inward(s, seek(s, p, head), p)
<1> DEFINE r == [s.run[p] EXCEPT !.kind = "seek", !.head = head, !.try = 0, !.pc = "loop"]
<1>1. s.run[p] \in Runs
  BY Fields DEF Calm, Vacant
<1>2. 0 \in 0 .. SEEK_RETRIES + TRACK_RETRIES /\ 0 < SEEK_RETRIES
  BY FloppyAssumption
<1>3. r \in Runs /\ r.pc = "loop" /\ r.cyl = s.run[p].cyl /\ r.dir = s.run[p].dir
      /\ r.kind = "seek" /\ r.try = 0
  BY <1>1, <1>2 DEF Runs
<1>4. seek(s, p, head) = WithMotor(s, p, r)
  BY DEF seek
<1> HIDE DEF r
<1>5. Rounds(r)
  BY <1>2, <1>3 DEF Rounds
<1> QED BY <1>3, <1>4, <1>5, WithMotorGood

(* A turn of do_track. *)
LEMMA TrackTryGood ==
  ASSUME NEW p, NEW s, Calm(s, p), NEW n \in 0 .. TRACK_RETRIES - 1
  PROVE  Inward(s, TrackTry(s, p, n), p)
<1> DEFINE r == [s.run[p] EXCEPT !.kind = "track", !.try = n, !.pc = "loop"]
<1>1. s.run[p] \in Runs
  BY Fields DEF Calm, Vacant
<1>2. n \in 0 .. SEEK_RETRIES + TRACK_RETRIES /\ n < TRACK_RETRIES
  BY FloppyAssumption
<1>3. r \in Runs /\ r.pc = "loop" /\ r.cyl = s.run[p].cyl /\ r.dir = s.run[p].dir
      /\ r.kind = "track" /\ r.try = n
  BY <1>1, <1>2 DEF Runs
<1>4. TrackTry(s, p, n) = WithMotor(s, p, r)
  BY DEF TrackTry
<1> HIDE DEF r
<1>5. Rounds(r)
  BY <1>2, <1>3 DEF Rounds
<1> QED BY <1>3, <1>4, <1>5, WithMotorGood

(* do_track on the cylinder of the next byte. *)
LEMMA DoTrackGood ==
  ASSUME NEW p, NEW s, Vacant(s, p), NEW dir \in {"read", "write"},
         s.job[p].op # "none", s.job[p].done < s.job[p].size,
         dir = "write" =>
           /\ s.job[p].op = "write"
           /\ Merged(s.floppy_dmabuf, s.disk[Where(s.job[p]).cyl], s.job[p])
  PROVE  Inward(s, do_track(s, p, Where(s.job[p]).cyl, dir), p)
<1> DEFINE cyl == Where(s.job[p]).cyl
           pid == IF s.sleep_timer_pid = 0 THEN 1 ELSE s.sleep_timer_pid
           u == [s EXCEPT !.sleep_timer_pid = pid]
           r == [s.run[p] EXCEPT !.cyl = cyl, !.dir = dir]
           t == Set(u, p, r)
<1>1. s \in States(p) /\ s.run[p] \in Runs /\ s.job[p] \in Jobs
  BY Fields DEF Vacant
<1>2. cyl \in Cylinders
  BY <1>1, Workload DEF Vacant
<1>3. pid \in Int
  BY <1>1 DEF States
<1>4. do_track(s, p, cyl, dir) = seek(t, p, 0)
  BY <1>1 DEF do_track, Set, States, Runs
<1> HIDE DEF cyl, pid
<1>5. r \in Runs /\ r.cyl = cyl /\ r.dir = dir
  BY <1>1, <1>2 DEF Runs
<1>6. u \in States(p) /\ u.run = s.run /\ u.job = s.job
      /\ u.fdc = s.fdc /\ u.disk = s.disk /\ u.floppy_dmabuf = s.floppy_dmabuf
      /\ u.motor_state = s.motor_state /\ u.motor_dor = s.motor_dor /\ u.mode = s.mode
  BY <1>1, <1>3 DEF States
<1> HIDE DEF u, r
<1>7. t \in States(p) /\ t.run[p] = r /\ Alike(u, t)
  BY <1>5, <1>6, SetRun
<1> HIDE DEF t
<1>8. t.job = s.job /\ t.disk = s.disk /\ t.fdc = s.fdc /\ t.mode = s.mode
      /\ t.floppy_dmabuf = s.floppy_dmabuf /\ t.motor_state = s.motor_state
      /\ t.motor_dor = s.motor_dor
  BY <1>6, <1>7 DEF Alike
<1>9. Calm(t, p)
  <2>1. Vacant(t, p)
    BY <1>7, <1>8 DEF Vacant
  <2>2. Moving(r, s.job[p])
    BY <1>5 DEF Moving, cyl
  <2>3. dir = "write" => Merged(s.floppy_dmabuf, s.disk[cyl], s.job[p])
    BY DEF cyl
  <2> QED BY <1>5, <1>7, <1>8, <2>1, <2>2, <2>3 DEF Calm
<1>10. Inward(t, seek(t, p, 0), p)
  BY <1>9, SeekGood
<1> QED BY <1>4, <1>8, <1>10 DEF Inward, cyl

-----------------------------------------------------------------------------
(* After a cylinder was loaded or stored.                                  *)

(* The bytes a turn moves have been copied out of the disk. *)
Delivered(s, t, p) ==
  LET j == s.job[p] IN
  /\ j.op # "write" /\ j.done < j.size
  /\ t.job = [s.job EXCEPT ![p] =
       [j EXCEPT !.done = @ + working_size(j),
                 !.got = @ \o [i \in 1 .. working_size(j) |->
                                 s.disk[Where(j).cyl][Where(j).offset + i - 1]]]]

(* The bytes a turn moves are on the disk. *)
Stored(s, t, p) ==
  LET j == s.job[p] IN
  /\ j.op = "write" /\ j.done < j.size
  /\ \A i \in 1 .. working_size(j) :
       s.disk[Where(j).cyl][Where(j).offset + i - 1] = j.value
  /\ t.job = [s.job EXCEPT ![p] = [j EXCEPT !.done = @ + working_size(j)]]

Served(s, t, p) ==
  /\ Good(t, p) /\ t.disk = s.disk
  /\ t.job = s.job \/ Delivered(s, t, p) \/ Stored(s, t, p)

(* The call returns. *)
LEMMA ReturnGood ==
  ASSUME NEW p, NEW s, Vacant(s, p), s.job[p].op # "none", s.job[p].done = s.job[p].size,
         s.floppy_dmacyl # -1 => s.floppy_dmabuf = s.disk[s.floppy_dmacyl]
  PROVE  Inward(s, Return(s, p), p)
<1> DEFINE r == [Idle EXCEPT !.pc = "return"]
           t == Return(s, p)
<1>1. s \in States(p)
  BY DEF Vacant
<1>2. r \in Runs /\ r.pc = "return" /\ r.kind = "none"
  BY IdleRuns DEF Runs, Idle, Resting
<1>3. t = Set(s, p, r)
  BY DEF Return
<1> HIDE DEF r, t
<1>4. t \in States(p) /\ t.run[p] = r /\ Alike(s, t)
  BY <1>1, <1>2, <1>3, SetRun
<1>5. Rounds(r) /\ Errand(r, s.job[p]) /\ InPhase(r, s.fdc, s.interrupted)
      /\ Spun(r, s.motor_state, s.motor_dor)
  BY <1>2 DEF Rounds, Errand, InPhase, Spun, Vacant, Resting
<1>6. Held(r, s.job[p], s.fdc, s.interrupted, s.floppy_dmabuf, s.floppy_dmacyl, s.disk)
  BY <1>2 DEF Held, Ended, Resting
<1>7. Good(t, p)
  BY <1>4, <1>5, <1>6 DEF Good, Working, Alike, Vacant, Quiet
<1> QED BY <1>4, <1>7 DEF Inward, Alike, t

(* The end of a cylinder. *)
LEMMA NextCylinderGood ==
  ASSUME NEW p, NEW s, Vacant(s, p), s.job[p].op # "none",
         s.floppy_dmacyl # -1 => s.floppy_dmabuf = s.disk[s.floppy_dmacyl]
  PROVE  Inward(s, NextCylinder(s, p), p)
<1>1. s.job[p].done \in Nat /\ s.job[p].size \in Nat /\ s.job[p].done <= s.job[p].size
  BY Fields DEF Vacant, Jobs, Inside
<1>2. CASE s.job[p].size > s.job[p].done
  BY <1>1, <1>2, DoTrackGood DEF NextCylinder
<1>3. CASE s.job[p].size = s.job[p].done
  BY <1>1, <1>3, ReturnGood DEF NextCylinder
<1> QED BY <1>1, <1>2, <1>3

(* A job of which more was done. *)
LEMMA WithJob ==
  ASSUME NEW p, NEW s, Vacant(s, p), NEW j \in Jobs, Inside(j)
  PROVE  LET t == [s EXCEPT !.job[p] = j] IN
         /\ Vacant(t, p) /\ t.job[p] = j /\ t.job = [s.job EXCEPT ![p] = j]
         /\ t.disk = s.disk /\ t.floppy_dmabuf = s.floppy_dmabuf
         /\ t.floppy_dmacyl = s.floppy_dmacyl /\ t.run = s.run
BY DEF Vacant, States

(* A read or view copies its bytes out of the buffer and goes on. *)
LEMMA CopyOutGood ==
  ASSUME NEW p, NEW s, Vacant(s, p), s.job[p].op \notin {"none", "write"},
         s.job[p].done < s.job[p].size, s.floppy_dmacyl = Where(s.job[p]).cyl,
         s.floppy_dmabuf = s.disk[s.floppy_dmacyl]
  PROVE  Served(s, NextCylinder(CopyOut(s, p), p), p)
<1> DEFINE j == s.job[p]
           w == working_size(j)
           o == Where(j).offset
           part == [i \in 1 .. w |-> s.floppy_dmabuf[o + i - 1]]
           k == [j EXCEPT !.done = @ + w, !.got = @ \o part]
           u == [s EXCEPT !.job[p] = k]
           t == NextCylinder(u, p)
<1>1. s \in States(p) /\ j \in Jobs /\ Inside(j) /\ j.done < j.size
  BY Fields DEF Vacant
<1>2. o \in Offsets /\ w \in 1 .. j.size - j.done /\ o + w <= CYLINDER_SIZE
  BY <1>1, Workload
<1>3. s.floppy_dmabuf \in [Offsets -> Values]
  BY <1>1 DEF States
<1>4. CopyOut(s, p) = u
  BY DEF CopyOut
<1>5. s.floppy_dmabuf = s.disk[Where(j).cyl]
  OBVIOUS
<1>6. j.got \in Seq(Values) /\ j.done \in Nat /\ j.size \in Nat /\ j.addr \in Nat
  BY <1>1 DEF Jobs
<1>7. k = [j EXCEPT !.done = @ + w,
                    !.got = @ \o [i \in 1 .. w |-> s.disk[Where(j).cyl][o + i - 1]]]
  BY <1>5
<1> HIDE DEF j, w, o
<1>8. part \in Seq(Values)
  <2>1. CYLINDER_SIZE \in Nat
    BY FloppyAssumption
  <2>2. \A i \in 1 .. w : o + i - 1 \in Offsets
    BY <1>2, <1>6, <2>1 DEF Offsets
  <2>3. \A i \in 1 .. w : part[i] \in Values
    BY <1>3, <2>2
  <2>4. w \in Nat
    BY <1>2, <1>6
  <2> QED BY <2>3, <2>4
<1> HIDE DEF part
<1>9. j.got \o part \in Seq(Values) /\ j.done + w \in Nat
  BY <1>2, <1>6, <1>8
<1>10. k \in Jobs
  BY <1>1, <1>9 DEF Jobs
<1>11. k.op = j.op /\ k.done = j.done + w /\ k.size = j.size /\ k.addr = j.addr
  BY <1>1 DEF Jobs
<1> HIDE DEF k
<1>12. Inside(k)
  BY <1>1, <1>2, <1>6, <1>11 DEF Inside
<1>13. /\ Vacant(u, p) /\ u.job[p] = k /\ u.job = [s.job EXCEPT ![p] = k]
       /\ u.disk = s.disk /\ u.floppy_dmabuf = s.floppy_dmabuf
       /\ u.floppy_dmacyl = s.floppy_dmacyl
  BY <1>10, <1>12, WithJob
<1> HIDE DEF u
<1>14. j.op \notin {"none", "write"}
  BY DEF j
<1>15. Inward(u, t, p)
  BY <1>11, <1>13, <1>14, NextCylinderGood
<1> HIDE DEF t
<1>16. Delivered(s, t, p)
  BY <1>1, <1>7, <1>13, <1>14, <1>15 DEF Delivered, Inward, j, w, o
<1> QED BY <1>4, <1>13, <1>15, <1>16 DEF Served, Inward, t

(* A write stored its bytes and goes on. *)
LEMMA StoredGood ==
  ASSUME NEW p, NEW s, Vacant(s, p), s.job[p].op = "write",
         s.job[p].done < s.job[p].size, s.floppy_dmacyl = Where(s.job[p]).cyl,
         s.floppy_dmabuf = s.disk[s.floppy_dmacyl],
         Merged(s.floppy_dmabuf, s.disk[Where(s.job[p]).cyl], s.job[p])
  PROVE  Served(s, NextCylinder([s EXCEPT !.job[p].done = @ + working_size(s.job[p])], p), p)
<1> DEFINE j == s.job[p]
           w == working_size(j)
           o == Where(j).offset
           k == [j EXCEPT !.done = @ + w]
           u == [s EXCEPT !.job[p] = k]
           t == NextCylinder(u, p)
<1>1. s \in States(p) /\ j \in Jobs /\ Inside(j) /\ j.done < j.size
  BY Fields DEF Vacant
<1>2. o \in Offsets /\ w \in 1 .. j.size - j.done /\ o + w <= CYLINDER_SIZE
  BY <1>1, Workload
<1>3. [s EXCEPT !.job[p].done = @ + working_size(s.job[p])] = u
  BY <1>1 DEF States, Jobs
<1>4. j.done \in Nat /\ j.size \in Nat /\ j.addr \in Nat
  BY <1>1 DEF Jobs
<1>5. \A i \in 1 .. w : s.disk[Where(j).cyl][o + i - 1] = j.value
  <2> SUFFICES ASSUME NEW i \in 1 .. w
               PROVE  s.disk[Where(j).cyl][o + i - 1] = j.value
    OBVIOUS
  <2>1. Merged(s.disk[Where(j).cyl], s.disk[Where(j).cyl], j)
    OBVIOUS
  <2>2. CYLINDER_SIZE \in Nat /\ i \in Int /\ w \in Int /\ o \in Int
    BY <1>2, <1>4, FloppyAssumption DEF Offsets
  <2>3. o + i - 1 \in Offsets /\ o + i - 1 \in o .. o + w - 1
    BY <1>2, <2>2 DEF Offsets
  <2> HIDE DEF j
  <2> QED BY <2>1, <2>3 DEF Merged
<1> HIDE DEF j, w, o
<1>6. k \in Jobs
  BY <1>1, <1>2, <1>4 DEF Jobs
<1>7. k.op = j.op /\ k.done = j.done + w /\ k.size = j.size /\ k.addr = j.addr
  BY <1>1 DEF Jobs
<1>8. k = [j EXCEPT !.done = @ + w]
  OBVIOUS
<1> HIDE DEF k
<1>9. Inside(k)
  BY <1>1, <1>2, <1>4, <1>7 DEF Inside
<1>10. /\ Vacant(u, p) /\ u.job[p] = k /\ u.job = [s.job EXCEPT ![p] = k]
       /\ u.disk = s.disk /\ u.floppy_dmabuf = s.floppy_dmabuf
       /\ u.floppy_dmacyl = s.floppy_dmacyl
  BY <1>6, <1>9, WithJob
<1> HIDE DEF u
<1>11. j.op = "write"
  BY DEF j
<1>12. Inward(u, t, p)
  BY <1>7, <1>10, <1>11, NextCylinderGood
<1> HIDE DEF t
<1>13. Stored(s, t, p)
  BY <1>1, <1>5, <1>8, <1>10, <1>11, <1>12 DEF Stored, Inward, j, w, o
<1> QED BY <1>3, <1>10, <1>12, <1>13 DEF Served, Inward, t

(* A write puts its bytes into the buffer and stores the cylinder. *)
LEMMA CopyInGood ==
  ASSUME NEW p, NEW s, Vacant(s, p), s.job[p].op = "write",
         s.job[p].done < s.job[p].size, s.floppy_dmacyl = Where(s.job[p]).cyl,
         s.floppy_dmabuf = s.disk[s.floppy_dmacyl]
  PROVE  Inward(s, do_track(CopyIn(s, p), p, Where(s.job[p]).cyl, "write"), p)
<1> DEFINE j == s.job[p]
           w == working_size(j)
           o == Where(j).offset
           buf == [i \in Offsets |-> IF i \in o .. o + w - 1 THEN j.value
                                                            ELSE s.floppy_dmabuf[i]]
           u == [s EXCEPT !.floppy_dmabuf = buf]
<1>1. s \in States(p) /\ j \in Jobs
  BY Fields DEF Vacant
<1>2. CopyIn(s, p) = u
  BY DEF CopyIn
<1>3. j.value \in Values /\ s.floppy_dmabuf \in [Offsets -> Values]
  BY <1>1 DEF Jobs, States
<1>4. buf \in [Offsets -> Values]
  BY <1>3
<1>5. Merged(buf, s.disk[Where(j).cyl], j)
  BY DEF Merged
<1> HIDE DEF buf, w, o
<1>6. u \in States(p) /\ u.run = s.run /\ u.job = s.job
      /\ u.fdc = s.fdc /\ u.disk = s.disk /\ u.floppy_dmabuf = buf
      /\ u.motor_state = s.motor_state /\ u.motor_dor = s.motor_dor /\ u.mode = s.mode
  BY <1>1, <1>4 DEF States
<1> HIDE DEF u
<1>7. Vacant(u, p)
  BY <1>6 DEF Vacant
<1>8. Inward(u, do_track(u, p, Where(u.job[p]).cyl, "write"), p)
  BY <1>5, <1>6, <1>7, DoTrackGood
<1> QED BY <1>2, <1>6, <1>8 DEF Inward

(* What follows a do_cached that returned 0. *)
LEMMA LoadedGood ==
  ASSUME NEW p, NEW s, Vacant(s, p), s.job[p].op # "none",
         s.job[p].done < s.job[p].size, s.floppy_dmacyl = Where(s.job[p]).cyl,
         s.floppy_dmabuf = s.disk[s.floppy_dmacyl],
         s.run[p].dir = "write" =>
           Merged(s.floppy_dmabuf, s.disk[Where(s.job[p]).cyl], s.job[p])
  PROVE  Served(s, Loaded(s, p), p)
<1>1. CASE s.job[p].op # "write"
  BY <1>1, CopyOutGood DEF Loaded
<1>2. CASE s.job[p].op = "write" /\ s.run[p].dir # "write"
  BY <1>2, CopyInGood DEF Loaded, Served, Inward
<1>3. CASE s.job[p].op = "write" /\ s.run[p].dir = "write"
  BY <1>3, StoredGood DEF Loaded
<1> QED BY <1>1, <1>2, <1>3

-----------------------------------------------------------------------------
(* Steps of the process.                                                   *)

(* A process between two commands is calm. *)
LEMMA GoodCalm ==
  ASSUME NEW p, NEW s, Good(s, p), s.mode = "run", s.run[p].pc \in {"spin", "settle"}
  PROVE  /\ Calm(s, p) /\ Rounds(s.run[p]) /\ s.motor_dor
         /\ s.run[p].kind \in {"seek", "track"}
         /\ s.run[p].pc = "settle" => s.run[p].kind = "track" /\ s.motor_state = "on"
<1>1. Working(s, p)
  BY DEF Good
<1>2. Quiet(s.fdc) /\ s.run[p].kind \in {"seek", "track"}
      /\ (s.run[p].pc = "settle" => s.run[p].kind = "track")
  BY <1>1 DEF Working, InPhase
<1>3. s.motor_dor /\ (s.run[p].pc = "settle" => s.motor_state = "on")
  BY <1>1 DEF Working, Spun
<1>4. Moving(s.run[p], s.job[p])
  BY <1>1 DEF Working, Errand, Resting
<1>5. s.run[p].dir = "write" => Merged(s.floppy_dmabuf, s.disk[s.run[p].cyl], s.job[p])
  BY <1>1 DEF Working, Held, Resting
<1> QED BY <1>1, <1>2, <1>3, <1>4, <1>5 DEF Good, Working, Calm, Vacant

(* The sleep of motor is over: Spin. *)
LEMMA SpinGood ==
  ASSUME NEW p, NEW s, Good(s, p), s.mode = "run", s.run[p].pc = "spin"
  PROVE  Inward(s, AfterMotor([s EXCEPT !.motor_state = "on"], p), p)
<1> DEFINE u == [s EXCEPT !.motor_state = "on"]
<1>1. Calm(s, p) /\ Rounds(s.run[p]) /\ s.motor_dor /\ s.run[p].kind \in {"seek", "track"}
  BY GoodCalm
<1>2. s \in States(p)
  BY DEF Good
<1>3. u \in States(p) /\ u.run = s.run /\ u.job = s.job
      /\ u.fdc = s.fdc /\ u.disk = s.disk /\ u.floppy_dmabuf = s.floppy_dmabuf
      /\ u.motor_state = "on" /\ u.motor_dor = s.motor_dor /\ u.mode = s.mode
  BY <1>2 DEF States
<1> HIDE DEF u
<1>4. Calm(u, p)
  BY <1>1, <1>3 DEF Calm, Vacant
<1>5. Inward(u, AfterMotor(u, p), p)
  BY <1>1, <1>3, <1>4, AfterMotorGood
<1> QED BY <1>3, <1>5 DEF Inward, u

(* The sleep of 100 ms is over: Settle. *)
LEMMA SettleGood ==
  ASSUME NEW p, NEW s, Good(s, p), s.mode = "run", s.run[p].pc = "settle"
  PROVE  Inward(s, SendCommand(s, p, TrackCommand(s.run[p])), p)
<1> DEFINE r == s.run[p]
           bytes == TrackCommand(r)
<1>1. Calm(s, p) /\ Rounds(r) /\ r.kind = "track" /\ s.motor_state = "on"
  BY GoodCalm
<1>2. r.cyl \in Int
  BY <1>1, Fields, FloppyAssumption DEF Calm, Vacant, Runs, Cylinders
<1>3. /\ bytes \in Seq(Int) /\ Len(bytes) = 9 /\ bytes[3] = r.cyl
      /\ bytes[1] = IF r.dir = "read" THEN CMD_READ_DATA ELSE CMD_WRITE_DATA
  BY <1>2 DEF TrackCommand, CMD_READ_DATA, CMD_WRITE_DATA
<1>4. bytes[1] = CommandByte(r) /\ CommandLength(CommandByte(r)) = 9
  BY <1>1, <1>3 DEF CommandByte, CommandLength, CMD_SEEK, CMD_READ_DATA, CMD_WRITE_DATA
<1> HIDE DEF bytes
<1>5. Inward(s, SendCommand(s, p, bytes), p)
  BY <1>1, <1>3, <1>4, SendGood
<1> QED BY <1>5 DEF bytes

(* A byte goes from the process to the controller. *)
LEMMA PassByte ==
  ASSUME NEW c \in Seq(Int), NEW o \in Seq(Int), o # <<>>, NEW i \in 1 .. Len(c) + Len(o)
  PROVE  LET d == Append(c, Head(o)) IN
         (IF i <= Len(d) THEN d[i] ELSE Tail(o)[i - Len(d)])
           = (IF i <= Len(c) THEN c[i] ELSE o[i - Len(c)])
<1> DEFINE d == Append(c, Head(o))
<1>1. Len(c) \in Nat /\ Len(o) \in Nat /\ Len(o) > 0 /\ Head(o) = o[1]
  OBVIOUS
<1>2. Len(d) = Len(c) + 1 /\ d[Len(c) + 1] = o[1] /\ \A k \in 1 .. Len(c) : d[k] = c[k]
  BY <1>1
<1>3. \A k \in 1 .. Len(o) - 1 : Tail(o)[k] = o[k + 1]
  BY <1>1
<1> HIDE DEF d
<1>4. CASE i <= Len(c)
  BY <1>1, <1>2, <1>4 DEF d
<1>5. CASE i = Len(c) + 1
  BY <1>1, <1>2, <1>5 DEF d
<1>6. CASE i > Len(c) + 1
  <2>1. i - Len(d) \in 1 .. Len(o) - 1 /\ (i - Len(d)) + 1 = i - Len(c)
    BY <1>1, <1>2, <1>6
  <2>2. Tail(o)[i - Len(d)] = o[i - Len(c)]
    BY <1>3, <2>1
  <2> QED BY <1>1, <1>2, <1>6, <2>2 DEF d
<1> QED BY <1>1, <1>4, <1>5, <1>6

(* The controller changes, and nothing else. *)
LEMMA SetFdc ==
  ASSUME NEW p, NEW s \in States(p), NEW f \in Controllers
  PROVE  LET t == [s EXCEPT !.fdc = f] IN
         /\ t \in States(p) /\ t.fdc = f /\ t.run = s.run /\ t.job = s.job
         /\ t.disk = s.disk /\ t.interrupted = s.interrupted /\ t.mode = s.mode
         /\ t.floppy_dmabuf = s.floppy_dmabuf /\ t.floppy_dmacyl = s.floppy_dmacyl
         /\ t.motor_state = s.motor_state /\ t.motor_dor = s.motor_dor
BY DEF States

(* A state in which only the controller and the locals have changed. *)
Handed(s, t) ==
  /\ t.job = s.job /\ t.disk = s.disk /\ t.interrupted = s.interrupted
  /\ t.mode = s.mode /\ t.floppy_dmabuf = s.floppy_dmabuf
  /\ t.floppy_dmacyl = s.floppy_dmacyl /\ t.motor_state = s.motor_state
  /\ t.motor_dor = s.motor_dor

(* The controller and the locals change. *)
LEMMA SetBoth ==
  ASSUME NEW p, NEW s \in States(p), NEW f \in Controllers, NEW r \in Runs
  PROVE  LET t == Set([s EXCEPT !.fdc = f], p, r) IN
         t \in States(p) /\ t.fdc = f /\ t.run[p] = r /\ Handed(s, t)
<1> DEFINE u == [s EXCEPT !.fdc = f]
<1>1. /\ u \in States(p) /\ u.fdc = f /\ u.run = s.run /\ u.job = s.job
      /\ u.disk = s.disk /\ u.interrupted = s.interrupted /\ u.mode = s.mode
      /\ u.floppy_dmabuf = s.floppy_dmabuf /\ u.floppy_dmacyl = s.floppy_dmacyl
      /\ u.motor_state = s.motor_state /\ u.motor_dor = s.motor_dor
  BY SetFdc
<1> HIDE DEF u
<1>2. Set(u, p, r) \in States(p) /\ Set(u, p, r).run[p] = r /\ Alike(u, Set(u, p, r))
  BY <1>1, SetRun
<1> QED BY <1>1, <1>2 DEF Alike, Handed, u

(* A step inside a command: the process keeps its errand and the motor     *)
(* turns.                                                                  *)
LEMMA HandedGood ==
  ASSUME NEW p, NEW s, Good(s, p), s.mode = "run",
         s.run[p].pc \in {"write", "wait", "read"},
         NEW t \in States(p), Handed(s, t),
         t.run[p].pc \in {"write", "wait", "read"},
         t.run[p].dir = s.run[p].dir, t.run[p].cyl = s.run[p].cyl,
         t.run[p].try = s.run[p].try, t.run[p].kind # "none",
         t.run[p].kind = s.run[p].kind \/ (s.run[p].kind = "seek" /\ t.run[p].kind = "sense"),
         InPhase(t.run[p], t.fdc, t.interrupted),
         Ended(t.run[p], t.interrupted) =>
           \E st \in {OK, ERROR, PROTECTED} :
             AllBytes(t.run[p], t.fdc, st)
             /\ (st = OK => s.floppy_dmabuf = s.disk[s.run[p].cyl])
  PROVE  Inward(s, t, p)
<1>1. Working(s, p)
  BY DEF Good
<1>2. Rounds(t.run[p])
  BY <1>1 DEF Working, Rounds
<1>3. Errand(t.run[p], t.job[p])
  BY <1>1 DEF Working, Errand, Resting, Moving, Handed
<1>4. s.motor_state = "on" /\ s.motor_dor
  BY <1>1 DEF Working, Spun
<1>5. Spun(t.run[p], t.motor_state, t.motor_dor)
  BY <1>4 DEF Spun, Handed
<1>6. s.run[p].dir = "write" => Merged(s.floppy_dmabuf, s.disk[s.run[p].cyl], s.job[p])
  BY <1>1 DEF Working, Held, Resting
<1>7. Held(t.run[p], t.job[p], t.fdc, t.interrupted, t.floppy_dmabuf, t.floppy_dmacyl,
           t.disk)
  BY <1>6 DEF Held, Handed, Resting
<1>8. Good(t, p)
  BY <1>2, <1>3, <1>4, <1>5, <1>7 DEF Good, Working, Handed
<1> QED BY <1>8 DEF Inward, Handed

(* The state write_cmd leaves. *)
Written(s, p) ==
  Set(FifoWrite(s, Head(s.run[p].out)), p, [s.run[p] EXCEPT !.out = Tail(@), !.polls = 0])
AfterWrite(s, p) ==
  LET t == Written(s, p) IN
  IF ~Ready(s) THEN Poll(s, p)
  ELSE IF t.run[p].out # <<>> THEN t
  ELSE IF t.run[p].kind = "sense" THEN [t EXCEPT !.run[p].pc = "read"]
  ELSE Waited(t, p)

(* What is known when a byte is written. *)
LEMMA AtWrite ==
  ASSUME NEW p, NEW s, Good(s, p), s.mode = "run", s.run[p].pc = "write"
  PROVE  LET r == s.run[p]
             cmd == Append(s.fdc.cmd, Head(r.out))
         IN /\ s \in States(p) /\ r \in Runs /\ s.fdc \in Controllers
            /\ r.kind \in {"seek", "track", "sense"} /\ r.in = <<>>
            /\ s.fdc.phase = "cmd"
            /\ r.kind # "sense" => ~s.interrupted
            /\ cmd \in Seq(Int) /\ Tail(r.out) \in Seq(Int) /\ Len(cmd) \in Nat \ {0}
            /\ Len(Tail(r.out)) = Len(r.out) - 1
            /\ Len(cmd) + Len(Tail(r.out)) = CommandLength(CommandByte(r))
            /\ cmd[1] = CommandByte(r)
            /\ \A f \in Controllers, q \in Runs :
                 (f.cmd = cmd /\ q.out = Tail(r.out) /\ q.kind = r.kind /\ q.dir = r.dir
                  /\ q.cyl = r.cyl) => IsCommand(f, q)
<1> DEFINE r == s.run[p]
           c == s.fdc.cmd
           o == r.out
           cmd == Append(c, Head(o))
           total == CommandLength(CommandByte(r))
<1>1. s \in States(p) /\ r \in Runs /\ s.fdc \in Controllers
  BY Fields DEF Good
<1>2. Working(s, p)
  BY DEF Good
<1>3. /\ s.fdc.phase = "cmd" /\ o # <<>> /\ r.in = <<>> /\ IsCommand(s.fdc, r)
      /\ r.kind # "sense" => ~s.interrupted
  BY <1>2 DEF Working, InPhase
<1>4. r.kind \in {"seek", "track", "sense"}
  BY <1>1, <1>2 DEF Working, Errand, Resting, Runs
<1>5. c \in Seq(Int) /\ o \in Seq(Int)
  BY <1>1 DEF Controllers, Runs
<1>6. total \in {1, 3, 9} /\ (r.kind # "sense" => total \in {3, 9})
  BY <1>4 DEF CommandLength, CommandByte, CMD_SEEK, CMD_READ_DATA, CMD_WRITE_DATA,
              CMD_SENSE_INTERRUPT
<1>7. /\ Len(c) + Len(o) = total /\ Byte(s.fdc, r, 1) = CommandByte(r)
      /\ r.kind # "sense" => Byte(s.fdc, r, 3) = r.cyl
  BY <1>3 DEF IsCommand
<1> HIDE DEF total, r, c, o
<1>8. /\ Len(c) \in Nat /\ Len(o) \in Nat \ {0} /\ Tail(o) \in Seq(Int)
      /\ Len(Tail(o)) = Len(o) - 1
  BY <1>3, <1>5
<1>9. cmd \in Seq(Int) /\ Len(cmd) = Len(c) + 1
  BY <1>3, <1>5
<1>10. ASSUME NEW i \in 1 .. total
       PROVE  (IF i <= Len(cmd) THEN cmd[i] ELSE Tail(o)[i - Len(cmd)]) = Byte(s.fdc, r, i)
  BY <1>3, <1>5, <1>7, PassByte DEF Byte, c, o
<1> HIDE DEF cmd
<1>11. Len(cmd) + Len(Tail(o)) = total
  BY <1>7, <1>8, <1>9
<1>12. cmd[1] = CommandByte(r)
  <2>1. 1 \in 1 .. total /\ 1 <= Len(cmd)
    BY <1>6, <1>8, <1>9
  <2> QED BY <1>7, <1>10, <2>1
<1>13. ASSUME NEW f \in Controllers, NEW q \in Runs, f.cmd = cmd, q.out = Tail(o),
              q.kind = r.kind, q.dir = r.dir, q.cyl = r.cyl
       PROVE  IsCommand(f, q)
  <2>1. CommandByte(q) = CommandByte(r)
    BY <1>13 DEF CommandByte
  <2>2. Len(f.cmd) + Len(q.out) = CommandLength(CommandByte(q))
    BY <1>11, <1>13, <2>1 DEF total
  <2>3. \A i : Byte(f, q, i) = IF i <= Len(cmd) THEN cmd[i] ELSE Tail(o)[i - Len(cmd)]
    BY <1>13 DEF Byte
  <2>4. ASSUME NEW i \in 1 .. total PROVE Byte(f, q, i) = Byte(s.fdc, r, i)
    BY <1>10, <2>3
  <2>5. Byte(f, q, 1) = CommandByte(q)
    BY <1>6, <1>7, <2>1, <2>4
  <2>6. q.kind # "sense" => Byte(f, q, 3) = q.cyl
    BY <1>6, <1>7, <1>13, <2>4
  <2> QED BY <2>2, <2>5, <2>6 DEF IsCommand
<1>14. \A f \in Controllers, q \in Runs :
         (f.cmd = cmd /\ q.out = Tail(o) /\ q.kind = r.kind /\ q.dir = r.dir
          /\ q.cyl = r.cyl) => IsCommand(f, q)
  BY <1>13
<1>15. Len(cmd) \in Nat \ {0}
  BY <1>8, <1>9
<1> QED BY <1>1, <1>3, <1>4, <1>8, <1>9, <1>11, <1>12, <1>14, <1>15
        DEF cmd, r, c, o, total

(* write_cmd: a byte, and after the last one the answer or the wait. *)
LEMMA WriteGood ==
  ASSUME NEW p, NEW s, Good(s, p), s.mode = "run", s.run[p].pc = "write"
  PROVE  Inward(s, AfterWrite(s, p), p)
<1> DEFINE r == s.run[p]
           cmd == Append(s.fdc.cmd, Head(r.out))
           rest == Tail(r.out)
           total == CommandLength(CommandByte(r))
           r1 == [r EXCEPT !.out = rest, !.polls = 0]
           t == Written(s, p)
<1>1. /\ s \in States(p) /\ r \in Runs /\ s.fdc \in Controllers
      /\ r.kind \in {"seek", "track", "sense"} /\ r.in = <<>> /\ s.fdc.phase = "cmd"
      /\ cmd \in Seq(Int) /\ rest \in Seq(Int) /\ Len(cmd) \in Nat \ {0}
      /\ Len(cmd) + Len(rest) = total /\ cmd[1] = CommandByte(r)
  BY AtWrite
<1>2. r.kind # "sense" => ~s.interrupted
  BY AtWrite
<1>3. \A f \in Controllers, q \in Runs :
        (f.cmd = cmd /\ q.out = rest /\ q.kind = r.kind /\ q.dir = r.dir
         /\ q.cyl = r.cyl) => IsCommand(f, q)
  BY AtWrite
<1>4. Ready(s) /\ r.pc = "write"
  BY <1>1 DEF Ready
<1>5. t = Set(FifoWrite(s, Head(r.out)), p, r1)
  BY DEF Written
<1>6. FifoWrite(s, Head(r.out)) =
        IF Len(cmd) < total THEN [s EXCEPT !.fdc.cmd = cmd]
        ELSE [s EXCEPT !.fdc =
               [@ EXCEPT !.cmd = cmd,
                         !.phase = IF Len(cmd) = 1 THEN "result" ELSE "exec",
                         !.result = IF CommandByte(r) = CMD_SENSE_INTERRUPT
                                    THEN <<s.fdc.st0, s.fdc.cyl>>
                                    ELSE IF Len(cmd) = 1 THEN <<ERROR>> ELSE <<>>]]
  BY <1>1 DEF FifoWrite
<1>7. AfterWrite(s, p) = IF t.run[p].out # <<>> THEN t
                         ELSE IF t.run[p].kind = "sense" THEN [t EXCEPT !.run[p].pc = "read"]
                         ELSE Waited(t, p)
  BY <1>4 DEF AfterWrite
<1> HIDE DEF r, cmd, rest, total, t
<1>8. /\ r1 \in Runs /\ r1.pc = "write" /\ r1.out = rest /\ r1.in = <<>>
      /\ r1.kind = r.kind /\ r1.dir = r.dir /\ r1.cyl = r.cyl /\ r1.try = r.try
  BY <1>1, <1>4 DEF Runs
<1>9. Len(rest) \in Nat /\ (rest = <<>> <=> Len(rest) = 0) /\ total \in {1, 3, 9}
      /\ (r.kind = "sense" <=> total = 1)
      /\ (r.kind = "sense" <=> CommandByte(r) = CMD_SENSE_INTERRUPT)
  <2>1. Len(rest) \in Nat /\ (rest = <<>> <=> Len(rest) = 0)
    BY <1>1
  <2>2. (r.kind = "sense" <=> CommandByte(r) = CMD_SENSE_INTERRUPT)
    BY <1>1 DEF CommandByte, CMD_SEEK, CMD_READ_DATA, CMD_WRITE_DATA, CMD_SENSE_INTERRUPT
  <2>3. total \in {1, 3, 9} /\ (r.kind = "sense" <=> total = 1)
    BY <1>1 DEF total, CommandLength, CommandByte, CMD_SEEK, CMD_READ_DATA,
                CMD_WRITE_DATA, CMD_SENSE_INTERRUPT
  <2> QED BY <2>1, <2>2, <2>3
<1> HIDE DEF r1
<1>10. CASE Len(cmd) < total
  <2> DEFINE f == [s.fdc EXCEPT !.cmd = cmd]
  <2>1. f \in Controllers /\ f.cmd = cmd /\ f.phase = "cmd"
    BY <1>1 DEF Controllers
  <2>2. [s EXCEPT !.fdc.cmd = cmd] = [s EXCEPT !.fdc = f]
    BY <1>1 DEF States, Controllers
  <2> HIDE DEF f
  <2>3. t = Set([s EXCEPT !.fdc = f], p, r1)
    BY <1>5, <1>6, <1>10, <2>2
  <2>4. t \in States(p) /\ t.fdc = f /\ t.run[p] = r1 /\ Handed(s, t)
    BY <1>1, <1>8, <2>1, <2>3, SetBoth
  <2>5. rest # <<>>
    BY <1>1, <1>9, <1>10
  <2>6. IsCommand(f, r1)
    BY <1>3, <1>8, <2>1
  <2>7. InPhase(r1, f, s.interrupted)
    BY <1>2, <1>8, <2>1, <2>5, <2>6 DEF InPhase, Resting
  <2>8. ~Ended(r1, s.interrupted)
    BY <1>8 DEF Ended
  <2>9. t.interrupted = s.interrupted
    BY <2>4 DEF Handed
  <2>10. Inward(s, t, p)
    BY <1>1, <1>4, <1>8, <2>4, <2>7, <2>8, <2>9, HandedGood DEF r
  <2> QED BY <1>7, <1>8, <2>4, <2>5, <2>10
<1>11. CASE Len(cmd) = total /\ r.kind = "sense"
  <2> DEFINE bytes == <<s.fdc.st0, s.fdc.cyl>>
             f == [s.fdc EXCEPT !.cmd = cmd, !.phase = "result", !.result = bytes]
             r2 == [r1 EXCEPT !.pc = "read"]
             u == Set([s EXCEPT !.fdc = f], p, r2)
  <2>1. bytes \in Seq(Int) /\ Len(bytes) = 2 /\ bytes # <<>>
    <3>1. s.fdc.st0 \in Int /\ s.fdc.cyl \in Int
      BY <1>1, FloppyAssumption DEF Controllers, Cylinders
    <3> QED BY <3>1
  <2>2. FifoWrite(s, Head(r.out)) = [s EXCEPT !.fdc = f]
    BY <1>1, <1>6, <1>9, <1>11
  <2> HIDE DEF bytes
  <2>3. f \in Controllers /\ f.phase = "result" /\ f.result = bytes
    BY <1>1, <2>1 DEF Controllers
  <2>4. r2 \in Runs /\ r2.pc = "read" /\ r2.in = <<>> /\ r2.kind = "sense"
        /\ r2.dir = r.dir /\ r2.cyl = r.cyl /\ r2.try = r.try
    BY <1>8, <1>11 DEF Runs
  <2>5. Len(f.result) = 2 /\ f.result # <<>>
    BY <2>1, <2>3
  <2> HIDE DEF f
  <2>6. t \in States(p) /\ t.run[p] = r1
    BY <1>1, <1>5, <1>8, <2>3, <2>2, SetBoth
  <2>7. rest = <<>>
    BY <1>1, <1>9, <1>11
  <2>8. AfterWrite(s, p) = Set(t, p, r2)
    BY <1>7, <1>8, <1>11, <2>6, <2>7, SetPc
  <2>9. Set(t, p, r2) = u
    BY <1>1, <1>5, <2>2 DEF Set, States
  <2> HIDE DEF r2
  <2>10. u \in States(p) /\ u.fdc = f /\ u.run[p] = r2 /\ Handed(s, u)
    BY <1>1, <2>3, <2>4, SetBoth
  <2> HIDE DEF u
  <2>11. InPhase(r2, f, s.interrupted)
    BY <2>3, <2>4, <2>5, EmptySequence DEF InPhase, Resting, ResultLength
  <2>12. ~Ended(r2, s.interrupted)
    BY <2>4 DEF Ended
  <2>13. u.interrupted = s.interrupted
    BY <2>10 DEF Handed
  <2>14. Inward(s, u, p)
    BY <1>1, <1>4, <1>11, <2>4, <2>10, <2>11, <2>12, <2>13, HandedGood DEF r
  <2> QED BY <2>8, <2>9, <2>14
<1>12. CASE Len(cmd) = total /\ r.kind # "sense"
  <2> DEFINE f == [s.fdc EXCEPT !.cmd = cmd, !.phase = "exec", !.result = <<>>]
             r2 == [r1 EXCEPT !.pc = "wait"]
             u == Set([s EXCEPT !.fdc = f], p, r2)
  <2>2. f \in Controllers /\ f.phase = "exec" /\ f.cmd = cmd
    BY <1>1, EmptySequence DEF Controllers
  <2>1. ~(Len(cmd) < total) /\ Len(cmd) # 1 /\ CommandByte(r) # CMD_SENSE_INTERRUPT
    BY <1>1, <1>9, <1>12
  <2>3. FifoWrite(s, Head(r.out)) = [s EXCEPT !.fdc = f]
    BY <1>6, <2>1
  <2>4. r2 \in Runs /\ r2.pc = "wait" /\ r2.in = <<>> /\ r2.kind = r.kind
        /\ r2.dir = r.dir /\ r2.cyl = r.cyl /\ r2.try = r.try /\ r2.out = rest
    BY <1>8 DEF Runs
  <2> HIDE DEF f
  <2>6. t \in States(p) /\ t.run[p] = r1 /\ Handed(s, t)
    BY <1>1, <1>5, <1>8, <2>2, <2>3, SetBoth
  <2>7. rest = <<>> /\ ~t.interrupted
    BY <1>1, <1>2, <1>9, <1>12, <2>6 DEF Handed
  <2>8. AfterWrite(s, p) = Set(t, p, r2)
    <3>1. AfterWrite(s, p) = Waited(t, p)
      BY <1>7, <1>8, <1>12, <2>6, <2>7
    <3>2. Waited(t, p) = [t EXCEPT !.run[p].pc = "wait"]
      BY <2>7 DEF Waited
    <3> QED BY <2>6, <3>1, <3>2, SetPc
  <2>9. Set(t, p, r2) = u
    BY <1>1, <1>5, <2>3 DEF Set, States
  <2> HIDE DEF r2
  <2>10. u \in States(p) /\ u.fdc = f /\ u.run[p] = r2 /\ Handed(s, u)
    BY <1>1, <2>2, <2>4, SetBoth
  <2> HIDE DEF u
  <2>11. IsCommand(f, r2)
    BY <1>3, <2>2, <2>4
  <2>12. ~s.interrupted
    BY <1>2, <1>12
  <2>13. InPhase(r2, f, s.interrupted)
    BY <1>1, <1>12, <2>2, <2>4, <2>7, <2>11, <2>12 DEF InPhase, Resting
  <2>14. ~Ended(r2, s.interrupted)
    BY <2>4, <2>12 DEF Ended
  <2>15. u.interrupted = s.interrupted
    BY <2>10 DEF Handed
  <2>16. Inward(s, u, p)
    BY <1>1, <1>4, <1>12, <2>4, <2>10, <2>13, <2>14, <2>15, HandedGood DEF r
  <2> QED BY <2>8, <2>9, <2>16
<1> QED
  <2>1. Len(cmd) <= total
    BY <1>1, <1>9
  <2> QED BY <1>1, <1>9, <1>10, <1>11, <1>12, <2>1

(* wait_interrupt: the interrupt has come. *)
LEMMA WaitGood ==
  ASSUME NEW p, NEW s, Good(s, p), s.mode = "run", s.run[p].pc = "wait", s.interrupted = TRUE
  PROVE  Inward(s, Waited(s, p), p)
<1> DEFINE r == s.run[p]
<1>1. s \in States(p) /\ r \in Runs
  BY Fields DEF Good
<1>2. Working(s, p) /\ r.pc = "wait"
  BY DEF Good
<1>3. /\ r.kind \in {"seek", "track"} /\ r.in = <<>>
      /\ r.kind = "seek" => Quiet(s.fdc)
      /\ r.kind = "track" => s.fdc.phase = "result" /\ Len(s.fdc.result) = 7
  BY <1>2 DEF Working, InPhase
<1>4. CASE r.kind = "seek"
  <2> DEFINE out == <<CMD_SENSE_INTERRUPT>>
             r2 == [r EXCEPT !.kind = "sense", !.pc = "write", !.out = out]
             t == Set(s, p, r2)
  <2>1. out \in Seq(Int) /\ Len(out) = 1 /\ out[1] = CMD_SENSE_INTERRUPT /\ out # <<>>
    BY DEF CMD_SENSE_INTERRUPT
  <2>2. Waited(s, p) = t
    BY <1>4 DEF Waited
  <2> HIDE DEF out
  <2>3. r2 \in Runs /\ r2.pc = "write" /\ r2.in = <<>> /\ r2.kind = "sense"
        /\ r2.dir = r.dir /\ r2.cyl = r.cyl /\ r2.try = r.try /\ r2.out = out
    BY <1>1, <1>3, <2>1 DEF Runs
  <2> HIDE DEF r2
  <2>4. t \in States(p) /\ t.run[p] = r2 /\ Alike(s, t)
    BY <1>1, <2>3, SetRun
  <2>5. Handed(s, t) /\ t.fdc = s.fdc /\ t.interrupted = s.interrupted
    BY <2>4 DEF Handed, Alike
  <2> HIDE DEF t
  <2>6. s.fdc.phase = "cmd" /\ s.fdc.cmd = <<>> /\ Len(s.fdc.cmd) = 0
    BY <1>3, <1>4 DEF Quiet
  <2>7. CommandByte(r2) = CMD_SENSE_INTERRUPT
    BY <2>3 DEF CommandByte
  <2>8. CommandLength(CMD_SENSE_INTERRUPT) = 1
    BY DEF CommandLength, CMD_SEEK, CMD_READ_DATA, CMD_WRITE_DATA, CMD_SENSE_INTERRUPT
  <2>9. IsCommand(s.fdc, r2)
    BY <2>1, <2>3, <2>6, <2>7, <2>8 DEF IsCommand, Byte
  <2>10. InPhase(r2, s.fdc, s.interrupted)
    BY <2>1, <2>3, <2>6, <2>9 DEF InPhase, Resting
  <2>11. ~Ended(r2, s.interrupted)
    BY <2>3 DEF Ended
  <2>12. Inward(s, t, p)
    BY <1>4, <2>3, <2>4, <2>5, <2>10, <2>11, HandedGood
  <2> QED BY <2>2, <2>12
<1>5. CASE r.kind = "track"
  <2> DEFINE r2 == [r EXCEPT !.pc = "read"]
             t == Set(s, p, r2)
  <2>1. Waited(s, p) = t
    BY <1>1, <1>5, SetPc DEF Waited
  <2>2. r2 \in Runs /\ r2.pc = "read" /\ r2.in = <<>> /\ r2.kind = "track"
        /\ r2.dir = r.dir /\ r2.cyl = r.cyl /\ r2.try = r.try
    BY <1>1, <1>3, <1>5 DEF Runs
  <2> HIDE DEF r2
  <2>3. t \in States(p) /\ t.run[p] = r2 /\ Alike(s, t)
    BY <1>1, <2>2, SetRun
  <2>4. Handed(s, t) /\ t.fdc = s.fdc /\ t.interrupted = s.interrupted
    BY <2>3 DEF Handed, Alike
  <2> HIDE DEF t
  <2>5. s.fdc.phase = "result" /\ Len(s.fdc.result) = 7 /\ s.fdc.result # <<>>
    <3>1. s.fdc.phase = "result" /\ Len(s.fdc.result) = 7
      BY <1>3, <1>5
    <3>2. s.fdc \in Controllers
      BY <1>1, Fields
    <3> QED BY <3>1, <3>2, NonEmpty
  <2>6. InPhase(r2, s.fdc, s.interrupted)
    BY <2>2, <2>5, EmptySequence DEF InPhase, Resting, ResultLength
  <2>7. Ended(r, s.interrupted)
    BY <1>2, <1>5 DEF Ended
  <2>8. PICK st \in {OK, ERROR, PROTECTED} :
          AllBytes(r, s.fdc, st) /\ (st = OK => s.floppy_dmabuf = s.disk[r.cyl])
    BY <1>2, <2>7 DEF Working, Held
  <2>9. AllBytes(r2, s.fdc, st)
    BY <1>3, <2>2, <2>8 DEF AllBytes
  <2>10. Inward(s, t, p)
    BY <1>2, <1>5, <2>2, <2>3, <2>4, <2>6, <2>8, <2>9, HandedGood
  <2> QED BY <2>1, <2>10
<1> QED BY <1>3, <1>4, <1>5

(* A failed assert. *)
LEMMA PanicGood ==
  ASSUME NEW p, NEW s \in States(p), Inside(s.job[p]), s.fdc.phase # "exec"
  PROVE  Inward(s, Panic(s), p)
<1> DEFINE t == Panic(s)
<1>1. t \in States(p) /\ t.mode = "panic" /\ t.job = s.job /\ t.disk = s.disk
      /\ t.fdc = s.fdc
  BY DEF Panic, States
<1> QED BY <1>1 DEF Inward, Good

(* motor(base, motor_off). *)
LEMMA MotorOffCalm ==
  ASSUME NEW p, NEW s, Calm(s, p), s.motor_dor
  PROVE  LET t == MotorOff(s) IN
         /\ Calm(t, p) /\ t.run = s.run /\ t.job = s.job /\ t.disk = s.disk
         /\ t.fdc = s.fdc /\ t.floppy_dmabuf = s.floppy_dmabuf /\ t.motor_dor
<1> DEFINE t == MotorOff(s)
<1>1. s \in States(p)
  BY DEF Calm, Vacant
<1>2. t \in States(p) /\ t.run = s.run /\ t.job = s.job /\ t.disk = s.disk
      /\ t.fdc = s.fdc /\ t.floppy_dmabuf = s.floppy_dmabuf /\ t.motor_dor = s.motor_dor
      /\ t.mode = s.mode
  <2>1. MOTOR_TICKS \in Int
    BY FloppyAssumption
  <2> QED BY <1>1, <2>1 DEF MotorOff, States
<1> HIDE DEF t
<1>3. Calm(t, p)
  BY <1>2 DEF Calm, Vacant
<1> QED BY <1>2, <1>3 DEF t

(* The end of a turn of seek. *)
LEMMA SeekDoneGood ==
  ASSUME NEW p, NEW s, Calm(s, p), s.motor_state = "on", s.motor_dor,
         s.run[p].kind = "sense", Rounds(s.run[p])
  PROVE  Inward(s, SeekDone(s, p), p)
<1> DEFINE r == s.run[p]
           found == r.in[1] < ERROR /\ r.in[2] = r.cyl
           off == MotorOff(s)
           q == [r EXCEPT !.kind = "seek", !.try = @ + 1]
           t == Set(s, p, q)
<1>1. s \in States(p) /\ r \in Runs
  BY Fields DEF Calm, Vacant
<1>2. /\ Calm(off, p) /\ off.run = s.run /\ off.job = s.job /\ off.disk = s.disk
      /\ off.fdc = s.fdc
  BY MotorOffCalm
<1>3. SeekDone(s, p) =
        IF found THEN IF r.head = 0 THEN seek(off, p, 1) ELSE TrackTry(off, p, 0)
        ELSE IF r.try + 1 < SEEK_RETRIES THEN SeekTry(t, p)
        ELSE Panic(off)
  BY DEF SeekDone
<1>4. r.try \in Nat /\ r.kind = "sense"
  BY <1>1, FloppyAssumption DEF Runs
<1> HIDE DEF found, off
<1>5. Inward(off, seek(off, p, 1), p)
  BY <1>2, SeekGood
<1>6. Inward(off, TrackTry(off, p, 0), p)
  <2>1. 0 \in 0 .. TRACK_RETRIES - 1
    BY FloppyAssumption
  <2> QED BY <1>2, <2>1, TrackTryGood
<1>7. Inward(off, Panic(off), p)
  BY <1>2, PanicGood DEF Calm, Vacant, Quiet
<1>8. ASSUME r.try + 1 < SEEK_RETRIES
      PROVE  Inward(s, SeekTry(t, p), p)
  <2>1. r.try + 1 \in 0 .. SEEK_RETRIES + TRACK_RETRIES
    BY <1>4, <1>8, FloppyAssumption
  <2>2. q \in Runs /\ q.cyl = r.cyl /\ q.dir = r.dir /\ q.kind = "seek"
        /\ q.try = r.try + 1
    BY <1>1, <2>1 DEF Runs
  <2> HIDE DEF q
  <2>3. Calm(t, p) /\ t.run[p] = q /\ Alike(s, t)
    BY <1>1, <2>2, CalmSet, SetRun
  <2>4. Rounds(q)
    BY <1>8, <2>2 DEF Rounds
  <2>5. t.motor_state = "on" /\ t.job = s.job /\ t.disk = s.disk
    BY <2>3 DEF Alike
  <2> HIDE DEF t
  <2>6. Inward(t, SeekTry(t, p), p)
    BY <2>2, <2>3, <2>4, <2>5, SeekTryGood
  <2> QED BY <2>5, <2>6 DEF Inward
<1> QED BY <1>2, <1>3, <1>5, <1>6, <1>7, <1>8 DEF Inward

(* What a step did to the job is told by the job and the disk before it. *)
LEMMA ServedFrom ==
  ASSUME NEW p, NEW s, NEW u, NEW v, u.job = s.job, u.disk = s.disk, Served(u, v, p)
  PROVE  Served(s, v, p)
<1>1. /\ Delivered(u, v, p) => Delivered(s, v, p)
      /\ Stored(u, v, p) => Stored(s, v, p)
  BY DEF Delivered, Stored
<1> QED BY <1>1 DEF Served

(* The end of a turn of do_track. *)
LEMMA TrackDoneGood ==
  ASSUME NEW p, NEW s, Calm(s, p), s.motor_state = "on", s.motor_dor,
         s.run[p].kind = "track", Rounds(s.run[p]),
         NEW st \in {OK, ERROR, PROTECTED}, Len(s.run[p].in) = 7,
         \A i \in 1 .. Len(s.run[p].in) : s.run[p].in[i] = st,
         st = OK => s.floppy_dmabuf = s.disk[s.run[p].cyl]
  PROVE  Served(s, TrackDone(s, p), p)
<1> DEFINE r == s.run[p]
           off == MotorOff(s)
           u == [off EXCEPT !.floppy_dmacyl = r.cyl]
<1>1. s \in States(p) /\ r \in Runs
  BY Fields DEF Calm, Vacant
<1>2. /\ Calm(off, p) /\ off.run = s.run /\ off.job = s.job /\ off.disk = s.disk
      /\ off.fdc = s.fdc /\ off.floppy_dmabuf = s.floppy_dmabuf /\ off.motor_dor
  BY MotorOffCalm
<1>3. r.in[1] = st /\ 1 \in 1 .. Len(r.in)
  OBVIOUS
<1>4. \A x : (\E i \in 1 .. Len(r.in) : r.in[i] = x) <=> x = st
  BY <1>3
<1>5. TrackDone(s, p) =
        IF st = PROTECTED THEN Panic(off)
        ELSE IF st # ERROR THEN Loaded(u, p)
        ELSE IF r.try + 1 < TRACK_RETRIES THEN TrackTry(s, p, r.try + 1)
        ELSE Panic(off)
  <2>1. TrackDone(s, p) =
          IF \E i \in 1 .. Len(r.in) : r.in[i] = PROTECTED THEN Panic(off)
          ELSE IF ~\E i \in 1 .. Len(r.in) : r.in[i] = ERROR THEN Loaded(u, p)
          ELSE IF r.try + 1 < TRACK_RETRIES THEN TrackTry(s, p, r.try + 1)
          ELSE Panic(off)
    BY DEF TrackDone
  <2>2. /\ (\E i \in 1 .. Len(r.in) : r.in[i] = PROTECTED) <=> st = PROTECTED
        /\ (\E i \in 1 .. Len(r.in) : r.in[i] = ERROR) <=> st = ERROR
    BY <1>4
  <2> HIDE DEF r, off, u
  <2> QED BY <2>1, <2>2, Zenon
<1>6. r.try \in Nat /\ r.cyl \in Cylinders
  <2>1. r.try \in 0 .. SEEK_RETRIES + TRACK_RETRIES /\ r.cyl \in Cylinders
    BY <1>1 DEF Runs
  <2>2. SEEK_RETRIES + TRACK_RETRIES \in Nat
    BY FloppyAssumption
  <2> QED BY <2>1, <2>2
<1> HIDE DEF off
<1>7. Inward(off, Panic(off), p)
  BY <1>2, PanicGood DEF Calm, Vacant, Quiet
<1>8. ASSUME r.try + 1 < TRACK_RETRIES
      PROVE  Inward(s, TrackTry(s, p, r.try + 1), p)
  BY <1>6, <1>8, TrackTryGood, FloppyAssumption
<1>9. ASSUME st = OK
      PROVE  Served(s, Loaded(u, p), p)
  <2>1. off \in States(p) /\ r.cyl \in -1 .. CYLINDERS - 1
    BY <1>2, <1>6, FloppyAssumption DEF Calm, Vacant, Cylinders
  <2>2. /\ u \in States(p) /\ u.floppy_dmacyl = r.cyl /\ u.run = s.run /\ u.job = s.job
        /\ u.disk = s.disk /\ u.fdc = s.fdc /\ u.floppy_dmabuf = s.floppy_dmabuf
        /\ u.motor_dor = off.motor_dor /\ u.mode = off.mode
    BY <1>2, <2>1 DEF States
  <2> HIDE DEF u
  <2>3. Vacant(u, p)
    BY <1>2, <2>2 DEF Calm, Vacant
  <2>4. s.job[p].op # "none" /\ s.job[p].done < s.job[p].size
        /\ r.cyl = Where(s.job[p]).cyl
    BY DEF Calm, Moving
  <2>5. r.dir = "write" => Merged(s.floppy_dmabuf, s.disk[r.cyl], s.job[p])
    BY DEF Calm
  <2>6. s.floppy_dmabuf = s.disk[r.cyl]
    BY <1>9
  <2>7. Served(u, Loaded(u, p), p)
    BY <2>2, <2>3, <2>4, <2>5, <2>6, LoadedGood
  <2> QED BY <2>2, <2>7, ServedFrom
<1>10. ERROR # OK /\ PROTECTED # OK /\ PROTECTED # ERROR
  BY DEF ERROR, OK, PROTECTED
<1>11. CASE st = PROTECTED
  BY <1>2, <1>5, <1>7, <1>11 DEF Inward, Served
<1>12. CASE st = OK
  BY <1>5, <1>9, <1>10, <1>12
<1>13. CASE st = ERROR
  BY <1>2, <1>5, <1>7, <1>8, <1>10, <1>13 DEF Inward, Served
<1> QED BY <1>11, <1>12, <1>13

(* The state read_data leaves. *)
Taken(s, p) ==
  Set(FifoRead(s), p, [s.run[p] EXCEPT !.in = Append(@, FifoByte(s))])
AfterRead(s, p) ==
  LET t == Taken(s, p) IN
  IF ~Ready(s) THEN Poll(s, p)
  ELSE IF Len(t.run[p].in) < ResultLength(s.run[p].kind) THEN t
  ELSE IF s.run[p].kind = "sense" THEN SeekDone(t, p)
  ELSE TrackDone(t, p)

(* A sequence of equal bytes loses its head to another one. *)
LEMMA TakeByte ==
  ASSUME NEW in \in Seq(Int), NEW res \in Seq(Int), res # <<>>
  PROVE  LET new == Append(in, Head(res)) IN
         /\ new \in Seq(Int) /\ Tail(res) \in Seq(Int)
         /\ Len(new) = Len(in) + 1 /\ Len(Tail(res)) = Len(res) - 1
         /\ Len(in) \in Nat /\ Len(res) \in Nat \ {0}
         /\ Tail(res) = <<>> <=> Len(res) = 1
         /\ \A st : (/\ \A i \in 1 .. Len(in) : in[i] = st
                     /\ \A i \in 1 .. Len(res) : res[i] = st)
                    => /\ \A i \in 1 .. Len(new) : new[i] = st
                       /\ \A i \in 1 .. Len(Tail(res)) : Tail(res)[i] = st
<1> DEFINE new == Append(in, Head(res))
           rest == Tail(res)
<1>1. Len(in) \in Nat /\ Len(res) \in Nat \ {0} /\ Head(res) = res[1] /\ Head(res) \in Int
  OBVIOUS
<1>2. new \in Seq(Int) /\ Len(new) = Len(in) + 1 /\ new[Len(in) + 1] = res[1]
      /\ \A i \in 1 .. Len(in) : new[i] = in[i]
  BY <1>1
<1>3. rest \in Seq(Int) /\ Len(rest) = Len(res) - 1
      /\ \A i \in 1 .. Len(res) - 1 : rest[i] = res[i + 1]
  BY <1>1
<1> HIDE DEF new, rest
<1>4. rest = <<>> <=> Len(res) = 1
  <2>1. rest = <<>> <=> Len(rest) = 0
    BY <1>3, EmptyLength
  <2> QED BY <1>1, <1>3, <2>1
<1>5. ASSUME NEW st, \A i \in 1 .. Len(in) : in[i] = st, \A i \in 1 .. Len(res) : res[i] = st
      PROVE  /\ \A i \in 1 .. Len(new) : new[i] = st
             /\ \A i \in 1 .. Len(rest) : rest[i] = st
  <2>1. res[1] = st
    BY <1>1, <1>5
  <2>2. ASSUME NEW i \in 1 .. Len(new) PROVE new[i] = st
    <3>1. i \in 1 .. Len(in) \/ i = Len(in) + 1
      BY <1>1, <1>2
    <3> QED BY <1>2, <1>5, <2>1, <3>1
  <2>3. ASSUME NEW i \in 1 .. Len(rest) PROVE rest[i] = st
    <3>1. i \in 1 .. Len(res) - 1 /\ i + 1 \in 1 .. Len(res)
      BY <1>1, <1>3
    <3> QED BY <1>3, <1>5, <3>1
  <2> QED BY <2>2, <2>3
<1> QED BY <1>1, <1>2, <1>3, <1>4, <1>5 DEF new, rest

(* The controller and the process after a byte was read. *)
TookByte(s, t, p) ==
  LET r == s.run[p]
      res == s.fdc.result
      new == Append(r.in, Head(res))
  IN /\ t \in States(p) /\ Handed(s, t) /\ t.run[p] = [r EXCEPT !.in = new]
     /\ t.run[p].in = new
     /\ Len(res) = 1 => Quiet(t.fdc) /\ Len(new) = ResultLength(r.kind)
     /\ Len(res) > 1 =>
          /\ t.fdc.phase = "result" /\ t.fdc.result = Tail(res) /\ t.fdc.result # <<>>
          /\ Len(new) + Len(t.fdc.result) = ResultLength(r.kind)
          /\ Len(new) < ResultLength(r.kind)
     /\ Ready(s) /\ r.kind \in {"sense", "track"}
     /\ Len(res) = 1 \/ Len(res) > 1

(* A result byte is taken: what read_data reads from the controller. *)
LEMMA TakenState ==
  ASSUME NEW p, NEW s, Good(s, p), s.mode = "run", s.run[p].pc = "read"
  PROVE  TookByte(s, Taken(s, p), p)
<1> DEFINE r == s.run[p]
           res == s.fdc.result
           new == Append(r.in, Head(res))
           r2 == [r EXCEPT !.in = new]
           f1 == [s.fdc EXCEPT !.phase = "cmd", !.cmd = <<>>, !.result = <<>>]
           rest == Tail(res)
           f2 == [s.fdc EXCEPT !.result = rest]
           t == Taken(s, p)
<1>1. s \in States(p) /\ r \in Runs /\ s.fdc \in Controllers
  BY Fields DEF Good
<1>2. Working(s, p)
  BY DEF Good
<1>3. /\ r.kind \in {"sense", "track"} /\ s.fdc.phase = "result" /\ res # <<>>
      /\ Len(r.in) + Len(res) = ResultLength(r.kind)
  BY <1>2 DEF Working, InPhase
<1>4. r.in \in Seq(Int) /\ res \in Seq(Int)
  BY <1>1 DEF Controllers, Runs
<1>5. /\ new \in Seq(Int) /\ rest \in Seq(Int)
      /\ Len(new) = Len(r.in) + 1 /\ Len(rest) = Len(res) - 1
      /\ Len(r.in) \in Nat /\ Len(res) \in Nat \ {0}
      /\ rest = <<>> <=> Len(res) = 1
  BY <1>3, <1>4, TakeByte
<1>6. t = Set(FifoRead(s), p, r2)
  BY <1>3 DEF Taken, FifoByte
<1>7. FifoRead(s) = IF Len(res) <= 1 THEN [s EXCEPT !.fdc = f1]
                    ELSE [s EXCEPT !.fdc = f2]
  <2>1. [s EXCEPT !.fdc.result = Tail(@)] = [s EXCEPT !.fdc = f2]
    BY <1>1 DEF States, Controllers
  <2>2. FifoRead(s) = IF Len(res) <= 1 THEN [s EXCEPT !.fdc = f1]
                      ELSE [s EXCEPT !.fdc.result = Tail(@)]
    BY <1>3 DEF FifoRead
  <2> QED BY <2>1, <2>2
<1>8. Ready(s)
  BY <1>3 DEF Ready
<1> HIDE DEF new, rest, res
<1>9. r2 \in Runs /\ r2.in = new
  BY <1>1, <1>5 DEF Runs
<1>10. f1 \in Controllers /\ Quiet(f1)
  BY <1>1, EmptySequence DEF Controllers, Quiet
<1>11. f2 \in Controllers /\ f2.phase = "result" /\ f2.result = rest
  BY <1>1, <1>3, <1>5 DEF Controllers
<1>12. r2 = [r EXCEPT !.in = new]
  OBVIOUS
<1> HIDE DEF r2, f1, f2, r, t
<1>13. CASE Len(res) = 1
  <2>1. t = Set([s EXCEPT !.fdc = f1], p, r2)
    BY <1>6, <1>7, <1>13
  <2>2. t \in States(p) /\ t.fdc = f1 /\ t.run[p] = r2 /\ Handed(s, t)
    BY <1>1, <1>9, <1>10, <2>1, SetBoth
  <2>3. Len(new) = ResultLength(r.kind)
    BY <1>3, <1>5, <1>13
  <2>4. ~(Len(res) > 1)
    BY <1>13
  <2> QED BY <1>3, <1>8, <1>9, <1>10, <1>12, <1>13, <2>2, <2>3, <2>4
          DEF TookByte, r, t, new, res
<1>14. CASE Len(res) > 1
  <2>1. t = Set([s EXCEPT !.fdc = f2], p, r2)
    BY <1>5, <1>6, <1>7, <1>14
  <2>2. t \in States(p) /\ t.fdc = f2 /\ t.run[p] = r2 /\ Handed(s, t)
    BY <1>1, <1>9, <1>11, <2>1, SetBoth
  <2>3. Len(new) + Len(rest) = ResultLength(r.kind) /\ Len(new) < ResultLength(r.kind)
        /\ rest # <<>> /\ Len(res) # 1
    BY <1>3, <1>5, <1>14
  <2> QED BY <1>3, <1>8, <1>9, <1>11, <1>12, <1>14, <2>2, <2>3
          DEF TookByte, r, t, new, res, rest
<1>15. Len(res) = 1 \/ Len(res) > 1
  BY <1>5
<1> QED BY <1>13, <1>14, <1>15

(* read_data: a byte, and after the last one the end of the turn. *)
LEMMA ReadGood ==
  ASSUME NEW p, NEW s, Good(s, p), s.mode = "run", s.run[p].pc = "read"
  PROVE  Served(s, AfterRead(s, p), p)
<1> DEFINE r == s.run[p]
           res == s.fdc.result
           new == Append(r.in, Head(res))
           t == Taken(s, p)
<1>1. s \in States(p) /\ r \in Runs /\ s.fdc \in Controllers /\ r.pc = "read"
  BY Fields DEF Good
<1>2. Working(s, p)
  BY DEF Good
<1>0. TookByte(s, t, p)
  BY TakenState
<1>3. /\ t \in States(p) /\ Handed(s, t) /\ t.run[p] = [r EXCEPT !.in = new]
      /\ t.run[p].in = new
      /\ Len(res) = 1 => Quiet(t.fdc) /\ Len(new) = ResultLength(r.kind)
      /\ Len(res) > 1 =>
           /\ t.fdc.phase = "result" /\ t.fdc.result = Tail(res) /\ t.fdc.result # <<>>
           /\ Len(new) + Len(t.fdc.result) = ResultLength(r.kind)
           /\ Len(new) < ResultLength(r.kind)
      /\ Ready(s) /\ r.kind \in {"sense", "track"}
  BY <1>0 DEF TookByte
<1>4. t.run[p].pc = "read" /\ t.run[p].kind = r.kind /\ t.run[p].dir = r.dir
      /\ t.run[p].cyl = r.cyl /\ t.run[p].try = r.try
  BY <1>1, <1>3 DEF Runs
<1>5. t.job = s.job /\ t.disk = s.disk
  BY <1>3 DEF Handed
<1>6. AfterRead(s, p) = IF Len(t.run[p].in) < ResultLength(r.kind) THEN t
                        ELSE IF r.kind = "sense" THEN SeekDone(t, p) ELSE TrackDone(t, p)
  BY <1>3 DEF AfterRead
<1>7. r.kind = "track" =>
        \E st \in {OK, ERROR, PROTECTED} :
          AllBytes(r, s.fdc, st) /\ (st = OK => s.floppy_dmabuf = s.disk[r.cyl])
  BY <1>1, <1>2 DEF Working, Held, Ended
<1>8. res # <<>>
  BY <1>1, <1>2 DEF Working, InPhase
<1>9. ASSUME NEW st, AllBytes(r, s.fdc, st)
      PROVE  /\ \A i \in 1 .. Len(new) : new[i] = st
             /\ \A i \in 1 .. Len(Tail(res)) : Tail(res)[i] = st
  <2>1. r.in \in Seq(Int) /\ res \in Seq(Int)
    BY <1>1 DEF Controllers, Runs
  <2> QED BY <1>8, <1>9, <2>1, TakeByte DEF AllBytes
<1> HIDE DEF new, t
<1>10. CASE Len(res) > 1
  <2>1. InPhase(t.run[p], t.fdc, t.interrupted)
    BY <1>3, <1>4, <1>10 DEF InPhase, Resting
  <2>2. r.kind = "track" =>
          \E st \in {OK, ERROR, PROTECTED} :
            AllBytes(t.run[p], t.fdc, st) /\ (st = OK => s.floppy_dmabuf = s.disk[r.cyl])
    <3> SUFFICES ASSUME r.kind = "track"
                 PROVE  \E st \in {OK, ERROR, PROTECTED} :
                          AllBytes(t.run[p], t.fdc, st)
                          /\ (st = OK => s.floppy_dmabuf = s.disk[r.cyl])
      OBVIOUS
    <3>1. PICK st \in {OK, ERROR, PROTECTED} :
            AllBytes(r, s.fdc, st) /\ (st = OK => s.floppy_dmabuf = s.disk[r.cyl])
      BY <1>7
    <3>2. /\ \A i \in 1 .. Len(new) : new[i] = st
          /\ \A i \in 1 .. Len(Tail(res)) : Tail(res)[i] = st
      BY <1>9, <3>1
    <3>3. t.run[p].in = new /\ t.fdc.result = Tail(res)
      BY <1>3, <1>10
    <3>4. AllBytes(t.run[p], t.fdc, st)
      BY <3>2, <3>3 DEF AllBytes
    <3> QED BY <3>1, <3>4
  <2>3. Inward(s, t, p)
    BY <1>1, <1>3, <1>4, <2>1, <2>2, HandedGood DEF Ended
  <2>4. AfterRead(s, p) = t
    BY <1>3, <1>6, <1>10
  <2> QED BY <2>3, <2>4 DEF Inward, Served
<1>11. CASE Len(res) = 1
  <2>1. s.motor_state = "on" /\ s.motor_dor
    BY <1>1, <1>2 DEF Working, Spun
  <2>2. t.motor_state = "on" /\ t.motor_dor = s.motor_dor /\ t.mode = "run"
    BY <1>3, <2>1 DEF Handed
  <2>3. Moving(r, s.job[p])
    BY <1>1, <1>2 DEF Working, Errand, Resting
  <2>4. r.dir = "write" => Merged(s.floppy_dmabuf, s.disk[r.cyl], s.job[p])
    BY <1>1, <1>2 DEF Working, Held, Resting
  <2>5. Moving(t.run[p], t.job[p])
    BY <1>4, <1>5, <2>3 DEF Moving
  <2>6. Vacant(t, p)
    BY <1>3, <1>5, <1>11, <2>1, <2>2 DEF Vacant, Good
  <2>7. t.floppy_dmabuf = s.floppy_dmabuf
    BY <1>3 DEF Handed
  <2>8. Calm(t, p)
    BY <1>4, <1>5, <2>4, <2>5, <2>6, <2>7 DEF Calm
  <2>9. Rounds(t.run[p])
    BY <1>2, <1>4 DEF Working, Rounds
  <2>10. ~(Len(new) < ResultLength(r.kind))
    <3>1. ResultLength(r.kind) \in Nat
      BY DEF ResultLength
    <3>2. Len(new) = ResultLength(r.kind)
      BY <1>3, <1>11
    <3> QED BY <3>1, <3>2
  <2>11. CASE r.kind = "sense"
    <3>1. Inward(t, SeekDone(t, p), p)
      BY <1>4, <2>1, <2>2, <2>8, <2>9, <2>11, SeekDoneGood
    <3>2. AfterRead(s, p) = SeekDone(t, p)
      BY <1>3, <1>6, <2>10, <2>11
    <3> QED BY <1>5, <3>1, <3>2 DEF Inward, Served
  <2>12. CASE r.kind = "track"
    <3>1. PICK st \in {OK, ERROR, PROTECTED} :
            AllBytes(r, s.fdc, st) /\ (st = OK => s.floppy_dmabuf = s.disk[r.cyl])
      BY <1>7, <2>12
    <3>2. \A i \in 1 .. Len(new) : new[i] = st
      BY <1>9, <3>1
    <3>3. Len(new) = 7
      BY <1>3, <1>11, <2>12 DEF ResultLength
    <3>4. Served(t, TrackDone(t, p), p)
      <4>1. t.run[p].kind = "track" /\ t.run[p].in = new
        BY <1>3, <1>4, <2>12
      <4>2. Len(t.run[p].in) = 7 /\ \A i \in 1 .. Len(t.run[p].in) : t.run[p].in[i] = st
        BY <3>2, <3>3, <4>1
      <4>3. st = OK => t.floppy_dmabuf = t.disk[t.run[p].cyl]
        BY <1>3, <1>4, <1>5, <2>7, <3>1
      <4>4. t.motor_state = "on" /\ t.motor_dor
        BY <2>1, <2>2
      <4> HIDE DEF t, r, res, new
      <4> QED BY <2>8, <2>9, <4>1, <4>2, <4>3, <4>4, TrackDoneGood
    <3>5. AfterRead(s, p) = TrackDone(t, p)
      BY <1>3, <1>6, <2>10, <2>12
    <3> QED BY <1>5, <3>4, <3>5, ServedFrom
  <2> QED BY <1>3, <2>11, <2>12
<1>12. Len(res) = 1 \/ Len(res) > 1
  BY <1>0 DEF TookByte
<1> QED BY <1>10, <1>11, <1>12

-----------------------------------------------------------------------------
(* Calls begin and end.                                                    *)

(* The first turn of a call. *)
AfterCall(s, p) ==
  IF s.job[p].size = 0 THEN Return(s, p)
  ELSE IF Cached(s, Where(s.job[p]).cyl) THEN Loaded(s, p)
  ELSE do_track(s, p, Where(s.job[p]).cyl, "read")

(* The first turn of a call finds its cylinder cached or loads it: Call. *)
LEMMA CallGood ==
  ASSUME NEW p, NEW s, Good(s, p), s.mode = "run", s.run[p].pc = "call"
  PROVE  Served(s, AfterCall(s, p), p)
<1> DEFINE j == s.job[p]
<1>1. s \in States(p) /\ j \in Jobs /\ Inside(j)
  BY Fields DEF Good
<1>2. Working(s, p)
  BY DEF Good
<1>3. j.op # "none" /\ j.done = 0 /\ s.run[p].dir = "none"
  BY <1>2 DEF Working, Errand
<1>4. Vacant(s, p)
  BY <1>1, <1>2 DEF Working, InPhase, Spun, Vacant, Resting
<1>5. s.floppy_dmacyl # -1 => s.floppy_dmabuf = s.disk[s.floppy_dmacyl]
  BY <1>2 DEF Working, Held, Resting
<1>6. CASE j.size = 0
  <2>1. Inward(s, Return(s, p), p)
    BY <1>3, <1>4, <1>5, <1>6, ReturnGood
  <2> QED BY <1>6, <2>1 DEF AfterCall, Inward, Served
<1>7. CASE j.size # 0
  <2>1. j.done < j.size
    BY <1>1, <1>3, <1>7 DEF Jobs
  <2>2. Where(j).cyl \in Cylinders
    BY <1>1, <2>1, Workload
  <2>3. CASE Where(j).cyl = s.floppy_dmacyl
    <3>1. s.floppy_dmacyl # -1
      BY <2>2, <2>3, FloppyAssumption DEF Cylinders
    <3>2. Served(s, Loaded(s, p), p)
      BY <1>3, <1>4, <1>5, <2>1, <2>3, <3>1, LoadedGood
    <3> QED BY <1>7, <2>3, <3>2 DEF AfterCall, Cached
  <2>4. CASE Where(j).cyl # s.floppy_dmacyl
    <3>1. Inward(s, do_track(s, p, Where(j).cyl, "read"), p)
      BY <1>3, <1>4, <2>1, DoTrackGood
    <3> QED BY <1>7, <2>4, <3>1 DEF AfterCall, Cached, Inward, Served
  <2> QED BY <2>3, <2>4
<1> QED BY <1>6, <1>7

(* The job of a request. *)
Accepted(q) ==
  LET n == IF q.op = "view" THEN addr_2_coff(q.addr).size ELSE q.size
  IN [NoJob EXCEPT !.op = q.op, !.addr = q.addr, !.size = n, !.value = q.value]

(* A request on the disk is a job on the disk. *)
LEMMA AcceptedJob ==
  ASSUME NEW q \in Requests
  PROVE  LET j == Accepted(q) IN
         /\ j \in Jobs /\ Inside(j) /\ j.op = q.op /\ j.op # "none" /\ j.done = 0
         /\ j.op \in {"read", "view", "write"} /\ j.addr \in 0 .. Capacity - 1
         /\ j.size \in 0 .. Capacity /\ j.value \in Values
         /\ j = [NoJob EXCEPT !.op = j.op, !.addr = j.addr, !.size = j.size, !.value = j.value]
<1> DEFINE n == IF q.op = "view" THEN addr_2_coff(q.addr).size ELSE q.size
           j == Accepted(q)
           d == q.addr \div CYLINDER_SIZE
           m == q.addr % CYLINDER_SIZE
<1>1. /\ q.op \in {"read", "view", "write"} /\ q.value \in Values
      /\ q.addr \in 0 .. Capacity - 1 /\ q.size \in Nat /\ q.addr + q.size <= Capacity
  BY RequestsAssumption DEF Capacity
<1>2. CYLINDER_SIZE \in Nat \ {0} /\ CYLINDERS \in Nat \ {0} /\ Capacity \in Nat
      /\ Capacity = CYLINDER_SIZE * CYLINDERS
  BY FloppyAssumption DEF Capacity
<1>3. d \in Cylinders /\ m \in Offsets
  BY <1>1, DiskCells
<1>4. q.addr = CYLINDER_SIZE * d + m
  <2> DEFINE a == q.addr
  <2>1. a \in Int /\ CYLINDER_SIZE \in Nat \ {0}
    BY <1>1, <1>2
  <2> HIDE DEF a
  <2>2. a = CYLINDER_SIZE * (a \div CYLINDER_SIZE) + (a % CYLINDER_SIZE)
    BY <2>1, SMT
  <2> QED BY <2>2 DEF a
<1>5. q.addr + (CYLINDER_SIZE - m) <= Capacity
  <2>1. q.addr + (CYLINDER_SIZE - m) = CYLINDER_SIZE * (d + 1)
    BY <1>1, <1>2, <1>3, <1>4 DEF Cylinders, Offsets
  <2>2. d + 1 \in Nat /\ d + 1 <= CYLINDERS
    BY <1>2, <1>3 DEF Cylinders
  <2>3. CYLINDER_SIZE * (d + 1) <= CYLINDER_SIZE * CYLINDERS
    BY <1>2, <2>2, SMT
  <2> QED BY <1>2, <2>1, <2>3
<1>6. addr_2_coff(q.addr).size = CYLINDER_SIZE - m
  BY DEF addr_2_coff
<1> HIDE DEF d, m
<1>7. CYLINDER_SIZE - m \in Nat
  BY <1>2, <1>3 DEF Offsets
<1>8. n \in Nat /\ q.addr + n <= Capacity
  BY <1>1, <1>5, <1>6, <1>7
<1>9. j = [NoJob EXCEPT !.op = q.op, !.addr = q.addr, !.size = n, !.value = q.value]
  BY DEF Accepted
<1> HIDE DEF n
<1>10. j = [op |-> q.op, addr |-> q.addr, size |-> n, value |-> q.value,
            done |-> 0, got |-> <<>>]
  BY <1>9 DEF NoJob
<1> HIDE DEF j
<1>11. /\ j.op = q.op /\ j.addr = q.addr /\ j.size = n /\ j.value = q.value
       /\ j.done = 0
  BY <1>10
<1>12. j \in Jobs
  <2>1. <<>> \in Seq(Values)
    OBVIOUS
  <2>2. q.addr \in Nat
    BY <1>1
  <2> QED BY <1>1, <1>8, <1>10, <2>1, <2>2 DEF Jobs
<1>13. Inside(j)
  BY <1>8, <1>11 DEF Inside
<1>14. n \in 0 .. Capacity
  BY <1>1, <1>2, <1>8
<1> QED BY <1>1, <1>9, <1>11, <1>12, <1>13, <1>14 DEF j

(* A request is accepted. *)
Begun(s, p, q) ==
  [s EXCEPT !.job[p] = Accepted(q), !.run[p] = [Idle EXCEPT !.pc = "call"]]

(* A call begins: Begin. *)
LEMMA BeginGood ==
  ASSUME NEW p, NEW s, Good(s, p), s.mode = "run", s.run[p].pc = "idle",
         NEW q \in Requests
  PROVE  LET t == Begun(s, p, q) IN
         Good(t, p) /\ t.disk = s.disk /\ t.job = [s.job EXCEPT ![p] = Accepted(q)]
<1> DEFINE j == Accepted(q)
           r == [Idle EXCEPT !.pc = "call"]
           t == Begun(s, p, q)
<1>1. s \in States(p)
  BY DEF Good
<1>2. Working(s, p)
  BY DEF Good
<1>3. j \in Jobs /\ Inside(j) /\ j.op # "none" /\ j.done = 0
  BY AcceptedJob
<1>4. r \in Runs /\ r.pc = "call" /\ r.dir = "none" /\ r.kind = "none"
  BY IdleRuns DEF Runs, Idle, Resting
<1>5. t = [s EXCEPT !.job[p] = j, !.run[p] = r]
  BY DEF Begun
<1> HIDE DEF j, r, t
<1>6. /\ t \in States(p) /\ t.job[p] = j /\ t.job = [s.job EXCEPT ![p] = j]
      /\ t.run[p] = r /\ t.disk = s.disk /\ t.fdc = s.fdc /\ t.mode = s.mode
      /\ t.interrupted = s.interrupted /\ t.motor_state = s.motor_state
      /\ t.motor_dor = s.motor_dor /\ t.floppy_dmabuf = s.floppy_dmabuf
      /\ t.floppy_dmacyl = s.floppy_dmacyl
  BY <1>1, <1>3, <1>4, <1>5 DEF States
<1>7. Rounds(r) /\ Errand(r, j)
  BY <1>3, <1>4 DEF Rounds, Errand, Resting
<1>8. Quiet(s.fdc)
  BY <1>2 DEF Working, InPhase, Resting
<1>9. InPhase(r, s.fdc, s.interrupted)
  BY <1>4, <1>8 DEF InPhase, Resting
<1>10. Spun(r, s.motor_state, s.motor_dor)
  BY <1>2, <1>4 DEF Working, Spun
<1>11. Held(r, j, s.fdc, s.interrupted, s.floppy_dmabuf, s.floppy_dmacyl, s.disk)
  BY <1>2, <1>4 DEF Working, Held, Ended, Resting
<1>12. Good(t, p)
  BY <1>3, <1>6, <1>7, <1>8, <1>9, <1>10, <1>11 DEF Good, Working, Quiet
<1> QED BY <1>6, <1>12 DEF t, j

(* The call returned. *)
LEMMA LeaveGood ==
  ASSUME NEW p, NEW s, Good(s, p), s.mode = "run", s.run[p].pc = "return"
  PROVE  LET t == [s EXCEPT !.job[p] = NoJob, !.run[p] = Idle] IN
         /\ Good(t, p) /\ t.disk = s.disk /\ t.job = [s.job EXCEPT ![p] = NoJob]
         /\ s.job[p].op # "none" /\ s.job[p].done = s.job[p].size
<1> DEFINE t == [s EXCEPT !.job[p] = NoJob, !.run[p] = Idle]
<1>1. s \in States(p)
  BY DEF Good
<1>2. Working(s, p)
  BY DEF Good
<1>3. NoJob \in Jobs /\ Inside(NoJob)
  <2>1. <<>> \in Seq(Values) /\ 0 \in Values /\ Capacity \in Nat
    BY FloppyAssumption DEF Capacity
  <2> QED BY <2>1 DEF NoJob, Jobs, Inside
<1>4. Idle \in Runs /\ Idle.pc = "idle" /\ Idle.kind = "none"
  BY IdleRuns DEF Idle
<1>5. /\ t \in States(p) /\ t.job[p] = NoJob /\ t.job = [s.job EXCEPT ![p] = NoJob]
      /\ t.run[p] = Idle /\ t.disk = s.disk /\ t.fdc = s.fdc /\ t.mode = s.mode
      /\ t.interrupted = s.interrupted /\ t.motor_state = s.motor_state
      /\ t.motor_dor = s.motor_dor /\ t.floppy_dmabuf = s.floppy_dmabuf
      /\ t.floppy_dmacyl = s.floppy_dmacyl
  BY <1>1, <1>3, <1>4 DEF States
<1> HIDE DEF t
<1>6. Rounds(Idle) /\ Errand(Idle, NoJob)
  BY <1>4 DEF Rounds, Errand, Resting
<1>7. Quiet(s.fdc)
  BY <1>2 DEF Working, InPhase, Resting
<1>8. InPhase(Idle, s.fdc, s.interrupted)
  BY <1>4, <1>7 DEF InPhase, Resting
<1>9. Spun(Idle, s.motor_state, s.motor_dor)
  BY <1>2, <1>4 DEF Working, Spun
<1>10. Held(Idle, NoJob, s.fdc, s.interrupted, s.floppy_dmabuf, s.floppy_dmacyl, s.disk)
  BY <1>2, <1>4 DEF Working, Held, Ended, Resting
<1>11. Good(t, p)
  BY <1>3, <1>5, <1>6, <1>7, <1>8, <1>9, <1>10 DEF Good, Working, Quiet
<1>12. s.job[p].op # "none" /\ s.job[p].done = s.job[p].size
  BY <1>2 DEF Working, Errand
<1> QED BY <1>5, <1>11, <1>12 DEF t

-----------------------------------------------------------------------------
(* Steps of the controller.                                                *)

(* What is known of an execution. *)
LEMMA AtExec ==
  ASSUME NEW p, NEW s, Good(s, p), s.mode = "run", s.fdc.phase = "exec"
  PROVE  /\ s.run[p].pc = "wait" /\ s.run[p].kind \in {"seek", "track"}
         /\ s.run[p].in = <<>> /\ Moving(s.run[p], s.job[p])
         /\ s.fdc.cmd[1] = CommandByte(s.run[p]) /\ s.fdc.cmd[3] = s.run[p].cyl
         /\ s.motor_state = "on" /\ s.motor_dor
         /\ s.run[p].dir = "write" =>
              Merged(s.floppy_dmabuf, s.disk[s.run[p].cyl], s.job[p])
<1> DEFINE r == s.run[p]
<1>1. s \in States(p) /\ r \in Runs /\ s.fdc \in Controllers
  BY Fields DEF Good
<1>2. Working(s, p)
  BY DEF Good
<1>3. r.pc \in Resting \cup {"loop", "spin", "settle", "write", "wait", "read"}
  BY <1>1 DEF Runs
<1>4. r.pc = "wait"
  BY <1>2, <1>3 DEF Working, InPhase, Quiet
<1>5. /\ r.kind \in {"seek", "track"} /\ r.in = <<>>
      /\ ~s.interrupted => r.out = <<>> /\ IsCommand(s.fdc, r)
      /\ s.interrupted => FALSE
  BY <1>2, <1>4 DEF Working, InPhase, Quiet
<1>6. r.out = <<>> /\ IsCommand(s.fdc, r)
  BY <1>5
<1>7. CommandLength(CommandByte(r)) \in {3, 9}
  BY <1>5 DEF CommandLength, CommandByte, CMD_SEEK, CMD_READ_DATA, CMD_WRITE_DATA
<1>8. s.fdc.cmd \in Seq(Int)
  BY <1>1 DEF Controllers
<1>9. 1 <= Len(s.fdc.cmd) /\ 3 <= Len(s.fdc.cmd)
  <2> DEFINE n == Len(s.fdc.cmd)
             m == Len(r.out)
             k == CommandLength(CommandByte(r))
  <2>1. n + m = k
    BY <1>6 DEF IsCommand
  <2>2. m = 0
    BY <1>6, EmptySequence, Zenon
  <2>3. n \in Nat /\ k \in {3, 9}
    BY <1>7, <1>8
  <2> HIDE DEF n, m, k
  <2>4. 1 <= n /\ 3 <= n
    BY <2>1, <2>2, <2>3
  <2> QED BY <2>4 DEF n
<1>10. s.fdc.cmd[1] = CommandByte(r) /\ s.fdc.cmd[3] = r.cyl
  <2>2. Byte(s.fdc, r, 1) = s.fdc.cmd[1] /\ Byte(s.fdc, r, 3) = s.fdc.cmd[3]
    BY <1>9 DEF Byte
  <2> QED BY <1>5, <1>6, <2>2 DEF IsCommand
<1>11. Moving(r, s.job[p])
  BY <1>2, <1>4 DEF Working, Errand, Resting
<1>12. s.motor_state = "on" /\ s.motor_dor
  BY <1>2, <1>4 DEF Working, Spun
<1>13. r.dir = "write" => Merged(s.floppy_dmabuf, s.disk[r.cyl], s.job[p])
  BY <1>2, <1>4 DEF Working, Held, Resting
<1> QED BY <1>4, <1>5, <1>10, <1>11, <1>12, <1>13

(* A seek ends, well or not. *)
LEMMA SeekEndGood ==
  ASSUME NEW p, NEW s, Good(s, p), s.mode = "run", s.fdc.phase = "exec",
         s.run[p].kind = "seek", NEW st \in Int, NEW cyl \in Cylinders
  PROVE  Inward(s, floppy_IT([s EXCEPT !.fdc = [@ EXCEPT !.phase = "cmd", !.cmd = <<>>,
                                                         !.st0 = st, !.cyl = cyl]]), p)
<1> DEFINE r == s.run[p]
           f == [s.fdc EXCEPT !.phase = "cmd", !.cmd = <<>>, !.st0 = st, !.cyl = cyl]
           t == [[s EXCEPT !.fdc = f] EXCEPT !.interrupted = TRUE]
<1>1. s \in States(p) /\ s.fdc \in Controllers
  BY Fields DEF Good
<1>2. f \in Controllers /\ Quiet(f)
  BY <1>1, EmptySequence DEF Controllers, Quiet
<1>3. floppy_IT([s EXCEPT !.fdc = [@ EXCEPT !.phase = "cmd", !.cmd = <<>>,
                                            !.st0 = st, !.cyl = cyl]]) = t
  BY DEF floppy_IT
<1> HIDE DEF f
<1>4. /\ t \in States(p) /\ t.job = s.job /\ t.run = s.run
      /\ t.disk = s.disk /\ t.fdc = f /\ t.mode = s.mode
      /\ t.interrupted = TRUE /\ t.motor_state = s.motor_state
      /\ t.motor_dor = s.motor_dor /\ t.floppy_dmabuf = s.floppy_dmabuf
  BY <1>1, <1>2 DEF States
<1> HIDE DEF t
<1>5. /\ r.pc = "wait" /\ r.kind = "seek" /\ r.in = <<>> /\ Moving(r, s.job[p])
      /\ s.motor_state = "on" /\ s.motor_dor
      /\ r.dir = "write" => Merged(s.floppy_dmabuf, s.disk[r.cyl], s.job[p])
  BY AtExec
<1>6. Rounds(r) /\ Errand(r, s.job[p])
  BY DEF Good, Working
<1>7. InPhase(r, f, TRUE)
  BY <1>2, <1>5 DEF InPhase, Resting
<1>8. Spun(r, s.motor_state, s.motor_dor)
  BY <1>5 DEF Spun
<1>9. Held(r, s.job[p], f, TRUE, s.floppy_dmabuf, t.floppy_dmacyl, s.disk)
  BY <1>5 DEF Held, Ended, Resting
<1>10. Good(t, p)
  BY <1>2, <1>4, <1>6, <1>7, <1>8, <1>9 DEF Good, Working, Quiet
<1> QED BY <1>3, <1>4, <1>10 DEF Inward

(* A transfer ends with status st, buffer buf and track trk. *)
Transferred(s, st, buf, trk) ==
  floppy_IT([s EXCEPT !.fdc = [@ EXCEPT !.phase = "result", !.result = SameBytes(st)],
                      !.floppy_dmabuf = buf, !.disk[s.fdc.cyl] = trk])

(* Such an end is sound for the process that waits for it. *)
Faithful(s, p, st, buf, trk, dsk) ==
  /\ st \in {OK, ERROR, PROTECTED}
  /\ buf \in [Offsets -> Values] /\ trk \in [Offsets -> Values]
  /\ dsk = [s.disk EXCEPT ![s.fdc.cyl] = trk]
  /\ st = OK => buf = dsk[s.run[p].cyl]
  /\ s.run[p].dir = "write" => Merged(buf, dsk[s.run[p].cyl], s.job[p])

(* A sound end of a transfer leaves a good state. *)
LEMMA TransferGood ==
  ASSUME NEW p, NEW s, Good(s, p), s.mode = "run", s.fdc.phase = "exec",
         s.run[p].kind = "track", NEW st, NEW buf, NEW trk, NEW dsk,
         Faithful(s, p, st, buf, trk, dsk)
  PROVE  LET t == Transferred(s, st, buf, trk) IN
         Good(t, p) /\ t.job = s.job /\ t.disk = dsk
<1> DEFINE r == s.run[p]
           res == SameBytes(st)
           f == [s.fdc EXCEPT !.phase = "result", !.result = res]
           u == [s EXCEPT !.fdc = f, !.floppy_dmabuf = buf, !.disk = dsk]
           t == [u EXCEPT !.interrupted = TRUE]
<1> USE DEF Faithful
<1>1. s \in States(p) /\ s.fdc \in Controllers /\ s.fdc.cyl \in Cylinders
  BY Fields DEF Good, Controllers
<1>2. s.disk \in [Cylinders -> [Offsets -> Values]]
  BY <1>1 DEF States
<1>3. dsk \in [Cylinders -> [Offsets -> Values]]
  BY <1>1, <1>2
<1>4. res \in Seq(Int) /\ Len(res) = 7 /\ \A i \in 1 .. 7 : res[i] = st
  <2>1. st \in Int
    BY DEF OK, ERROR, PROTECTED
  <2> QED BY <2>1 DEF SameBytes
<1>5. Transferred(s, st, buf, trk) = t
  BY <1>1 DEF Transferred, floppy_IT, States
<1> HIDE DEF res
<1>6. f \in Controllers /\ f.phase = "result" /\ f.result = res
  BY <1>1, <1>4 DEF Controllers
<1> HIDE DEF f
<1>7. u \in States(p) /\ u.job = s.job /\ u.run = s.run /\ u.mode = s.mode
      /\ u.disk = dsk /\ u.fdc = f /\ u.motor_state = s.motor_state
      /\ u.motor_dor = s.motor_dor /\ u.floppy_dmabuf = buf
  BY <1>1, <1>3, <1>6 DEF States
<1> HIDE DEF u
<1>8. /\ t \in States(p) /\ t.job = s.job /\ t.run = s.run /\ t.mode = s.mode
      /\ t.disk = dsk /\ t.fdc = f /\ t.motor_state = s.motor_state
      /\ t.motor_dor = s.motor_dor /\ t.floppy_dmabuf = buf /\ t.interrupted = TRUE
  BY <1>7 DEF States
<1> HIDE DEF t
<1>9. /\ r.pc = "wait" /\ r.in = <<>> /\ s.motor_state = "on" /\ s.motor_dor
  BY AtExec
<1>10. Rounds(r) /\ Errand(r, s.job[p])
  BY DEF Good, Working
<1>11. InPhase(r, f, TRUE)
  BY <1>4, <1>6, <1>9 DEF InPhase, Resting
<1>12. Spun(r, s.motor_state, s.motor_dor)
  BY <1>9 DEF Spun
<1>13. AllBytes(r, f, st)
  <2>1. Len(r.in) = 0
    BY <1>9, EmptySequence, Zenon
  <2>2. \A i \in 1 .. Len(r.in) : r.in[i] = st
    <3> DEFINE in == r.in
               n == Len(in)
    <3>1. n = 0
      BY <2>1
    <3> HIDE DEF n
    <3>2. \A i \in 1 .. n : in[i] = st
      BY <3>1
    <3> QED BY <3>2 DEF n
  <2>3. \A i \in 1 .. Len(f.result) : f.result[i] = st
    BY <1>4, <1>6
  <2> QED BY <2>2, <2>3 DEF AllBytes
<1>14. Held(r, s.job[p], f, TRUE, buf, t.floppy_dmacyl, dsk)
  BY <1>9, <1>13 DEF Held, Resting
<1>15. Good(t, p)
  BY <1>6, <1>8, <1>10, <1>11, <1>12, <1>14 DEF Good, Working
<1> QED BY <1>5, <1>8, <1>15

(* The ways a transfer ends. *)
LEMMA TransferCases ==
  ASSUME NEW s, NEW t \in TransferEnds(s)
  PROVE  LET buf == s.floppy_dmabuf
             trk == s.disk[s.fdc.cyl]
             reading == s.fdc.cmd[1] = CMD_READ_DATA
             right == s.fdc.cmd[3] = s.fdc.cyl
         IN \/ reading /\ right /\ t = Transferred(s, OK, trk, trk)
            \/ reading /\ \E m \in Mixed(trk, buf) : t = Transferred(s, ERROR, m, trk)
            \/ ~reading /\ right /\ t = Transferred(s, OK, buf, buf)
            \/ ~reading /\ right /\ \E m \in Mixed(buf, trk) : t = Transferred(s, ERROR, buf, m)
            \/ \E st \in {ERROR, PROTECTED} : t = Transferred(s, st, buf, trk)
BY Zenon DEF TransferEnds, Transferred

(* Bytes of a write may have landed on its cylinder. *)
Landed(s, t, p) ==
  LET j == s.job[p]
      cyl == Where(j).cyl
  IN /\ Good(t, p) /\ t.job = s.job
     /\ \/ t.disk = s.disk
        \/ /\ j.op = "write" /\ j.done < j.size
           /\ \E trk \in [Offsets -> Values] :
                /\ t.disk = [s.disk EXCEPT ![cyl] = trk]
                /\ \A o \in Offsets :
                     \/ trk[o] = s.disk[cyl][o]
                     \/ /\ o \in Where(j).offset .. Where(j).offset + working_size(j) - 1
                        /\ trk[o] = j.value

(* A part of one track and the rest of another. *)
LEMMA MixedTracks ==
  ASSUME NEW new \in [Offsets -> Values], NEW old \in [Offsets -> Values],
         NEW m \in Mixed(new, old)
  PROVE  m \in [Offsets -> Values] /\ \A o \in Offsets : m[o] = new[o] \/ m[o] = old[o]
BY DEF Mixed

(* Every end of a transfer is sound. *)
LEMMA TransferEndGood ==
  ASSUME NEW p, NEW s, Good(s, p), s.mode = "run", s.fdc.phase = "exec",
         s.run[p].kind = "track", NEW t \in TransferEnds(s)
  PROVE  Landed(s, t, p)
<1> DEFINE r == s.run[p]
           j == s.job[p]
           buf == s.floppy_dmabuf
           here == s.fdc.cyl
           trk == s.disk[here]
           reading == s.fdc.cmd[1] = CMD_READ_DATA
           right == s.fdc.cmd[3] = here
<1>1. s \in States(p) /\ s.fdc \in Controllers /\ here \in Cylinders
  BY Fields DEF Good, Controllers
<1>2. /\ buf \in [Offsets -> Values] /\ s.disk \in [Cylinders -> [Offsets -> Values]]
      /\ trk \in [Offsets -> Values]
  BY <1>1 DEF States
<1>3. /\ Moving(r, j) /\ s.fdc.cmd[1] = CommandByte(r) /\ s.fdc.cmd[3] = r.cyl
      /\ r.dir = "write" => Merged(buf, s.disk[r.cyl], j)
  BY AtExec
<1>4. r.dir \in {"read", "write"} /\ (r.dir = "write" => j.op = "write")
      /\ j.done < j.size /\ r.cyl = Where(j).cyl
  BY <1>3 DEF Moving
<1>5. reading <=> r.dir = "read"
  BY <1>3, <1>4 DEF CommandByte, CMD_READ_DATA, CMD_WRITE_DATA
<1>6. \/ reading /\ right /\ t = Transferred(s, OK, trk, trk)
      \/ reading /\ \E m \in Mixed(trk, buf) : t = Transferred(s, ERROR, m, trk)
      \/ ~reading /\ right /\ t = Transferred(s, OK, buf, buf)
      \/ ~reading /\ right /\ \E m \in Mixed(buf, trk) : t = Transferred(s, ERROR, buf, m)
      \/ \E st \in {ERROR, PROTECTED} : t = Transferred(s, st, buf, trk)
  BY TransferCases
<1>7. s.disk = [s.disk EXCEPT ![here] = trk]
  BY <1>1, <1>2
<1>8. ERROR # OK /\ PROTECTED # OK
  BY DEF ERROR, OK, PROTECTED
<1> HIDE DEF r, j, buf, here, trk, reading, right
<1>9. CASE reading /\ right /\ t = Transferred(s, OK, trk, trk)
  <2>1. r.dir # "write" /\ trk = s.disk[r.cyl]
    BY <1>3, <1>5, <1>9 DEF right, trk, here
  <2>2. Good(t, p) /\ t.job = s.job /\ t.disk = s.disk
    <3>1. Faithful(s, p, OK, trk, trk, s.disk)
      BY <1>2, <1>7, <2>1 DEF Faithful, r, here
    <3> QED BY <1>9, <3>1, TransferGood
  <2> QED BY <2>2 DEF Landed
<1>10. CASE reading /\ \E m \in Mixed(trk, buf) : t = Transferred(s, ERROR, m, trk)
  <2>1. PICK m \in Mixed(trk, buf) : t = Transferred(s, ERROR, m, trk)
    BY <1>10
  <2>2. m \in [Offsets -> Values]
    BY <1>2, MixedTracks
  <2>3. r.dir # "write"
    BY <1>5, <1>10
  <2>4. Good(t, p) /\ t.job = s.job /\ t.disk = s.disk
    <3>1. Faithful(s, p, ERROR, m, trk, s.disk)
      BY <1>2, <1>7, <1>8, <2>2, <2>3 DEF Faithful, r, here
    <3> QED BY <2>1, <3>1, TransferGood
  <2> QED BY <2>4 DEF Landed
<1>11. ASSUME NEW st \in {ERROR, PROTECTED}, t = Transferred(s, st, buf, trk)
       PROVE  Landed(s, t, p)
  <2>1. r.dir = "write" => Merged(buf, s.disk[r.cyl], j)
    BY <1>3
  <2>2. Good(t, p) /\ t.job = s.job /\ t.disk = s.disk
    <3>1. Faithful(s, p, st, buf, trk, s.disk)
      BY <1>2, <1>7, <1>8, <2>1 DEF Faithful, r, here, j
    <3> QED BY <1>11, <3>1, TransferGood
  <2> QED BY <2>2 DEF Landed
<1>12. ASSUME ~reading, right,
              NEW st \in {OK, ERROR}, NEW m \in [Offsets -> Values],
              \A o \in Offsets : m[o] = buf[o] \/ m[o] = trk[o],
              st = OK => m = buf, t = Transferred(s, st, buf, m)
       PROVE  Landed(s, t, p)
  <2> DEFINE dsk == [s.disk EXCEPT ![here] = m]
  <2>1. r.cyl = here /\ r.dir = "write" /\ j.op = "write"
    BY <1>3, <1>4, <1>5, <1>12 DEF right
  <2>2. dsk[r.cyl] = m
    BY <1>1, <1>2, <2>1
  <2>3. Merged(buf, trk, j)
    BY <1>3, <2>1 DEF trk
  <2>4. Merged(buf, m, j)
    BY <1>12, <2>3 DEF Merged
  <2>5. \A o \in Offsets :
          \/ m[o] = trk[o]
          \/ /\ o \in Where(j).offset .. Where(j).offset + working_size(j) - 1
             /\ m[o] = j.value
    BY <1>12, <2>3 DEF Merged
  <2> HIDE DEF dsk
  <2>6. Good(t, p) /\ t.job = s.job /\ t.disk = dsk
    <3>1. st \in {OK, ERROR, PROTECTED} /\ (st = OK => buf = dsk[r.cyl])
      BY <1>12, <2>2
    <3>2. r.dir = "write" => Merged(buf, dsk[r.cyl], j)
      BY <2>2, <2>4
    <3>3. dsk = [s.disk EXCEPT ![s.fdc.cyl] = m]
      BY DEF dsk, here
    <3>4. Faithful(s, p, st, buf, m, dsk)
      BY <1>2, <3>1, <3>2, <3>3 DEF Faithful, r, j
    <3> QED BY <1>12, <3>4, TransferGood
  <2>7. t.disk = [s.disk EXCEPT ![Where(j).cyl] = m] /\ trk = s.disk[Where(j).cyl]
    BY <1>4, <2>1, <2>6 DEF dsk, trk
  <2> QED BY <1>4, <1>12, <2>1, <2>5, <2>6, <2>7 DEF Landed, j
<1>13. CASE ~reading /\ right /\ t = Transferred(s, OK, buf, buf)
  BY <1>2, <1>12, <1>13
<1>14. CASE ~reading /\ right /\ \E m \in Mixed(buf, trk) : t = Transferred(s, ERROR, buf, m)
  <2>1. PICK m \in Mixed(buf, trk) : t = Transferred(s, ERROR, buf, m)
    BY <1>14
  <2>2. m \in [Offsets -> Values] /\ \A o \in Offsets : m[o] = buf[o] \/ m[o] = trk[o]
    BY <1>2, MixedTracks
  <2> QED BY <1>8, <1>12, <1>14, <2>1, <2>2
<1> QED BY <1>6, <1>9, <1>10, <1>11, <1>13, <1>14
(* The controller ends what it executes. *)
LEMMA ControllerGood ==
  ASSUME NEW p, NEW s, Good(s, p), s.mode = "run", s.fdc.phase = "exec",
         NEW t \in IF s.fdc.cmd[1] = CMD_SEEK THEN SeekEnds(s) ELSE TransferEnds(s)
  PROVE  Landed(s, t, p)
<1> DEFINE r == s.run[p]
<1>1. r.kind \in {"seek", "track"} /\ s.fdc.cmd[1] = CommandByte(r)
  BY AtExec
<1>2. r.kind = "seek" <=> s.fdc.cmd[1] = CMD_SEEK
  BY <1>1 DEF CommandByte, CMD_SEEK, CMD_READ_DATA, CMD_WRITE_DATA
<1>3. CASE r.kind = "seek"
  <2> DEFINE Ends(st, cyl) ==
        floppy_IT([s EXCEPT !.fdc = [@ EXCEPT !.phase = "cmd", !.cmd = <<>>,
                                              !.st0 = st, !.cyl = cyl]])
  <2>1. s.fdc.cyl \in Cylinders
    BY Fields DEF Good, Controllers
  <2>2. \E st \in {ERROR, OK}, cyl \in Cylinders : t = Ends(st, cyl)
    BY <1>2, <1>3, <2>1 DEF SeekEnds, Cylinders
  <2>3. PICK st \in {ERROR, OK}, cyl \in Cylinders : t = Ends(st, cyl)
    BY <2>2
  <2>4. st \in Int
    BY DEF ERROR, OK
  <2>5. Inward(s, Ends(st, cyl), p)
    BY <1>3, <2>4, SeekEndGood
  <2> QED BY <2>3, <2>5 DEF Inward, Landed
<1>4. CASE r.kind = "track"
  <2>1. t \in TransferEnds(s)
    BY <1>2, <1>4
  <2> QED BY <1>4, <2>1, TransferEndGood
<1> QED BY <1>1, <1>3, <1>4

-----------------------------------------------------------------------------
(* The specification.                                                      *)

(* A step that becomes s leaves the globals of s. *)
LEMMA BecomesIt ==
  ASSUME NEW p, NEW s \in States(p), Becomes(s)
  PROVE  G' = s
BY DEF Becomes, G, States

(* The record holds the globals. *)
LEMMA Globals ==
  /\ G.interrupted = interrupted /\ G.floppy_dmacyl = floppy_dmacyl
  /\ G.floppy_dmabuf = floppy_dmabuf /\ G.dma_dir = dma_dir
  /\ G.sleep_timer_pid = sleep_timer_pid /\ G.motor_state = motor_state
  /\ G.motor_ticks = motor_ticks /\ G.motor_dor = motor_dor /\ G.fdc = fdc
  /\ G.disk = disk /\ G.job = job /\ G.run = run /\ G.mode = mode
BY DEF G

(* What a step does to the disk and to the call. *)
Effect(s, t, p) ==
  \/ t.disk = s.disk /\ t.job = s.job
  \/ t.disk = s.disk /\ (Delivered(s, t, p) \/ Stored(s, t, p))
  \/ Landed(s, t, p)
  \/ /\ t.disk = s.disk /\ s.job[p] = NoJob
     /\ \E q \in Requests : t.job = [s.job EXCEPT ![p] = Accepted(q)]
  \/ /\ t.disk = s.disk /\ t.job = [s.job EXCEPT ![p] = NoJob]
     /\ s.job[p].op # "none" /\ s.job[p].done = s.job[p].size

(* A step from a good state, and what it does. *)
Sound(s, t, p) == Good(t, p) /\ Effect(s, t, p)

(* The step of a process becomes a good state. *)
LEMMA BecomesSound ==
  ASSUME NEW p, NEW s, Sound(G, s, p), Becomes(s)
  PROVE  Sound(G, G', p)
<1>1. s \in States(p)
  BY DEF Sound, Good
<1>2. G' = s
  BY <1>1, BecomesIt
<1> QED BY <1>2

(* The process and the controller keep the state good. *)
LEMMA StepGood ==
  ASSUME NEW p, Procs = {p}, Good(G, p), FloppyNext
  PROVE  Sound(G, G', p)
<1>1. mode = "run" /\ (ControllerEnds \/ Call(p) \/ Leave(p) \/ Resume(p) \/ Begin(p))
  BY DEF FloppyNext, Step
<1>2. G.mode = "run" /\ G.run = run /\ G.job = job /\ G.fdc = fdc
      /\ G.interrupted = interrupted
  BY <1>1, Globals
<1>3. ASSUME NEW t, Inward(G, t, p) \/ Served(G, t, p) \/ Landed(G, t, p), Becomes(t)
      PROVE  Sound(G, G', p)
  <2>1. Sound(G, t, p)
    BY <1>3 DEF Sound, Effect, Inward, Served, Landed
  <2> QED BY <1>3, <2>1, BecomesSound
<1>4. CASE ControllerEnds
  <2>1. PICK t \in IF fdc.cmd[1] = CMD_SEEK THEN SeekEnds(G) ELSE TransferEnds(G) :
               Becomes(t)
    BY <1>4 DEF ControllerEnds
  <2>2. fdc.phase = "exec"
    BY <1>4 DEF ControllerEnds
  <2>3. Landed(G, t, p)
    BY <1>2, <2>1, <2>2, ControllerGood
  <2> QED BY <1>3, <2>1, <2>3
<1>5. CASE Call(p)
  <2>1. run[p].pc = "call" /\ Becomes(AfterCall(G, p))
    BY <1>2, <1>5 DEF Call, AfterCall
  <2>2. Served(G, AfterCall(G, p), p)
    BY <1>2, <2>1, CallGood
  <2> QED BY <1>3, <2>1, <2>2
<1>6. CASE Leave(p)
  <2> DEFINE t == [G EXCEPT !.job[p] = NoJob, !.run[p] = Idle]
  <2>1. run[p].pc = "return" /\ Becomes(t)
    BY <1>6 DEF Leave
  <2>2. /\ Good(t, p) /\ t.disk = G.disk /\ t.job = [G.job EXCEPT ![p] = NoJob]
        /\ G.job[p].op # "none" /\ G.job[p].done = G.job[p].size
    BY <1>2, <2>1, LeaveGood
  <2> HIDE DEF t
  <2>3. Sound(G, t, p)
    BY <2>2 DEF Sound, Effect
  <2> QED BY <2>1, <2>3, BecomesSound
<1>7. CASE Spin(p)
  <2> DEFINE t == AfterMotor([G EXCEPT !.motor_state = "on"], p)
  <2>1. run[p].pc = "spin" /\ Becomes(t)
    BY <1>7 DEF Spin
  <2>2. Inward(G, t, p)
    BY <1>2, <2>1, SpinGood
  <2> QED BY <1>3, <2>1, <2>2
<1>8. CASE Settle(p)
  <2> DEFINE t == SendCommand(G, p, TrackCommand(run[p]))
  <2>1. run[p].pc = "settle" /\ Becomes(t)
    BY <1>8 DEF Settle
  <2>2. Inward(G, t, p)
    BY <1>2, <2>1, SettleGood
  <2> QED BY <1>3, <2>1, <2>2
<1>9. CASE write_cmd(p)
  <2>1. run[p].pc = "write" /\ Becomes(AfterWrite(G, p))
    BY <1>2, <1>9 DEF write_cmd, AfterWrite, Written
  <2>2. Inward(G, AfterWrite(G, p), p)
    BY <1>2, <2>1, WriteGood
  <2> QED BY <1>3, <2>1, <2>2
<1>10. CASE wait_interrupt(p)
  <2>1. run[p].pc = "wait" /\ interrupted /\ Becomes(Waited(G, p))
    BY <1>10 DEF wait_interrupt
  <2>2. G.interrupted = TRUE
    BY <1>2, <2>1 DEF Good, States
  <2>3. Inward(G, Waited(G, p), p)
    BY <1>2, <2>1, <2>2, WaitGood
  <2> QED BY <1>3, <2>1, <2>3
<1>11. CASE read_data(p)
  <2>1. run[p].pc = "read" /\ Becomes(AfterRead(G, p))
    BY <1>2, <1>11 DEF read_data, AfterRead, Taken
  <2>2. Served(G, AfterRead(G, p), p)
    BY <1>2, <2>1, ReadGood
  <2> QED BY <1>3, <2>1, <2>2
<1>12. CASE Begin(p)
  <2>1. run[p].pc = "idle" /\ \E q \in Requests : Becomes(Begun(G, p, q))
    BY <1>12 DEF Begin, Begun, Accepted
  <2>2. PICK q \in Requests : Becomes(Begun(G, p, q))
    BY <2>1
  <2> DEFINE t == Begun(G, p, q)
  <2>3. Good(t, p) /\ t.disk = G.disk /\ t.job = [G.job EXCEPT ![p] = Accepted(q)]
    BY <1>2, <2>1, BeginGood
  <2>4. G.job[p] = NoJob
    BY <1>2, <2>1 DEF Good, Working, Errand
  <2> HIDE DEF t
  <2>5. Sound(G, t, p)
    BY <2>3, <2>4 DEF Sound, Effect
  <2> QED BY <2>2, <2>5, BecomesSound DEF t
<1> QED BY <1>1, <1>4, <1>5, <1>6, <1>7, <1>8, <1>9, <1>10, <1>11, <1>12 DEF Resume
(* The state at boot is good. *)
LEMMA InitGood ==
  ASSUME NEW p, Procs = {p}, FloppyInit
  PROVE  Good(G, p)
<1>1. /\ CYLINDERS \in Nat \ {0} /\ CYLINDER_SIZE \in Nat \ {0} /\ 0 \in Values
  BY FloppyAssumption
<1>2. Idle \in Runs /\ Idle.pc = "idle" /\ Idle.kind = "none" /\ Idle.dir = "none"
  BY IdleRuns DEF Idle
<1>3. NoJob \in Jobs /\ Inside(NoJob)
  <2>1. <<>> \in Seq(Values) /\ Capacity \in Nat
    BY <1>1 DEF Capacity
  <2> QED BY <1>1, <2>1 DEF NoJob, Jobs, Inside
<1>4. fdc \in Controllers /\ Quiet(fdc)
  <2>1. 0 \in Cylinders /\ OK \in Int
    BY <1>1 DEF Cylinders, OK
  <2> QED BY <2>1, EmptySequence DEF FloppyInit, Controllers, Quiet
<1>5. job \in [{p} -> Jobs] /\ job[p] = NoJob /\ run \in [{p} -> Runs] /\ run[p] = Idle
  BY <1>2, <1>3 DEF FloppyInit
<1>6. /\ interrupted = FALSE /\ floppy_dmacyl = -1 /\ motor_state = "off"
      /\ motor_dor = FALSE /\ mode = "run" /\ disk \in [Cylinders -> [Offsets -> Values]]
      /\ floppy_dmabuf \in [Offsets -> Values] /\ dma_dir = "none"
      /\ sleep_timer_pid = -1 /\ motor_ticks = 0
  BY <1>1 DEF FloppyInit, Cylinders
<1>7. G \in States(p)
  <2>1. -1 \in -1 .. CYLINDERS - 1
    BY <1>1
  <2>2. interrupted \in BOOLEAN /\ motor_dor \in BOOLEAN
    BY <1>6, Zenon
  <2>3. /\ dma_dir \in {"none", "read", "write"} /\ motor_state \in {"off", "on", "wait"}
        /\ mode \in {"run", "panic"}
    BY <1>6, Zenon
  <2>4. floppy_dmacyl \in -1 .. CYLINDERS - 1
    BY <1>6, <2>1, Zenon
  <2>5. sleep_timer_pid \in Int /\ motor_ticks \in Int
    <3>1. -1 \in Int /\ 0 \in Int
      BY SMT
    <3> QED BY <1>6, <3>1, Zenon
  <2>6. /\ disk \in [Cylinders -> [Offsets -> Values]]
        /\ floppy_dmabuf \in [Offsets -> Values]
    BY <1>6
  <2> QED BY <1>4, <1>5, <2>2, <2>3, <2>4, <2>5, <2>6 DEF G, States
<1>8. Rounds(Idle) /\ Errand(Idle, NoJob) /\ InPhase(Idle, fdc, interrupted)
  BY <1>2, <1>4 DEF Rounds, Errand, InPhase, Resting
<1>9. Spun(Idle, motor_state, motor_dor)
  BY <1>2, <1>6 DEF Spun
<1>10. Held(Idle, NoJob, fdc, interrupted, floppy_dmabuf, floppy_dmacyl, disk)
  BY <1>2, <1>6 DEF Held, Ended, Resting
<1> QED BY <1>3, <1>4, <1>5, <1>7, <1>8, <1>9, <1>10, Globals DEF Good, Working, Quiet

(* A good state is one in which driver and controller are in step. *)
LEMMA GoodInStep ==
  ASSUME NEW p, Procs = {p}, Good(G, p)
  PROVE  DriverInStep
<1>1. /\ G \in States(p) /\ Inside(job[p])
      /\ fdc.phase = "exec" => motor_dor /\ motor_state = "on"
      /\ mode = "run" => Working(G, p)
  BY Globals DEF Good
<1>2. job[p] \in Jobs /\ run[p] \in Runs /\ fdc \in Controllers
  BY <1>1, Fields, Globals
<1>3. FloppyTypeOK
  <2>1. /\ interrupted \in BOOLEAN /\ floppy_dmacyl \in -1 .. CYLINDERS - 1
        /\ floppy_dmabuf \in [Offsets -> Values] /\ dma_dir \in {"none", "read", "write"}
        /\ sleep_timer_pid \in Int /\ motor_state \in {"off", "on", "wait"}
        /\ motor_ticks \in Int /\ motor_dor \in BOOLEAN /\ mode \in {"run", "panic"}
        /\ disk \in [0 .. CYLINDERS - 1 -> [Offsets -> Values]]
    BY <1>1, Globals DEF States, Cylinders
  <2>2. fdc.phase \in {"cmd", "exec", "result"} /\ fdc.cyl \in 0 .. CYLINDERS - 1
    BY <1>2 DEF Controllers, Cylinders
  <2>3. /\ job[p].op \in {"none", "read", "view", "write"}
        /\ job[p].done \in 0 .. job[p].size
    BY <1>1, <1>2 DEF Jobs, Inside
  <2>4. /\ run[p].cyl \in 0 .. CYLINDERS - 1
        /\ run[p].try \in 0 .. SEEK_RETRIES + TRACK_RETRIES
    BY <1>2 DEF Runs, Cylinders
  <2> QED BY <2>1, <2>2, <2>3, <2>4 DEF FloppyTypeOK
<1>4. FifoInStep
  BY <1>1, Globals DEF FifoInStep, Working, InPhase
<1>5. MotorTurns
  BY <1>1 DEF MotorTurns
<1> QED BY <1>3, <1>4, <1>5 DEF DriverInStep

(* The invariant of the driver used by one process: every reachable state  *)
(* is good.                                                                *)
THEOREM DriverInvariant ==
  ASSUME NEW p, Procs = {p}
  PROVE  FloppySpec => []Good(G, p)
<1>1. FloppyInit => Good(G, p)
  BY InitGood
<1>2. Good(G, p) /\ [FloppyNext]_floppy_vars => Good(G, p)'
  <2>1. ASSUME Good(G, p), FloppyNext
        PROVE  Good(G, p)'
    <3>1. Sound(G, G', p)
      BY <2>1, StepGood
    <3>2. Good(G', p)
      BY <3>1 DEF Sound
    <3> QED BY <3>2
  <2>2. ASSUME Good(G, p), UNCHANGED floppy_vars
        PROVE  Good(G, p)'
    <3>1. G' = G
      BY <2>2 DEF G, floppy_vars
    <3> QED BY <2>2, <3>1
  <2> QED BY <2>1, <2>2
<1> QED BY <1>1, <1>2, PTL DEF FloppySpec

(* With one process in the driver, and whatever fails, the driver writes a *)
(* command byte only while the controller takes commands, reads a result   *)
(* byte only while there is one, and a command is executed with the motor  *)
(* running and accounted for.                                              *)
THEOREM DriverStaysInStep ==
  ASSUME NEW p, Procs = {p}
  PROVE  FloppySpec => []DriverInStep
<1>1. FloppySpec => []Good(G, p)
  BY DriverInvariant
<1>2. Good(G, p) => DriverInStep
  BY GoodInStep
<1> QED BY <1>1, <1>2, PTL
-----------------------------------------------------------------------------
(* The block device.                                                       *)

(* The bytes of a disk by address. *)
Contents(dsk) == [a \in 0 .. Capacity - 1 |-> dsk[a \div CYLINDER_SIZE][a % CYLINDER_SIZE]]

(* What is stored at the addresses are bytes. *)
LEMMA ContentsBytes ==
  ASSUME NEW dsk \in [Cylinders -> [Offsets -> Values]]
  PROVE  Contents(dsk) \in [0 .. Capacity - 1 -> Values]
<1>1. ASSUME NEW a \in 0 .. Capacity - 1
      PROVE  dsk[a \div CYLINDER_SIZE][a % CYLINDER_SIZE] \in Values
  BY DiskCells
<1> QED BY <1>1 DEF Contents

(* The bytes a turn moves are those of the request at their addresses. *)
LEMMA Addressed ==
  ASSUME NEW j \in Jobs, Inside(j), j.done < j.size, NEW dsk,
         NEW i \in 1 .. working_size(j)
  PROVE  /\ j.addr + j.done + i - 1 \in 0 .. Capacity - 1
         /\ Contents(dsk)[j.addr + j.done + i - 1] =
              dsk[Where(j).cyl][Where(j).offset + i - 1]
<1> DEFINE a == j.addr + j.done
           k == i - 1
           n == working_size(j)
           o == Where(j).offset
<1>1. j.addr \in Nat /\ j.done \in Nat /\ j.size \in Nat /\ CYLINDER_SIZE \in Nat \ {0}
      /\ Capacity \in Nat
  BY FloppyAssumption DEF Jobs, Capacity
<1>2. o \in Offsets /\ n \in 1 .. j.size - j.done /\ o + n <= CYLINDER_SIZE
  BY Workload
<1>3. Where(j).cyl = a \div CYLINDER_SIZE /\ o = a % CYLINDER_SIZE
  BY DEF Where, addr_2_coff
<1>4. i \in 1 .. n
  OBVIOUS
<1> HIDE DEF n, o
<1>5. k \in Nat /\ a \in Nat /\ o + k < CYLINDER_SIZE /\ k < j.size - j.done
  BY <1>1, <1>2, <1>4 DEF Offsets
<1>6. a + k \in 0 .. Capacity - 1 /\ a + k = j.addr + j.done + i - 1
  BY <1>1, <1>4, <1>5 DEF Inside
<1> HIDE DEF a, k
<1>7. /\ (a + k) \div CYLINDER_SIZE = a \div CYLINDER_SIZE
      /\ (a + k) % CYLINDER_SIZE = (a % CYLINDER_SIZE) + k
  BY <1>3, <1>5, SameCylinder
<1>8. Contents(dsk)[a + k] = dsk[Where(j).cyl][o + k]
  BY <1>3, <1>6, <1>7 DEF Contents
<1>9. o + k = o + i - 1
  BY <1>2, <1>4 DEF k, Offsets
<1> QED BY <1>6, <1>8, <1>9 DEF o

(* A number not far from the beginning of an interval is in it. *)
LEMMA Within ==
  ASSUME NEW a \in Nat, NEW b \in Nat, NEW d \in Nat, NEW e \in Nat,
         NEW n \in 1 .. e - d, a - (b + d) \in 0 .. n - 1
  PROVE  a \in b + d .. b + e - 1
OBVIOUS

(* An offset of the bytes a turn moves is an address of the request. *)
LEMMA OwnAddress ==
  ASSUME NEW j \in Jobs, Inside(j), j.done < j.size, NEW a \in 0 .. Capacity - 1,
         a \div CYLINDER_SIZE = Where(j).cyl,
         a % CYLINDER_SIZE \in Where(j).offset .. Where(j).offset + working_size(j) - 1
  PROVE  a \in j.addr + j.done .. j.addr + j.size - 1
<1> DEFINE b == j.addr + j.done
           n == working_size(j)
           q == a \div CYLINDER_SIZE
           o == a % CYLINDER_SIZE
           o1 == b % CYLINDER_SIZE
<1>1. j.addr \in Nat /\ j.done \in Nat /\ j.size \in Nat /\ CYLINDER_SIZE \in Nat \ {0}
      /\ Capacity \in Nat
  BY FloppyAssumption DEF Jobs, Capacity
<1>2. n \in 1 .. j.size - j.done
  BY Workload
<1>3. Where(j).cyl = b \div CYLINDER_SIZE /\ Where(j).offset = o1
  BY DEF Where, addr_2_coff
<1>4. o \in o1 .. o1 + n - 1 /\ b \div CYLINDER_SIZE = q
  BY <1>3
<1>5. a = CYLINDER_SIZE * q + o /\ q \in Int /\ o \in Int /\ b \in Nat
      /\ a \in Nat
  BY <1>1, SMT
<1> HIDE DEF b
<1>6. b = CYLINDER_SIZE * (b \div CYLINDER_SIZE) + o1 /\ o1 \in Int
  BY <1>1, <1>5, SMT
<1> HIDE DEF n, q, o, o1
<1>7. a \in Nat /\ b \in Nat /\ o \in Int /\ o1 \in Int
  BY <1>5, <1>6
<1>8. a - b = o - o1 /\ o - o1 \in 0 .. n - 1
  <2> DEFINE x == CYLINDER_SIZE * q
  <2>1. x \in Int /\ a = x + o /\ b = x + o1
    BY <1>1, <1>4, <1>5, <1>6
  <2> HIDE DEF x
  <2>2. a - b = o - o1
    BY <1>7, <2>1
  <2>3. o - o1 \in 0 .. n - 1
    BY <1>1, <1>2, <1>4, <1>7
  <2> QED BY <2>2, <2>3
<1>9. a - (j.addr + j.done) \in 0 .. n - 1
  BY <1>8 DEF b
<1> QED BY <1>1, <1>2, <1>7, <1>9, Within

(* Bytes that land are bytes of the write at their addresses. *)
LEMMA LandedBytes ==
  ASSUME NEW p, NEW s, NEW t, Good(s, p), Landed(s, t, p), t.disk # s.disk,
         NEW a \in 0 .. Capacity - 1
  PROVE  /\ s.job[p].op = "write"
         /\ \/ Contents(t.disk)[a] = Contents(s.disk)[a]
            \/ /\ a \in s.job[p].addr + s.job[p].done .. s.job[p].addr + s.job[p].size - 1
               /\ Contents(t.disk)[a] = s.job[p].value
<1> DEFINE j == s.job[p]
           cyl == Where(j).cyl
           q == a \div CYLINDER_SIZE
           o == a % CYLINDER_SIZE
<1>1. j \in Jobs /\ Inside(j) /\ s.disk \in [Cylinders -> [Offsets -> Values]]
  BY Fields DEF Good, States
<1>2. j.op = "write" /\ j.done < j.size
  BY DEF Landed
<1>3. PICK trk \in [Offsets -> Values] :
             /\ t.disk = [s.disk EXCEPT ![cyl] = trk]
             /\ \A x \in Offsets :
                  \/ trk[x] = s.disk[cyl][x]
                  \/ /\ x \in Where(j).offset .. Where(j).offset + working_size(j) - 1
                     /\ trk[x] = j.value
  BY DEF Landed
<1>4. q \in Cylinders /\ o \in Offsets
  BY DiskCells
<1>5. Contents(t.disk)[a] = t.disk[q][o] /\ Contents(s.disk)[a] = s.disk[q][o]
  BY DEF Contents
<1> HIDE DEF j, cyl
<1>6. CASE q # cyl
  <2>1. t.disk[q] = s.disk[q]
    BY <1>1, <1>3, <1>4, <1>6
  <2> QED BY <1>2, <1>5, <2>1 DEF j
<1>7. CASE q = cyl /\ trk[o] = s.disk[cyl][o]
  <2>1. t.disk[q] = trk
    BY <1>1, <1>3, <1>4, <1>7
  <2> QED BY <1>2, <1>5, <1>7, <2>1 DEF j
<1>8. CASE /\ q = cyl /\ trk[o] = j.value
           /\ o \in Where(j).offset .. Where(j).offset + working_size(j) - 1
  <2>1. t.disk[q] = trk
    BY <1>1, <1>3, <1>4, <1>8
  <2>2. a \in j.addr + j.done .. j.addr + j.size - 1
    BY <1>1, <1>2, <1>8, OwnAddress DEF cyl
  <2> QED BY <1>2, <1>5, <1>8, <2>1, <2>2 DEF j
<1> QED BY <1>3, <1>4, <1>6, <1>7, <1>8
(* The state function of the block device that the mapping gives. *)
LEMMA StoreContents ==
  /\ Contents(disk) = [a \in 0 .. CYLINDERS * CYLINDER_SIZE - 1 |->
                         disk[a \div CYLINDER_SIZE][a % CYLINDER_SIZE]]
  /\ Contents(disk') = [a \in 0 .. CYLINDERS * CYLINDER_SIZE - 1 |->
                          disk'[a \div CYLINDER_SIZE][a % CYLINDER_SIZE]]
BY DEF Contents, Capacity

(* A step of the driver is a step of the block device, or none. *)
LEMMA StoreStep ==
  ASSUME NEW p, Procs = {p}, Good(G, p), Sound(G, G', p)
  PROVE  [Store!Next]_<<Contents(disk), job>>
<1> DEFINE j == job[p]
           A == 0 .. CYLINDERS * CYLINDER_SIZE - 1
<1>1. /\ G.disk = disk /\ G.job = job /\ G'.disk = disk' /\ G'.job = job'
  BY DEF G
<1>2. /\ j \in Jobs /\ Inside(j) /\ job \in [{p} -> Jobs]
      /\ disk' \in [Cylinders -> [Offsets -> Values]]
  BY <1>1, Fields DEF Good, Sound, States
<1>3. Store!NoJob = NoJob /\ A = 0 .. Capacity - 1
  BY DEF Store!NoJob, NoJob, Capacity
<1>4. j.addr \in Nat /\ j.done \in Nat /\ j.size \in Nat /\ j.got \in Seq(Values)
  BY <1>2 DEF Jobs
<1>5. Effect(G, G', p)
  BY DEF Sound
<1>6. CASE disk' = disk /\ job' = job
  BY <1>6
<1>7. CASE disk' = disk /\ Delivered(G, G', p)
  <2> DEFINE n == working_size(j)
             bytes == [i \in 1 .. n |-> disk[Where(j).cyl][Where(j).offset + i - 1]]
  <2>1. /\ j.op # "write" /\ j.done < j.size
        /\ job' = [job EXCEPT ![p] = [j EXCEPT !.done = @ + n, !.got = @ \o bytes]]
    BY <1>1, <1>7 DEF Delivered
  <2>2. n \in 1 .. j.size - j.done
    BY <1>2, <2>1, Workload
  <2>3. \A i \in 1 .. n : Contents(disk)[j.addr + j.done + i - 1] =
                            disk[Where(j).cyl][Where(j).offset + i - 1]
    BY <1>2, <2>1, Addressed
  <2>4. Store!Part(j, n) = bytes
    BY <2>3, StoreContents DEF Store!Part, Store!Next_
  <2> HIDE DEF n, bytes
  <2>5. job' = [job EXCEPT ![p] = Store!Advanced(j, n, Store!Part(j, n))]
    BY <2>1, <2>4 DEF Store!Advanced
  <2>6. Store!Deliver(p)
    BY <1>7, <2>1, <2>2, <2>5 DEF Store!Deliver
  <2> QED BY <2>6 DEF Store!Next
<1>8. CASE disk' = disk /\ Stored(G, G', p)
  <2> DEFINE n == working_size(j)
  <2>1. /\ j.op = "write" /\ j.done < j.size
        /\ \A i \in 1 .. n : disk[Where(j).cyl][Where(j).offset + i - 1] = j.value
        /\ job' = [job EXCEPT ![p] = [j EXCEPT !.done = @ + n]]
    BY <1>1, <1>8 DEF Stored
  <2>2. n \in 1 .. j.size - j.done
    BY <1>2, <2>1, Workload
  <2>3. \A i \in 1 .. n : Contents(disk)[j.addr + j.done + i - 1] = j.value
    BY <1>2, <2>1, Addressed
  <2>4. \A i \in 1 .. n : Store!Part(j, n)[i] = j.value
    BY <2>3, StoreContents DEF Store!Part, Store!Next_
  <2> HIDE DEF n
  <2>5. j.got \o <<>> = j.got
    BY <1>4
  <2>6. Store!Advanced(j, n, <<>>) = [j EXCEPT !.done = @ + n]
    BY <1>2, <2>5 DEF Store!Advanced, Jobs
  <2>7. Store!Acknowledge(p)
    BY <1>8, <2>1, <2>2, <2>4, <2>6 DEF Store!Acknowledge
  <2> QED BY <2>7 DEF Store!Next
<1>9. CASE Landed(G, G', p) /\ disk' # disk
  <2>1. job' = job
    BY <1>1, <1>9 DEF Landed
  <2>2. Contents(disk') \in [A -> Values]
    BY <1>2, <1>3, ContentsBytes
  <2>3. ASSUME NEW a \in A
        PROVE  /\ j.op = "write"
               /\ \/ Contents(disk')[a] = Contents(disk)[a]
                  \/ /\ a \in j.addr + j.done .. j.addr + j.size - 1
                     /\ Contents(disk')[a] = j.value
    <3>1. a \in 0 .. Capacity - 1 /\ G'.disk # G.disk /\ Landed(G, G', p)
      BY <1>1, <1>3, <1>9
    <3>2. /\ G.job[p].op = "write"
          /\ \/ Contents(G'.disk)[a] = Contents(G.disk)[a]
             \/ /\ a \in G.job[p].addr + G.job[p].done ..
                        G.job[p].addr + G.job[p].size - 1
                /\ Contents(G'.disk)[a] = G.job[p].value
      <4> DEFINE s == G
                 t == G'
      <4>1. Good(s, p) /\ Landed(s, t, p) /\ t.disk # s.disk
        BY <3>1
      <4> HIDE DEF s, t
      <4>2. /\ s.job[p].op = "write"
            /\ \/ Contents(t.disk)[a] = Contents(s.disk)[a]
               \/ /\ a \in s.job[p].addr + s.job[p].done ..
                          s.job[p].addr + s.job[p].size - 1
                  /\ Contents(t.disk)[a] = s.job[p].value
        BY <3>1, <4>1, LandedBytes
      <4> QED BY <4>2 DEF s, t
    <3> QED BY <1>1, <3>2
  <2>4. j.op = "write"
    BY <1>1, <1>9 DEF Landed
  <2>5. Store!Land(p)
    BY <2>1, <2>2, <2>3, <2>4, StoreContents DEF Store!Land, Store!Next_
  <2> QED BY <2>5 DEF Store!Next
<1>10. ASSUME NEW q \in Requests, disk' = disk, j = NoJob,
              job' = [job EXCEPT ![p] = Accepted(q)]
       PROVE  Store!Next
  <2> DEFINE k == Accepted(q)
  <2>1. /\ k.op \in {"read", "view", "write"} /\ k.addr \in A /\ k.value \in Values
        /\ k.size \in 0 .. CYLINDERS * CYLINDER_SIZE
        /\ k = [NoJob EXCEPT !.op = k.op, !.addr = k.addr, !.size = k.size,
                             !.value = k.value]
    BY <1>3, AcceptedJob DEF Capacity
  <2>2. job[p].op = "none"
    BY <1>10 DEF NoJob
  <2> HIDE DEF k
  <2>3. job' = [job EXCEPT ![p] = [Store!NoJob EXCEPT !.op = k.op, !.addr = k.addr,
                                                      !.size = k.size, !.value = k.value]]
    BY <1>3, <1>10, <2>1 DEF k
  <2>4. \E op \in {"read", "view", "write"}, a \in A, n \in 0 .. CYLINDERS * CYLINDER_SIZE,
           v \in Values :
          job' = [job EXCEPT ![p] = [Store!NoJob EXCEPT !.op = op, !.addr = a, !.size = n,
                                                        !.value = v]]
    <3> USE <2>1
    <3> WITNESS k.op \in {"read", "view", "write"}, k.addr \in A,
                k.size \in 0 .. CYLINDERS * CYLINDER_SIZE, k.value \in Values
    <3> QED BY <2>3
  <2>5. Store!Submit(p)
    BY <1>10, <2>2, <2>4 DEF Store!Submit
  <2> QED BY <2>5 DEF Store!Next
<1>11. CASE /\ disk' = disk /\ job' = [job EXCEPT ![p] = NoJob]
            /\ j.op # "none" /\ j.done = j.size
  <2>1. Store!Finish(p)
    BY <1>3, <1>11 DEF Store!Finish
  <2> QED BY <2>1 DEF Store!Next
<1>12. CASE Landed(G, G', p) /\ disk' = disk
  <2>1. job' = job
    BY <1>1, <1>12 DEF Landed
  <2> QED BY <1>12, <2>1
<1> QED
  BY <1>1, <1>5, <1>6, <1>7, <1>8, <1>9, <1>10, <1>11, <1>12 DEF Effect

(* The driver used by one process implements the block device: whatever    *)
(* the controller fails to do, a read or a view delivers what the disk     *)
(* holds, from the cached cylinder too, and a write changes no byte but    *)
(* its own and is over when they are on the disk.                          *)
THEOREM ImplementsBlockDevice ==
  ASSUME NEW p, Procs = {p}
  PROVE  FloppySpec => IsBlockDevice
<1>1. FloppyInit => Store!Init
  <2> SUFFICES ASSUME FloppyInit PROVE Store!Init
    OBVIOUS
  <2>1. disk \in [Cylinders -> [Offsets -> Values]] /\ job = [x \in Procs |-> NoJob]
    BY DEF FloppyInit, Cylinders
  <2>2. Contents(disk) \in [0 .. Capacity - 1 -> Values]
    BY <2>1, ContentsBytes
  <2>3. Store!NoJob = NoJob
    BY DEF Store!NoJob, NoJob
  <2> QED BY <2>1, <2>2, <2>3, StoreContents DEF Store!Init, Capacity
<1>2. Good(G, p) /\ [FloppyNext]_floppy_vars
        => [Store!Next]_<<[a \in 0 .. CYLINDERS * CYLINDER_SIZE - 1 |->
                             disk[a \div CYLINDER_SIZE][a % CYLINDER_SIZE]], job>>
  <2>1. ASSUME Good(G, p), FloppyNext
        PROVE  [Store!Next]_<<Contents(disk), job>>
    BY <2>1, StepGood, StoreStep
  <2>2. ASSUME UNCHANGED floppy_vars
        PROVE  disk' = disk /\ job' = job
    BY <2>2 DEF floppy_vars
  <2> QED BY <2>1, <2>2, StoreContents
<1>3. FloppySpec => []Good(G, p)
  BY DriverInvariant
<1> QED BY <1>1, <1>2, <1>3, PTL DEF FloppySpec, IsBlockDevice, Store!Spec

-----------------------------------------------------------------------------
(* The FAT16 file system: the chains of its table.                         *)

Clusters == 2 .. CLUSTERS - 1
Tables == [0 .. CLUSTERS - 1 -> 0 .. CLUSTERS - 1 \cup {MEDIA, EOC}]
Areas == [0 .. CLUSTERS * BPC - 1 -> Bytes]

(* ch is the chain of clusters from c on in table f. *)
IsChain(f, c, ch) ==
  /\ ch \in Seq(Clusters) /\ Len(ch) >= 1 /\ ch[1] = c
  /\ \A i \in 1 .. Len(ch) - 1 : f[ch[i]] = ch[i + 1]
  /\ f[ch[Len(ch)]] = EOC
  /\ \A i, j \in 1 .. Len(ch) : ch[i] = ch[j] => i = j

LEMMA Constants ==
  /\ CLUSTERS \in Nat /\ CLUSTERS >= 2 /\ CLUSTERS <= MEDIA
  /\ MEDIA \in Nat /\ EOC \in Nat /\ MEDIA < EOC /\ Free = 0
  /\ BPC \in Nat \ {0} /\ CLUSTERS * BPC \in Nat
  /\ \A c \in Clusters : c \in 0 .. CLUSTERS - 1 /\ c # 0 /\ c # 1 /\ c # EOC
<1>1. MEDIA \in Nat /\ EOC \in Nat /\ MEDIA < EOC /\ Free = 0
  BY DEF MEDIA, EOC, Free
<1>2. CLUSTERS \in 2 .. MEDIA /\ BPC \in Nat \ {0}
  BY Fat16Assumption
<1>3. CLUSTERS \in Nat /\ CLUSTERS >= 2 /\ CLUSTERS <= MEDIA
  BY <1>1, <1>2
<1>4. CLUSTERS * BPC \in Nat
  BY <1>2, <1>3
<1>5. \A c \in Clusters : c \in 0 .. CLUSTERS - 1 /\ c # 0 /\ c # 1 /\ c # EOC
  BY <1>1, <1>3 DEF Clusters
<1> QED BY <1>1, <1>2, <1>3, <1>4, <1>5

-----------------------------------------------------------------------------
(* Chains.                                                                 *)

LEMMA ChainLength ==
  ASSUME NEW f, NEW c, NEW ch, IsChain(f, c, ch)
  PROVE  Len(ch) \in 1 .. CLUSTERS - 2
<1> DEFINE n == Len(ch)
<1>1. n \in Nat /\ n >= 1 /\ ch \in [1 .. n -> Clusters]
      /\ \A i, j \in 1 .. n : ch[i] = ch[j] => i = j
  BY DEF IsChain
<1>2. IsFiniteSet(1 .. n) /\ Cardinality(1 .. n) = n
  <2> HIDE DEF n
  <2> QED BY <1>1, FS_Interval
<1>3. IsFiniteSet(Clusters) /\ Cardinality(Clusters) = CLUSTERS - 2
  BY FS_Interval, Constants DEF Clusters
<1>4. Cardinality(1 .. n) <= Cardinality(Clusters)
  <2> HIDE DEF n
  <2> SUFFICES ASSUME Cardinality(Clusters) < Cardinality(1 .. n) PROVE FALSE
    BY <1>1, <1>2, <1>3, Constants
  <2>1. \E x, y \in 1 .. n : x # y /\ ch[x] = ch[y]
    BY <1>1, <1>2, <1>3, FS_PigeonHole
  <2> QED BY <1>1, <2>1
<1> QED BY <1>1, <1>2, <1>3, <1>4, Constants

(* The walk of Chain from any cluster, in at most n steps. *)
Places(f, c) == DOMAIN f \cup Range(f) \cup {c}
Walk(f, c, n, w) ==
  [x \in Places(f, c) |->
     IF x = EOC THEN <<>>
     ELSE IF x \notin DOMAIN f \/ n = 0 THEN Broken
     ELSE <<x>> \o w[f[x]]]

LEMMA PlacesAre ==
  ASSUME NEW f \in Tables, NEW c \in Int
  PROVE  /\ DOMAIN f = 0 .. CLUSTERS - 1 /\ Places(f, c) \subseteq Int
         /\ c \in Places(f, c) /\ \A x \in DOMAIN f : x \in Places(f, c) /\ f[x] \in Places(f, c)
BY Constants DEF Tables, Places, Range

LEMMA WalkType ==
  ASSUME NEW f \in Tables, NEW c \in Int, NEW n, NEW w \in [Places(f, c) -> Seq(Int)]
  PROVE  Walk(f, c, n, w) \in [Places(f, c) -> Seq(Int)]
<1> DEFINE v(x) == IF x = EOC THEN <<>>
                   ELSE IF x \notin DOMAIN f \/ n = 0 THEN Broken
                   ELSE <<x>> \o w[f[x]]
<1>1. \A x \in Places(f, c) : v(x) \in Seq(Int)
  <2> TAKE x \in Places(f, c)
  <2>1. <<>> \in Seq(Int) /\ Broken \in Seq(Int)
    BY DEF Broken
  <2>2. CASE x # EOC /\ x \in DOMAIN f /\ n # 0
    <3>1. x \in Int /\ w[f[x]] \in Seq(Int) /\ <<x>> \in Seq(Int)
      BY <2>2, PlacesAre
    <3>2. <<x>> \o w[f[x]] \in Seq(Int)
      BY <3>1
    <3> QED BY <2>2, <3>2
  <2> QED BY <2>1, <2>2
<1> QED BY <1>1 DEF Walk

LEMMA ChainWalk ==
  ASSUME NEW f \in Tables, NEW c \in Int
  PROVE  \E g : /\ g \in [0 .. CLUSTERS -> [Places(f, c) -> Seq(Int)]]
                /\ \A n \in 1 .. CLUSTERS : g[n] = Walk(f, c, n, g[n - 1])
                /\ Chain(f, c) = g[CLUSTERS][c]
<1> DEFINE N == CLUSTERS
           S == [Places(f, c) -> Seq(Int)]
           none == [x \in Places(f, c) |-> <<>>]
           s == Walk(f, c, 0, none)
           F == [i \in 1 .. N |-> [w \in S |-> Walk(f, c, i, w)]]
           Body(w) == [n \in 0 .. CLUSTERS |->
                         [x \in DOMAIN f \cup Range(f) \cup {c} |->
                            IF x = EOC THEN <<>>
                            ELSE IF x \notin DOMAIN f \/ n = 0 THEN Broken
                            ELSE <<x>> \o w[n - 1][f[x]]]]
           h == CHOOSE w : w = Body(w)
<1>1. N \in Nat /\ s \in S
  <2>1. none \in S
    OBVIOUS
  <2> HIDE DEF none
  <2> QED BY <2>1, WalkType, Constants
<1>2. F \in LoopBodies(N, S) /\ \A i \in 1 .. N, w \in S : F[i][w] = Walk(f, c, i, w)
  <2>1. \A i \in 1 .. N, w \in S : Walk(f, c, i, w) \in S
    BY WalkType
  <2> HIDE DEF S, N
  <2> QED BY <2>1 DEF LoopBodies
<1>3. PICK g : LoopRun(g, N, S, s, F)
  <2> HIDE DEF S, F, N, s
  <2> QED BY <1>1, <1>2, LoopExists
<1>4. /\ g \in [0 .. N -> S] /\ g[0] = s
      /\ \A i \in 1 .. N : i - 1 \in 0 .. N /\ g[i - 1] \in S /\ g[i] = Walk(f, c, i, g[i - 1])
  <2> HIDE DEF S, F, N, s
  <2> QED BY <1>1, <1>2, <1>3 DEF LoopRun
<1>5. s = [x \in Places(f, c) |-> IF x = EOC THEN <<>> ELSE Broken]
  BY DEF Walk
<1>6. \A w : Body(w) = [n \in 0 .. N |-> Walk(f, c, n, w[n - 1])]
  BY DEF Walk, Places
<1>7. \A w : Walk(f, c, 0, w) = s
  BY <1>5 DEF Walk
<1>8. g = Body(g)
  <2> HIDE DEF S, F, s, Body
  <2>1. \A n \in 0 .. N : g[n] = Walk(f, c, n, g[n - 1])
    <3> TAKE n \in 0 .. N
    <3>1. CASE n = 0
      BY <1>4, <1>7, <3>1
    <3>2. CASE n # 0
      <4>1. n \in 1 .. N
        BY <1>1, <3>2
      <4> QED BY <1>4, <4>1
    <3> QED BY <3>1, <3>2
  <2> HIDE DEF N
  <2> QED BY <1>4, <1>6, <2>1
<1>9. h = Body(h) /\ Chain(f, c) = h[N][c]
  <2>1. Chain(f, c) = h[N][c]
    BY DEF Chain
  <2>2. h = Body(h)
    <3> HIDE DEF Body
    <3> QED BY <1>8
  <2> QED BY <2>1, <2>2
<1> HIDE DEF h, Body, S, F, s
<1>10. h = [n \in 0 .. N |-> Walk(f, c, n, h[n - 1])]
  BY <1>6, <1>9
<1> DEFINE E == {n \in 0 .. N : h[n] = g[n]}
<1>11. \A n \in 0 .. N : n \in E
  <2>1. 0 \in E
    BY <1>1, <1>4, <1>7, <1>10
  <2>2. ASSUME NEW n \in 1 .. N, n - 1 \in E PROVE n \in E
    <3>1. n \in 0 .. N /\ h[n] = Walk(f, c, n, h[n - 1])
      BY <1>1, <1>10
    <3> QED BY <1>4, <2>2, <3>1
  <2> HIDE DEF E, N
  <2> QED BY <1>1, <2>1, <2>2, UpTo
<1>12. Chain(f, c) = g[N][c]
  BY <1>1, <1>9, <1>11
<1> QED BY <1>4, <1>12 DEF S

LEMMA Suffix ==
  ASSUME NEW S, NEW s \in Seq(S), NEW n \in 0 .. Len(s)
  PROVE  LET t == SubSeq(s, n + 1, Len(s)) IN
         /\ t \in Seq(S) /\ Len(t) = Len(s) - n
         /\ \A j \in 1 .. Len(s) - n : t[j] = s[n + j]
<1> DEFINE t == SubSeq(s, n + 1, Len(s))
           L == Len(s)
           u == [j \in 1 .. L - n |-> s[n + j]]
<1>1. L \in Nat /\ L - n \in Nat /\ \A j \in 1 .. L - n : n + j \in 1 .. L
  OBVIOUS
<1>2. t = [j \in 1 .. (L - (n + 1) + 1) |-> s[j + (n + 1) - 1]]
  OBVIOUS
<1>3. L - (n + 1) + 1 = L - n /\ \A j \in 1 .. L - n : j + (n + 1) - 1 = n + j
  BY <1>1
<1>4. t = u
  BY <1>2, <1>3
<1>5. \A j \in 1 .. L - n : s[n + j] \in S
  BY <1>1
<1>6. u \in Seq(S) /\ Len(u) = L - n /\ \A j \in 1 .. L - n : u[j] = s[n + j]
  BY <1>1, <1>5
<1> QED BY <1>4, <1>6

(* Chain finds the chain there is. *)
LEMMA ChainFound ==
  ASSUME NEW f \in Tables, NEW c, NEW ch, IsChain(f, c, ch)
  PROVE  Chain(f, c) = ch
<1> DEFINE L == Len(ch)
           Rest(n) == SubSeq(ch, n + 1, L)
<1>1. /\ ch \in Seq(Clusters) /\ L \in 1 .. CLUSTERS - 2 /\ ch[1] = c
      /\ \A i \in 1 .. L : ch[i] \in Clusters
      /\ \A i \in 1 .. L - 1 : f[ch[i]] = ch[i + 1]
      /\ f[ch[L]] = EOC
  <2>1. L \in 1 .. CLUSTERS - 2
    BY ChainLength
  <2>2. /\ ch \in Seq(Clusters) /\ ch[1] = c /\ f[ch[L]] = EOC
        /\ \A i \in 1 .. L - 1 : f[ch[i]] = ch[i + 1]
    BY DEF IsChain
  <2>3. \A i \in 1 .. L : ch[i] \in Clusters
    BY <2>2
  <2> HIDE DEF L
  <2> QED BY <2>1, <2>2, <2>3
<1>2. c \in Int /\ c \in Places(f, c)
  BY <1>1, Constants DEF Clusters, Places
<1>3. PICK g : /\ g \in [0 .. CLUSTERS -> [Places(f, c) -> Seq(Int)]]
               /\ \A n \in 1 .. CLUSTERS : g[n] = Walk(f, c, n, g[n - 1])
               /\ Chain(f, c) = g[CLUSTERS][c]
  BY <1>2, ChainWalk
<1>4. \A x \in DOMAIN f : x \in Places(f, c) /\ f[x] \in Places(f, c)
  BY <1>2, PlacesAre
(* With m clusters to go, more than m turns show them. *)
<1> DEFINE V == {m \in 0 .. L : \A n \in 1 .. CLUSTERS :
                   n > m => g[n][IF m = 0 THEN EOC ELSE ch[L - m + 1]] = Rest(L - m)}
<1>5. EOC \in Places(f, c)
  <2>1. ch[L] \in Clusters
    BY <1>1
  <2>2. ch[L] \in DOMAIN f
    BY <1>2, <2>1, PlacesAre, Constants
  <2> QED BY <1>1, <1>4, <2>2
<1>6. 0 \in V
  <2> SUFFICES ASSUME NEW n \in 1 .. CLUSTERS PROVE g[n][EOC] = Rest(L)
    BY <1>1
  <2>1. Rest(L) = <<>>
    BY <1>1
  <2>2. g[n][EOC] = <<>>
    BY <1>3, <1>5 DEF Walk
  <2> QED BY <2>1, <2>2
<1>7. ASSUME NEW m \in 1 .. L, m - 1 \in V PROVE m \in V
  <2> DEFINE i == L - m + 1
             x == ch[i]
  <2> SUFFICES ASSUME NEW n \in 1 .. CLUSTERS, n > m PROVE g[n][x] = Rest(L - m)
    BY <1>1
  <2>1. i \in 1 .. L /\ x \in Clusters /\ L - (m - 1) = i /\ n - 1 \in 1 .. CLUSTERS /\ n - 1 > m - 1
    BY <1>1, Constants
  <2>2. x \in DOMAIN f /\ x # EOC /\ x \in Places(f, c)
    BY <1>2, <1>4, <2>1, PlacesAre, Constants
  <2>3. f[x] = IF m - 1 = 0 THEN EOC ELSE ch[L - (m - 1) + 1]
    <3>1. CASE m = 1
      BY <1>1, <3>1
    <3>2. CASE m # 1
      <4>1. i \in 1 .. L - 1
        BY <1>1, <2>1, <3>2
      <4> QED BY <1>1, <2>1, <3>2, <4>1
    <3> QED BY <3>1, <3>2
  <2>4. g[n - 1][f[x]] = Rest(i)
    <3>1. \A k \in 1 .. CLUSTERS : k > m - 1 =>
            g[k][IF m - 1 = 0 THEN EOC ELSE ch[L - (m - 1) + 1]] = Rest(L - (m - 1))
      BY <1>7
    <3> HIDE DEF Rest, x, i
    <3> QED BY <2>1, <2>3, <3>1
  <2>5. g[n][x] = <<x>> \o g[n - 1][f[x]]
    <3>1. g[n] = Walk(f, c, n, g[n - 1]) /\ n # 0
      BY <1>3
    <3> HIDE DEF x, i
    <3> QED BY <2>2, <3>1 DEF Walk
  <2>6. Rest(L - m) = <<x>> \o Rest(i)
    <3> DEFINE a == Rest(L - m)
               b == <<x>> \o Rest(i)
    <3>1. a \in Seq(Clusters) /\ Len(a) = m /\ \A j \in 1 .. m : a[j] = ch[L - m + j]
      <4> DEFINE d == L - m
      <4>1. d \in 0 .. L /\ L - d = m
        BY <1>1
      <4> HIDE DEF d
      <4>2. /\ Rest(d) \in Seq(Clusters) /\ Len(Rest(d)) = m
            /\ \A j \in 1 .. m : Rest(d)[j] = ch[d + j]
        BY <1>1, <4>1, Suffix
      <4> QED BY <4>2 DEF d
    <3>2. Rest(i) \in Seq(Clusters) /\ Len(Rest(i)) = m - 1
          /\ \A j \in 1 .. m - 1 : Rest(i)[j] = ch[i + j]
      BY <1>1
    <3>3. b \in Seq(Clusters) /\ Len(b) = m /\ \A j \in 1 .. m : b[j] = IF j = 1 THEN x ELSE Rest(i)[j - 1]
      <4> HIDE DEF Rest, x, i
      <4> QED BY <2>1, <3>2
    <3>4. \A j \in 1 .. m : a[j] = b[j]
      <4> TAKE j \in 1 .. m
      <4>1. CASE j = 1
        BY <3>1, <3>3, <4>1
      <4>2. CASE j # 1
        <5>1. j - 1 \in 1 .. m - 1 /\ i + (j - 1) = L - m + j
          <6>1. L \in Int /\ m \in Int /\ j \in 1 .. m
            BY <1>1
          <6> HIDE DEF L
          <6> QED BY <4>2, <6>1
        <5>2. Rest(i)[j - 1] = ch[L - m + j]
          <6> HIDE DEF Rest, i
          <6> QED BY <3>2, <5>1
        <5> HIDE DEF Rest
        <5> QED BY <3>1, <3>3, <4>2, <5>2
      <4> QED BY <4>1, <4>2
    <3> HIDE DEF a, b
    <3>5. a = b
      BY <3>1, <3>3, <3>4
    <3> QED BY <3>5 DEF a, b
  <2> QED BY <2>4, <2>5, <2>6
<1>8. L \in V
  <2>1. L \in Nat
    BY <1>1, Constants
  <2>2. \A m \in 1 .. L : m - 1 \in V => m \in V
    BY <1>7
  <2> HIDE DEF V, L
  <2>3. \A m \in 0 .. L : m \in V
    BY <2>1, <1>6, <2>2, UpTo
  <2> QED BY <2>1, <2>3
<1>9. g[CLUSTERS][ch[1]] = Rest(0)
  <2>1. \A n \in 1 .. CLUSTERS : n > L => g[n][IF L = 0 THEN EOC ELSE ch[L - L + 1]] = Rest(L - L)
    BY <1>8
  <2>2. L \in Nat /\ L # 0 /\ L - L + 1 = 1 /\ L - L = 0 /\ CLUSTERS \in 1 .. CLUSTERS /\ CLUSTERS > L
    BY <1>1, Constants
  <2> HIDE DEF L, Rest
  <2> QED BY <2>1, <2>2
<1>10. Rest(0) = ch
  BY <1>1
<1> QED BY <1>1, <1>3, <1>9, <1>10

(* A table that agrees on the clusters of a chain has that chain. *)
LEMMA ChainKept ==
  ASSUME NEW f \in Tables, NEW g \in Tables, NEW c, NEW ch, IsChain(f, c, ch),
         \A i \in 1 .. Len(ch) : g[ch[i]] = f[ch[i]]
  PROVE  IsChain(g, c, ch) /\ Chain(g, c) = ch /\ Chain(f, c) = ch
<1>1. IsChain(g, c, ch)
  BY DEF IsChain
<1> QED BY <1>1, ChainFound

-----------------------------------------------------------------------------
(* Clusters of a file and bytes of a cluster.                              *)

LEMMA Multiples ==
  ASSUME NEW b \in Nat, NEW m \in Int, NEW n \in Int, m < n
  PROVE  m * b \in Int /\ n * b \in Int /\ m * b + b <= n * b
<1> DEFINE k == n - m - 1
<1>1. k \in Nat /\ n = m + 1 + k
  OBVIOUS
<1> HIDE DEF k
<1>2. k * b \in Nat
  BY <1>1
<1>3. n * b = m * b + b + k * b
  BY <1>1
<1> QED BY <1>2, <1>3

(* The pieces of b bytes that len bytes make. *)
Pieces(len, b) == (len + b - 1) \div b
PieceSize(len, b, i) == IF len - (i - 1) * b > b THEN b ELSE len - (i - 1) * b

LEMMA PiecesAre ==
  ASSUME NEW len \in Nat, NEW b \in Nat \ {0}
  PROVE  LET n == Pieces(len, b) IN
         /\ n \in Nat /\ n * b \in Nat /\ len <= n * b /\ n * b < len + b
         /\ len = 0 => n = 0
         /\ len # 0 => n # 0
<1> DEFINE a == len + b - 1
           n == Pieces(len, b)
<1>1. a \in Nat /\ a + 1 \in Nat
  OBVIOUS
<1>2. a < b * (a + 1)
  <2>1. (b - 1) * (a + 1) \in Nat
    BY <1>1
  <2>2. b * (a + 1) = (a + 1) + (b - 1) * (a + 1)
    BY <1>1
  <2> HIDE DEF a
  <2> QED BY <1>1, <2>1, <2>2
<1>3. n \in 0 .. a /\ a % b \in 0 .. b - 1 /\ a = b * n + (a % b)
  <2>1. n = a \div b
    BY DEF Pieces
  <2> HIDE DEF a, n
  <2>2. a \div b \in 0 .. (a + 1) - 1 /\ a % b \in 0 .. b - 1 /\ a = b * (a \div b) + (a % b)
    BY <1>1, <1>2, QuotientRange
  <2> QED BY <1>1, <2>1, <2>2
<1>4. n \in Nat /\ n * b = b * n /\ n * b \in Nat
  <2> HIDE DEF n
  <2> QED BY <1>1, <1>3
<1>5. len <= n * b /\ n * b < len + b
  <2> HIDE DEF n
  <2> QED BY <1>3, <1>4
<1>6. len = 0 => n = 0
  <2>0. SUFFICES ASSUME len = 0, n # 0 PROVE FALSE
    OBVIOUS
  <2>1. 0 < n
    BY <1>4, <2>0
  <2> HIDE DEF n
  <2>2. 0 * b + b <= n * b
    BY <1>4, <2>1, Multiples
  <2>3. 0 * b = 0 /\ n * b \in Nat
    BY <1>4
  <2> QED BY <1>5, <2>0, <2>2, <2>3
<1>7. len # 0 => n # 0
  <2> HIDE DEF n
  <2> QED BY <1>4, <1>5
<1> QED BY <1>4, <1>5, <1>6, <1>7

LEMMA PieceSizes ==
  ASSUME NEW len \in Nat, NEW b \in Nat \ {0}, NEW i \in 1 .. Pieces(len, b)
  PROVE  /\ (i - 1) * b \in Nat /\ i * b = (i - 1) * b + b /\ (i - 1) * b < len
         /\ PieceSize(len, b, i) \in 1 .. b
         /\ (i - 1) * b + PieceSize(len, b, i) = IF i * b < len THEN i * b ELSE len
<1> DEFINE n == Pieces(len, b)
           m == (i - 1) * b
<1>1. n \in Nat /\ n * b \in Nat /\ n * b < len + b /\ i \in 1 .. n
  BY PiecesAre
<1> HIDE DEF n
<1>2. m \in Nat /\ i * b = m + b
  BY <1>1
<1>3. m < len
  <2>1. i - 1 < n /\ i - 1 \in Int
    BY <1>1
  <2>2. m + b <= n * b
    BY <1>1, <2>1, Multiples
  <2> HIDE DEF m
  <2> QED BY <1>1, <1>2, <2>2
<1>4. PieceSize(len, b, i) = IF len - m > b THEN b ELSE len - m
  BY DEF PieceSize
<1> HIDE DEF m
<1>5. PieceSize(len, b, i) \in 1 .. b
      /\ m + PieceSize(len, b, i) = IF m + b < len THEN m + b ELSE len
  BY <1>2, <1>3, <1>4
<1> QED BY <1>2, <1>3, <1>5 DEF m

(* The piece of byte j. *)
LEMMA PieceOf ==
  ASSUME NEW len \in Nat, NEW b \in Nat \ {0}, NEW j \in 0 .. len - 1
  PROVE  LET q == j \div b
             r == j % b
         IN /\ q + 1 \in 1 .. Pieces(len, b) /\ q \in Nat /\ q * b \in Nat
            /\ r \in 0 .. b - 1 /\ j = q * b + r
            /\ r < PieceSize(len, b, q + 1)
<1> DEFINE n == Pieces(len, b)
           q == j \div b
           r == j % b
<1>1. n \in Nat /\ n * b \in Nat /\ len <= n * b
  BY PiecesAre
<1>2. q \in 0 .. n - 1 /\ r \in 0 .. b - 1 /\ j = b * q + r
  <2> HIDE DEF n
  <2>1. j < b * n /\ j \in Nat
    BY <1>1
  <2> QED BY <1>1, <2>1, QuotientRange
<1> HIDE DEF n, q, r
<1>3. q \in Nat /\ q * b = b * q /\ q * b \in Nat /\ q + 1 \in 1 .. n /\ (q + 1) - 1 = q
  BY <1>1, <1>2
<1>4. PieceSize(len, b, q + 1) = IF len - q * b > b THEN b ELSE len - q * b
  BY <1>3 DEF PieceSize
<1>5. r < PieceSize(len, b, q + 1)
  BY <1>2, <1>3, <1>4
<1> QED BY <1>2, <1>3, <1>5 DEF n, q, r

LEMMA Turns ==
  ASSUME NEW len, NEW i
  PROVE  TurnsFor(len) = Pieces(len, BPC) /\ Count(len, i) = PieceSize(len, BPC, i)
BY DEF TurnsFor, Count, Pieces, PieceSize

(* The bytes of a cluster are on the disk, and those of two are apart. *)
LEMMA Addresses ==
  ASSUME NEW c \in Clusters, NEW r \in 0 .. BPC - 1
  PROVE  /\ fat_get_cluster_addr(c) \in Nat
         /\ fat_get_cluster_addr(c) + r \in 0 .. CLUSTERS * BPC - 1
<1>1. c - 2 \in Nat /\ c - 2 < CLUSTERS /\ BPC \in Nat
  BY Constants DEF Clusters
<1>2. (c - 2) * BPC + BPC <= CLUSTERS * BPC
  BY <1>1, Multiples, Constants
<1> QED BY <1>1, <1>2, Constants DEF fat_get_cluster_addr

LEMMA AddressesApart ==
  ASSUME NEW c \in Clusters, NEW d \in Clusters, c # d,
         NEW r \in 0 .. BPC - 1, NEW t \in 0 .. BPC - 1
  PROVE  fat_get_cluster_addr(c) + r # fat_get_cluster_addr(d) + t
<1>1. c - 2 \in Int /\ d - 2 \in Int /\ BPC \in Nat
  BY Constants DEF Clusters
<1>2. CASE c < d
  <2>1. (c - 2) * BPC + BPC <= (d - 2) * BPC
    BY <1>1, <1>2, Multiples DEF Clusters
  <2> QED BY <1>1, <2>1 DEF fat_get_cluster_addr
<1>3. CASE d < c
  <2>1. (d - 2) * BPC + BPC <= (c - 2) * BPC
    BY <1>1, <1>3, Multiples DEF Clusters
  <2> QED BY <1>1, <2>1 DEF fat_get_cluster_addr
<1> QED BY <1>2, <1>3, Constants DEF Clusters

-----------------------------------------------------------------------------
(* Allocation: fat_find_free_cluster, fat_remove_data, fat_add_data.       *)

LEMMA FreeCluster ==
  ASSUME NEW f
  PROVE  LET c == fat_find_free_cluster(f) IN
         /\ c \in 0 .. CLUSTERS - 1
         /\ c # 0 => c \in Clusters /\ f[c] = 0
<1> DEFINE S == {c \in 2 .. CLUSTERS - 1 : f[c] = Free}
<1>1. CASE S = {}
  <2>1. fat_find_free_cluster(f) = 0
    BY <1>1 DEF fat_find_free_cluster
  <2> QED BY <2>1, Constants
<1>2. CASE S # {}
  <2>1. fat_find_free_cluster(f) = CHOOSE c \in S : \A x \in S : c <= x
    BY <1>2 DEF fat_find_free_cluster
  <2>2. S \in SUBSET Nat
    BY Constants
  <2>3. \E c \in S : \A x \in S : c <= x
    <3> HIDE DEF S
    <3> QED BY <1>2, <2>2, LeastNat
  <2>4. fat_find_free_cluster(f) \in S
    <3> HIDE DEF S
    <3> QED BY <2>1, <2>3
  <2> QED BY <2>4, Constants DEF Clusters
<1> QED BY <1>1, <1>2

LEMMA RemoveType ==
  ASSUME NEW f \in Tables, NEW c
  PROVE  fat_remove_data(f, 0, c) \in Tables
BY Constants DEF Tables, fat_remove_data

LEMMA Removed ==
  ASSUME NEW f \in Tables, NEW c, NEW ch, IsChain(f, c, ch)
  PROVE  /\ fat_remove_data(f, 0, c) \in Tables
         /\ \A x \in 0 .. CLUSTERS - 1 :
              fat_remove_data(f, 0, c)[x] =
                IF \E i \in 1 .. Len(ch) : ch[i] = x THEN 0 ELSE f[x]
<1>1. Chain(f, c) = ch /\ DOMAIN f = 0 .. CLUSTERS - 1
  BY ChainFound DEF Tables
<1> QED BY <1>1, RemoveType DEF fat_remove_data, Contains

AddStates == [fat : Tables, data : Areas, root : 0 .. CLUSTERS - 1,
              prev : 0 .. CLUSTERS - 1, full : BOOLEAN]

LEMMA AddTurnType ==
  ASSUME NEW s \in AddStates, NEW b \in Bytes, NEW count
  PROVE  AddTurn(s, 0, b, count) \in AddStates
<1> DEFINE c == fat_find_free_cluster(s.fat)
           at == fat_get_cluster_addr(c)
           ended == [s.fat EXCEPT ![c] = EOC]
           g == IF s.prev = 0 THEN ended ELSE [ended EXCEPT ![s.prev] = c]
           d == [a \in DOMAIN s.data |-> IF a \in at .. at + count - 1 THEN b ELSE s.data[a]]
           r == IF s.root = 0 THEN s.fat ELSE fat_remove_data(s.fat, 0, s.root)
<1>1. c \in 0 .. CLUSTERS - 1
  BY FreeCluster
<1>2. s.fat \in Tables /\ s.data \in Areas /\ s.prev \in 0 .. CLUSTERS - 1
  BY DEF AddStates
<1>3. g \in Tables
  <2> HIDE DEF c
  <2> QED BY <1>1, <1>2 DEF Tables
<1>4. d \in Areas
  <2> HIDE DEF at
  <2> QED BY <1>2 DEF Areas
<1>5. r \in Tables
  BY <1>2, RemoveType
<1>6. AddTurn(s, 0, b, count) =
        IF s.full THEN s
        ELSE IF c = 0 THEN [s EXCEPT !.fat = r, !.root = 0, !.full = TRUE]
        ELSE [s EXCEPT !.fat = g, !.data = d, !.root = IF s.prev = 0 THEN c ELSE @, !.prev = c]
  BY DEF AddTurn
<1> HIDE DEF c, g, d, r
<1>7. CASE s.full
  BY <1>6, <1>7
<1>8. CASE ~s.full /\ c = 0
  <2>1. AddTurn(s, 0, b, count) = [s EXCEPT !.fat = r, !.root = 0, !.full = TRUE]
    BY <1>6, <1>8
  <2>2. 0 \in 0 .. CLUSTERS - 1
    BY Constants
  <2> QED BY <1>5, <2>1, <2>2 DEF AddStates
<1>9. CASE ~s.full /\ c # 0
  <2> DEFINE o == IF s.prev = 0 THEN c ELSE s.root
  <2>1. AddTurn(s, 0, b, count) = [s EXCEPT !.fat = g, !.data = d, !.root = o, !.prev = c]
    BY <1>6, <1>9
  <2>2. o \in 0 .. CLUSTERS - 1
    BY <1>1 DEF AddStates
  <2> HIDE DEF o
  <2> QED BY <1>1, <1>3, <1>4, <2>1, <2>2 DEF AddStates
<1> QED BY <1>7, <1>8, <1>9

(* Clusters that table f gives to files have the same bytes in d and e. *)
SameFiles(f, d, e) ==
  \A x \in Clusters, r \in 0 .. BPC - 1 :
    f[x] # 0 => e[fat_get_cluster_addr(x) + r] = d[fat_get_cluster_addr(x) + r]

(* nc is a chain of new clusters, which adding to table f made in g. *)
NewChain(f, g, c, nc) ==
  /\ IsChain(g, c, nc)
  /\ \A k \in 1 .. Len(nc) : f[nc[k]] = 0
  /\ \A x \in 0 .. CLUSTERS - 1 : (\A k \in 1 .. Len(nc) : nc[k] # x) => g[x] = f[x]

(* The first bytes of each of its clusters have value b. *)
Filled(d, nc, b, len) ==
  \A k \in 1 .. Len(nc) : \A r \in 0 .. Count(len, k) - 1 :
    d[fat_get_cluster_addr(nc[k]) + r] = b

(* After i turns of fat_add_data, from table f and data d. *)
Adding(f, d, b, len, i, s) ==
  /\ s \in AddStates /\ SameFiles(f, d, s.data)
  /\ s.full => s.fat = f /\ s.root = 0
  /\ ~s.full /\ i = 0 => s.fat = f /\ s.root = 0 /\ s.prev = 0
  /\ ~s.full /\ i # 0 =>
       \E nc : NewChain(f, s.fat, s.root, nc) /\ Len(nc) = i /\ s.prev = nc[i]
               /\ Filled(s.data, nc, b, len)

(* A chain of one more cluster, x, after p. *)
Linked(g, x, p) == [[g EXCEPT ![x] = EOC] EXCEPT ![p] = x]

LEMMA ChainGrows ==
  ASSUME NEW f \in Tables, NEW g \in Tables, NEW c, NEW nc, NewChain(f, g, c, nc),
         NEW x \in Clusters, g[x] = 0
  PROVE  /\ NewChain(f, Linked(g, x, nc[Len(nc)]), c, Append(nc, x)) /\ f[x] = 0
         /\ \A k \in 1 .. Len(nc) : nc[k] # x
<1> DEFINE n == Len(nc)
           p == nc[n]
           h == Linked(g, x, p)
           m == Append(nc, x)
<1>1. /\ nc \in Seq(Clusters) /\ n \in Nat /\ n >= 1 /\ nc[1] = c
      /\ \A i \in 1 .. n : nc[i] \in Clusters
      /\ \A i \in 1 .. n - 1 : g[nc[i]] = nc[i + 1]
      /\ g[p] = EOC
      /\ \A i, j \in 1 .. n : nc[i] = nc[j] => i = j
      /\ \A k \in 1 .. n : f[nc[k]] = 0
      /\ \A y \in 0 .. CLUSTERS - 1 : (\A k \in 1 .. n : nc[k] # y) => g[y] = f[y]
  BY DEF NewChain, IsChain
<1> HIDE DEF n
<1>2. \A k \in 1 .. n : nc[k] # x
  <2> SUFFICES ASSUME NEW k \in 1 .. n, nc[k] = x PROVE FALSE
    OBVIOUS
  <2>1. CASE k = n
    BY <1>1, <2>1, Constants
  <2>2. CASE k # n
    <3>1. k \in 1 .. n - 1 /\ k + 1 \in 1 .. n
      BY <1>1, <2>2
    <3>2. g[nc[k]] = nc[k + 1] /\ nc[k + 1] \in Clusters
      BY <1>1, <3>1
    <3>3. nc[k + 1] # 0
      BY <3>2, Constants
    <3> QED BY <3>2, <3>3
  <2> QED BY <2>1, <2>2
<1>3. f[x] = 0
  <2>1. x \in 0 .. CLUSTERS - 1
    BY Constants
  <2> QED BY <1>1, <1>2, <2>1
<1>4. p \in Clusters /\ p # x
  <2>1. n \in 1 .. n
    BY <1>1
  <2> QED BY <1>1, <1>2, <2>1
<1> HIDE DEF p
<1>5. \A y \in 0 .. CLUSTERS - 1 : h[y] = IF y = p THEN x ELSE IF y = x THEN EOC ELSE g[y]
  BY <1>4, Constants DEF Tables, Linked
<1> HIDE DEF h
<1>6. m \in Seq(Clusters) /\ Len(m) = n + 1 /\ m[n + 1] = x /\ \A k \in 1 .. n : m[k] = nc[k]
  BY <1>1 DEF n
<1> HIDE DEF m
<1>7. m[1] = c
  BY <1>1, <1>6
<1>8. \A i \in 1 .. n : h[m[i]] = m[i + 1]
  <2> TAKE i \in 1 .. n
  <2>1. CASE i = n
    BY <1>1, <1>4, <1>5, <1>6, <2>1, Constants DEF p
  <2>2. CASE i # n
    <3>1. i \in 1 .. n - 1 /\ i + 1 \in 1 .. n /\ n \in 1 .. n
      BY <1>1, <2>2
    <3>2. nc[i] # p /\ nc[i] # x /\ nc[i] \in 0 .. CLUSTERS - 1
      BY <1>1, <1>2, <3>1, <2>2, Constants DEF p
    <3>3. h[nc[i]] = g[nc[i]]
      BY <1>5, <3>2
    <3> QED BY <1>1, <1>6, <3>1, <3>3
  <2> QED BY <2>1, <2>2
<1>9. h[m[n + 1]] = EOC
  BY <1>4, <1>5, <1>6, Constants
<1>10. \A i, j \in 1 .. n + 1 : m[i] = m[j] => i = j
  <2> SUFFICES ASSUME NEW i \in 1 .. n + 1, NEW j \in 1 .. n + 1, m[i] = m[j] PROVE i = j
    OBVIOUS
  <2>1. CASE i \in 1 .. n /\ j \in 1 .. n
    BY <1>1, <1>6, <2>1
  <2>2. CASE i = n + 1 /\ j \in 1 .. n
    BY <1>2, <1>6, <2>2
  <2>3. CASE i \in 1 .. n /\ j = n + 1
    BY <1>2, <1>6, <2>3
  <2> QED BY <1>1, <2>1, <2>2, <2>3
<1>11. IsChain(h, c, m)
  <2>1. Len(m) >= 1 /\ Len(m) - 1 = n
    BY <1>1, <1>6
  <2> QED BY <1>6, <1>7, <1>8, <1>9, <1>10, <2>1 DEF IsChain
<1>12. \A k \in 1 .. n + 1 : f[m[k]] = 0
  <2> TAKE k \in 1 .. n + 1
  <2>1. k \in 1 .. n \/ k = n + 1
    BY <1>1
  <2> QED BY <1>1, <1>3, <1>6, <2>1
<1>13. \A y \in 0 .. CLUSTERS - 1 : (\A k \in 1 .. n + 1 : m[k] # y) => h[y] = f[y]
  <2> SUFFICES ASSUME NEW y \in 0 .. CLUSTERS - 1, \A k \in 1 .. n + 1 : m[k] # y
               PROVE  h[y] = f[y]
    OBVIOUS
  <2>1. y # x /\ \A k \in 1 .. n : nc[k] # y
    <3>1. n + 1 \in 1 .. n + 1 /\ \A k \in 1 .. n : k \in 1 .. n + 1
      BY <1>1
    <3> QED BY <1>6, <3>1
  <2>2. y # p
    <3>1. n \in 1 .. n
      BY <1>1
    <3> QED BY <2>1, <3>1 DEF p
  <2> QED BY <1>1, <1>5, <2>1, <2>2
<1>14. NewChain(f, h, c, m)
  BY <1>6, <1>11, <1>12, <1>13 DEF NewChain
<1> QED BY <1>2, <1>3, <1>14 DEF h, m, p, n

LEMMA SameTable ==
  ASSUME NEW f \in Tables, NEW g \in Tables, \A x \in 0 .. CLUSTERS - 1 : f[x] = g[x]
  PROVE  f = g
<1> DEFINE D == 0 .. CLUSTERS - 1
<1>1. f = [x \in D |-> f[x]] /\ g = [x \in D |-> g[x]] /\ \A x \in D : f[x] = g[x]
  BY DEF Tables
<1> HIDE DEF D
<1> QED BY <1>1

(* Data e after count bytes of value b were written at the start of c. *)
Poured(e, c, count, b) ==
  [a \in DOMAIN e |->
     IF a \in fat_get_cluster_addr(c) .. fat_get_cluster_addr(c) + count - 1 THEN b ELSE e[a]]

(* A table entry that is not free belongs to no new cluster. *)
LEMMA ApartFromNew ==
  ASSUME NEW f \in Tables, NEW d \in Areas, NEW e \in Areas, SameFiles(f, d, e),
         NEW c \in Clusters, f[c] = 0, NEW b, NEW count \in 1 .. BPC
  PROVE  LET new == Poured(e, c, count, b) IN
         /\ SameFiles(f, d, new)
         /\ \A x \in Clusters, r \in 0 .. BPC - 1 :
              x # c => new[fat_get_cluster_addr(x) + r] = e[fat_get_cluster_addr(x) + r]
         /\ \A r \in 0 .. count - 1 : new[fat_get_cluster_addr(c) + r] = b
<1> DEFINE at == fat_get_cluster_addr(c)
           new == Poured(e, c, count, b)
<1>0. \A a \in DOMAIN e : new[a] = IF a \in at .. at + count - 1 THEN b ELSE e[a]
  BY DEF Poured
<1> HIDE DEF new
<1>1. at \in Nat /\ BPC \in Nat /\ DOMAIN e = 0 .. CLUSTERS * BPC - 1
  <2>1. 0 \in 0 .. BPC - 1
    BY Constants
  <2> QED BY <2>1, Addresses, Constants DEF Areas
<1>2. ASSUME NEW x \in Clusters, NEW r \in 0 .. BPC - 1, x # c
      PROVE  new[fat_get_cluster_addr(x) + r] = e[fat_get_cluster_addr(x) + r]
  <2> DEFINE a == fat_get_cluster_addr(x) + r
  <2>1. a \in DOMAIN e /\ a \in Nat
    BY <1>1, Addresses, Constants
  <2>2. a \notin at .. at + count - 1
    <3> SUFFICES ASSUME a \in at .. at + count - 1 PROVE FALSE
      OBVIOUS
    <3> DEFINE t == a - at
    <3>1. t \in 0 .. BPC - 1 /\ a = at + t
      BY <1>1, <2>1
    <3> HIDE DEF t
    <3> QED BY <1>2, <3>1, AddressesApart
  <2> HIDE DEF a
  <2> QED BY <1>0, <2>1, <2>2 DEF a
<1>3. ASSUME NEW r \in 0 .. count - 1
      PROVE  new[at + r] = b
  <2>1. r \in 0 .. BPC - 1 /\ at + r \in at .. at + count - 1
    BY <1>1
  <2>2. at + r \in DOMAIN e
    BY <1>1, <2>1, Addresses
  <2> QED BY <1>0, <2>1, <2>2
<1>4. SameFiles(f, d, new)
  <2> SUFFICES ASSUME NEW x \in Clusters, NEW r \in 0 .. BPC - 1, f[x] # 0
               PROVE  new[fat_get_cluster_addr(x) + r] = d[fat_get_cluster_addr(x) + r]
    BY DEF SameFiles
  <2>1. x # c
    OBVIOUS
  <2> QED BY <1>2, <2>1 DEF SameFiles
<1> QED BY <1>2, <1>3, <1>4 DEF new

(* The first cluster of a chain. *)
LEMMA ChainStarts ==
  ASSUME NEW f \in Tables, NEW x \in Clusters, f[x] = 0
  PROVE  NewChain(f, [f EXCEPT ![x] = EOC], x, <<x>>)
<1> DEFINE g == [f EXCEPT ![x] = EOC]
           nc == <<x>>
<1>1. nc \in Seq(Clusters) /\ Len(nc) = 1 /\ nc[1] = x
  OBVIOUS
<1>2. \A y \in 0 .. CLUSTERS - 1 : g[y] = IF y = x THEN EOC ELSE f[y]
  BY DEF Tables
<1>3. x \in 0 .. CLUSTERS - 1
  BY Constants
<1> HIDE DEF g, nc
<1>4. IsChain(g, x, nc)
  <2>1. \A i \in 1 .. Len(nc) - 1 : FALSE
    BY <1>1
  <2>2. \A i, j \in 1 .. Len(nc) : i = j
    BY <1>1
  <2>3. g[nc[Len(nc)]] = EOC
    BY <1>1, <1>2, <1>3
  <2> QED BY <1>1, <2>1, <2>2, <2>3 DEF IsChain
<1>5. \A k \in 1 .. Len(nc) : k = 1
  BY <1>1
<1>6. 1 \in 1 .. Len(nc)
  BY <1>1
<1> QED BY <1>1, <1>2, <1>4, <1>5, <1>6 DEF NewChain, g, nc

LEMMA AddTurnKeeps ==
  ASSUME NEW f \in Tables, NEW d \in Areas, NEW b \in Bytes, NEW len \in Nat,
         NEW i \in 1 .. TurnsFor(len), NEW s, Adding(f, d, b, len, i - 1, s)
  PROVE  Adding(f, d, b, len, i, AddTurn(s, 0, b, Count(len, i)))
<1> DEFINE n == Count(len, i)
           t == AddTurn(s, 0, b, n)
           c == fat_find_free_cluster(s.fat)
           at == fat_get_cluster_addr(c)
           ended == [s.fat EXCEPT ![c] = EOC]
           g == IF s.prev = 0 THEN ended ELSE [ended EXCEPT ![s.prev] = c]
           e == [a \in DOMAIN s.data |-> IF a \in at .. at + n - 1 THEN b ELSE s.data[a]]
           r == IF s.root = 0 THEN s.fat ELSE fat_remove_data(s.fat, 0, s.root)
<1>1. /\ s \in AddStates /\ SameFiles(f, d, s.data)
      /\ s.fat \in Tables /\ s.data \in Areas /\ s.full \in BOOLEAN
      /\ s.full => s.fat = f /\ s.root = 0
      /\ ~s.full /\ i - 1 = 0 => s.fat = f /\ s.root = 0 /\ s.prev = 0
      /\ ~s.full /\ i - 1 # 0 =>
           \E nc : NewChain(f, s.fat, s.root, nc) /\ Len(nc) = i - 1 /\ s.prev = nc[i - 1]
                   /\ Filled(s.data, nc, b, len)
  BY DEF Adding, AddStates
<1>2. n \in 1 .. BPC /\ i \in Nat /\ i # 0 /\ i >= 1
  <2>1. i \in 1 .. Pieces(len, BPC) /\ BPC \in Nat \ {0}
    BY Turns, Constants
  <2>2. Pieces(len, BPC) \in Nat
    BY <2>1, PiecesAre
  <2> QED BY <2>1, <2>2, PieceSizes, Turns
<1>3. t \in AddStates
  BY <1>1, AddTurnType
<1>4. c # 0 => c \in Clusters /\ s.fat[c] = 0
  BY FreeCluster
<1>5. t = IF s.full THEN s
          ELSE IF c = 0 THEN [s EXCEPT !.fat = r, !.root = 0, !.full = TRUE]
          ELSE [s EXCEPT !.fat = g, !.data = e, !.root = IF s.prev = 0 THEN c ELSE @, !.prev = c]
  BY DEF AddTurn
<1>6. CASE s.full
  BY <1>1, <1>2, <1>5, <1>6 DEF Adding
<1>7. CASE ~s.full /\ c = 0
  <2> HIDE DEF c, n, g, e, r, t
  <2>1. t.fat = r /\ t.data = s.data /\ t.root = 0 /\ t.full
    BY <1>1, <1>5, <1>7 DEF AddStates
  <2>2. r = f
    <3>1. CASE i - 1 = 0
      BY <1>1, <1>7, <3>1 DEF r
    <3>2. CASE i - 1 # 0
      <4>1. PICK nc : NewChain(f, s.fat, s.root, nc)
        BY <1>1, <1>7, <3>2
      <4>2. /\ IsChain(s.fat, s.root, nc) /\ Len(nc) \in Nat
            /\ \A k \in 1 .. Len(nc) : f[nc[k]] = 0
            /\ \A x \in 0 .. CLUSTERS - 1 : (\A k \in 1 .. Len(nc) : nc[k] # x) => s.fat[x] = f[x]
        BY <4>1 DEF NewChain, IsChain
      <4>3. s.root # 0
        <5>1. s.root = nc[1] /\ nc[1] \in Clusters
          BY <4>2 DEF IsChain
        <5> QED BY <5>1, Constants
      <4>4. r \in Tables
            /\ \A x \in 0 .. CLUSTERS - 1 :
                 r[x] = IF \E k \in 1 .. Len(nc) : nc[k] = x THEN 0 ELSE s.fat[x]
        BY <1>1, <4>2, <4>3, Removed DEF r
      <4>5. \A x \in 0 .. CLUSTERS - 1 : r[x] = f[x]
        <5> TAKE x \in 0 .. CLUSTERS - 1
        <5>1. CASE \E k \in 1 .. Len(nc) : nc[k] = x
          <6>1. PICK k \in 1 .. Len(nc) : nc[k] = x
            BY <5>1
          <6>2. f[x] = 0
            BY <4>2, <6>1
          <6> QED BY <4>4, <5>1, <6>2
        <5>2. CASE ~\E k \in 1 .. Len(nc) : nc[k] = x
          BY <4>2, <4>4, <5>2
        <5> QED BY <5>1, <5>2
      <4>6. r \in Tables
        BY <4>4
      <4> QED BY <4>5, <4>6, SameTable
    <3> QED BY <3>1, <3>2
  <2> QED BY <1>1, <1>3, <2>1, <2>2 DEF Adding, t, n
<1>8. CASE ~s.full /\ c # 0
  <2> HIDE DEF c, n, g, e, r, t
  <2>1. t.fat = g /\ t.data = e /\ t.root = (IF s.prev = 0 THEN c ELSE s.root) /\ t.prev = c /\ ~t.full
    BY <1>1, <1>5, <1>8 DEF AddStates
  <2>2. c \in Clusters /\ s.fat[c] = 0
    BY <1>4, <1>8
  <2>3. ASSUME f[c] = 0
        PROVE  /\ SameFiles(f, d, e)
               /\ \A x \in Clusters, k \in 0 .. BPC - 1 :
                    x # c => e[fat_get_cluster_addr(x) + k] = s.data[fat_get_cluster_addr(x) + k]
               /\ \A k \in 0 .. n - 1 : e[fat_get_cluster_addr(c) + k] = b
    <3>1. e = Poured(s.data, c, n, b)
      BY DEF e, Poured
    <3> HIDE DEF at, ended
    <3> QED BY <1>1, <1>2, <2>2, <2>3, <3>1, ApartFromNew
  <2>4. CASE i = 1
    <3>1. s.fat = f /\ s.prev = 0 /\ f[c] = 0
      BY <1>1, <1>8, <2>2, <2>4
    <3>2. g = [f EXCEPT ![c] = EOC]
      BY <3>1 DEF g
    <3> DEFINE nc == <<c>>
    <3>3. NewChain(f, g, c, nc)
      BY <2>2, <3>1, <3>2, ChainStarts
    <3>4. Len(nc) = 1 /\ nc[1] = c
      OBVIOUS
    <3> HIDE DEF nc
    <3>5. Filled(e, nc, b, len)
      <4> SUFFICES ASSUME NEW k \in 1 .. Len(nc), NEW x \in 0 .. Count(len, k) - 1
                   PROVE  e[fat_get_cluster_addr(nc[k]) + x] = b
        BY DEF Filled
      <4>1. k = 1 /\ nc[k] = c /\ Count(len, k) = n
        BY <2>4, <3>4 DEF n
      <4> QED BY <2>3, <3>1, <4>1
    <3>6. t.root = c
      BY <2>1, <3>1
    <3>7. \E m : NewChain(f, t.fat, t.root, m) /\ Len(m) = i /\ t.prev = m[i]
                 /\ Filled(t.data, m, b, len)
      BY <2>1, <2>4, <3>3, <3>4, <3>5, <3>6
    <3> QED BY <1>2, <1>3, <2>1, <2>3, <3>1, <3>7 DEF Adding, t, n
  <2>5. CASE i # 1
    <3>1. PICK nc : NewChain(f, s.fat, s.root, nc) /\ Len(nc) = i - 1 /\ s.prev = nc[i - 1]
                    /\ Filled(s.data, nc, b, len)
      <4>1. i - 1 # 0
        BY <1>2, <2>5
      <4> QED BY <1>1, <1>8, <4>1
    <3>2. nc \in Seq(Clusters) /\ s.prev \in Clusters /\ \A k \in 1 .. i - 1 : nc[k] \in Clusters
      <4>1. nc \in Seq(Clusters)
        BY <3>1 DEF NewChain, IsChain
      <4>2. i - 1 \in 1 .. i - 1
        BY <1>2, <2>5
      <4> QED BY <3>1, <4>1, <4>2
    <3> DEFINE m == Append(nc, c)
    <3>3. g = Linked(s.fat, c, nc[Len(nc)]) /\ s.prev # 0
      BY <3>1, <3>2, Constants DEF g, Linked
    <3>4. NewChain(f, g, s.root, m) /\ f[c] = 0 /\ \A k \in 1 .. i - 1 : nc[k] # c
      <4> HIDE DEF at, ended
      <4> QED BY <1>1, <2>2, <3>1, <3>3, ChainGrows
    <3>5. Len(m) = i /\ m[i] = c /\ \A k \in 1 .. i - 1 : m[k] = nc[k]
      BY <1>2, <3>1, <3>2
    <3> HIDE DEF m
    <3>6. Filled(e, m, b, len)
      <4> SUFFICES ASSUME NEW k \in 1 .. Len(m), NEW x \in 0 .. Count(len, k) - 1
                   PROVE  e[fat_get_cluster_addr(m[k]) + x] = b
        BY DEF Filled
      <4>1. CASE k = i
        BY <2>3, <3>4, <3>5, <4>1 DEF n
      <4>2. CASE k # i
        <5>1. k \in 1 .. i - 1 /\ k \in 1 .. Len(nc)
          BY <1>2, <3>1, <3>5, <4>2
        <5>2. s.data[fat_get_cluster_addr(nc[k]) + x] = b
          BY <3>1, <5>1 DEF Filled
        <5>3. x \in 0 .. BPC - 1
          <6>1. k \in 1 .. Pieces(len, BPC) /\ BPC \in Nat \ {0}
            <7>1. BPC \in Nat \ {0}
              BY Constants
            <7>2. Pieces(len, BPC) \in Nat
              BY <7>1, PiecesAre
            <7> QED BY <1>2, <5>1, <7>1, <7>2, Turns
          <6>2. Count(len, k) \in 1 .. BPC
            BY <6>1, PieceSizes, Turns
          <6> QED BY <6>1, <6>2
        <5>4. e[fat_get_cluster_addr(nc[k]) + x] = s.data[fat_get_cluster_addr(nc[k]) + x]
          BY <2>3, <3>2, <3>4, <5>1, <5>3
        <5> QED BY <3>5, <5>1, <5>2, <5>4
      <4> QED BY <4>1, <4>2
    <3>7. t.root = s.root
      BY <2>1, <3>3
    <3>8. \E nm : NewChain(f, t.fat, t.root, nm) /\ Len(nm) = i /\ t.prev = nm[i]
                  /\ Filled(t.data, nm, b, len)
      BY <2>1, <3>4, <3>5, <3>6, <3>7
    <3> QED BY <1>2, <1>3, <2>1, <2>3, <3>4, <3>8 DEF Adding, t, n
  <2> QED BY <2>4, <2>5
<1> QED BY <1>1, <1>6, <1>7, <1>8

LEMMA AddDone ==
  ASSUME fat \in Tables, data \in Areas, NEW b \in Bytes, NEW len \in Nat
  PROVE  Adding(fat, data, b, len, TurnsFor(len), fat_add_data(0, b, len))
<1> DEFINE N == TurnsFor(len)
           S == AddStates
           s == [fat |-> fat, data |-> data, root |-> 0, prev |-> 0, full |-> FALSE]
           F == [i \in 1 .. N |-> [t \in S |-> AddTurn(t, 0, b, Count(len, i))]]
           Body(h) == [i \in 0 .. TurnsFor(len) |->
                         IF i = 0
                         THEN [fat |-> fat, data |-> data, root |-> 0, prev |-> 0, full |-> FALSE]
                         ELSE AddTurn(h[i - 1], 0, b, Count(len, i))]
           h == CHOOSE f : f = Body(f)
<1>1. N \in Nat /\ s \in S
  <2>1. BPC \in Nat \ {0} /\ 0 \in 0 .. CLUSTERS - 1
    BY Constants
  <2>2. N \in Nat
    BY <2>1, Turns, PiecesAre
  <2> QED BY <2>1, <2>2 DEF AddStates
<1>2. F \in LoopBodies(N, S)
      /\ \A i \in 1 .. N, t \in S : F[i][t] = AddTurn(t, 0, b, Count(len, i))
  <2>1. \A i \in 1 .. N, t \in S : AddTurn(t, 0, b, Count(len, i)) \in S
    BY AddTurnType
  <2> HIDE DEF S, N
  <2> QED BY <2>1 DEF LoopBodies
<1>3. PICK g : LoopRun(g, N, S, s, F)
  <2> HIDE DEF S, F, N, s
  <2> QED BY <1>1, <1>2, LoopExists
<1>4. /\ g \in [0 .. N -> S] /\ g[0] = s
      /\ \A i \in 1 .. N : i - 1 \in 0 .. N /\ g[i] = AddTurn(g[i - 1], 0, b, Count(len, i))
  <2> HIDE DEF S, F, N, s
  <2> QED BY <1>1, <1>2, <1>3 DEF LoopRun
<1>5. g = Body(g)
  <2>1. \A i \in 0 .. N : g[i] = IF i = 0 THEN s ELSE AddTurn(g[i - 1], 0, b, Count(len, i))
    <3> HIDE DEF s, S
    <3> QED BY <1>1, <1>4
  <2> HIDE DEF S
  <2> QED BY <1>4, <2>1
<1>6. h = Body(h) /\ fat_add_data(0, b, len) = h[N]
  <2>1. fat_add_data(0, b, len) = h[N]
    BY DEF fat_add_data
  <2>2. h = Body(h)
    <3> HIDE DEF Body
    <3> QED BY <1>5
  <2> QED BY <2>1, <2>2
<1>7. h = [i \in 0 .. N |-> IF i = 0 THEN s ELSE AddTurn(h[i - 1], 0, b, Count(len, i))]
  <2> HIDE DEF h
  <2> QED BY <1>6
<1> HIDE DEF h, Body, F
<1> DEFINE E == {i \in 0 .. N : Adding(fat, data, b, len, i, h[i])}
<1>8. 0 \in E
  <2>1. h[0] = s /\ 0 \in 0 .. N
    BY <1>1, <1>7
  <2>2. SameFiles(fat, data, data)
    BY DEF SameFiles
  <2>3. s.fat = fat /\ s.data = data /\ s.root = 0 /\ s.prev = 0 /\ s.full = FALSE
    OBVIOUS
  <2> HIDE DEF s
  <2>4. Adding(fat, data, b, len, 0, s)
    BY <1>1, <2>2, <2>3 DEF Adding
  <2> QED BY <2>1, <2>4
<1>9. ASSUME NEW i \in 1 .. N, i - 1 \in E PROVE i \in E
  <2> HIDE DEF s
  <2>1. i \in 0 .. N /\ i # 0
    BY <1>1
  <2>2. h[i] = AddTurn(h[i - 1], 0, b, Count(len, i))
    BY <1>7, <2>1
  <2>3. Adding(fat, data, b, len, i - 1, h[i - 1])
    BY <1>9
  <2>4. Adding(fat, data, b, len, i, h[i])
    BY <2>2, <2>3, AddTurnKeeps
  <2> QED BY <2>1, <2>4
<1>10. N \in E
  <2> HIDE DEF E, N
  <2>1. \A i \in 0 .. N : i \in E
    BY <1>1, <1>8, <1>9, UpTo
  <2> QED BY <1>1, <2>1
<1> QED BY <1>6, <1>10

-----------------------------------------------------------------------------
(* The files of a table and a directory.                                   *)

Entries == [used : BOOLEAN, cluster : 0 .. CLUSTERS - 1, size : 0 .. WORD - 1,
            system : BOOLEAN]
Directories == [Slots -> Entries]

ChainIn(f, r, e) == Chain(f, r[e].cluster)

(* Every file has a chain that fits its size, no two files share a cluster *)
(* and every cluster that is not free is in a file.                        *)
WholeFiles(f, r) ==
  /\ \A e \in Slots :
       r[e].used => /\ IsChain(f, r[e].cluster, ChainIn(f, r, e))
                    /\ Len(ChainIn(f, r, e)) = TurnsFor(r[e].size)
  /\ \A e, x \in Slots :
       r[e].used /\ r[x].used /\ e # x =>
         \A i \in 1 .. Len(ChainIn(f, r, e)), j \in 1 .. Len(ChainIn(f, r, x)) :
           ChainIn(f, r, e)[i] # ChainIn(f, r, x)[j]
  /\ \A c \in Clusters :
       f[c] # 0 => \E e \in Slots : r[e].used
                     /\ \E i \in 1 .. Len(ChainIn(f, r, e)) : ChainIn(f, r, e)[i] = c

(* The clusters of a chain are not free. *)
LEMMA ChainNotFree ==
  ASSUME NEW f, NEW c, NEW ch, IsChain(f, c, ch), NEW i \in 1 .. Len(ch)
  PROVE  ch[i] \in Clusters /\ f[ch[i]] # 0
<1>1. ch \in Seq(Clusters) /\ Len(ch) \in Nat /\ ch[i] \in Clusters
  BY DEF IsChain
<1>2. CASE i = Len(ch)
  BY <1>1, <1>2, Constants DEF IsChain
<1>3. CASE i # Len(ch)
  <2>1. i \in 1 .. Len(ch) - 1 /\ i + 1 \in 1 .. Len(ch)
    BY <1>1, <1>3
  <2>2. f[ch[i]] = ch[i + 1] /\ ch[i + 1] \in Clusters
    BY <1>1, <2>1 DEF IsChain
  <2> QED BY <1>1, <2>2, Constants
<1> QED BY <1>2, <1>3

LEMMA AddKeeps ==
  ASSUME NEW f \in Tables, NEW g \in Tables, NEW r \in Directories, WholeFiles(f, r),
         NEW c \in 0 .. CLUSTERS - 1, NEW nc, NewChain(f, g, c, nc),
         NEW e \in Slots, ~r[e].used, NEW q \in Directories,
         \A x \in Slots : x # e => q[x] = r[x],
         q[e].used, q[e].cluster = c, Len(nc) = TurnsFor(q[e].size)
  PROVE  /\ WholeFiles(g, q) /\ ChainIn(g, q, e) = nc
         /\ \A x \in Slots : r[x].used => ChainIn(g, q, x) = ChainIn(f, r, x)
<1>1. /\ IsChain(g, c, nc) /\ Len(nc) \in Nat
      /\ \A k \in 1 .. Len(nc) : f[nc[k]] = 0
      /\ \A x \in 0 .. CLUSTERS - 1 : (\A k \in 1 .. Len(nc) : nc[k] # x) => g[x] = f[x]
  BY DEF NewChain, IsChain
<1>2. ChainIn(g, q, e) = nc
  BY <1>1, ChainFound DEF ChainIn
<1>3. ASSUME NEW x \in Slots, r[x].used
      PROVE  /\ IsChain(g, q[x].cluster, ChainIn(f, r, x))
             /\ ChainIn(g, q, x) = ChainIn(f, r, x) /\ q[x] = r[x] /\ x # e
             /\ \A i \in 1 .. Len(ChainIn(f, r, x)), k \in 1 .. Len(nc) : ChainIn(f, r, x)[i] # nc[k]
  <2> DEFINE ch == ChainIn(f, r, x)
  <2>1. IsChain(f, r[x].cluster, ch) /\ q[x] = r[x] /\ x # e
    BY <1>3 DEF WholeFiles
  <2> HIDE DEF ch
  <2>2. \A i \in 1 .. Len(ch) : ch[i] \in 0 .. CLUSTERS - 1 /\ f[ch[i]] # 0
    BY <2>1, ChainNotFree, Constants
  <2>3. \A i \in 1 .. Len(ch), k \in 1 .. Len(nc) : ch[i] # nc[k]
    BY <1>1, <2>2
  <2>4. \A i \in 1 .. Len(ch) : g[ch[i]] = f[ch[i]]
    BY <1>1, <2>2, <2>3
  <2>5. IsChain(g, r[x].cluster, ch) /\ Chain(g, r[x].cluster) = ch
    BY <2>1, <2>4, ChainKept
  <2> QED BY <2>1, <2>3, <2>5 DEF ch, ChainIn
<1>4. \A x \in Slots : q[x].used => x = e \/ (x # e /\ r[x].used)
  OBVIOUS
<1>5. ASSUME NEW x \in Slots, q[x].used
      PROVE  /\ IsChain(g, q[x].cluster, ChainIn(g, q, x))
             /\ Len(ChainIn(g, q, x)) = TurnsFor(q[x].size)
  <2>1. CASE x = e
    BY <1>1, <1>2, <2>1
  <2>2. CASE r[x].used
    <3>1. Len(ChainIn(f, r, x)) = TurnsFor(r[x].size)
      BY <2>2 DEF WholeFiles
    <3> QED BY <1>3, <2>2, <3>1
  <2> QED BY <1>4, <1>5, <2>1, <2>2
<1>6. ASSUME NEW x \in Slots, NEW y \in Slots, q[x].used, q[y].used, x # y,
             NEW i \in 1 .. Len(ChainIn(g, q, x)), NEW j \in 1 .. Len(ChainIn(g, q, y))
      PROVE  ChainIn(g, q, x)[i] # ChainIn(g, q, y)[j]
  <2>1. CASE x = e
    <3>1. r[y].used
      BY <1>4, <1>6, <2>1
    <3> QED BY <1>2, <1>3, <2>1, <3>1
  <2>2. CASE y = e
    <3>1. r[x].used
      BY <1>4, <1>6, <2>2
    <3> QED BY <1>2, <1>3, <2>2, <3>1
  <2>3. CASE x # e /\ y # e
    <3>1. r[x].used /\ r[y].used
      BY <1>4, <1>6, <2>3
    <3> QED BY <1>3, <1>6, <3>1 DEF WholeFiles
  <2> QED BY <2>1, <2>2, <2>3
<1>7. ASSUME NEW y \in Clusters, g[y] # 0
      PROVE  \E x \in Slots : q[x].used
               /\ \E i \in 1 .. Len(ChainIn(g, q, x)) : ChainIn(g, q, x)[i] = y
  <2>1. CASE \E k \in 1 .. Len(nc) : nc[k] = y
    BY <1>2, <2>1
  <2>2. CASE ~\E k \in 1 .. Len(nc) : nc[k] = y
    <3>1. f[y] # 0
      BY <1>1, <1>7, <2>2, Constants
    <3>2. PICK x \in Slots : r[x].used
             /\ \E i \in 1 .. Len(ChainIn(f, r, x)) : ChainIn(f, r, x)[i] = y
      BY <3>1 DEF WholeFiles
    <3>3. q[x].used /\ ChainIn(g, q, x) = ChainIn(f, r, x)
      BY <1>3, <3>2
    <3> QED BY <3>2, <3>3
  <2> QED BY <2>1, <2>2
<1>8. WholeFiles(g, q)
  BY <1>5, <1>6, <1>7 DEF WholeFiles
<1> QED BY <1>2, <1>3, <1>8

LEMMA RemoveKeeps ==
  ASSUME NEW f \in Tables, NEW r \in Directories, WholeFiles(f, r),
         NEW e \in Slots, r[e].used, NEW q \in Directories,
         \A x \in Slots : x # e => q[x] = r[x], ~q[e].used
  PROVE  LET g == fat_remove_data(f, 0, r[e].cluster) IN
         /\ g \in Tables /\ WholeFiles(g, q) /\ g[1] = f[1]
         /\ \A x \in Slots : r[x].used /\ x # e => ChainIn(g, q, x) = ChainIn(f, r, x)
<1> DEFINE g == fat_remove_data(f, 0, r[e].cluster)
           gone == ChainIn(f, r, e)
<1>1. IsChain(f, r[e].cluster, gone)
  BY DEF WholeFiles
<1> HIDE DEF gone
<1>2. g \in Tables
      /\ \A x \in 0 .. CLUSTERS - 1 :
           g[x] = IF \E i \in 1 .. Len(gone) : gone[i] = x THEN 0 ELSE f[x]
  BY <1>1, Removed
<1> HIDE DEF g
<1>3. g[1] = f[1]
  <2>1. 1 \in 0 .. CLUSTERS - 1 /\ \A i \in 1 .. Len(gone) : gone[i] # 1
    BY <1>1, ChainNotFree, Constants
  <2> QED BY <1>2, <2>1
<1>4. ASSUME NEW x \in Slots, r[x].used, x # e
      PROVE  /\ IsChain(g, q[x].cluster, ChainIn(f, r, x))
             /\ ChainIn(g, q, x) = ChainIn(f, r, x) /\ q[x] = r[x]
  <2> DEFINE ch == ChainIn(f, r, x)
  <2>1. IsChain(f, r[x].cluster, ch) /\ q[x] = r[x]
    BY <1>4 DEF WholeFiles
  <2>2. \A i \in 1 .. Len(ch), j \in 1 .. Len(gone) : ch[i] # gone[j]
    BY <1>4 DEF WholeFiles, gone
  <2> HIDE DEF ch
  <2>3. \A i \in 1 .. Len(ch) : ch[i] \in 0 .. CLUSTERS - 1
    BY <2>1, ChainNotFree, Constants
  <2>4. \A i \in 1 .. Len(ch) : g[ch[i]] = f[ch[i]]
    BY <1>2, <2>2, <2>3
  <2>5. IsChain(g, r[x].cluster, ch) /\ Chain(g, r[x].cluster) = ch
    BY <1>2, <2>1, <2>4, ChainKept
  <2> QED BY <2>1, <2>5 DEF ch, ChainIn
<1>5. \A x \in Slots : q[x].used => x # e /\ r[x].used
  OBVIOUS
<1>6. ASSUME NEW x \in Slots, q[x].used
      PROVE  /\ IsChain(g, q[x].cluster, ChainIn(g, q, x))
             /\ Len(ChainIn(g, q, x)) = TurnsFor(q[x].size)
  <2>1. x # e /\ r[x].used
    BY <1>5, <1>6
  <2>2. Len(ChainIn(f, r, x)) = TurnsFor(r[x].size)
    BY <2>1 DEF WholeFiles
  <2> QED BY <1>4, <2>1, <2>2
<1>7. ASSUME NEW x \in Slots, NEW y \in Slots, q[x].used, q[y].used, x # y,
             NEW i \in 1 .. Len(ChainIn(g, q, x)), NEW j \in 1 .. Len(ChainIn(g, q, y))
      PROVE  ChainIn(g, q, x)[i] # ChainIn(g, q, y)[j]
  <2>1. x # e /\ r[x].used /\ y # e /\ r[y].used
    BY <1>5, <1>7
  <2> QED BY <1>4, <1>7, <2>1 DEF WholeFiles
<1>8. ASSUME NEW y \in Clusters, g[y] # 0
      PROVE  \E x \in Slots : q[x].used
               /\ \E i \in 1 .. Len(ChainIn(g, q, x)) : ChainIn(g, q, x)[i] = y
  <2>1. f[y] # 0 /\ ~\E i \in 1 .. Len(gone) : gone[i] = y
    BY <1>2, <1>8, Constants
  <2>2. PICK x \in Slots : r[x].used
           /\ \E i \in 1 .. Len(ChainIn(f, r, x)) : ChainIn(f, r, x)[i] = y
    BY <2>1 DEF WholeFiles
  <2>3. x # e
    BY <2>1, <2>2 DEF gone
  <2>4. q[x].used /\ ChainIn(g, q, x) = ChainIn(f, r, x)
    BY <1>4, <2>2, <2>3
  <2> QED BY <2>2, <2>4
<1>9. WholeFiles(g, q)
  BY <1>6, <1>7, <1>8 DEF WholeFiles
<1> QED BY <1>2, <1>3, <1>4, <1>9 DEF g

-----------------------------------------------------------------------------
(* The invariant.                                                          *)

FatInv ==
  /\ fat \in Tables /\ fat[1] = EOC /\ data \in Areas
  /\ root \in Directories
  /\ fat_mode = "run"
  /\ WholeFiles(fat, root)

LEMMA FatStarts == FatInit => FatInv
<1> SUFFICES ASSUME FatInit PROVE FatInv
  OBVIOUS
<1>1. fat \in Tables /\ fat[1] = EOC /\ \A c \in Clusters : fat[c] = 0
  <2>1. fat = [c \in 0 .. CLUSTERS - 1 |->
                 IF c = 0 THEN MEDIA ELSE IF c = 1 THEN EOC ELSE Free]
    BY DEF FatInit
  <2>2. 0 \in 0 .. CLUSTERS - 1 /\ 1 \in 0 .. CLUSTERS - 1 /\ Free = 0
    BY Constants
  <2>3. \A c \in Clusters : c \in 0 .. CLUSTERS - 1 /\ c # 0 /\ c # 1
    BY Constants
  <2>4. fat[1] = EOC /\ \A c \in Clusters : fat[c] = 0
    BY <2>1, <2>2, <2>3
  <2>5. \A c \in 0 .. CLUSTERS - 1 : fat[c] \in 0 .. CLUSTERS - 1 \cup {MEDIA, EOC}
    BY <2>1, <2>2
  <2> QED BY <2>1, <2>4, <2>5 DEF Tables
<1>2. data \in Areas
  <2> DEFINE D == 0 .. CLUSTERS * BPC - 1
  <2>1. data = [a \in D |-> 0] /\ 0 \in Bytes
    BY Fat16Assumption DEF FatInit
  <2> HIDE DEF D
  <2>2. data \in [D -> Bytes]
    BY <2>1
  <2> QED BY <2>2 DEF Areas, D
<1> USE Constants DEF FatInit
<1>3. root \in Directories /\ \A e \in Slots : ~root[e].used
  <2>1. 0 \in 0 .. CLUSTERS - 1 /\ 0 \in 0 .. WORD - 1
    BY Fat16Assumption
  <2>2. PICK marked \in SUBSET Slots :
          root = [e \in Slots |-> [used |-> FALSE, cluster |-> 0, size |-> 0,
                                   system |-> e \in marked]]
    OBVIOUS
  <2>3. ASSUME NEW e \in Slots PROVE root[e] \in Entries /\ ~root[e].used
    <3> DEFINE b == e \in marked
    <3>1. b \in BOOLEAN
      BY b \/ ~b DEF b
    <3>2. root[e] = [used |-> FALSE, cluster |-> 0, size |-> 0, system |-> b]
      BY <2>2, Zenon
    <3> HIDE DEF b
    <3> QED BY <2>1, <3>1, <3>2 DEF Entries
  <2> QED BY <2>2, <2>3 DEF Directories
<1>4. WholeFiles(fat, root)
  BY <1>1, <1>3 DEF WholeFiles
<1> QED BY <1>1, <1>2, <1>3, <1>4 DEF FatInv

(* The chain of a file in the words of the module. *)
LEMMA FileChains ==
  ASSUME FatInv, NEW e \in Slots, root[e].used
  PROVE  /\ ChainIn(fat, root, e) = ChainOf(e) /\ ChainOf(e) = Chain(fat, root[e].cluster)
         /\ IsChain(fat, root[e].cluster, ChainOf(e))
         /\ Len(ChainOf(e)) = TurnsFor(root[e].size) /\ Len(ChainOf(e)) \in 1 .. CLUSTERS - 2
         /\ ~IsBroken(ChainOf(e)) /\ root[e].cluster # 0
<1> DEFINE ch == ChainOf(e)
<1>1. ChainIn(fat, root, e) = ch /\ ch = Chain(fat, root[e].cluster)
  BY DEF ChainIn, ChainOf
<1>2. IsChain(fat, root[e].cluster, ch) /\ Len(ch) = TurnsFor(root[e].size)
  BY <1>1 DEF FatInv, WholeFiles
<1> HIDE DEF ch
<1>3. Len(ch) \in 1 .. CLUSTERS - 2
  BY <1>2, ChainLength
<1>4. ch \in Seq(Clusters) /\ ch[1] = root[e].cluster
  BY <1>2 DEF IsChain
<1>5. \A i \in 1 .. Len(ch) : ch[i] \in Clusters
  BY <1>4
<1>6. ~IsBroken(ch)
  <2>1. DOMAIN ch = 1 .. Len(ch)
    BY <1>4
  <2>2. -1 \notin Clusters
    BY Constants DEF Clusters
  <2> QED BY <1>5, <2>1, <2>2 DEF IsBroken, Range
<1>7. root[e].cluster # 0
  <2>1. 1 \in 1 .. Len(ch)
    BY <1>3, Constants
  <2> QED BY <1>4, <1>5, <2>1, Constants
<1> QED BY <1>1, <1>2, <1>3, <1>6, <1>7 DEF ch

(* The entry that fat_find_entry finds. *)
LEMMA FoundEntry ==
  ASSUME NEW free \in BOOLEAN, NEW skip \in Nat
  PROVE  LET e == fat_find_entry(free, skip) IN
         /\ e = -1 => \A x \in Slots : x >= skip => root[x].used # ~free
         /\ e # -1 => /\ e \in Slots /\ e >= skip /\ root[e].used = ~free
                      /\ \A x \in Slots : x >= skip /\ root[x].used = ~free => e <= x
<1> DEFINE S == {e \in Slots : e >= skip /\ root[e].used = ~free}
           e == fat_find_entry(free, skip)
<1>1. Slots \subseteq Nat /\ -1 \notin Slots
  BY Fat16Assumption DEF Slots
<1>2. CASE S = {}
  <2>1. e = -1
    BY <1>2 DEF fat_find_entry
  <2> QED BY <1>2, <2>1
<1>3. CASE S # {}
  <2>1. e = CHOOSE x \in S : \A y \in S : x <= y
    BY <1>3 DEF fat_find_entry
  <2>2. S \in SUBSET Nat
    BY <1>1
  <2>3. \E x \in S : \A y \in S : x <= y
    <3> HIDE DEF S
    <3> QED BY <1>3, <2>2, LeastNat
  <2>4. e \in S /\ \A y \in S : e <= y
    <3> HIDE DEF S
    <3> QED BY <2>1, <2>3
  <2> HIDE DEF e
  <2> QED BY <1>1, <2>4 DEF e
<1> QED BY <1>2, <1>3

(* What fat_add_file leaves: nothing new, or a file of its own. *)
LEMMA AddFile ==
  ASSUME FatInv, NEW size \in Sizes, NEW b \in Bytes,
         fat_find_entry(TRUE, 0) # -1
  PROVE  LET e == fat_find_entry(TRUE, 0)
             s == fat_add_data(0, b, size)
             q == [root EXCEPT ![e] = [@ EXCEPT !.used = TRUE, !.cluster = s.root, !.size = size]]
         IN /\ e \in Slots /\ ~root[e].used
            /\ s \in AddStates /\ SameFiles(fat, data, s.data)
            /\ s.root = 0 => s.fat = fat
            /\ s.root # 0 =>
                 /\ q \in Directories /\ q[e] = [root[e] EXCEPT !.used = TRUE,
                                                  !.cluster = s.root, !.size = size]
                 /\ \A x \in Slots : x # e => q[x] = root[x]
                 /\ size # 0 /\ s.fat[1] = EOC
                 /\ WholeFiles(s.fat, q)
                 /\ \A x \in Slots : root[x].used => ChainIn(s.fat, q, x) = ChainIn(fat, root, x)
                 /\ Filled(s.data, ChainIn(s.fat, q, e), b, size)
<1> DEFINE e == fat_find_entry(TRUE, 0)
           s == fat_add_data(0, b, size)
           q == [root EXCEPT ![e] = [@ EXCEPT !.used = TRUE, !.cluster = s.root, !.size = size]]
           n == TurnsFor(size)
<1>1. fat \in Tables /\ data \in Areas /\ fat[1] = EOC /\ root \in Directories /\ WholeFiles(fat, root)
  BY DEF FatInv
<1>2. e \in Slots /\ ~root[e].used
  <2>1. e \in Slots /\ root[e].used = ~TRUE
    BY FoundEntry
  <2> QED BY <2>1
<1>3. size \in Nat /\ size \in 0 .. WORD - 1 /\ BPC \in Nat \ {0}
  BY Fat16Assumption
<1>4. Adding(fat, data, b, size, n, s)
  BY <1>1, <1>3, AddDone
<1> HIDE DEF e, s
<1>5. s \in AddStates /\ SameFiles(fat, data, s.data)
      /\ s.fat \in Tables /\ s.root \in 0 .. CLUSTERS - 1
  BY <1>4 DEF Adding, AddStates
<1>6. n \in Nat /\ (size = 0 <=> n = 0)
  BY <1>3, PiecesAre, Turns
<1> HIDE DEF n
<1>7. CASE s.full \/ n = 0
  <2>1. s.root = 0 /\ s.fat = fat
    BY <1>4, <1>7 DEF Adding
  <2> QED BY <1>2, <1>5, <2>1 DEF e, s
<1>8. CASE ~s.full /\ n # 0
  <2>1. PICK nc : NewChain(fat, s.fat, s.root, nc) /\ Len(nc) = n /\ Filled(s.data, nc, b, size)
    BY <1>4, <1>8 DEF Adding
  <2>2. /\ IsChain(s.fat, s.root, nc)
        /\ \A x \in 0 .. CLUSTERS - 1 : (\A k \in 1 .. Len(nc) : nc[k] # x) => s.fat[x] = fat[x]
    BY <2>1 DEF NewChain
  <2>3. s.fat[1] = EOC
    <3>1. 1 \in 0 .. CLUSTERS - 1 /\ \A k \in 1 .. Len(nc) : nc[k] # 1
      BY <2>2, ChainNotFree, Constants
    <3> QED BY <1>1, <2>2, <3>1
  <2>4. s.root # 0
    <3>1. nc \in Seq(Clusters) /\ Len(nc) >= 1 /\ nc[1] = s.root
      BY <2>2 DEF IsChain
    <3>2. nc[1] \in Clusters
      BY <3>1
    <3> QED BY <3>1, <3>2, Constants
  <2>5. q \in Directories
    <3>1. root[e] \in Entries
      BY <1>1, <1>2 DEF Directories
    <3>2. [root[e] EXCEPT !.used = TRUE, !.cluster = s.root, !.size = size] \in Entries
      BY <1>3, <1>5, <3>1 DEF Entries
    <3> QED BY <1>1, <1>2, <3>2 DEF Directories
  <2>6. /\ q[e] = [root[e] EXCEPT !.used = TRUE, !.cluster = s.root, !.size = size]
        /\ \A x \in Slots : x # e => q[x] = root[x]
    BY <1>1, <1>2 DEF Directories
  <2>7. q[e].used /\ q[e].cluster = s.root /\ q[e].size = size
    <3>1. root[e] \in Entries
      BY <1>1, <1>2 DEF Directories
    <3> QED BY <2>6, <3>1 DEF Entries
  <2>8. Len(nc) = TurnsFor(q[e].size)
    BY <2>1, <2>7 DEF n
  <2> HIDE DEF q
  <2>9. /\ WholeFiles(s.fat, q) /\ ChainIn(s.fat, q, e) = nc
        /\ \A x \in Slots : root[x].used => ChainIn(s.fat, q, x) = ChainIn(fat, root, x)
    <3>1. \A x \in Slots : x # e => q[x] = root[x]
      BY <2>6
    <3>2. NewChain(fat, s.fat, s.root, nc)
      BY <2>1
    <3> QED BY <1>1, <1>2, <1>5, <2>5, <2>7, <2>8, <3>1, <3>2, AddKeeps
  <2> QED BY <1>2, <1>5, <1>6, <1>8, <2>1, <2>3, <2>4, <2>5, <2>6, <2>9 DEF e, s, q
<1> QED BY <1>5, <1>7, <1>8 DEF AddStates

LEMMA FatKeeps == FatInv /\ [FatNext]_fat_vars => FatInv'
<1> SUFFICES ASSUME FatInv, [FatNext]_fat_vars PROVE FatInv'
  OBVIOUS
<1>0. /\ fat \in Tables /\ fat[1] = EOC /\ data \in Areas
      /\ root \in Directories
      /\ fat_mode = "run" /\ WholeFiles(fat, root)
  BY DEF FatInv
<1>1. CASE fat_add_file
  <2>1. PICK size \in Sizes, b \in Bytes :
          LET e == fat_find_entry(TRUE, 0)
              s == fat_add_data(0, b, size)
          IN /\ e # -1
             /\ fat' = s.fat /\ data' = s.data
             /\ root' = IF s.root = 0 THEN root
                        ELSE [root EXCEPT ![e] = [@ EXCEPT !.used = TRUE,
                                                    !.cluster = s.root, !.size = size]]
             /\ UNCHANGED <<reply, fat_mode>>
    BY <1>1 DEF fat_add_file
  <2> DEFINE e == fat_find_entry(TRUE, 0)
             s == fat_add_data(0, b, size)
             q == [root EXCEPT ![e] = [@ EXCEPT !.used = TRUE, !.cluster = s.root, !.size = size]]
  <2>2. /\ e \in Slots /\ s \in AddStates
        /\ s.root = 0 => s.fat = fat
        /\ s.root # 0 =>
             /\ q \in Directories
             /\ q[e] = [root[e] EXCEPT !.used = TRUE, !.cluster = s.root, !.size = size]
             /\ \A x \in Slots : x # e => q[x] = root[x]
             /\ s.fat[1] = EOC /\ WholeFiles(s.fat, q)
    <3>1. e # -1
      BY <2>1
    <3> HIDE DEF e, s
    <3> QED BY <3>1, AddFile DEF e, s
  <2>3. fat' = s.fat /\ data' = s.data /\ root' = (IF s.root = 0 THEN root ELSE q) /\ fat_mode' = fat_mode
    BY <2>1
  <2> HIDE DEF e, s, q
  <2>4. s.fat \in Tables /\ s.data \in Areas
    BY <2>2 DEF AddStates
  <2>5. CASE s.root = 0
    BY <1>0, <2>2, <2>3, <2>4, <2>5 DEF FatInv
  <2>6. CASE s.root # 0
    BY <1>0, <2>2, <2>3, <2>4, <2>6 DEF FatInv
  <2> QED BY <2>5, <2>6
<1>2. CASE fat_remove_file
  <2>1. PICK e \in Slots :
          /\ root[e].used
          /\ fat' = fat_remove_data(fat, 0, root[e].cluster)
          /\ root' = [root EXCEPT ![e].used = FALSE]
          /\ fat_mode' = IF root[e].cluster = 0 \/ IsBroken(Chain(fat, root[e].cluster))
                         THEN "panic" ELSE "run"
          /\ UNCHANGED <<data, reply>>
    BY <1>2 DEF fat_remove_file
  <2>2. fat_mode' = "run"
    BY <2>1, FileChains
  <2>3. root' \in Directories /\ ~root'[e].used
        /\ \A x \in Slots : x # e => root'[x] = root[x]
    <3>1. root[e] \in Entries
      BY <1>0 DEF Directories
    <3>2. [root[e] EXCEPT !.used = FALSE] \in Entries
          /\ [root[e] EXCEPT !.used = FALSE].used = FALSE
      BY <3>1 DEF Entries
    <3>3. root' = [root EXCEPT ![e] = [root[e] EXCEPT !.used = FALSE]]
      BY <2>1
    <3> QED BY <1>0, <3>2, <3>3 DEF Directories
  <2>4. fat' \in Tables /\ WholeFiles(fat', root') /\ fat'[1] = fat[1]
    <3> DEFINE q == root'
    <3>1. q \in Directories /\ ~q[e].used /\ \A x \in Slots : x # e => q[x] = root[x]
      BY <2>3
    <3> HIDE DEF q
    <3> DEFINE h == fat_remove_data(fat, 0, root[e].cluster)
    <3>2. h \in Tables /\ WholeFiles(h, q) /\ h[1] = fat[1]
      BY <1>0, <2>1, <3>1, RemoveKeeps
    <3>3. fat' = h
      BY <2>1
    <3> HIDE DEF h
    <3> QED BY <3>2, <3>3 DEF q
  <2> QED BY <1>0, <2>1, <2>2, <2>3, <2>4 DEF FatInv
<1>3. CASE ReadFile
  <2>1. fat' = fat /\ root' = root /\ data' = data
    BY <1>3 DEF ReadFile
  <2>2. fat_mode' = "run"
    BY <1>3, FileChains DEF ReadFile
  <2> QED BY <1>0, <2>1, <2>2 DEF FatInv
<1>4. CASE WriteFile
  <2>1. fat' = fat /\ root' = root
    BY <1>4 DEF WriteFile
  <2>2. fat_mode' = "run"
    BY <1>4, FileChains DEF WriteFile
  <2>3. PICK e \in Slots, offset \in PartOffsets, len \in Lens, b \in Bytes :
          data' = fat_fs_write(e, offset, b, len)
    BY <1>4 DEF WriteFile
  <2> DEFINE ts == Transfers(Chain(fat, root[e].cluster), Trim(root[e].size, offset, len), offset)
             In(a) == \E k \in 1 .. Len(ts) : a \in ts[k].addr .. ts[k].addr + ts[k].count - 1
  <2>4. data' = [a \in DOMAIN data |-> IF In(a) THEN b ELSE data[a]]
    BY <2>3 DEF fat_fs_write
  <2> HIDE DEF In
  <2>5. data' \in Areas
    BY <1>0, <2>4 DEF Areas
  <2> QED BY <1>0, <2>1, <2>2, <2>5 DEF FatInv
<1>5. CASE UNCHANGED fat_vars
  BY <1>0, <1>5 DEF FatInv, fat_vars
<1> QED BY <1>1, <1>2, <1>3, <1>4, <1>5 DEF FatNext

LEMMA FatAlways == FatSpec => []FatInv
BY FatStarts, FatKeeps, PTL DEF FatSpec

LEMMA InvPartition == FatInv => FatTypeOK /\ FatNoPanic /\ ChainsPartition
<1> SUFFICES ASSUME FatInv PROVE FatTypeOK /\ FatNoPanic /\ ChainsPartition
  OBVIOUS
<1>0. /\ fat \in Tables /\ fat[1] = EOC /\ data \in Areas /\ root \in Directories
      /\ fat_mode = "run" /\ WholeFiles(fat, root)
  BY DEF FatInv
<1>1. FatTypeOK
  <2>1. \A e \in Slots : root[e].cluster \in 0 .. CLUSTERS - 1 /\ root[e].size \in Nat
    <3> TAKE e \in Slots
    <3>1. root[e] \in Entries
      BY <1>0 DEF Directories
    <3> QED BY <3>1, Fat16Assumption DEF Entries
  <2> QED BY <1>0, <2>1 DEF FatTypeOK, Tables, Areas
<1>2. FatNoPanic
  BY <1>0 DEF FatNoPanic
<1>3. \A e \in Used : /\ e \in Slots /\ root[e].used
                      /\ ChainIn(fat, root, e) = ChainOf(e)
                      /\ ~IsBroken(ChainOf(e))
                      /\ Len(ChainOf(e)) = TurnsFor(root[e].size)
                      /\ IsChain(fat, root[e].cluster, ChainOf(e))
                      /\ ClustersOf(e) = {ChainOf(e)[i] : i \in 1 .. Len(ChainOf(e))}
  <2> TAKE e \in Used
  <2>1. e \in Slots /\ root[e].used
    BY DEF Used
  <2>2. /\ ChainIn(fat, root, e) = ChainOf(e)
        /\ ~IsBroken(ChainOf(e))
        /\ Len(ChainOf(e)) = TurnsFor(root[e].size)
        /\ IsChain(fat, root[e].cluster, ChainOf(e))
    BY <2>1, FileChains
  <2>3. DOMAIN ChainOf(e) = 1 .. Len(ChainOf(e))
    <3> DEFINE ch == ChainOf(e)
    <3>1. ch \in Seq(Clusters)
      BY <2>2 DEF IsChain
    <3> HIDE DEF ch
    <3> QED BY <3>1 DEF ch
  <2>4. ClustersOf(e) = {ChainOf(e)[i] : i \in 1 .. Len(ChainOf(e))}
    BY <2>3 DEF ClustersOf, Range
  <2> QED BY <2>1, <2>2, <2>4
<1>4. \A e, x \in Used : e # x => ClustersOf(e) \cap ClustersOf(x) = {}
  BY <1>0, <1>3 DEF WholeFiles
<1>5. ASSUME NEW c \in 2 .. CLUSTERS - 1
      PROVE  (fat[c] # Free) = (\E e \in Used : c \in ClustersOf(e))
  <2>1. ASSUME fat[c] # Free PROVE \E e \in Used : c \in ClustersOf(e)
    <3>1. c \in Clusters /\ fat[c] # 0
      BY <2>1 DEF Clusters, Free
    <3>2. PICK e \in Slots : root[e].used
             /\ \E i \in 1 .. Len(ChainIn(fat, root, e)) : ChainIn(fat, root, e)[i] = c
      BY <1>0, <3>1 DEF WholeFiles
    <3>3. e \in Used
      BY <3>2 DEF Used
    <3> QED BY <1>3, <3>2, <3>3
  <2>2. ASSUME NEW e \in Used, c \in ClustersOf(e) PROVE fat[c] # Free
    <3> DEFINE ch == ChainOf(e)
    <3>1. IsChain(fat, root[e].cluster, ch) /\ \E i \in 1 .. Len(ch) : ch[i] = c
      BY <1>3, <2>2
    <3> HIDE DEF ch
    <3> QED BY <3>1, ChainNotFree DEF Free
  <2> QED BY <2>1, <2>2
<1> QED BY <1>0, <1>1, <1>2, <1>3, <1>4, <1>5 DEF ChainsPartition

(* On a disk of any size, zeroed or not, and wherever fat_add_data runs    *)
(* out of space: the files of fat16.c share no cluster, no cluster leaks,  *)
(* a chain has the length of its file, and the asserts on the chains hold. *)
THEOREM ChainsAlwaysWhole == FatSpec => [](FatTypeOK /\ FatNoPanic /\ ChainsPartition)
BY FatAlways, InvPartition, PTL

-----------------------------------------------------------------------------
(* Transfers.                                                              *)

(* seqs is sequence X in pieces of b elements. *)
InPieces(seqs, S, X, b) ==
  /\ seqs \in Seq(Seq(S)) /\ Len(seqs) = Pieces(Len(X), b)
  /\ \A k \in 1 .. Len(seqs) :
       /\ Len(seqs[k]) = PieceSize(Len(X), b, k)
       /\ \A i \in 1 .. Len(seqs[k]) : seqs[k][i] = X[(k - 1) * b + i]

(* A sequence is its pieces joined. *)
LEMMA PiecesJoin ==
  ASSUME NEW S, NEW X \in Seq(S), NEW b \in Nat \ {0}, NEW seqs, InPieces(seqs, S, X, b)
  PROVE  FlattenSeq(seqs) = X
<1> DEFINE L == Len(X)
           n == Pieces(L, b)
           End(k) == IF k * b < L THEN k * b ELSE L
           Pre(k) == [i \in 1 .. End(k) |-> X[i]]
           Body(h) == [i \in 1 .. Len(seqs) |-> IF i = 1 THEN seqs[i] ELSE h[i - 1] \o seqs[i]]
           h == CHOOSE f : f = Body(f)
<1>0. L \in Nat
  OBVIOUS
<1>1. L \in Nat /\ n \in Nat /\ n * b \in Nat /\ L <= n * b /\ (L = 0 <=> n = 0)
  <2> HIDE DEF L
  <2> QED BY <1>0, PiecesAre
<1>2. ASSUME NEW k \in 1 .. n
      PROVE  /\ (k - 1) * b \in Nat /\ k * b = (k - 1) * b + b /\ (k - 1) * b < L
             /\ PieceSize(L, b, k) \in Nat /\ (k - 1) * b + PieceSize(L, b, k) = End(k)
             /\ End(k) \in Nat /\ End(k) <= L
  <2>1. /\ (k - 1) * b \in Nat /\ k * b = (k - 1) * b + b /\ (k - 1) * b < L
        /\ PieceSize(L, b, k) \in 1 .. b
        /\ (k - 1) * b + PieceSize(L, b, k) = End(k)
    <3> HIDE DEF L
    <3> QED BY <1>1, PieceSizes
  <2> HIDE DEF L
  <2> QED BY <1>1, <2>1
<1>3. /\ seqs \in Seq(Seq(S)) /\ Len(seqs) = n
      /\ \A k \in 1 .. n : /\ seqs[k] \in Seq(S) /\ Len(seqs[k]) = PieceSize(L, b, k)
                           /\ \A i \in 1 .. PieceSize(L, b, k) : seqs[k][i] = X[(k - 1) * b + i]
  <2>1. /\ seqs \in Seq(Seq(S)) /\ Len(seqs) = n
        /\ \A k \in 1 .. n : /\ Len(seqs[k]) = PieceSize(L, b, k)
                             /\ \A i \in 1 .. Len(seqs[k]) : seqs[k][i] = X[(k - 1) * b + i]
    BY DEF InPieces
  <2>2. \A k \in 1 .. n : seqs[k] \in Seq(S)
    BY <2>1
  <2> QED BY <2>1, <2>2
<1>4. CASE n = 0
  <2>1. FlattenSeq(seqs) = seqs
    BY <1>3, <1>4 DEF FlattenSeq
  <2>2. seqs = <<>> /\ X = <<>>
    <3>1. Len(seqs) = 0 /\ Len(X) = 0
      BY <1>1, <1>3, <1>4
    <3> QED BY <1>3, <3>1, EmptySeq
  <2> QED BY <2>1, <2>2
<1>5. CASE n # 0
  <2> HIDE DEF n, L
  <2>1. \A k \in 1 .. n : Pre(k) \in Seq(S) /\ Len(Pre(k)) = End(k)
                          /\ \A i \in 1 .. End(k) : Pre(k)[i] = X[i]
    <3> TAKE k \in 1 .. n
    <3>1. End(k) \in Nat /\ End(k) <= L
      BY <1>2
    <3> HIDE DEF End
    <3>2. \A i \in 1 .. End(k) : i \in 1 .. L /\ X[i] \in S
      BY <1>1, <3>1 DEF L
    <3> QED BY <3>1, <3>2
  <2>2. seqs[1] = Pre(1)
    <3>1. 1 \in 1 .. n
      BY <1>1, <1>5
    <3> DEFINE m == PieceSize(L, b, 1)
    <3>2. (1 - 1) * b = 0 /\ m \in Nat /\ m = End(1)
      BY <1>2, <3>1
    <3> HIDE DEF End, Pre, m
    <3>3. /\ seqs[1] \in Seq(S) /\ Len(seqs[1]) = m
          /\ \A i \in 1 .. m : seqs[1][i] = X[i]
      <4>1. /\ seqs[1] \in Seq(S) /\ Len(seqs[1]) = m
            /\ \A i \in 1 .. m : seqs[1][i] = X[(1 - 1) * b + i]
        BY <1>3, <3>1 DEF m
      <4>2. \A i \in 1 .. m : (1 - 1) * b + i = i
        BY <3>2
      <4> QED BY <4>1, <4>2
    <3>4. Pre(1) \in Seq(S) /\ Len(Pre(1)) = m /\ \A i \in 1 .. m : Pre(1)[i] = X[i]
      BY <2>1, <3>1, <3>2
    <3> QED BY <3>3, <3>4, SeqEqual
  <2>3. ASSUME NEW k \in 2 .. n PROVE Pre(k - 1) \o seqs[k] = Pre(k)
    <3> DEFINE o == (k - 1) * b
               m == PieceSize(L, b, k)
               u == Pre(k - 1)
               v == seqs[k]
               w == u \o v
    <3>1. k \in 1 .. n /\ k - 1 \in 1 .. n
      BY <1>1
    <3>2. o \in Nat /\ m \in Nat /\ End(k) = o + m /\ End(k - 1) = o
      BY <1>2, <3>1
    <3> HIDE DEF End, Pre, o, m
    <3>3. u \in Seq(S) /\ Len(u) = o /\ \A i \in 1 .. o : u[i] = X[i]
      BY <2>1, <3>1, <3>2
    <3>4. v \in Seq(S) /\ Len(v) = m /\ \A i \in 1 .. m : v[i] = X[o + i]
      BY <1>3, <3>1 DEF m, o
    <3>5. Pre(k) \in Seq(S) /\ Len(Pre(k)) = o + m /\ \A i \in 1 .. o + m : Pre(k)[i] = X[i]
      BY <2>1, <3>1, <3>2
    <3> HIDE DEF u, v
    <3>6. w \in Seq(S) /\ Len(w) = o + m
          /\ \A i \in 1 .. o + m : w[i] = IF i <= o THEN u[i] ELSE v[i - o]
      <4>1. /\ w \in Seq(S) /\ Len(w) = Len(u) + Len(v)
            /\ \A i \in 1 .. Len(u) + Len(v) : w[i] = IF i <= Len(u) THEN u[i] ELSE v[i - Len(u)]
        BY <3>3, <3>4, ConcatProperties
      <4> HIDE DEF w
      <4> QED BY <3>3, <3>4, <4>1
    <3> HIDE DEF w
    <3>7. \A i \in 1 .. o + m : w[i] = X[i]
      <4> TAKE i \in 1 .. o + m
      <4>1. CASE i <= o
        <5>1. w[i] = u[i]
          BY <3>6, <4>1
        <5>2. i \in 1 .. o
          BY <3>2, <4>1
        <5> QED BY <3>3, <5>1, <5>2
      <4>2. CASE i > o
        <5>1. i - o \in 1 .. m /\ o + (i - o) = i
          BY <3>2, <4>2
        <5>2. v[i - o] = X[i]
          BY <3>4, <5>1
        <5> QED BY <3>2, <3>6, <4>2, <5>2
      <4> QED BY <3>2, <4>1, <4>2
    <3>8. w = Pre(k)
      BY <3>5, <3>6, <3>7, SeqEqual
    <3> QED BY <3>8 DEF w, u, v
  <2> DEFINE g == [k \in 1 .. n |-> Pre(k)]
  <2>4. g = Body(g)
    <3> HIDE DEF Pre
    <3>1. \A k \in 1 .. n : Pre(k) = IF k = 1 THEN seqs[k] ELSE g[k - 1] \o seqs[k]
      <4> TAKE k \in 1 .. n
      <4>1. CASE k = 1
        BY <2>2, <4>1
      <4>2. CASE k # 1
        <5>1. k \in 2 .. n /\ k - 1 \in 1 .. n
          BY <1>1, <4>2
        <5>2. g[k - 1] = Pre(k - 1)
          BY <5>1
        <5> QED BY <2>3, <4>2, <5>1, <5>2
      <4> QED BY <4>1, <4>2
    <3>2. Body(g) = [k \in 1 .. n |-> IF k = 1 THEN seqs[k] ELSE g[k - 1] \o seqs[k]]
      BY <1>3
    <3>3. g = [k \in 1 .. n |-> IF k = 1 THEN seqs[k] ELSE g[k - 1] \o seqs[k]]
      BY <3>1
    <3> HIDE DEF g, Body
    <3> QED BY <3>2, <3>3
  <2>5. h = Body(h) /\ FlattenSeq(seqs) = h[n]
    <3>1. FlattenSeq(seqs) = h[n]
      BY <1>3, <1>5 DEF FlattenSeq
    <3>2. h = Body(h)
      <4> HIDE DEF Body, g
      <4> QED BY <2>4
    <3> QED BY <3>1, <3>2
  <2>6. h = [k \in 1 .. n |-> IF k = 1 THEN seqs[k] ELSE h[k - 1] \o seqs[k]]
    <3> HIDE DEF h
    <3> QED BY <1>3, <2>5
  <2> HIDE DEF h, Body, g
  <2> DEFINE V == {k \in 0 .. n : k # 0 => h[k] = Pre(k)}
  <2>7. ASSUME NEW k \in 1 .. n, k - 1 \in V PROVE k \in V
    <3> HIDE DEF Pre
    <3> DEFINE v(j) == IF j = 1 THEN seqs[j] ELSE h[j - 1] \o seqs[j]
    <3>0. h = [j \in 1 .. n |-> v(j)]
      BY <2>6
    <3>1. k \in 0 .. n /\ h[k] = v(k)
      <4> HIDE DEF v
      <4> QED BY <1>1, <3>0
    <3>2. CASE k = 1
      BY <2>2, <3>1, <3>2
    <3>3. CASE k # 1
      <4>1. k \in 2 .. n /\ k - 1 # 0
        BY <1>1, <3>3
      <4>2. h[k - 1] = Pre(k - 1)
        BY <2>7, <4>1
      <4> QED BY <2>3, <3>1, <3>3, <4>1, <4>2
    <3> QED BY <3>2, <3>3
  <2>8. 0 \in V
    BY <1>1
  <2>9. n \in V
    <3> HIDE DEF V
    <3>1. \A k \in 0 .. n : k \in V
      BY <1>1, <2>7, <2>8, UpTo
    <3> QED BY <1>1, <3>1
  <2>10. h[n] = Pre(n)
    BY <1>5, <2>9
  <2>11. Pre(n) = X
    <3>1. n \in 1 .. n /\ End(n) = L
      BY <1>1, <1>5
    <3> HIDE DEF End, Pre
    <3>2. Pre(n) \in Seq(S) /\ Len(Pre(n)) = L /\ \A i \in 1 .. L : Pre(n)[i] = X[i]
      BY <2>1, <3>1
    <3> QED BY <3>2, SeqEqual DEF L
  <2> QED BY <2>5, <2>10, <2>11
<1> QED BY <1>4, <1>5

(* Bytes of a file of the given size that a part from offset on has. *)
Left(size, offset, len) ==
  IF offset >= size THEN 0 ELSE IF len < size - offset THEN len ELSE size - offset

LEMMA LeftIs ==
  ASSUME NEW size \in Nat, NEW offset \in Nat, NEW len \in Nat
  PROVE  /\ Left(size, offset, len) \in 0 .. size /\ Left(size, offset, len) <= len
         /\ Left(size, offset, len) # 0 => offset + Left(size, offset, len) <= size
BY DEF Left

LEMMA Trimmed ==
  ASSUME NEW size \in 0 .. WORD - 1, NEW offset \in Nat, NEW len \in Nat
  PROVE  /\ Trim(size, offset, len) \in Nat
         /\ offset < size => Trim(size, offset, len) = Left(size, offset, len)
<1> DEFINE r == size - offset
<1>1. WORD \in Nat \ {0} /\ size \in Nat
  BY Fat16Assumption
<1>2. r % WORD \in Nat
  BY <1>1
<1>3. Trim(size, offset, len) = IF len > r % WORD THEN r % WORD ELSE len
  BY DEF Trim
<1>4. CASE offset < size
  <2>1. r \in 0 .. WORD - 1 /\ r # 0
    BY <1>1, <1>4
  <2>2. (WORD * 0 + r) % WORD = r
    <3> HIDE DEF r
    <3> QED BY <1>1, <2>1, Division
  <2>3. r % WORD = r
    <3>1. WORD * 0 + r = r
      BY <1>1, <2>1
    <3> QED BY <2>2, <3>1
  <2> QED BY <1>1, <1>2, <1>3, <1>4, <2>1, <2>3 DEF Left
<1>5. CASE ~(offset < size)
  BY <1>2, <1>3, <1>5
<1> QED BY <1>4, <1>5

(* The transfers of t bytes from cluster q + 1 of the chain on. *)
Moves(ch, q, t) ==
  [k \in 1 .. TurnsFor(t) |->
     [addr |-> fat_get_cluster_addr(ch[q + k]), count |-> Count(t, k)]]

LEMMA Reach ==
  ASSUME NEW size \in Nat, NEW q \in Nat, NEW t \in Nat, q * BPC < size, q * BPC + t <= size
  PROVE  q + TurnsFor(t) <= TurnsFor(size)
<1> DEFINE n == Pieces(size, BPC)
           m == Pieces(t, BPC)
<1>0. BPC \in Nat \ {0}
  BY Constants
<1>1. n \in Nat /\ n * BPC \in Nat /\ size <= n * BPC
  BY <1>0, PiecesAre
<1>2. m \in Nat /\ m * BPC \in Nat /\ m * BPC < t + BPC
  BY <1>0, PiecesAre
<1> HIDE DEF n, m
<1>3. q + m <= n
  <2>0. SUFFICES ASSUME q + m > n PROVE FALSE
    BY <1>1, <1>2
  <2>1. n < q + m /\ n \in Int /\ q + m \in Int
    BY <1>1, <1>2, <2>0
  <2>2. n * BPC + BPC <= (q + m) * BPC
    BY <1>0, <2>1, Multiples
  <2>3. (q + m) * BPC = q * BPC + m * BPC /\ q * BPC \in Nat
    BY <1>0, <1>2
  <2> QED BY <1>0, <1>1, <1>2, <2>2, <2>3
<1> QED BY <1>3, Turns DEF n, m

LEMMA TransfersAre ==
  ASSUME NEW size \in 0 .. WORD - 1, NEW ch \in Seq(Clusters), Len(ch) = TurnsFor(size),
         NEW q \in Nat, NEW offset \in Nat, offset = q * BPC, NEW len \in Nat
  PROVE  Transfers(ch, Trim(size, offset, len), offset) = Moves(ch, q, Left(size, offset, len))
<1> DEFINE t == Left(size, offset, len)
           T == Trim(size, offset, len)
           first == offset \div BPC + 1
           turns == {i \in first .. Len(ch) : (i - first) * BPC < T}
           read_size(i) == (i - 1) * BPC
           start(i) == IF read_size(i) > offset THEN 0 ELSE offset - read_size(i)
           move(k) == [addr |-> fat_get_cluster_addr(ch[first + k - 1]) + start(first + k - 1),
                       count |-> Count(T, k)]
<1>0. BPC \in Nat \ {0} /\ size \in Nat /\ BPC \in Nat
  BY Constants, Fat16Assumption
<1>1. first = q + 1
  <2>1. (BPC * q + 0) \div BPC = q
    BY <1>0, Division
  <2>2. BPC * q + 0 = offset
    BY <1>0
  <2> QED BY <2>1, <2>2
<1>2. Transfers(ch, T, offset) = [k \in 1 .. Cardinality(turns) |-> move(k)]
  BY DEF Transfers
<1>3. T \in Nat /\ t \in Nat /\ (offset < size => T = t)
  <2>1. T \in Nat /\ (offset < size => T = t)
    BY Trimmed
  <2>2. t \in 0 .. size
    BY <1>0, LeftIs
  <2> HIDE DEF t, T
  <2> QED BY <1>0, <2>1, <2>2
<1> DEFINE n == TurnsFor(size)
<1>4. n \in Nat /\ n * BPC \in Nat /\ size <= n * BPC /\ n * BPC < size + BPC
  <2>1. n = Pieces(size, BPC)
    BY Turns
  <2>2. /\ Pieces(size, BPC) \in Nat /\ Pieces(size, BPC) * BPC \in Nat
        /\ size <= Pieces(size, BPC) * BPC /\ Pieces(size, BPC) * BPC < size + BPC
    BY <1>0, PiecesAre
  <2> HIDE DEF n
  <2> QED BY <2>1, <2>2
<1> HIDE DEF first, move, n, t, T
<1>5. CASE offset >= size
  <2>1. n <= q
    <3>0. SUFFICES ASSUME q < n PROVE FALSE
      BY <1>4
    <3>1. q * BPC + BPC <= n * BPC
      BY <1>0, <1>4, <3>0, Multiples
    <3> QED BY <1>0, <1>4, <1>5, <3>1
  <2>2. turns = {}
    <3>1. first .. Len(ch) = {}
      BY <1>1, <1>4, <2>1 DEF n
    <3> QED BY <3>1
  <2>3. Cardinality(turns) = 0
    BY <2>2, FS_EmptySet
  <2>4. t = 0
    BY <1>0, <1>5 DEF t, Left
  <2>5. TurnsFor(t) = 0
    BY <1>0, <2>4, PiecesAre, Turns
  <2>6. 1 .. 0 = {}
    OBVIOUS
  <2> QED BY <1>2, <2>3, <2>5, <2>6 DEF Moves, t, T
<1>6. CASE offset < size
  <2> DEFINE m == TurnsFor(t)
  <2>1. m \in Nat /\ m * BPC \in Nat /\ t <= m * BPC
    BY <1>0, <1>3, PiecesAre, Turns
  <2>2. \A k \in 1 .. m : (k - 1) * BPC < t
    BY <1>0, <1>3, PieceSizes, Turns
  <2>3. q + m <= n
    <3>1. q * BPC + t <= size
      BY <1>0, <1>6, LeftIs DEF t
    <3> QED BY <1>0, <1>3, <1>6, <3>1, Reach DEF n
  <2> HIDE DEF m
  <2>4. turns = (q + 1) .. (q + m)
    <3>1. ASSUME NEW i \in (q + 1) .. (q + m) PROVE i \in turns
      <4>1. i - q \in 1 .. m /\ i \in first .. Len(ch) /\ (i - q) - 1 = i - first
        BY <1>1, <1>4, <2>1, <2>3 DEF n
      <4> QED BY <1>3, <1>6, <2>2, <4>1
    <3>2. ASSUME NEW i \in turns PROVE i \in (q + 1) .. (q + m)
      <4>1. i \in Int /\ i >= q + 1 /\ (i - (q + 1)) * BPC < t
        BY <1>1, <1>3, <1>4, <1>6, <3>2 DEF n
      <4>2. ~(i > q + m)
        <5>0. SUFFICES ASSUME i > q + m PROVE FALSE
          OBVIOUS
        <5> DEFINE j == i - (q + 1)
        <5>1. j \in Int /\ m - 1 < j /\ m - 1 \in Int
          BY <2>1, <4>1, <5>0
        <5>2. j * BPC < t
          BY <4>1
        <5> HIDE DEF j
        <5>3. (m - 1) * BPC + BPC <= j * BPC
          BY <1>0, <5>1, Multiples
        <5>4. (m - 1) * BPC + BPC = m * BPC
          BY <1>0, <2>1
        <5>5. j * BPC \in Int
          BY <1>0, <5>1
        <5> QED BY <1>3, <2>1, <5>2, <5>3, <5>4, <5>5
      <4> QED BY <2>1, <4>1, <4>2
    <3> HIDE DEF turns
    <3> QED BY <3>1, <3>2
  <2>5. Cardinality(turns) = m
    <3>1. q + 1 \in Int /\ q + m \in Int
      BY <2>1
    <3>2. Cardinality((q + 1) .. (q + m)) = IF q + 1 > q + m THEN 0 ELSE (q + m) - (q + 1) + 1
      BY <3>1, FS_Interval
    <3> HIDE DEF turns
    <3> QED BY <2>1, <2>4, <3>2
  <2>6. ASSUME NEW k \in 1 .. m
        PROVE  move(k) = [addr |-> fat_get_cluster_addr(ch[q + k]), count |-> Count(t, k)]
    <3> DEFINE i == first + k - 1
    <3>1. i = q + k /\ i - 1 \in Int /\ k \in Int
      BY <1>1, <2>1
    <3>2. read_size(i) = offset + (k - 1) * BPC /\ (k - 1) * BPC \in Nat
      <4>1. i - 1 = q + (k - 1) /\ k - 1 \in Nat
        BY <2>1, <3>1
      <4>2. (q + (k - 1)) * BPC = q * BPC + (k - 1) * BPC
        BY <1>0, <4>1
      <4> HIDE DEF i
      <4> QED BY <1>0, <4>1, <4>2
    <3>3. start(i) = 0
      <4> HIDE DEF read_size, i
      <4> QED BY <3>2
    <3>4. q + k \in 1 .. Len(ch)
      BY <1>4, <2>1, <2>3 DEF n
    <3>5. fat_get_cluster_addr(ch[q + k]) + 0 = fat_get_cluster_addr(ch[q + k])
      <4>0. ch[q + k] \in Clusters /\ 0 \in 0 .. BPC - 1
        BY <1>0, <3>4
      <4>1. fat_get_cluster_addr(ch[q + k]) \in Int
        BY <4>0, Addresses
      <4> QED BY <4>1
    <3>6. move(k) = [addr |-> fat_get_cluster_addr(ch[i]) + start(i), count |-> Count(T, k)]
      BY DEF move
    <3> HIDE DEF i, start
    <3> QED BY <1>3, <1>6, <3>1, <3>3, <3>5, <3>6
  <2>7. Transfers(ch, T, offset) = [k \in 1 .. m |-> move(k)]
    <3> HIDE DEF turns
    <3> QED BY <1>2, <2>5
  <2>8. Moves(ch, q, t) =
          [k \in 1 .. m |-> [addr |-> fat_get_cluster_addr(ch[q + k]), count |-> Count(t, k)]]
    BY DEF Moves, m
  <2> QED BY <2>6, <2>7, <2>8 DEF t, T
<1> QED BY <1>0, <1>5, <1>6

-----------------------------------------------------------------------------
(* The bytes of a file.                                                    *)

Content(ch, size, d) ==
  [i \in 1 .. size |-> d[fat_get_cluster_addr(ch[(i - 1) \div BPC + 1]) + ((i - 1) % BPC)]]

(* Where byte i of the file is. *)
LEMMA Place ==
  ASSUME NEW size \in Nat, NEW ch \in Seq(Clusters), Len(ch) = TurnsFor(size), NEW i \in 1 .. size
  PROVE  LET k == (i - 1) \div BPC + 1
             r == (i - 1) % BPC
         IN /\ k \in 1 .. Len(ch) /\ ch[k] \in Clusters /\ r \in 0 .. BPC - 1
            /\ k - 1 \in Nat /\ (k - 1) * BPC \in Nat
            /\ i - 1 = (k - 1) * BPC + r /\ r < Count(size, k)
            /\ fat_get_cluster_addr(ch[k]) + r \in 0 .. CLUSTERS * BPC - 1
<1> DEFINE q == (i - 1) \div BPC
           k == q + 1
           r == (i - 1) % BPC
<1>0. BPC \in Nat \ {0} /\ i - 1 \in 0 .. size - 1
  BY Constants
<1>1. /\ q + 1 \in 1 .. Pieces(size, BPC) /\ q \in Nat /\ q * BPC \in Nat
      /\ r \in 0 .. BPC - 1 /\ i - 1 = q * BPC + r
      /\ r < PieceSize(size, BPC, q + 1)
  BY <1>0, PieceOf
<1>2. k \in 1 .. Len(ch) /\ r < Count(size, k)
  BY <1>1, Turns
<1> HIDE DEF q, r
<1>3. ch[k] \in Clusters
  BY <1>2
<1>4. k - 1 = q
  BY <1>1
<1> HIDE DEF k
<1>5. fat_get_cluster_addr(ch[k]) + r \in 0 .. CLUSTERS * BPC - 1
  BY <1>1, <1>3, Addresses
<1> QED BY <1>1, <1>2, <1>3, <1>4, <1>5 DEF k, q, r

LEMMA ContentType ==
  ASSUME NEW size \in Nat, NEW ch \in Seq(Clusters), Len(ch) = TurnsFor(size), NEW d \in Areas
  PROVE  Content(ch, size, d) \in Seq(Bytes) /\ Len(Content(ch, size, d)) = size
<1> DEFINE v(i) == d[fat_get_cluster_addr(ch[(i - 1) \div BPC + 1]) + ((i - 1) % BPC)]
<1>1. \A i \in 1 .. size : v(i) \in Bytes
  <2> TAKE i \in 1 .. size
  <2>1. fat_get_cluster_addr(ch[(i - 1) \div BPC + 1]) + ((i - 1) % BPC) \in 0 .. CLUSTERS * BPC - 1
    BY Place
  <2> QED BY <2>1 DEF Areas
<1>2. Content(ch, size, d) = [i \in 1 .. size |-> v(i)]
  BY DEF Content
<1> HIDE DEF v
<1>3. [i \in 1 .. size |-> v(i)] \in Seq(Bytes)
  BY <1>1
<1> QED BY <1>2, <1>3

LEMMA ContentAt ==
  ASSUME NEW size \in Nat, NEW ch, NEW d, NEW k \in Nat \ {0}, NEW r \in 0 .. BPC - 1,
         (k - 1) * BPC + r + 1 \in 1 .. size
  PROVE  Content(ch, size, d)[(k - 1) * BPC + r + 1] = d[fat_get_cluster_addr(ch[k]) + r]
<1> DEFINE i == (k - 1) * BPC + r + 1
<1>0. BPC \in Nat \ {0} /\ k - 1 \in Nat
  BY Constants
<1>1. (BPC * (k - 1) + r) \div BPC = k - 1 /\ (BPC * (k - 1) + r) % BPC = r
  BY <1>0, Division
<1>2. i - 1 = BPC * (k - 1) + r
  BY <1>0
<1>3. (i - 1) \div BPC + 1 = k /\ (i - 1) % BPC = r
  BY <1>0, <1>1, <1>2
<1> HIDE DEF i
<1>4. Content(ch, size, d)[i] = d[fat_get_cluster_addr(ch[(i - 1) \div BPC + 1]) + ((i - 1) % BPC)]
  <2>1. i \in 1 .. size
    BY DEF i
  <2> QED BY <2>1 DEF Content
<1> QED BY <1>3, <1>4 DEF i

(* Where the data agree on the clusters of a file, its bytes are the same. *)
SameOn(ch, d, e) ==
  \A k \in 1 .. Len(ch), r \in 0 .. BPC - 1 :
    e[fat_get_cluster_addr(ch[k]) + r] = d[fat_get_cluster_addr(ch[k]) + r]

LEMMA ContentSame ==
  ASSUME NEW size \in Nat, NEW ch \in Seq(Clusters), Len(ch) = TurnsFor(size), NEW d, NEW e,
         SameOn(ch, d, e)
  PROVE  Content(ch, size, e) = Content(ch, size, d)
<1> DEFINE v(i, a) == a[fat_get_cluster_addr(ch[(i - 1) \div BPC + 1]) + ((i - 1) % BPC)]
<1>1. \A i \in 1 .. size : v(i, e) = v(i, d)
  <2> TAKE i \in 1 .. size
  <2>1. (i - 1) \div BPC + 1 \in 1 .. Len(ch) /\ (i - 1) % BPC \in 0 .. BPC - 1
    BY Place
  <2> QED BY <2>1 DEF SameOn
<1>2. /\ Content(ch, size, d) = [i \in 1 .. size |-> v(i, d)]
      /\ Content(ch, size, e) = [i \in 1 .. size |-> v(i, e)]
  BY DEF Content
<1> HIDE DEF v
<1> QED BY <1>1, <1>2

(* A new file has the value it was written with. *)
LEMMA ContentFilled ==
  ASSUME NEW size \in Nat, NEW ch \in Seq(Clusters), Len(ch) = TurnsFor(size), NEW d, NEW b,
         Filled(d, ch, b, size)
  PROVE  Content(ch, size, d) = [i \in 1 .. size |-> b]
<1> DEFINE v(i) == d[fat_get_cluster_addr(ch[(i - 1) \div BPC + 1]) + ((i - 1) % BPC)]
<1>1. \A i \in 1 .. size : v(i) = b
  <2> TAKE i \in 1 .. size
  <2> DEFINE k == (i - 1) \div BPC + 1
             r == (i - 1) % BPC
  <2>1. k \in 1 .. Len(ch) /\ r \in 0 .. BPC - 1 /\ r < Count(size, k)
    BY Place
  <2>2. Count(size, k) \in Int
    <3>1. k \in Int /\ BPC \in Int
      BY <2>1, Constants
    <3> HIDE DEF k
    <3> QED BY <3>1 DEF Count
  <2> HIDE DEF k, r
  <2>3. r \in 0 .. Count(size, k) - 1
    BY <2>1, <2>2, Constants
  <2>4. d[fat_get_cluster_addr(ch[k]) + r] = b
    BY <2>1, <2>3 DEF Filled
  <2> QED BY <2>4 DEF k, r
<1>2. Content(ch, size, d) = [i \in 1 .. size |-> v(i)]
  BY DEF Content
<1> HIDE DEF v
<1> QED BY <1>1, <1>2

-----------------------------------------------------------------------------
(* Reads and writes.                                                       *)

(* The bytes the transfers ts deliver from the data area d. *)
Gathered(d, ts) ==
  FlattenSeq([k \in 1 .. Len(ts) |-> [i \in 1 .. ts[k].count |-> d[ts[k].addr + i - 1]]])

Slice(F, offset, t) == [i \in 1 .. t |-> F[offset + i]]

(* What the transfers of a read deliver. *)
LEMMA Delivers ==
  ASSUME NEW size \in Nat, NEW ch \in Seq(Clusters), Len(ch) = TurnsFor(size), NEW d \in Areas,
         NEW q \in Nat, NEW t \in 0 .. size, t # 0 => q * BPC + t <= size
  PROVE  Gathered(d, Moves(ch, q, t)) = Slice(Content(ch, size, d), q * BPC, t)
<1> DEFINE ts == Moves(ch, q, t)
           n == TurnsFor(t)
           C == Content(ch, size, d)
           o == q * BPC
           X == [i \in 1 .. t |-> C[o + i]]
           p(k) == [i \in 1 .. Count(t, k) |-> d[fat_get_cluster_addr(ch[q + k]) + i - 1]]
           seqs == [k \in 1 .. n |-> p(k)]
<1>0. BPC \in Nat \ {0} /\ BPC \in Nat /\ t \in Nat
  BY Constants
<1>1. C \in Seq(Bytes) /\ Len(C) = size
  BY ContentType
<1>2. o \in Nat
  BY <1>0
<1>3. n \in Nat
  <2>1. n = Pieces(t, BPC)
    BY Turns
  <2>2. Pieces(t, BPC) \in Nat
    BY <1>0, PiecesAre
  <2> HIDE DEF n
  <2> QED BY <2>1, <2>2
<1>4. \A k \in 1 .. n : /\ (k - 1) * BPC \in Nat /\ Count(t, k) \in 1 .. BPC
                        /\ (k - 1) * BPC + Count(t, k) <= t
  <2> TAKE k \in 1 .. n
  <2>1. k \in 1 .. Pieces(t, BPC)
    BY Turns
  <2>2. /\ (k - 1) * BPC \in Nat /\ k * BPC = (k - 1) * BPC + BPC
        /\ PieceSize(t, BPC, k) \in 1 .. BPC
        /\ (k - 1) * BPC + PieceSize(t, BPC, k) = IF k * BPC < t THEN k * BPC ELSE t
    BY <1>0, <2>1, PieceSizes
  <2>3. Count(t, k) = PieceSize(t, BPC, k)
    BY Turns
  <2> QED BY <1>0, <2>2, <2>3
<1>5. ts = [k \in 1 .. n |-> [addr |-> fat_get_cluster_addr(ch[q + k]), count |-> Count(t, k)]]
  BY DEF Moves
<1> HIDE DEF n, C
<1>6. Len(ts) = n /\ \A k \in 1 .. n : /\ ts[k].addr = fat_get_cluster_addr(ch[q + k])
                                       /\ ts[k].count = Count(t, k)
  <2> HIDE DEF ts
  <2> QED BY <1>3, <1>5
<1>7. [k \in 1 .. Len(ts) |-> [i \in 1 .. ts[k].count |-> d[ts[k].addr + i - 1]]] = seqs
  <2> HIDE DEF ts
  <2> QED BY <1>6
<1>8. X \in Seq(Bytes) /\ Len(X) = t /\ \A i \in 1 .. t : X[i] = C[o + i]
  <2>1. \A i \in 1 .. t : C[o + i] \in Bytes
    <3> TAKE i \in 1 .. t
    <3>1. o + i \in 1 .. size
      BY <1>0, <1>2
    <3> HIDE DEF o
    <3> QED BY <1>1, <3>1
  <2> HIDE DEF o
  <2> QED BY <1>0, <2>1
<1> HIDE DEF ts, X
<1>9. ASSUME NEW k \in 1 .. n
      PROVE  /\ p(k) \in Seq(Bytes) /\ Len(p(k)) = Count(t, k)
             /\ \A i \in 1 .. Count(t, k) : p(k)[i] = X[(k - 1) * BPC + i]
  <2> DEFINE m == Count(t, k)
             c == ch[q + k]
             a == fat_get_cluster_addr(c)
  <2>1. m \in 1 .. BPC /\ (k - 1) * BPC \in Nat /\ (k - 1) * BPC + m <= t /\ m \in Nat
    BY <1>0, <1>4
  <2>2. o + (k - 1) * BPC = (q + k - 1) * BPC /\ q + k \in Nat \ {0} /\ k - 1 \in Nat
    BY <1>0, <1>3
  <2> HIDE DEF m
  <2>3. ASSUME NEW i \in 1 .. m
        PROVE  d[a + i - 1] = X[(k - 1) * BPC + i] /\ d[a + i - 1] \in Bytes
    <3> DEFINE w == (k - 1) * BPC
               r == i - 1
               z == o + (w + i)
    <3>1. r \in 0 .. BPC - 1 /\ w + i \in 1 .. t
      BY <1>0, <2>1
    <3>2. z \in 1 .. size
      BY <1>0, <1>2, <2>1, <3>1
    <3>3. z = (q + k - 1) * BPC + r + 1
      BY <1>0, <1>2, <2>1, <2>2
    <3>4. X[w + i] = C[z]
      <4> HIDE DEF o, w
      <4> QED BY <1>8, <3>1
    <3> HIDE DEF z
    <3>5. C[z] = d[fat_get_cluster_addr(ch[q + k]) + r]
      <4> DEFINE y == q + k
      <4>1. y \in Nat \ {0} /\ (y - 1) * BPC + r + 1 = z
        BY <2>2, <3>3
      <4> HIDE DEF r, y
      <4>2. (y - 1) * BPC + r + 1 \in 1 .. size
        BY <3>2, <4>1
      <4>3. y \in Nat \ {0} /\ r \in 0 .. BPC - 1
        BY <3>1, <4>1
      <4>4. Content(ch, size, d)[(y - 1) * BPC + r + 1] = d[fat_get_cluster_addr(ch[y]) + r]
        BY ONLY size \in Nat, <4>2, <4>3, ContentAt
      <4> QED BY <4>1, <4>4 DEF y, C
    <3>6. C[z] \in Bytes
      BY <1>1, <3>2
    <3>7. a + i - 1 = a + r
      <4>1. (q + k) \in 1 .. Len(ch)
        <5> DEFINE j == (z - 1) \div BPC + 1
        <5>1. j \in 1 .. Len(ch)
          BY <3>2, Place
        <5>2. (BPC * (q + k - 1) + r) \div BPC = q + k - 1
          <6> DEFINE y == q + k - 1
          <6>1. y \in Nat
            BY <2>2
          <6> HIDE DEF r, y
          <6>2. (BPC * y + r) \div BPC = y
            BY <1>0, <3>1, <6>1, Division
          <6> QED BY <6>2 DEF y
        <5>3. z - 1 = BPC * (q + k - 1) + r
          <6>1. (q + k - 1) * BPC = BPC * (q + k - 1) /\ BPC * (q + k - 1) \in Nat
            BY <1>0, <2>2
          <6> QED BY <3>1, <3>3, <6>1
        <5>4. j = q + k
          BY <2>2, <5>2, <5>3
        <5> QED BY <5>1, <5>4
      <4>2. c \in Clusters /\ 0 \in 0 .. BPC - 1
        BY <1>0, <4>1
      <4>3. a \in Nat
        BY <4>2, Addresses
      <4> HIDE DEF a
      <4> QED BY <2>1, <4>3
    <3> QED BY <3>4, <3>5, <3>6, <3>7
  <2> HIDE DEF a
  <2>4. p(k) = [i \in 1 .. m |-> d[a + i - 1]]
    BY DEF a, m
  <2>5. [i \in 1 .. m |-> d[a + i - 1]] \in Seq(Bytes)
    <3> DEFINE g(i) == d[a + i - 1]
    <3>1. \A i \in 1 .. m : g(i) \in Bytes
      BY <2>3
    <3> HIDE DEF g
    <3>2. [i \in 1 .. m |-> g(i)] \in Seq(Bytes)
      BY <2>1, <3>1
    <3> QED BY <3>2 DEF g
  <2> HIDE DEF p
  <2> QED BY <2>1, <2>3, <2>4, <2>5 DEF m
<1> HIDE DEF p
<1>10. seqs \in Seq(Seq(Bytes)) /\ Len(seqs) = n /\ \A k \in 1 .. n : seqs[k] = p(k)
  BY <1>3, <1>9
<1> HIDE DEF seqs
<1>11. InPieces(seqs, Bytes, X, BPC)
  <2>1. n = Pieces(Len(X), BPC)
    BY <1>8, Turns DEF n
  <2>2. \A k \in 1 .. n : Count(t, k) = PieceSize(Len(X), BPC, k)
    BY <1>8, Turns
  <2> QED BY <1>9, <1>10, <2>1, <2>2 DEF InPieces
<1>12. FlattenSeq(seqs) = X
  BY <1>0, <1>8, <1>11, PiecesJoin
<1> QED BY <1>7, <1>12 DEF Gathered, Slice, ts, X, C

(* The turns of a transfer stay within the chain. *)
LEMMA Reached ==
  ASSUME NEW size \in Nat, NEW ch \in Seq(Clusters), Len(ch) = TurnsFor(size),
         NEW q \in Nat, NEW t \in 0 .. size, t # 0 => q * BPC + t <= size,
         NEW k \in 1 .. TurnsFor(t)
  PROVE  /\ q + k \in 1 .. Len(ch) /\ ch[q + k] \in Clusters
         /\ Count(t, k) \in 1 .. BPC /\ (k - 1) * BPC \in Nat
         /\ (k - 1) * BPC + Count(t, k) <= t
<1>0. BPC \in Nat \ {0} /\ BPC \in Nat /\ t \in Nat /\ q * BPC \in Nat
  BY Constants
<1>1. TurnsFor(t) = Pieces(t, BPC) /\ Count(t, k) = PieceSize(t, BPC, k)
  BY Turns
<1>2. Pieces(t, BPC) \in Nat /\ (t = 0 => Pieces(t, BPC) = 0)
  BY <1>0, PiecesAre
<1>3. k \in 1 .. Pieces(t, BPC)
  BY <1>1
<1>4. t # 0
  BY <1>2, <1>3
<1>5. q * BPC < size /\ q * BPC + t <= size
  BY <1>0, <1>4
<1>6. q + TurnsFor(t) <= TurnsFor(size)
  BY <1>0, <1>5, Reach
<1>7. q + k \in 1 .. Len(ch)
  <2>1. TurnsFor(size) \in Nat
    <3>1. Len(ch) \in Nat
      OBVIOUS
    <3> QED BY <3>1
  <2>2. TurnsFor(t) \in Nat
    BY <1>1, <1>2
  <2> QED BY <1>6, <2>1, <2>2
<1>8. /\ (k - 1) * BPC \in Nat /\ k * BPC = (k - 1) * BPC + BPC
      /\ PieceSize(t, BPC, k) \in 1 .. BPC
      /\ (k - 1) * BPC + PieceSize(t, BPC, k) = IF k * BPC < t THEN k * BPC ELSE t
  BY <1>0, <1>3, PieceSizes
<1>9. ch[q + k] \in Clusters
  <2> DEFINE y == q + k
  <2>1. y \in 1 .. Len(ch)
    BY <1>7
  <2> HIDE DEF y
  <2> QED BY <2>1 DEF y
<1> QED BY <1>0, <1>1, <1>7, <1>8, <1>9

(* The data area after a write of value b by the transfers ts. *)
WrittenBy(d, ts, b) ==
  [a \in DOMAIN d |->
     IF \E k \in 1 .. Len(ts) : a \in ts[k].addr .. ts[k].addr + ts[k].count - 1
     THEN b ELSE d[a]]

Hit(ch, q, t, c, r) == \E k \in 1 .. TurnsFor(t) : ch[q + k] = c /\ r < Count(t, k)

(* A write reaches the bytes of the clusters it goes through and no other. *)
LEMMA WriteAt ==
  ASSUME NEW size \in Nat, NEW ch \in Seq(Clusters), Len(ch) = TurnsFor(size), NEW d \in Areas,
         NEW q \in Nat, NEW t \in 0 .. size, t # 0 => q * BPC + t <= size, NEW b,
         NEW c \in Clusters, NEW r \in 0 .. BPC - 1
  PROVE  LET a == fat_get_cluster_addr(c) + r IN
         WrittenBy(d, Moves(ch, q, t), b)[a] = IF Hit(ch, q, t, c, r) THEN b ELSE d[a]
<1> DEFINE ts == Moves(ch, q, t)
           n == TurnsFor(t)
           a == fat_get_cluster_addr(c) + r
           In(k) == a \in ts[k].addr .. ts[k].addr + ts[k].count - 1
<1>0. BPC \in Nat \ {0} /\ BPC \in Nat /\ t \in Nat
  BY Constants
<1>1. a \in 0 .. CLUSTERS * BPC - 1 /\ fat_get_cluster_addr(c) \in Nat
  BY Addresses
<1>2. a \in DOMAIN d
  BY <1>1 DEF Areas
<1>3. n \in Nat
  <2>1. n = Pieces(t, BPC)
    BY Turns
  <2>2. Pieces(t, BPC) \in Nat
    BY <1>0, PiecesAre
  <2> HIDE DEF n
  <2> QED BY <2>1, <2>2
<1>4. ts = [k \in 1 .. n |-> [addr |-> fat_get_cluster_addr(ch[q + k]), count |-> Count(t, k)]]
  BY DEF Moves
<1>5. Len(ts) = n /\ \A k \in 1 .. n : /\ ts[k].addr = fat_get_cluster_addr(ch[q + k])
                                       /\ ts[k].count = Count(t, k)
  <2> HIDE DEF ts, n
  <2> QED BY <1>3, <1>4
<1>6. ASSUME NEW k \in 1 .. n
      PROVE  In(k) <=> (ch[q + k] = c /\ r < Count(t, k))
  <2> DEFINE x == ch[q + k]
             m == Count(t, k)
  <2>1. x \in Clusters /\ m \in 1 .. BPC
    BY Reached
  <2>2. ts[k].addr = fat_get_cluster_addr(x) /\ ts[k].count = m
    BY <1>5
  <2> HIDE DEF x, m, ts, n
  <2>3. fat_get_cluster_addr(x) \in Nat
    <3>1. 0 \in 0 .. BPC - 1
      BY <1>0
    <3> QED BY <2>1, <3>1, Addresses
  <2>4. CASE x = c
    <3>1. In(k) <=> fat_get_cluster_addr(c) + r \in
                      fat_get_cluster_addr(c) .. fat_get_cluster_addr(c) + m - 1
      BY <2>2, <2>4
    <3>2. fat_get_cluster_addr(c) + r \in
            fat_get_cluster_addr(c) .. fat_get_cluster_addr(c) + m - 1 <=> r < m
      <4> DEFINE z == fat_get_cluster_addr(c)
      <4> HIDE DEF z
      <4>1. z \in Nat
        BY <1>1 DEF z
      <4>2. z + r \in z .. z + m - 1 <=> r < m
        BY <1>0, <2>1, <4>1
      <4> QED BY <4>2 DEF z
    <3> QED BY <2>4, <3>1, <3>2 DEF x, m
  <2>5. CASE x # c
    <3>1. ASSUME In(k) PROVE FALSE
      <4> DEFINE z == fat_get_cluster_addr(x)
                 u == a - z
      <4>1. a \in z .. z + m - 1
        BY <2>2, <3>1
      <4> HIDE DEF z
      <4>2. z \in Nat
        BY <2>3 DEF z
      <4>3. u \in 0 .. BPC - 1 /\ z + u = a
        <5> HIDE DEF a
        <5> QED BY <1>0, <1>1, <2>1, <4>1, <4>2
      <4> HIDE DEF u
      <4>4. fat_get_cluster_addr(x) + u # fat_get_cluster_addr(c) + r
        BY <2>1, <2>5, <4>3, AddressesApart
      <4> QED BY <4>3, <4>4 DEF z
    <3> QED BY <2>5, <3>1 DEF x
  <2> QED BY <2>4, <2>5
<1>7. (\E k \in 1 .. Len(ts) : In(k)) <=> Hit(ch, q, t, c, r)
  <2> HIDE DEF In, ts
  <2> QED BY <1>5, <1>6 DEF Hit
<1>8. WrittenBy(d, ts, b)[a] = IF \E k \in 1 .. Len(ts) : In(k) THEN b ELSE d[a]
  <2> HIDE DEF a, ts
  <2> QED BY <1>2 DEF WrittenBy
<1> HIDE DEF In
<1> QED BY <1>7, <1>8

(* A file keeps the bytes it had outside the part that is written. *)
LEMMA Rewritten ==
  ASSUME NEW size \in Nat, NEW ch \in Seq(Clusters), Len(ch) = TurnsFor(size), NEW d \in Areas,
         NEW q \in Nat, NEW t \in 0 .. size, t # 0 => q * BPC + t <= size, NEW b,
         \A i, j \in 1 .. Len(ch) : ch[i] = ch[j] => i = j
  PROVE  Content(ch, size, WrittenBy(d, Moves(ch, q, t), b)) =
           [i \in 1 .. size |-> IF i \in q * BPC + 1 .. q * BPC + t THEN b
                                ELSE Content(ch, size, d)[i]]
<1> DEFINE w == WrittenBy(d, Moves(ch, q, t), b)
           C == Content(ch, size, d)
           W == Content(ch, size, w)
           v(i) == IF i \in q * BPC + 1 .. q * BPC + t THEN b ELSE C[i]
<1>0. BPC \in Nat \ {0} /\ BPC \in Nat /\ t \in Nat /\ q * BPC \in Nat
  BY Constants
<1>1. ASSUME NEW i \in 1 .. size
      PROVE  W[i] = v(i)
  <2> DEFINE k == (i - 1) \div BPC + 1
             r == (i - 1) % BPC
             a == fat_get_cluster_addr(ch[k]) + r
  <2>1. /\ k \in 1 .. Len(ch) /\ ch[k] \in Clusters /\ r \in 0 .. BPC - 1
        /\ k - 1 \in Nat /\ (k - 1) * BPC \in Nat
        /\ i - 1 = (k - 1) * BPC + r
    BY Place
  <2>2. C[i] = d[a] /\ W[i] = w[a]
    BY DEF Content
  <2>3. w[a] = IF Hit(ch, q, t, ch[k], r) THEN b ELSE d[a]
    <3> HIDE DEF k, r
    <3> QED BY <2>1, WriteAt
  <2>4. Hit(ch, q, t, ch[k], r) <=> \E j \in 1 .. TurnsFor(t) : q + j = k /\ r < Count(t, j)
    <3>1. \A j \in 1 .. TurnsFor(t) : q + j \in 1 .. Len(ch)
      BY Reached
    <3> HIDE DEF k, r
    <3> QED BY <2>1, <3>1 DEF Hit
  <2>5. ASSUME NEW j \in 1 .. TurnsFor(t), q + j = k, r < Count(t, j)
        PROVE  i \in q * BPC + 1 .. q * BPC + t
    <3>1. /\ Count(t, j) \in 1 .. BPC /\ (j - 1) * BPC \in Nat
          /\ (j - 1) * BPC + Count(t, j) <= t
      BY Reached
    <3>2. (k - 1) * BPC = q * BPC + (j - 1) * BPC
      <4>1. k - 1 = q + (j - 1) /\ j - 1 \in Int
        <5>1. TurnsFor(t) \in Int \/ TurnsFor(t) \notin Int
          OBVIOUS
        <5>2. j \in Int
          OBVIOUS
        <5> HIDE DEF k
        <5> QED BY <2>1, <2>5, <5>2
      <4>2. (q + (j - 1)) * BPC = q * BPC + (j - 1) * BPC
        BY <1>0, <4>1
      <4> HIDE DEF k
      <4> QED BY <4>1, <4>2
    <3> DEFINE z == q * BPC
               y == (j - 1) * BPC
               m == Count(t, j)
    <3>3. z \in Nat /\ y \in Nat /\ m \in 1 .. BPC /\ y + m <= t
      BY <1>0, <3>1
    <3>4. r \in 0 .. BPC - 1 /\ r < m /\ i - 1 = (z + y) + r
      BY <2>1, <2>5, <3>2
    <3> HIDE DEF k, r, z, y, m
    <3>5. i \in z + 1 .. z + t
      BY <1>0, <3>3, <3>4
    <3> QED BY <3>5 DEF z
  <2>6. ASSUME i \in q * BPC + 1 .. q * BPC + t
        PROVE  \E j \in 1 .. TurnsFor(t) : q + j = k /\ r < Count(t, j)
    <3> DEFINE y == i - 1 - q * BPC
               p == y \div BPC
               u == y % BPC
    <3>1. y \in 0 .. t - 1 /\ i - 1 = q * BPC + y
      BY <1>0, <2>6
    <3>2. /\ p + 1 \in 1 .. Pieces(t, BPC) /\ p \in Nat /\ p * BPC \in Nat
          /\ u \in 0 .. BPC - 1 /\ y = p * BPC + u
          /\ u < PieceSize(t, BPC, p + 1)
      <4> HIDE DEF y
      <4> QED BY <1>0, <3>1, PieceOf
    <3> HIDE DEF y, p, u
    <3>3. i - 1 = BPC * (q + p) + u /\ q + p \in Nat
      <4>1. BPC * (q + p) = q * BPC + p * BPC
        BY <1>0, <3>2
      <4> QED BY <1>0, <3>1, <3>2, <4>1
    <3>4. (BPC * (q + p) + u) \div BPC = q + p /\ (BPC * (q + p) + u) % BPC = u
      <4> DEFINE x == q + p
      <4>1. x \in Nat
        BY <3>2
      <4> HIDE DEF x
      <4>2. (BPC * x + u) \div BPC = x /\ (BPC * x + u) % BPC = u
        <5>1. BPC \in Nat \ {0} /\ u \in 0 .. BPC - 1
          BY <1>0, <3>2
        <5> QED BY ONLY <4>1, <5>1, Division
      <4> QED BY <4>2 DEF x
    <3>5. k = q + (p + 1) /\ r = u
      BY <3>2, <3>3, <3>4
    <3>6. TurnsFor(t) = Pieces(t, BPC) /\ Count(t, p + 1) = PieceSize(t, BPC, p + 1)
      BY Turns
    <3> HIDE DEF k, r
    <3>7. p + 1 \in 1 .. TurnsFor(t) /\ q + (p + 1) = k /\ r < Count(t, p + 1)
      BY <3>2, <3>5, <3>6
    <3> QED BY <3>7
  <2> HIDE DEF k, r, a, w, C, W
  <2> QED BY <2>2, <2>3, <2>4, <2>5, <2>6
<1>2. W = [i \in 1 .. size |-> W[i]]
  BY DEF Content
<1> HIDE DEF W, v
<1>3. W = [i \in 1 .. size |-> v(i)]
  BY <1>1, <1>2
<1> QED BY <1>3 DEF W, v

-----------------------------------------------------------------------------
(* The file system implements a store of files.                            *)

(* The bytes of entry e on a disk with table f, directory r and data d. *)
FileIn(f, r, d, e) ==
  IF ~r[e].used THEN <<>> ELSE Content(ChainIn(f, r, e), r[e].size, d)

LEMMA OnDiskIs ==
  ASSUME NEW e
  PROVE  OnDisk(e) = FileIn(fat, root, data, e)
BY DEF OnDisk, FileIn, Content, ChainIn, ChainOf

LEMMA OnDiskNext ==
  ASSUME NEW e
  PROVE  OnDisk(e)' = FileIn(fat', root', data', e)
BY DEF OnDisk, FileIn, Content, ChainIn, ChainOf

(* What is known of a file that exists. *)
LEMMA FileOf ==
  ASSUME NEW f \in Tables, NEW r \in Directories, WholeFiles(f, r), NEW e \in Slots, r[e].used
  PROVE  LET ch == ChainIn(f, r, e)
             size == r[e].size
         IN /\ ch \in Seq(Clusters) /\ Len(ch) = TurnsFor(size)
            /\ \A i, j \in 1 .. Len(ch) : ch[i] = ch[j] => i = j
            /\ \A i \in 1 .. Len(ch) : f[ch[i]] # 0
            /\ size \in 0 .. WORD - 1 /\ size \in Nat /\ (CLUSTERS - 2) * BPC \in Nat
            /\ size \in 1 .. (CLUSTERS - 2) * BPC
<1> DEFINE ch == ChainIn(f, r, e)
           size == r[e].size
<1>1. IsChain(f, r[e].cluster, ch) /\ Len(ch) = TurnsFor(size)
  BY DEF WholeFiles
<1> HIDE DEF ch
<1>2. ch \in Seq(Clusters) /\ \A i, j \in 1 .. Len(ch) : ch[i] = ch[j] => i = j
  BY <1>1 DEF IsChain
<1>3. Len(ch) \in 1 .. CLUSTERS - 2 /\ \A i \in 1 .. Len(ch) : f[ch[i]] # 0
  BY <1>1, ChainLength, ChainNotFree
<1>4. size \in 0 .. WORD - 1 /\ size \in Nat
  <2>1. r[e] \in Entries
    BY DEF Directories
  <2> QED BY <2>1, Fat16Assumption DEF Entries
<1>5. BPC \in Nat \ {0} /\ BPC \in Nat /\ CLUSTERS - 2 \in Nat /\ (CLUSTERS - 2) * BPC \in Nat
  BY Constants
<1> HIDE DEF size
<1>6. size \in 1 .. (CLUSTERS - 2) * BPC
  <2> DEFINE n == Pieces(size, BPC)
  <2>1. /\ n \in Nat /\ n * BPC \in Nat /\ size <= n * BPC
        /\ size = 0 => n = 0
    BY <1>4, <1>5, PiecesAre
  <2>2. n = Len(ch)
    BY <1>1, Turns
  <2> HIDE DEF n
  <2>3. n * BPC <= (CLUSTERS - 2) * BPC
    <3>1. CASE n = CLUSTERS - 2
      BY <1>5, <3>1
    <3>2. CASE n < CLUSTERS - 2
      <4>1. n * BPC + BPC <= (CLUSTERS - 2) * BPC
        BY <1>5, <2>1, <3>2, Multiples
      <4> QED BY <1>5, <2>1, <4>1
    <3> QED BY <1>3, <1>5, <2>1, <2>2, <3>1, <3>2
  <2> QED BY <1>3, <1>4, <1>5, <2>1, <2>2, <2>3
<1> QED BY <1>1, <1>2, <1>3, <1>4, <1>5, <1>6 DEF ch, size

LEMMA FileIs ==
  ASSUME FatInv, NEW e \in Slots, root[e].used
  PROVE  LET ch == ChainOf(e)
             size == root[e].size
         IN /\ ch \in Seq(Clusters) /\ Len(ch) = TurnsFor(size) /\ ch = ChainIn(fat, root, e)
            /\ \A i, j \in 1 .. Len(ch) : ch[i] = ch[j] => i = j
            /\ \A i \in 1 .. Len(ch) : fat[ch[i]] # 0
            /\ size \in 0 .. WORD - 1 /\ size \in Nat /\ (CLUSTERS - 2) * BPC \in Nat
            /\ size \in 1 .. (CLUSTERS - 2) * BPC
            /\ OnDisk(e) = Content(ch, size, data)
            /\ OnDisk(e) \in Seq(Bytes) /\ Len(OnDisk(e)) = size
<1> DEFINE ch == ChainOf(e)
           size == root[e].size
<1>1. ch = ChainIn(fat, root, e) /\ data \in Areas
  BY DEF ChainOf, ChainIn, FatInv
<1> HIDE DEF ch
<1>2. /\ ch \in Seq(Clusters) /\ Len(ch) = TurnsFor(size)
      /\ \A i, j \in 1 .. Len(ch) : ch[i] = ch[j] => i = j
      /\ \A i \in 1 .. Len(ch) : fat[ch[i]] # 0
      /\ size \in 0 .. WORD - 1 /\ size \in Nat /\ (CLUSTERS - 2) * BPC \in Nat
      /\ size \in 1 .. (CLUSTERS - 2) * BPC
  BY <1>1, FileOf DEF FatInv
<1>3. OnDisk(e) = Content(ch, size, data)
  BY <1>1, OnDiskIs DEF FileIn
<1> HIDE DEF size
<1>4. Content(ch, size, data) \in Seq(Bytes) /\ Len(Content(ch, size, data)) = size
  BY <1>1, <1>2, ContentType
<1> QED BY <1>1, <1>2, <1>3, <1>4 DEF ch, size

(* The calls start at the beginning of a cluster, as fat16.c needs. *)
Aligned == \A offset \in PartOffsets : offset % BPC = 0

LEMMA AlignedAt ==
  ASSUME Aligned, NEW offset \in PartOffsets
  PROVE  offset \in Nat /\ \E q \in Nat : offset = q * BPC
<1>1. offset \in Nat /\ offset % BPC = 0
  BY Fat16Assumption DEF Aligned
<1>2. BPC \in Nat \ {0}
  BY Constants
<1> DEFINE q == offset \div BPC
           r == offset % BPC
           n == offset + 1
<1>3. q \in Nat /\ q * BPC \in Nat /\ offset = q * BPC + r
  <2>1. n \in Nat /\ offset \in 0 .. n - 1
    BY <1>1
  <2> HIDE DEF n
  <2>2. /\ q \in Nat /\ q * BPC \in Nat
        /\ r \in 0 .. BPC - 1 /\ offset = q * BPC + r
    BY <1>2, <2>1, PieceOf
  <2> QED BY <2>2
<1>4. offset = q * BPC
  <2>1. r = 0
    BY <1>1
  <2> HIDE DEF q, r
  <2> QED BY <1>3, <2>1
<1> HIDE DEF q
<1> QED BY <1>1, <1>3, <1>4

(* A read delivers the part of the file that was asked for, as far as the  *)
(* file goes.                                                              *)
LEMMA ReadDelivers ==
  ASSUME FatInv, NEW e \in Slots, root[e].used,
         NEW q \in Nat, NEW offset \in Nat, offset = q * BPC, NEW len \in Nat
  PROVE  fat_fs_read(e, offset, len) =
           [i \in 1 .. Left(root[e].size, offset, len) |-> OnDisk(e)[offset + i]]
<1> DEFINE ch == ChainOf(e)
           size == root[e].size
           t == Left(size, offset, len)
           ts == Moves(ch, q, t)
           C == Content(ch, size, data)
<1>1. /\ ch \in Seq(Clusters) /\ Len(ch) = TurnsFor(size)
      /\ size \in 0 .. WORD - 1 /\ size \in Nat
      /\ OnDisk(e) = C
  BY FileIs
<1>2. ch = Chain(fat, root[e].cluster)
  BY DEF ChainOf
<1>3. data \in Areas
  BY DEF FatInv
<1>4. fat_fs_read(e, offset, len) =
        Gathered(data, Transfers(ch, Trim(size, offset, len), offset))
  BY <1>2 DEF fat_fs_read, BytesAt, Gathered
<1> HIDE DEF ch, size
<1>5. Transfers(ch, Trim(size, offset, len), offset) = ts
  BY <1>1, TransfersAre
<1>6. t \in 0 .. size /\ (t # 0 => q * BPC + t <= size)
  BY <1>1, LeftIs
<1>7. fat_fs_read(e, offset, len) = Gathered(data, ts)
  <2> HIDE DEF ts
  <2> QED BY <1>4, <1>5
<1> HIDE DEF t
<1>8. Gathered(data, ts) = Slice(C, q * BPC, t)
  BY <1>1, <1>3, <1>6, Delivers
<1>9. fat_fs_read(e, offset, len) = Slice(C, offset, t)
  <2> HIDE DEF ts, C
  <2> QED BY <1>7, <1>8
<1> HIDE DEF C
<1> QED BY <1>1, <1>9 DEF Slice, t, size

(* A write changes the part of the file that was asked for, as far as the  *)
(* file goes, and no other file.                                           *)
Changes(w, e, offset, len, b) ==
  /\ FileIn(fat, root, w, e) =
       [i \in 1 .. root[e].size |->
          IF i \in offset + 1 .. offset + Left(root[e].size, offset, len) THEN b
          ELSE OnDisk(e)[i]]
  /\ \A x \in Slots : x # e => FileIn(fat, root, w, x) = OnDisk(x)

LEMMA WriteChanges ==
  ASSUME FatInv, NEW e \in Slots, root[e].used,
         NEW q \in Nat, NEW offset \in Nat, offset = q * BPC, NEW len \in Nat, NEW b
  PROVE  Changes(fat_fs_write(e, offset, b, len), e, offset, len, b)
<1> DEFINE ch == ChainOf(e)
           size == root[e].size
           t == Left(size, offset, len)
           ts == Moves(ch, q, t)
           w == WrittenBy(data, ts, b)
           C == Content(ch, size, data)
<1>1. /\ ch \in Seq(Clusters) /\ Len(ch) = TurnsFor(size) /\ ch = ChainIn(fat, root, e)
      /\ size \in 0 .. WORD - 1 /\ size \in Nat
      /\ \A i, j \in 1 .. Len(ch) : ch[i] = ch[j] => i = j
      /\ OnDisk(e) = C
  BY FileIs
<1>2. ch = Chain(fat, root[e].cluster)
  BY DEF ChainOf
<1>3. data \in Areas
  BY DEF FatInv
<1>4. fat_fs_write(e, offset, b, len) =
        WrittenBy(data, Transfers(ch, Trim(size, offset, len), offset), b)
  BY <1>2 DEF fat_fs_write, WrittenBy
<1> HIDE DEF ch
<1>5. Transfers(ch, Trim(size, offset, len), offset) = ts
  <2> HIDE DEF size
  <2> QED BY <1>1, TransfersAre
<1>6. t \in 0 .. size /\ (t # 0 => q * BPC + t <= size)
  <2> HIDE DEF size
  <2> QED BY <1>1, LeftIs
<1>7. fat_fs_write(e, offset, b, len) = w
  BY <1>4, <1>5
<1> HIDE DEF t
<1>8. FileIn(fat, root, w, e) = [i \in 1 .. size |-> IF i \in offset + 1 .. offset + t THEN b ELSE C[i]]
  <2>1. FileIn(fat, root, w, e) = Content(ch, size, w)
    <3> HIDE DEF w
    <3> QED BY <1>1 DEF FileIn
  <2> HIDE DEF size
  <2>2. Content(ch, size, w) =
          [i \in 1 .. size |-> IF i \in q * BPC + 1 .. q * BPC + t THEN b ELSE C[i]]
    BY <1>1, <1>3, <1>6, Rewritten
  <2> HIDE DEF w, C
  <2> QED BY <2>1, <2>2
<1>9. ASSUME NEW x \in Slots, x # e
      PROVE  FileIn(fat, root, w, x) = OnDisk(x)
  <2>1. CASE ~root[x].used
    BY <2>1, OnDiskIs DEF FileIn
  <2>2. CASE root[x].used
    <3> DEFINE dh == ChainOf(x)
               other == root[x].size
    <3>1. /\ dh \in Seq(Clusters) /\ Len(dh) = TurnsFor(other) /\ dh = ChainIn(fat, root, x)
          /\ other \in Nat /\ OnDisk(x) = Content(dh, other, data)
      BY <2>2, FileIs
    <3>2. \A i \in 1 .. Len(ch), j \in 1 .. Len(dh) : ch[i] # dh[j]
      BY <1>1, <1>9, <2>2, <3>1 DEF FatInv, WholeFiles
    <3>3. FileIn(fat, root, w, x) = Content(dh, other, w)
      <4> HIDE DEF w
      <4> QED BY <2>2, <3>1 DEF FileIn
    <3> HIDE DEF dh, other, size
    <3>4. ASSUME NEW k \in 1 .. Len(dh), NEW r \in 0 .. BPC - 1
          PROVE  w[fat_get_cluster_addr(dh[k]) + r] = data[fat_get_cluster_addr(dh[k]) + r]
      <4> DEFINE c == dh[k]
      <4>1. c \in Clusters
        BY <3>1
      <4>2. \A j \in 1 .. Len(ch) : ch[j] # c
        BY <3>2
      <4> HIDE DEF c
      <4>3. ~Hit(ch, q, t, c, r)
        <5>1. \A j \in 1 .. TurnsFor(t) : q + j \in 1 .. Len(ch)
          BY <1>1, <1>6, Reached
        <5> QED BY <4>2, <5>1 DEF Hit
      <4>4. w[fat_get_cluster_addr(c) + r] =
              IF Hit(ch, q, t, c, r) THEN b ELSE data[fat_get_cluster_addr(c) + r]
        BY <1>1, <1>3, <1>6, <4>1, WriteAt
      <4> HIDE DEF w
      <4> QED BY <4>3, <4>4 DEF c
    <3> HIDE DEF w
    <3>5. Content(dh, other, w) = Content(dh, other, data)
      <4>1. SameOn(dh, data, w)
        BY <3>4 DEF SameOn
      <4> QED BY ONLY <3>1, <4>1, ContentSame
    <3> QED BY <3>1, <3>3, <3>5
  <2> QED BY <2>1, <2>2
<1> HIDE DEF w, C
<1> QED BY <1>1, <1>7, <1>8, <1>9 DEF Changes, t, size
HeldFiles == [e \in Slots |-> OnDisk(e)]

LEMMA HeldAt ==
  ASSUME NEW e \in Slots
  PROVE  /\ HeldFiles[e] = OnDisk(e) /\ HeldFiles'[e] = OnDisk(e)'
         /\ DOMAIN HeldFiles = Slots /\ DOMAIN HeldFiles' = Slots
BY DEF HeldFiles

LEMMA TouchesOne ==
  ASSUME NEW e \in Slots, reply' = reply, \A x \in Slots : x # e => OnDisk(x)' = OnDisk(x)
  PROVE  Files!Only(e)
<1>1. HeldFiles' = [HeldFiles EXCEPT ![e] = HeldFiles'[e]]
  BY DEF HeldFiles
<1> QED BY <1>1 DEF Files!Only, HeldFiles

Adds(e, s, b, size) ==
  LET q == [root EXCEPT ![e] = [@ EXCEPT !.used = TRUE, !.cluster = s.root, !.size = size]]
  IN /\ e \in Slots /\ ~root[e].used
     /\ s \in AddStates /\ SameFiles(fat, data, s.data)
     /\ s.root = 0 => s.fat = fat
     /\ s.root # 0 =>
          /\ q[e] = [root[e] EXCEPT !.used = TRUE, !.cluster = s.root, !.size = size]
          /\ \A x \in Slots : x # e => q[x] = root[x]
          /\ size # 0 /\ WholeFiles(s.fat, q) /\ q \in Directories
          /\ \A x \in Slots : root[x].used => ChainIn(s.fat, q, x) = ChainIn(fat, root, x)
          /\ Filled(s.data, ChainIn(s.fat, q, e), b, size)

LEMMA AddsFile ==
  ASSUME FatInv, NEW size \in Sizes, NEW b \in Bytes, fat_find_entry(TRUE, 0) # -1
  PROVE  Adds(fat_find_entry(TRUE, 0), fat_add_data(0, b, size), b, size)
BY AddFile DEF Adds

(* Adding a file writes that file, or nothing when the disk is full. *)
LEMMA AddIs ==
  ASSUME FatInv, fat_add_file
  PROVE  (\E e \in Slots : Files!Add(e)) \/ (HeldFiles' = HeldFiles /\ reply' = reply)
<1>0. /\ fat \in Tables /\ data \in Areas /\ root \in Directories /\ WholeFiles(fat, root)
  BY DEF FatInv
<1>1. PICK size \in Sizes, b \in Bytes :
        LET e == fat_find_entry(TRUE, 0)
            s == fat_add_data(0, b, size)
        IN /\ e # -1
           /\ fat' = s.fat /\ data' = s.data
           /\ root' = IF s.root = 0 THEN root
                      ELSE [root EXCEPT ![e] = [@ EXCEPT !.used = TRUE,
                                                  !.cluster = s.root, !.size = size]]
           /\ UNCHANGED <<reply, fat_mode>>
  BY DEF fat_add_file
<1>e. PICK e : e = fat_find_entry(TRUE, 0)
  OBVIOUS
<1> DEFINE s == fat_add_data(0, b, size)
           q == [root EXCEPT ![e] = [@ EXCEPT !.used = TRUE, !.cluster = s.root, !.size = size]]
<1>2. /\ e \in Slots /\ ~root[e].used
      /\ s \in AddStates /\ SameFiles(fat, data, s.data)
      /\ s.root = 0 => s.fat = fat
      /\ s.root # 0 =>
           /\ q[e] = [root[e] EXCEPT !.used = TRUE, !.cluster = s.root, !.size = size]
           /\ \A x \in Slots : x # e => q[x] = root[x]
           /\ size # 0 /\ WholeFiles(s.fat, q) /\ q \in Directories
           /\ \A x \in Slots : root[x].used => ChainIn(s.fat, q, x) = ChainIn(fat, root, x)
           /\ Filled(s.data, ChainIn(s.fat, q, e), b, size)
  <2>1. e # -1
    BY <1>1, <1>e
  <2>2. Adds(fat_find_entry(TRUE, 0), s, b, size)
    BY <1>e, <2>1, AddsFile
  <2> HIDE DEF s
  <2>3. Adds(e, s, b, size)
    BY <1>e, <2>2
  <2> QED BY <2>3 DEF Adds
<1>3. /\ fat' = s.fat /\ data' = s.data /\ root' = (IF s.root = 0 THEN root ELSE q)
      /\ reply' = reply
  BY <1>1, <1>e
<1> HIDE DEF s, q
<1>4. ASSUME NEW x \in Slots, x # e \/ s.root = 0
      PROVE  OnDisk(x)' = OnDisk(x)
  <2>1. root'[x] = root[x]
    BY <1>2, <1>3, <1>4
  <2>2. CASE ~root[x].used
    BY <2>1, <2>2, OnDiskIs, OnDiskNext DEF FileIn
  <2>3. CASE root[x].used
    <3> DEFINE ch == ChainOf(x)
               n == root[x].size
    <3>1. /\ ch \in Seq(Clusters) /\ Len(ch) = TurnsFor(n) /\ ch = ChainIn(fat, root, x)
          /\ \A i \in 1 .. Len(ch) : fat[ch[i]] # 0
          /\ n \in Nat /\ OnDisk(x) = Content(ch, n, data)
      BY <2>3, FileIs
    <3>2. ChainIn(fat', root', x) = ch
      <4>1. CASE s.root = 0
        BY <1>2, <1>3, <3>1, <4>1
      <4>2. CASE s.root # 0
        BY <1>2, <1>3, <2>3, <3>1, <4>2
      <4> QED BY <4>1, <4>2
    <3>3. OnDisk(x)' = Content(ch, n, data')
      BY <2>1, <2>3, <3>2, OnDiskNext DEF FileIn
    <3> HIDE DEF ch, n
    <3>4. SameOn(ch, data, data')
      <4>1. \A i \in 1 .. Len(ch) : ch[i] \in Clusters
        BY <3>1
      <4> QED BY <1>2, <1>3, <3>1, <4>1 DEF SameOn, SameFiles
    <3>5. Content(ch, n, data') = Content(ch, n, data)
      BY <3>1, <3>4, ContentSame
    <3> QED BY <3>1, <3>3, <3>5
  <2> QED BY <2>2, <2>3
<1>5. CASE s.root = 0
  <2>1. \A x \in Slots : OnDisk(x)' = OnDisk(x)
    BY <1>4, <1>5
  <2>2. HeldFiles' = HeldFiles
    BY <2>1 DEF HeldFiles
  <2> QED BY <1>3, <2>2
<1>6. CASE s.root # 0
  <2> DEFINE nc == ChainIn(fat', root', e)
             max == (CLUSTERS - 2) * BPC
  <2>1. root'[e].used /\ root'[e].size = size
    <3>1. root[e] \in Entries
      BY <1>0, <1>2 DEF Directories
    <3>2. [root[e] EXCEPT !.used = TRUE, !.cluster = s.root, !.size = size].used
          /\ [root[e] EXCEPT !.used = TRUE, !.cluster = s.root, !.size = size].size = size
      BY <3>1 DEF Entries
    <3> QED BY <1>2, <1>3, <1>6, <3>2
  <2>2. /\ nc \in Seq(Clusters) /\ Len(nc) = TurnsFor(size)
        /\ size \in Nat /\ size \in 1 .. max
    <3>1. fat' \in Tables /\ root' \in Directories /\ WholeFiles(fat', root')
      BY <1>2, <1>3, <1>6 DEF AddStates
    <3>2. /\ nc \in Seq(Clusters) /\ Len(nc) = TurnsFor(root'[e].size)
          /\ root'[e].size \in Nat /\ root'[e].size \in 1 .. max
      BY <1>2, <2>1, <3>1, FileOf
    <3> QED BY <2>1, <3>2
  <2>3. Filled(data', nc, b, size)
    BY <1>2, <1>3, <1>6
  <2>4. OnDisk(e)' = Content(nc, size, data')
    BY <2>1, OnDiskNext DEF FileIn
  <2> HIDE DEF nc, max
  <2>5. Content(nc, size, data') = [i \in 1 .. size |-> b]
    BY <2>2, <2>3, ContentFilled
  <2>6. HeldFiles[e] = <<>> /\ HeldFiles'[e] = [i \in 1 .. size |-> b]
    <3>1. OnDisk(e) = <<>>
      BY <1>2, OnDiskIs DEF FileIn
    <3> QED BY <1>2, <2>4, <2>5, <3>1, HeldAt
  <2>7. Files!Only(e)
    BY <1>2, <1>3, <1>4, TouchesOne
  <2>8. Files!Add(e)
    BY <2>2, <2>6, <2>7 DEF Files!Add, Files!NoFile, HeldFiles, max
  <2> QED BY <1>2, <2>8
<1> QED BY <1>5, <1>6

LEMMA RemoveIs ==
  ASSUME FatInv, fat_remove_file
  PROVE  \E e \in Slots : Files!Remove(e)
<1>0. /\ fat \in Tables /\ data \in Areas /\ root \in Directories /\ WholeFiles(fat, root)
  BY DEF FatInv
<1>1. PICK e \in Slots :
        /\ root[e].used
        /\ fat' = fat_remove_data(fat, 0, root[e].cluster)
        /\ root' = [root EXCEPT ![e].used = FALSE]
        /\ data' = data /\ reply' = reply
  BY DEF fat_remove_file
<1>2. root' \in Directories /\ ~root'[e].used /\ \A x \in Slots : x # e => root'[x] = root[x]
  <2>1. root[e] \in Entries
    BY <1>0 DEF Directories
  <2>2. [root[e] EXCEPT !.used = FALSE] \in Entries /\ [root[e] EXCEPT !.used = FALSE].used = FALSE
    BY <2>1 DEF Entries
  <2>3. root' = [root EXCEPT ![e] = [root[e] EXCEPT !.used = FALSE]]
    BY <1>1
  <2> QED BY <1>0, <2>2, <2>3 DEF Directories
<1>3. \A x \in Slots : root[x].used /\ x # e => ChainIn(fat', root', x) = ChainIn(fat, root, x)
  <2> DEFINE g == fat_remove_data(fat, 0, root[e].cluster)
             q == root'
  <2>1. q \in Directories /\ ~q[e].used /\ \A x \in Slots : x # e => q[x] = root[x]
    BY <1>2
  <2> HIDE DEF q
  <2>2. /\ g \in Tables /\ WholeFiles(g, q) /\ g[1] = fat[1]
        /\ \A x \in Slots : root[x].used /\ x # e => ChainIn(g, q, x) = ChainIn(fat, root, x)
    BY <1>0, <1>1, <2>1, RemoveKeeps
  <2> HIDE DEF g
  <2>3. fat' = g
    BY <1>1 DEF g
  <2> QED BY <2>2, <2>3 DEF q
<1>4. \A x \in Slots : x # e => OnDisk(x)' = OnDisk(x)
  <2> SUFFICES ASSUME NEW x \in Slots, x # e
               PROVE  OnDisk(x)' = OnDisk(x)
    OBVIOUS
  <2>1. OnDisk(x) = FileIn(fat, root, data, x) /\ OnDisk(x)' = FileIn(fat', root', data', x)
    BY OnDiskIs, OnDiskNext
  <2>2. root'[x] = root[x] /\ data' = data
    BY <1>1, <1>2
  <2>3. CASE ~root[x].used
    BY <2>1, <2>2, <2>3 DEF FileIn
  <2>4. CASE root[x].used
    <3>1. ChainIn(fat', root', x) = ChainIn(fat, root, x)
      BY <1>3, <2>4
    <3> QED BY <2>1, <2>2, <2>4, <3>1 DEF FileIn
  <2> QED BY <2>3, <2>4
<1>5. HeldFiles'[e] = <<>>
  <2>1. OnDisk(e)' = <<>>
    BY <1>2, OnDiskNext DEF FileIn
  <2> QED BY <2>1, HeldAt
<1>6. Files!Only(e)
  BY <1>1, <1>4, TouchesOne
<1>7. Files!Remove(e)
  BY <1>5, <1>6 DEF Files!Remove, Files!NoFile, HeldFiles
<1> QED BY <1>7

LEMMA ReadIs ==
  ASSUME Aligned, FatInv, ReadFile
  PROVE  \E e \in Slots : Files!Read(e)
<1> DEFINE max == (CLUSTERS - 2) * BPC
<1>1. PICK e \in Slots, offset \in PartOffsets, len \in Lens :
        root[e].used /\ reply' = fat_fs_read(e, offset, len)
  BY DEF ReadFile
<1> DEFINE size == root[e].size
           t == Left(size, offset, len)
           F == OnDisk(e)
<1>2. HeldFiles' = HeldFiles
  BY DEF ReadFile, HeldFiles, OnDisk, ChainOf
<1>3. offset \in Nat /\ len \in Nat
  BY Fat16Assumption
<1>4. PICK q \in Nat : offset = q * BPC
  BY AlignedAt
<1>5. /\ size \in Nat /\ max \in Nat /\ size \in 1 .. max /\ F \in Seq(Bytes) /\ Len(F) = size
  BY <1>1, FileIs
<1>6. reply' = [i \in 1 .. t |-> F[offset + i]]
  BY <1>1, <1>3, <1>4, ReadDelivers
<1> HIDE DEF size, F, max
<1>7. t \in 0 .. size /\ (t # 0 => offset + t <= size)
  BY <1>3, <1>5, LeftIs
<1> HIDE DEF t
<1>8. \E o, n \in 0 .. max : reply' = Files!Part(F, o, n)
  <2>1. CASE t = 0
    <3>1. reply' = <<>>
      BY <1>6, <2>1
    <3>2. Files!Part(F, 0, 0) = <<>>
      BY <1>5 DEF Files!Part
    <3>3. 0 \in 0 .. max
      BY <1>5
    <3> QED BY <3>1, <3>2, <3>3
  <2>2. CASE t # 0
    <3>1. offset \in 0 .. max /\ t \in 0 .. max /\ offset + t <= size /\ t \in Nat
      BY <1>3, <1>5, <1>7, <2>2
    <3>2. Files!Part(F, offset, t) = SubSeq(F, offset + 1, offset + t)
      BY <1>3, <1>5, <3>1 DEF Files!Part
    <3>3. SubSeq(F, offset + 1, offset + t) = [i \in 1 .. t |-> F[offset + i]]
      <4>1. SubSeq(F, offset + 1, offset + t) =
              [i \in 1 .. ((offset + t) - (offset + 1) + 1) |-> F[i + (offset + 1) - 1]]
        BY <1>3, <1>5, <3>1
      <4>2. (offset + t) - (offset + 1) + 1 = t
        BY <1>3, <3>1
      <4>3. \A i \in 1 .. t : i + (offset + 1) - 1 = offset + i
        BY <1>3, <3>1
      <4> QED BY <4>1, <4>2, <4>3
    <3> QED BY <1>6, <3>1, <3>2, <3>3
  <2> QED BY <2>1, <2>2
<1>9. Files!Read(e)
  <2>1. \E o, n \in 0 .. max : reply' = Files!Part(HeldFiles[e], o, n)
    BY <1>8, HeldAt DEF F
  <2> QED BY <1>2, <2>1 DEF Files!Read, HeldFiles, max
<1> QED BY <1>9

LEMMA WriteIs ==
  ASSUME Aligned, FatInv, WriteFile
  PROVE  \E e \in Slots : Files!Write(e)
<1> DEFINE max == (CLUSTERS - 2) * BPC
<1>1. PICK e \in Slots, offset \in PartOffsets, len \in Lens, b \in Bytes :
        root[e].used /\ data' = fat_fs_write(e, offset, b, len)
  BY DEF WriteFile
<1> DEFINE size == root[e].size
           t == Left(size, offset, len)
           F == OnDisk(e)
           V(o, n) == [i \in 1 .. size |-> IF i \in o + 1 .. o + n THEN b ELSE F[i]]
<1>2. fat' = fat /\ root' = root /\ reply' = reply
  BY DEF WriteFile
<1>3. offset \in Nat /\ len \in Nat
  BY Fat16Assumption
<1>4. PICK q \in Nat : offset = q * BPC
  BY AlignedAt
<1>5. /\ size \in Nat /\ max \in Nat /\ size \in 1 .. max /\ F \in Seq(Bytes) /\ Len(F) = size
  BY <1>1, FileIs
<1>6. /\ FileIn(fat, root, data', e) = V(offset, t)
      /\ \A x \in Slots : x # e => FileIn(fat, root, data', x) = OnDisk(x)
  <2> DEFINE w == fat_fs_write(e, offset, b, len)
  <2>1. Changes(w, e, offset, len, b)
    BY <1>1, <1>3, <1>4, WriteChanges
  <2>2. data' = w
    BY <1>1
  <2> HIDE DEF w
  <2> QED BY <2>1, <2>2 DEF Changes
<1>7. HeldFiles'[e] = V(offset, t) /\ \A x \in Slots : x # e => OnDisk(x)' = OnDisk(x)
  <2> HIDE DEF V
  <2> QED BY <1>2, <1>6, OnDiskNext, HeldAt
<1> HIDE DEF size, F, max
<1>8. t \in 0 .. size /\ (t # 0 => offset + t <= size)
  BY <1>3, <1>5, LeftIs
<1> HIDE DEF t
<1>9. \E o, n \in 0 .. max : HeldFiles'[e] = V(o, n)
  <2>1. CASE t = 0
    <3>1. \A i \in 1 .. size : i \notin offset + 1 .. offset + 0 /\ i \notin 0 + 1 .. 0 + 0
      BY <1>3
    <3>2. V(offset, 0) = V(0, 0)
      BY <3>1
    <3>3. 0 \in 0 .. max
      BY <1>5
    <3> HIDE DEF V
    <3> QED BY <1>7, <2>1, <3>2, <3>3
  <2>2. CASE t # 0
    <3>1. offset \in 0 .. max /\ t \in 0 .. max
      BY <1>3, <1>5, <1>8, <2>2
    <3> HIDE DEF V
    <3> QED BY <1>7, <3>1
  <2> QED BY <2>1, <2>2
<1>10. Files!Only(e)
  BY <1>2, <1>7, TouchesOne
<1>11. Files!Write(e)
  <2>1. \E o, n \in 0 .. max, v \in Bytes :
          HeldFiles'[e] = [i \in 1 .. Len(HeldFiles[e]) |-> IF i \in o + 1 .. o + n THEN v ELSE HeldFiles[e][i]]
    <3>1. HeldFiles[e] = F /\ Len(HeldFiles[e]) = size
      BY <1>5, HeldAt DEF F
    <3> QED BY <1>9, <3>1
  <2> QED BY <1>10, <2>1 DEF Files!Write, HeldFiles, max
<1> QED BY <1>11

(* The file system implements files as byte sequences, on a disk of any    *)
(* size, when calls start at a cluster boundary: fat_add_file,             *)
(* fat_remove_file, fat_fs_read and fat_fs_write change the bytes of their *)
(* own file only, and a read returns what was written last.                *)
THEOREM FilesAreStored ==
  ASSUME Aligned
  PROVE  FatSpec => IsFileStore
<1>1. FatInit => Files!Init
  <2> SUFFICES ASSUME FatInit PROVE Files!Init
    OBVIOUS
  <2>1. \A e \in Slots : OnDisk(e) = <<>>
    BY DEF FatInit, OnDisk
  <2> QED BY <2>1 DEF FatInit, Files!Init, Files!NoFile
<1>2. FatInv /\ [FatNext]_fat_vars => [Files!Next]_<<HeldFiles, reply>>
  <2> SUFFICES ASSUME FatInv, [FatNext]_fat_vars PROVE Files!Next \/ <<HeldFiles, reply>>' = <<HeldFiles, reply>>
    OBVIOUS
  <2>1. CASE fat_add_file
    BY <2>1, AddIs DEF Files!Next
  <2>2. CASE fat_remove_file
    BY <2>2, RemoveIs DEF Files!Next
  <2>3. CASE ReadFile
    BY <2>3, ReadIs DEF Files!Next
  <2>4. CASE WriteFile
    BY <2>4, WriteIs DEF Files!Next
  <2>5. CASE UNCHANGED fat_vars
    BY <2>5 DEF fat_vars, HeldFiles, OnDisk, ChainOf
  <2> QED BY <2>1, <2>2, <2>3, <2>4, <2>5 DEF FatNext
<1>3. FatInv /\ [FatNext]_fat_vars => [Files!Next]_<<[e \in Slots |-> OnDisk(e)], reply>>
  BY <1>2 DEF HeldFiles
<1> QED BY <1>1, <1>3, FatAlways, PTL DEF FatSpec, IsFileStore, Files!Spec

-----------------------------------------------------------------------------
(* The shell: cat and ls.                                                  *)

(* Where cat's k-th call starts, in clusters, when it reads whole clusters *)
(* or there is only one call.                                              *)
LEMMA CatStarts ==
  ASSUME NEW size \in Nat, size <= CHUNK \/ CHUNK % BPC = 0,
         NEW k \in 1 .. Pieces(size, CHUNK)
  PROVE  \E q \in Nat : (k - 1) * CHUNK = q * BPC
<1> DEFINE c == CHUNK \div BPC
           r == CHUNK % BPC
           n == CHUNK + 1
           j == k - 1
<1>1. BPC \in Nat \ {0} /\ CHUNK \in Nat \ {0} /\ CHUNK \in Nat
  BY Constants, Fat16Assumption
<1>2. j \in Nat
  OBVIOUS
<1> HIDE DEF j
<1>3. CASE r = 0
  <2>1. n \in Nat /\ CHUNK \in 0 .. n - 1
    BY <1>1
  <2> HIDE DEF n
  <2>2. c \in Nat /\ c * BPC \in Nat /\ CHUNK = c * BPC + r
    BY <1>1, <2>1, PieceOf
  <2> HIDE DEF c, r
  <2>3. CHUNK = c * BPC
    BY <1>3, <2>2
  <2>4. j * c \in Nat /\ j * (c * BPC) = (j * c) * BPC
    BY <1>1, <1>2, <2>2
  <2>5. j * CHUNK = (j * c) * BPC
    BY <2>3, <2>4
  <2> QED BY <2>4, <2>5 DEF j
<1>4. CASE size <= CHUNK
  <2>1. j * CHUNK \in Nat /\ j * CHUNK < size
    <3>1. (k - 1) * CHUNK \in Nat /\ (k - 1) * CHUNK < size
      BY <1>1, PieceSizes
    <3> QED BY <3>1 DEF j
  <2>2. j = 0
    <3> SUFFICES ASSUME j # 0 PROVE FALSE
      OBVIOUS
    <3> DEFINE i == j - 1
    <3>1. i \in Nat /\ j = i + 1
      BY <1>2
    <3> HIDE DEF i
    <3>2. i * CHUNK \in Nat /\ (i + 1) * CHUNK = i * CHUNK + CHUNK
      BY <1>1, <3>1
    <3>3. j * CHUNK = i * CHUNK + CHUNK
      BY <3>1, <3>2
    <3> DEFINE x == i * CHUNK
    <3> HIDE DEF x
    <3> QED BY <1>1, <1>4, <2>1, <3>2, <3>3 DEF x
  <2>3. 0 * CHUNK = 0 /\ 0 * BPC = 0 /\ 0 \in Nat
    BY <1>1
  <2> QED BY <2>2, <2>3 DEF j
<1> QED BY <1>3, <1>4 DEF r

(* What cat reads in its k-th call. *)
LEMMA CatReads ==
  ASSUME FatInv, NEW e \in Slots, root[e].used, root[e].size <= CHUNK \/ CHUNK % BPC = 0,
         NEW k \in 1 .. Pieces(root[e].size, CHUNK)
  PROVE  LET p == fat_fs_read(e, (k - 1) * CHUNK, CHUNK)
             m == PieceSize(root[e].size, CHUNK, k)
         IN /\ p \in Seq(Bytes) /\ Len(p) = m /\ m \in 1 .. CHUNK
            /\ \A i \in 1 .. m : p[i] = OnDisk(e)[(k - 1) * CHUNK + i]
<1> DEFINE size == root[e].size
           offset == (k - 1) * CHUNK
           p == fat_fs_read(e, offset, CHUNK)
           m == PieceSize(size, CHUNK, k)
           F == OnDisk(e)
<1>0. BPC \in Nat \ {0} /\ CHUNK \in Nat \ {0} /\ CHUNK \in Nat
  BY Constants, Fat16Assumption
<1>2. size \in Nat /\ size \in 1 .. Len(F) /\ F \in Seq(Bytes) /\ Len(F) = size
  BY FileIs
<1>3. /\ offset \in Nat /\ k * CHUNK = offset + CHUNK /\ offset < size
      /\ m \in 1 .. CHUNK
      /\ offset + m = IF k * CHUNK < size THEN k * CHUNK ELSE size
  <2> HIDE DEF size
  <2> QED BY <1>0, <1>2, PieceSizes DEF size
<1>5. PICK q \in Nat : offset = q * BPC
  <2> HIDE DEF size
  <2> QED BY <1>2, CatStarts DEF size
<1>6. p = [i \in 1 .. Left(size, offset, CHUNK) |-> F[offset + i]]
  <2> DEFINE o == offset
  <2>1. q \in Nat /\ o \in Nat /\ o = q * BPC
    BY <1>3, <1>5
  <2> HIDE DEF o
  <2>2. fat_fs_read(e, o, CHUNK) = [i \in 1 .. Left(size, o, CHUNK) |-> F[o + i]]
    <3>1. CHUNK \in Nat
      BY <1>0
    <3> QED BY ONLY FatInv, e \in Slots, root[e].used, <2>1, <3>1, ReadDelivers
  <2> QED BY <2>2 DEF o
<1> HIDE DEF m, offset, p, size, F
<1>7. Left(size, offset, CHUNK) = m
  <2>1. m \in Nat
    BY <1>3
  <2> QED BY <1>0, <1>2, <1>3, <2>1 DEF Left
<1>8. p = [i \in 1 .. m |-> F[offset + i]]
  BY <1>6, <1>7
<1>9. \A i \in 1 .. m : F[offset + i] \in Bytes
  <2> TAKE i \in 1 .. m
  <2>1. offset + i \in 1 .. Len(F)
    BY <1>0, <1>2, <1>3
  <2> DEFINE j == offset + i
  <2>2. j \in 1 .. Len(F)
    BY <2>1
  <2> HIDE DEF j
  <2>3. F[j] \in Bytes
    BY <1>2, <2>2
  <2> QED BY <2>3 DEF j
<1>10. p \in Seq(Bytes) /\ Len(p) = m /\ \A i \in 1 .. m : p[i] = F[offset + i]
  <2> DEFINE g(i) == F[offset + i]
  <2>1. p = [i \in 1 .. m |-> g(i)] /\ \A i \in 1 .. m : g(i) \in Bytes
    BY <1>8, <1>9
  <2>2. m \in Nat
    BY <1>3
  <2> HIDE DEF g
  <2>3. p \in Seq(Bytes) /\ Len(p) = m /\ \A i \in 1 .. m : p[i] = g(i)
    BY <2>1, <2>2
  <2> QED BY <2>3 DEF g
<1> QED BY <1>3, <1>10 DEF m, offset, p, size, F

(* cat shows the bytes of a file it reads in one call or by whole clusters. *)
LEMMA CatWorks == FatInv => CatExact
<1> SUFFICES ASSUME FatInv, NEW e \in Used, root[e].size <= CHUNK \/ CHUNK % BPC = 0
             PROVE  cat(e) = OnDisk(e)
  BY DEF CatExact
<1>0. e \in Slots /\ root[e].used
  BY DEF Used
<1> DEFINE size == root[e].size
           F == OnDisk(e)
           part(k) == fat_fs_read(e, (k - 1) * CHUNK, CHUNK)
           stops == {k \in 1 .. size + 1 : (k - 1) * CHUNK >= size \/ part(k) = <<>>}
           n == Pieces(size, CHUNK)
           seqs == [k \in 1 .. n |-> part(k)]
<1>1. CHUNK \in Nat \ {0} /\ CHUNK \in Nat
  BY Fat16Assumption
<1>2. size \in Nat /\ size # 0 /\ F \in Seq(Bytes) /\ Len(F) = size
  <2>1. size \in Nat /\ size \in 1 .. (CLUSTERS - 2) * BPC /\ F \in Seq(Bytes) /\ Len(F) = size
    BY <1>0, FileIs
  <2> HIDE DEF size, F
  <2> QED BY <2>1
<1>3. cat(e) = FlattenSeq([k \in 1 .. Min(stops) - 1 |-> part(k)])
  BY DEF cat
<1>4. \A k \in 1 .. n : /\ part(k) \in Seq(Bytes) /\ Len(part(k)) = PieceSize(size, CHUNK, k)
                        /\ PieceSize(size, CHUNK, k) \in 1 .. CHUNK
                        /\ \A i \in 1 .. PieceSize(size, CHUNK, k) : part(k)[i] = F[(k - 1) * CHUNK + i]
  BY <1>0, CatReads
<1> HIDE DEF size, F, part
<1>5. n \in Nat /\ n * CHUNK \in Nat /\ size <= n * CHUNK /\ n # 0
  BY <1>1, <1>2, PiecesAre
<1>6. \A k \in 1 .. n : (k - 1) * CHUNK \in Nat /\ (k - 1) * CHUNK < size /\ part(k) # <<>>
  <2> SUFFICES ASSUME NEW k \in 1 .. n
               PROVE  (k - 1) * CHUNK \in Nat /\ (k - 1) * CHUNK < size /\ part(k) # <<>>
    OBVIOUS
  <2>1. (k - 1) * CHUNK \in Nat /\ (k - 1) * CHUNK < size
    BY <1>1, <1>2, PieceSizes
  <2>2. Len(part(k)) # 0
    BY <1>4
  <2>3. part(k) # <<>>
    BY <2>2
  <2> QED BY <2>1, <2>3
<1> HIDE DEF n
<1>7. n + 1 \in stops
  <2>1. n <= size
    <3>1. n - 1 \in Nat /\ n \in 1 .. n
      BY <1>5
    <3>2. (n - 1) * CHUNK < size
      BY <1>6, <3>1
    <3>3. n - 1 <= (n - 1) * CHUNK
      <4> DEFINE j == n - 1
                 u == CHUNK - 1
      <4>1. j \in Nat /\ u \in Nat /\ CHUNK = u + 1
        BY <1>1, <3>1
      <4> HIDE DEF j, u
      <4>2. j * (u + 1) = j * u + j /\ j * u \in Nat
        BY <4>1
      <4>3. j <= j * CHUNK
        BY <4>1, <4>2
      <4> QED BY <4>3 DEF j
    <3>4. (n - 1) * CHUNK \in Nat
      BY <1>6, <3>1
    <3> DEFINE z == (n - 1) * CHUNK
    <3>5. z \in Nat /\ z < size /\ n - 1 <= z
      BY <3>2, <3>3, <3>4
    <3> HIDE DEF z
    <3> QED BY <1>2, <1>5, <3>5
  <2>2. n + 1 \in 1 .. size + 1
    BY <1>2, <1>5, <2>1
  <2>3. ((n + 1) - 1) * CHUNK >= size
    <3> DEFINE j == (n + 1) - 1
               z == n * CHUNK
    <3>1. j = n
      BY <1>5
    <3> HIDE DEF j
    <3>2. j * CHUNK = z
      BY <3>1
    <3>3. z \in Nat /\ size <= z
      BY <1>5
    <3> HIDE DEF z
    <3>4. z >= size
      BY <1>2, <3>3
    <3> QED BY <3>2, <3>4 DEF j
  <2> DEFINE P(k) == (k - 1) * CHUNK >= size \/ part(k) = <<>>
  <2>4. P(n + 1)
    BY <2>3
  <2>5. stops = {k \in 1 .. size + 1 : P(k)}
    OBVIOUS
  <2> HIDE DEF P, stops
  <2> QED BY <2>2, <2>4, <2>5
<1>8. \A k \in stops : k \in Nat /\ n + 1 <= k
  <2> SUFFICES ASSUME NEW k \in stops PROVE k \in Nat /\ n + 1 <= k
    OBVIOUS
  <2>1. k \in 1 .. size + 1 /\ ((k - 1) * CHUNK >= size \/ part(k) = <<>>)
    OBVIOUS
  <2>2. k \in Nat /\ k >= 1
    BY <1>2, <2>1
  <2>3. k \notin 1 .. n
    <3> SUFFICES ASSUME k \in 1 .. n PROVE FALSE
      OBVIOUS
    <3>1. (k - 1) * CHUNK \in Nat /\ (k - 1) * CHUNK < size /\ part(k) # <<>>
      BY <1>6
    <3>2. ~((k - 1) * CHUNK >= size)
      <4> DEFINE z == (k - 1) * CHUNK
      <4>1. z \in Nat /\ z < size
        BY <3>1
      <4> HIDE DEF z
      <4>2. ~(z >= size)
        BY <1>2, <4>1
      <4> QED BY <4>2 DEF z
    <3> QED BY <2>1, <3>1, <3>2
  <2> QED BY <1>5, <2>2, <2>3
<1> HIDE DEF stops
<1>9. Min(stops) = n + 1
  <2> DEFINE x == CHOOSE y \in stops : \A z \in stops : y <= z
  <2>1. Min(stops) = x
    BY DEF Min
  <2>2. n + 1 \in stops /\ \A z \in stops : n + 1 <= z
    BY <1>7, <1>8
  <2>3. x \in stops /\ \A z \in stops : x <= z
    BY <2>2
  <2> HIDE DEF x
  <2> QED BY <1>5, <1>8, <2>1, <2>2, <2>3
<1>10. cat(e) = FlattenSeq(seqs)
  <2>1. (n + 1) - 1 = n
    BY <1>5
  <2> QED BY <1>3, <1>9, <2>1
<1>11. seqs \in Seq(Seq(Bytes)) /\ Len(seqs) = n /\ \A k \in 1 .. n : seqs[k] = part(k)
  BY <1>4, <1>5
<1> HIDE DEF seqs
<1>12. InPieces(seqs, Bytes, F, CHUNK)
  BY <1>2, <1>4, <1>11 DEF InPieces, n
<1>13. FlattenSeq(seqs) = F
  BY <1>1, <1>2, <1>12, PiecesJoin
<1> QED BY <1>10, <1>13 DEF F

-----------------------------------------------------------------------------
(* The list of the files.                                                  *)

ListStates == [current : 0 .. ENTRIES, files : Seq(Slots)]

LEMMA SlotsAre == /\ ENTRIES \in Nat /\ ENTRIES # 0
                  /\ \A x : x \in Slots <=> x \in Nat /\ x < ENTRIES
BY Fat16Assumption DEF Slots

(* The next file from entry skip on. *)
LEMMA NextUsed ==
  ASSUME FatInv, NEW skip \in Nat
  PROVE  LET e == fat_find_entry(FALSE, skip) IN
         /\ e = -1 => \A x \in Used : x < skip
         /\ e # -1 => e \in Used /\ e \in Slots /\ e >= skip /\ \A x \in Used : x >= skip => e <= x
<1> DEFINE e == fat_find_entry(FALSE, skip)
<1>1. /\ e = -1 => \A x \in Slots : x >= skip => root[x].used # ~FALSE
      /\ e # -1 => /\ e \in Slots /\ e >= skip /\ root[e].used = ~FALSE
                   /\ \A x \in Slots : x >= skip /\ root[x].used = ~FALSE => e <= x
  BY FoundEntry
<1>2. \A x \in Slots : root[x].used \in BOOLEAN
  BY DEF FatInv, Directories, Entries
<1>3. \A x \in Used : x \in Slots /\ x \in Nat /\ root[x].used = TRUE
  BY <1>2, SlotsAre DEF Used
<1> HIDE DEF e
<1>4. \A x \in Slots : root[x].used = ~FALSE => x \in Used
  BY <1>2 DEF Used
<1>5. (~FALSE) = TRUE
  OBVIOUS
<1>6. ASSUME e = -1, NEW x \in Used PROVE x < skip
  <2>1. x \in Slots /\ x \in Nat /\ root[x].used = ~FALSE
    BY <1>3
  <2>2. ~(x >= skip)
    BY <1>1, <1>6, <2>1
  <2> QED BY <2>1, <2>2
<1> QED BY <1>1, <1>3, <1>4, <1>5, <1>6 DEF e

LEMMA ListTurnType ==
  ASSUME FatInv, NEW s \in ListStates, NEW nfiles
  PROVE  ListTurn(s, nfiles) \in ListStates
<1> DEFINE e == fat_find_entry(FALSE, s.current)
<1>1. s.current \in 0 .. ENTRIES /\ s.current \in Nat /\ s.files \in Seq(Slots)
  BY SlotsAre DEF ListStates
<1>2. e # -1 => e \in Slots
  BY <1>1, NextUsed
<1> HIDE DEF e
<1>3. ASSUME e # -1
      PROVE  [current |-> e + 1,
              files |-> IF root[e].system THEN s.files ELSE Append(s.files, e)] \in ListStates
  <2>1. e + 1 \in 0 .. ENTRIES
    BY <1>2, <1>3, SlotsAre
  <2>2. Append(s.files, e) \in Seq(Slots)
    BY <1>1, <1>2, <1>3
  <2> QED BY <1>1, <2>1, <2>2 DEF ListStates
<1> QED BY <1>3 DEF ListTurn, e

(* The turns of fat_fs_list. *)
LEMMA ListRuns ==
  ASSUME FatInv, NEW nfiles, NEW offset \in 0 .. ENTRIES
  PROVE  \E h \in [0 .. ENTRIES -> ListStates] :
           /\ h[0] = [current |-> offset, files |-> <<>>]
           /\ \A i \in 1 .. ENTRIES : i - 1 \in 0 .. ENTRIES /\ h[i] = ListTurn(h[i - 1], nfiles)
           /\ fat_fs_list(nfiles, offset) = h[ENTRIES].files
<1> DEFINE N == ENTRIES
           S == ListStates
           s == [current |-> offset, files |-> <<>>]
           F == [i \in 1 .. N |-> [t \in S |-> ListTurn(t, nfiles)]]
           Body(h) == [i \in 0 .. ENTRIES |->
                         IF i = 0 THEN [current |-> offset, files |-> <<>>]
                         ELSE ListTurn(h[i - 1], nfiles)]
           h == CHOOSE f : f = Body(f)
<1>1. N \in Nat /\ s \in S
  BY SlotsAre DEF ListStates
<1>2. F \in LoopBodies(N, S) /\ \A i \in 1 .. N, t \in S : F[i][t] = ListTurn(t, nfiles)
  <2>1. \A t \in S : ListTurn(t, nfiles) \in S
    BY ListTurnType
  <2> HIDE DEF S, N
  <2> QED BY <2>1 DEF LoopBodies
<1>3. PICK g : LoopRun(g, N, S, s, F)
  <2> HIDE DEF S, F, N, s
  <2> QED BY <1>1, <1>2, LoopExists
<1>4. /\ g \in [0 .. N -> S] /\ g[0] = s
      /\ \A i \in 1 .. N : i - 1 \in 0 .. N /\ g[i] = ListTurn(g[i - 1], nfiles)
  <2> HIDE DEF S, F, N, s
  <2> QED BY <1>1, <1>2, <1>3 DEF LoopRun
<1>5. g = Body(g)
  <2>1. \A i \in 0 .. N : g[i] = IF i = 0 THEN s ELSE ListTurn(g[i - 1], nfiles)
    <3> HIDE DEF s, S
    <3> QED BY <1>1, <1>4
  <2> HIDE DEF S
  <2> QED BY <1>4, <2>1
<1>6. h = Body(h) /\ fat_fs_list(nfiles, offset) = h[N].files
  <2>1. fat_fs_list(nfiles, offset) = h[N].files
    BY DEF fat_fs_list
  <2>2. h = Body(h)
    <3> HIDE DEF Body
    <3> QED BY <1>5
  <2> QED BY <2>1, <2>2
<1>7. h = [i \in 0 .. N |-> IF i = 0 THEN s ELSE ListTurn(h[i - 1], nfiles)]
  <2> HIDE DEF h
  <2> QED BY <1>6
<1> HIDE DEF h, Body, F
<1>8. h[0] = s /\ \A i \in 1 .. N : i - 1 \in 0 .. N /\ h[i] = ListTurn(h[i - 1], nfiles)
  <2> HIDE DEF s
  <2>1. 0 \in 0 .. N
    BY <1>1
  <2>2. \A i \in 1 .. N : i \in 0 .. N /\ i # 0 /\ i - 1 \in 0 .. N
    BY <1>1
  <2> QED BY <1>7, <2>1, <2>2
<1> DEFINE E == {i \in 0 .. N : h[i] \in S}
<1>9. \A i \in 0 .. N : i \in E
  <2>1. 0 \in E
    BY <1>1, <1>8
  <2>2. ASSUME NEW i \in 1 .. N, i - 1 \in E PROVE i \in E
    <3>1. h[i] = ListTurn(h[i - 1], nfiles) /\ i \in 0 .. N
      BY <1>1, <1>8
    <3>2. h[i - 1] \in S
      BY <2>2
    <3>3. h[i] \in S
      BY <3>1, <3>2, ListTurnType
    <3> QED BY <3>1, <3>3
  <2> HIDE DEF E, N
  <2> QED BY <1>1, <2>1, <2>2, UpTo
<1>10. h \in [0 .. N -> S]
  <2> HIDE DEF s, S
  <2>1. \A i \in 0 .. N : h[i] \in S
    BY <1>9
  <2> QED BY <1>7, <2>1
<1> QED BY <1>6, <1>8, <1>10

(* What fat_fs_list has after i turns, asked for n files from entry o on:  *)
(* the visible files of the entries before current, in order; and it went  *)
(* on for i entries unless it had n files or came to the last file.        *)
Listed(i, s, n, o) ==
  /\ s \in ListStates /\ Len(s.files) <= n
  /\ o <= s.current /\ Len(s.files) <= s.current - o
  /\ \A k \in 1 .. Len(s.files) :
       s.files[k] \in Visible /\ o <= s.files[k] /\ s.files[k] < s.current
  /\ \A k, m \in 1 .. Len(s.files) : k < m => s.files[k] < s.files[m]
  /\ \A x \in Visible : o <= x /\ x < s.current => \E k \in 1 .. Len(s.files) : s.files[k] = x
  /\ Len(s.files) = n \/ (\A x \in Used : x < s.current) \/ s.current >= o + i

LEMMA ListedTurn ==
  ASSUME FatInv, NEW n \in Nat, NEW o \in 0 .. ENTRIES, NEW i \in 1 .. ENTRIES, NEW s,
         Listed(i - 1, s, n, o)
  PROVE  Listed(i, ListTurn(s, n), n, o)
<1> DEFINE c == s.current
           l == s.files
           e == fat_find_entry(FALSE, c)
<1>1. /\ s \in ListStates /\ Len(l) <= n /\ o <= c /\ Len(l) <= c - o
      /\ \A k \in 1 .. Len(l) : l[k] \in Visible /\ o <= l[k] /\ l[k] < c
      /\ \A k, m \in 1 .. Len(l) : k < m => l[k] < l[m]
      /\ \A x \in Visible : o <= x /\ x < c => \E k \in 1 .. Len(l) : l[k] = x
      /\ Len(l) = n \/ (\A x \in Used : x < c) \/ c >= o + (i - 1)
  BY DEF Listed
<1>2. /\ ENTRIES \in Nat /\ o \in Nat /\ \A x \in Used : x \in Slots /\ x \in Nat /\ x < ENTRIES
      /\ \A x \in Visible : x \in Used /\ x \in Nat
  BY SlotsAre DEF Used, Visible
<1>3. c \in 0 .. ENTRIES /\ c \in Nat /\ l \in Seq(Slots) /\ Len(l) \in Nat
  BY <1>1, <1>2 DEF ListStates
<1>4. /\ e = -1 => \A x \in Used : x < c
      /\ e # -1 => e \in Used /\ e \in Slots /\ e >= c /\ \A x \in Used : x >= c => e <= x
  BY <1>3, NextUsed
<1>5. CASE Len(l) = n \/ e = -1
  <2>1. ListTurn(s, n) = s
    BY <1>5 DEF ListTurn
  <2>2. Len(l) = n \/ \A x \in Used : x < c
    BY <1>4, <1>5
  <2> QED BY <1>1, <2>1, <2>2 DEF Listed
<1>6. CASE Len(l) # n /\ e # -1
  <2> DEFINE a == IF root[e].system THEN l ELSE Append(l, e)
             u == [current |-> e + 1, files |-> a]
  <2>1. e \in Used /\ e \in Slots /\ e \in Nat /\ e >= c
    BY <1>2, <1>4, <1>6
  <2>2. ListTurn(s, n) = u
    BY <1>6 DEF ListTurn
  <2>3. u \in ListStates
    <3>1. ListTurn(s, n) \in ListStates
      BY <1>1, ListTurnType
    <3> HIDE DEF u
    <3> QED BY <2>2, <3>1
  <2> HIDE DEF c, l, e
  <2>4. u.current = e + 1 /\ u.files = a
    OBVIOUS
  <2>5. e + 1 >= o + i \/ \A x \in Used : x < e + 1
    <3>1. ~(\A x \in Used : x < c)
      BY <1>3, <2>1
    <3>2. c >= o + (i - 1)
      BY <1>1, <1>6, <3>1
    <3> QED BY <1>2, <1>3, <2>1, <3>2
  <2>6. o <= e + 1
    BY <1>1, <1>2, <1>3, <2>1
  <2>7. ASSUME NEW x \in Visible, o <= x, x < e + 1, x # e
        PROVE  \E k \in 1 .. Len(l) : l[k] = x
    <3>1. x \in Nat /\ x \in Used
      BY <1>2
    <3>2. x < c
      BY <1>3, <1>4, <1>6, <2>1, <2>7, <3>1
    <3> QED BY <1>1, <2>7, <3>2
  <2>8. CASE root[e].system
    <3>1. a = l /\ e \notin Visible
      BY <2>8 DEF Visible
    <3> HIDE DEF a, u
    <3>2. Len(l) <= (e + 1) - o
      BY <1>1, <1>2, <1>3, <2>1
    <3>3. \A k \in 1 .. Len(l) : l[k] \in Visible /\ o <= l[k] /\ l[k] < e + 1
      <4> TAKE k \in 1 .. Len(l)
      <4>1. l[k] \in Visible /\ o <= l[k] /\ l[k] < c /\ l[k] \in Nat
        BY <1>1, <1>2
      <4> QED BY <1>3, <2>1, <4>1
    <3>4. \A x \in Visible : o <= x /\ x < e + 1 => \E k \in 1 .. Len(l) : l[k] = x
      <4> TAKE x \in Visible
      <4>1. x # e
        BY <3>1
      <4> QED BY <2>7, <4>1
    <3>5. Listed(i, u, n, o)
      BY <1>1, <2>3, <2>4, <2>5, <2>6, <3>1, <3>2, <3>3, <3>4 DEF Listed
    <3> QED BY <2>2, <3>5
  <2>9. CASE ~root[e].system
    <3>1. a = Append(l, e) /\ e \in Visible
      BY <2>1, <2>9 DEF Visible
    <3> HIDE DEF a, u
    <3>2. /\ Len(a) = Len(l) + 1 /\ a[Len(l) + 1] = e
          /\ \A k \in 1 .. Len(l) : a[k] = l[k]
          /\ \A k \in 1 .. Len(a) : k \in 1 .. Len(l) \/ k = Len(l) + 1
      <4>1. e \in Slots
        BY <2>1
      <4> QED BY <1>3, <3>1, <4>1
    <3>3. Len(a) <= (e + 1) - o /\ Len(a) <= n
      BY <1>1, <1>2, <1>3, <1>6, <2>1, <3>2
    <3>4. \A k \in 1 .. Len(l) : /\ a[k] = l[k] /\ l[k] \in Nat /\ l[k] \in Visible
                                 /\ o <= l[k] /\ l[k] < c
      BY <1>1, <1>2, <3>2
    <3>5. ASSUME NEW k \in 1 .. Len(a) PROVE a[k] \in Visible /\ o <= a[k] /\ a[k] < e + 1
      <4>1. CASE k = Len(l) + 1
        BY <1>1, <1>2, <1>3, <2>1, <3>1, <3>2, <4>1
      <4>2. CASE k \in 1 .. Len(l)
        <5>1. a[k] = l[k] /\ l[k] \in Nat /\ l[k] \in Visible /\ o <= l[k] /\ l[k] < c
          BY <3>4, <4>2
        <5> QED BY <1>3, <2>1, <5>1
      <4> QED BY <3>2, <4>1, <4>2
    <3>6. ASSUME NEW k \in 1 .. Len(a), NEW m \in 1 .. Len(a), k < m PROVE a[k] < a[m]
      <4>1. k \in 1 .. Len(l)
        BY <1>3, <3>2, <3>6
      <4>2. CASE m \in 1 .. Len(l)
        BY <1>1, <3>2, <3>6, <4>1, <4>2
      <4>3. CASE m = Len(l) + 1
        <5>1. a[k] \in Nat /\ a[k] < c /\ a[m] = e
          BY <3>2, <3>4, <4>1, <4>3
        <5> QED BY <1>3, <2>1, <5>1
      <4> QED BY <3>2, <4>2, <4>3
    <3>7. ASSUME NEW x \in Visible, o <= x, x < e + 1
          PROVE  \E k \in 1 .. Len(a) : a[k] = x
      <4>1. CASE x = e
        <5>1. Len(l) + 1 \in 1 .. Len(a)
          BY <1>3, <3>2
        <5> QED BY <3>2, <4>1, <5>1
      <4>2. CASE x # e
        <5>1. PICK k \in 1 .. Len(l) : l[k] = x
          BY <2>7, <3>7, <4>2
        <5>2. k \in 1 .. Len(a) /\ a[k] = x
          BY <1>3, <3>2, <5>1
        <5> QED BY <5>2
      <4> QED BY <4>1, <4>2
    <3>8. Listed(i, u, n, o)
      BY <2>3, <2>4, <2>5, <2>6, <3>3, <3>5, <3>6, <3>7 DEF Listed
    <3> QED BY <2>2, <3>8
  <2> QED BY <2>8, <2>9
<1> QED BY <1>5, <1>6

(* What fat_fs_list answers: the first visible files from entry o on, and  *)
(* all of them unless it has n.                                            *)
LEMMA ListAnswers ==
  ASSUME FatInv, NEW n \in Nat, NEW o \in 0 .. ENTRIES
  PROVE  LET l == fat_fs_list(n, o) IN
         \E b \in 0 .. ENTRIES :
           /\ l \in Seq(Slots) /\ Len(l) <= n /\ Len(l) <= b - o
           /\ \A k \in 1 .. Len(l) : l[k] \in Visible /\ o <= l[k] /\ l[k] < b
           /\ \A k, m \in 1 .. Len(l) : k < m => l[k] < l[m]
           /\ \A x \in Visible : o <= x /\ x < b => \E k \in 1 .. Len(l) : l[k] = x
           /\ Len(l) = n \/ \A x \in Visible : x < b
<1> DEFINE l == fat_fs_list(n, o)
<1>1. ENTRIES \in Nat /\ o \in Nat /\ \A x \in Used : x \in Nat /\ x < ENTRIES
  BY SlotsAre DEF Used
<1>2. PICK h \in [0 .. ENTRIES -> ListStates] :
        /\ h[0] = [current |-> o, files |-> <<>>]
        /\ \A i \in 1 .. ENTRIES : i - 1 \in 0 .. ENTRIES /\ h[i] = ListTurn(h[i - 1], n)
        /\ l = h[ENTRIES].files
  BY <1>1, ListRuns
<1> HIDE DEF l
<1> DEFINE E == {i \in 0 .. ENTRIES : Listed(i, h[i], n, o)}
<1>3. 0 \in E
  <2>1. h[0] \in ListStates /\ h[0].current = o /\ h[0].files = <<>> /\ Len(<<>>) = 0
    BY <1>1, <1>2
  <2>2. \A x \in Visible : x \in Nat
    BY <1>1 DEF Visible
  <2>3. \A x \in Visible : ~(o <= x /\ x < o)
    BY <1>1, <2>2
  <2>4. o <= o /\ 0 <= o - o /\ o >= o + 0 /\ 0 <= n
    BY <1>1
  <2> QED BY <1>1, <2>1, <2>3, <2>4 DEF Listed
<1>4. ASSUME NEW i \in 1 .. ENTRIES, i - 1 \in E PROVE i \in E
  <2>1. i \in 0 .. ENTRIES /\ h[i] = ListTurn(h[i - 1], n) /\ Listed(i - 1, h[i - 1], n, o)
    BY <1>1, <1>2, <1>4
  <2>2. Listed(i, h[i], n, o)
    BY <2>1, ListedTurn
  <2> QED BY <2>1, <2>2
<1> HIDE DEF E
<1>5. ENTRIES \in E
  <2>1. \A i \in 0 .. ENTRIES : i \in E
    BY <1>1, <1>3, <1>4, UpTo
  <2> QED BY <1>1, <2>1
<1> DEFINE s == h[ENTRIES]
<1>6. Listed(ENTRIES, s, n, o)
  BY <1>5 DEF E
<1>7. s.files = l
  BY <1>2
<1> HIDE DEF s
<1>8. s.files \in Seq(Slots) /\ s.current \in 0 .. ENTRIES /\ s.current \in Nat
  BY <1>1, <1>6 DEF Listed, ListStates
<1>9. Len(l) = n \/ \A x \in Visible : x < s.current
  <2>1. CASE s.current >= o + ENTRIES
    <3>1. s.current >= ENTRIES
      BY <1>1, <1>8, <2>1
    <3>2. \A x \in Visible : x \in Nat /\ x < ENTRIES
      BY <1>1 DEF Visible
    <3> QED BY <1>1, <1>8, <3>1, <3>2
  <2>2. CASE \A x \in Used : x < s.current
    BY <2>2 DEF Visible
  <2> QED BY <1>6, <1>7, <2>1, <2>2 DEF Listed
<1> QED BY <1>6, <1>7, <1>8, <1>9 DEF Listed, l

(* Asked for one file from entry o on, the list has the next visible one.  *)
LEMMA ListOne ==
  ASSUME FatInv, NEW o \in 0 .. ENTRIES
  PROVE  LET l == fat_fs_list(1, o) IN
         \/ l = <<>> /\ \A x \in Visible : x < o
         \/ \E e \in Visible : l = <<e>> /\ o <= e /\ \A x \in Visible : o <= x => e <= x
<1> DEFINE l == fat_fs_list(1, o)
<1>1. PICK b \in 0 .. ENTRIES :
        /\ l \in Seq(Slots) /\ Len(l) <= 1
        /\ \A k \in 1 .. Len(l) : l[k] \in Visible /\ o <= l[k] /\ l[k] < b
        /\ \A k, m \in 1 .. Len(l) : k < m => l[k] < l[m]
        /\ \A x \in Visible : o <= x /\ x < b => \E k \in 1 .. Len(l) : l[k] = x
        /\ Len(l) = 1 \/ \A x \in Visible : x < b
  <2>1. 1 \in Nat
    OBVIOUS
  <2> QED BY <2>1, ListAnswers
<1>2. o \in Nat /\ b \in Nat /\ \A x \in Visible : x \in Nat
  BY SlotsAre DEF Visible, Used
<1> HIDE DEF l
<1>3. Len(l) = 0 \/ Len(l) = 1
  <2> DEFINE n == Len(l)
  <2>1. n \in Nat /\ n <= 1
    BY <1>1
  <2> HIDE DEF n
  <2>2. n = 0 \/ n = 1
    BY <2>1
  <2> QED BY <2>2 DEF n
<1>4. CASE Len(l) = 0
  <2>1. l = <<>>
    BY <1>1, <1>4
  <2>2. ASSUME NEW x \in Visible PROVE x < o
    <3>1. x < b /\ ~(\E k \in 1 .. Len(l) : l[k] = x)
      BY <1>1, <1>4
    <3> QED BY <1>1, <1>2, <3>1
  <2> QED BY <2>1, <2>2 DEF l
<1>5. CASE Len(l) = 1
  <2> DEFINE e == l[1]
  <2>1. 1 \in 1 .. Len(l) /\ \A k \in 1 .. Len(l) : k = 1
    BY <1>5
  <2>2. e \in Visible /\ o <= e /\ e < b /\ l = <<e>>
    BY <1>1, <1>5, <2>1
  <2>3. \A x \in Visible : o <= x /\ x < b => x = e
    BY <1>1, <2>1
  <2> HIDE DEF e
  <2>4. ASSUME NEW x \in Visible, o <= x PROVE e <= x
    BY <1>2, <2>2, <2>3, <2>4
  <2> QED BY <2>2, <2>4 DEF l
<1> QED BY <1>3, <1>4, <1>5

(* find_file, which asks for one file at a time, finds the visible files.  *)
LEMMA FindsFile ==
  ASSUME FatInv, NEW e \in Slots
  PROVE  find_file(e) <=> e \in Visible
<1>1. e \in Nat /\ e \in 0 .. ENTRIES /\ \A x \in Visible : x \in Nat
  BY SlotsAre DEF Visible, Used
<1>2. ASSUME find_file(e) PROVE e \in Visible
  <2>1. PICK i \in 0 .. ENTRIES : fat_fs_list(1, i) = <<e>>
    BY <1>2 DEF find_file
  <2>2. <<e>> # <<>>
    OBVIOUS
  <2>3. PICK y \in Visible : <<e>> = <<y>>
    BY <2>1, <2>2, ListOne
  <2>4. e = y
    BY <2>3
  <2> QED BY <2>4
<1>3. ASSUME e \in Visible PROVE find_file(e)
  <2>1. fat_fs_list(1, e) = <<e>>
    <3>1. ~(e < e) /\ e <= e
      BY <1>1
    <3>2. PICK y \in Visible : /\ fat_fs_list(1, e) = <<y>> /\ e <= y
                               /\ \A x \in Visible : e <= x => y <= x
      BY <1>1, <1>3, <3>1, ListOne
    <3>3. y <= e /\ y \in Nat
      BY <1>1, <1>3, <3>1, <3>2
    <3>4. y = e
      BY <1>1, <3>2, <3>3
    <3> QED BY <3>2, <3>4
  <2>2. ASSUME NEW j \in 0 .. e - 1 PROVE fat_fs_list(1, j) # <<>>
    <3>1. j \in 0 .. ENTRIES /\ ~(e < j)
      BY <1>1, SlotsAre
    <3>2. PICK y : fat_fs_list(1, j) = <<y>>
      BY <1>3, <3>1, ListOne
    <3>3. <<y>> # <<>>
      OBVIOUS
    <3> QED BY <3>2, <3>3
  <2> QED BY <1>1, <2>1, <2>2 DEF find_file
<1> QED BY <1>2, <1>3

(* Asked for all files, the list has the visible ones, once and in order.  *)
LEMMA ListsAll ==
  ASSUME FatInv
  PROVE  LET l == fat_fs_list(ENTRIES, 0) IN
         /\ {l[i] : i \in 1 .. Len(l)} = Visible
         /\ \A i, j \in 1 .. Len(l) : i < j => l[i] < l[j]
<1> DEFINE l == fat_fs_list(ENTRIES, 0)
<1>1. ENTRIES \in Nat /\ 0 \in 0 .. ENTRIES /\ \A x \in Visible : x \in Nat /\ x < ENTRIES
  BY SlotsAre DEF Used, Visible
<1>2. PICK b \in 0 .. ENTRIES :
        /\ l \in Seq(Slots) /\ Len(l) <= b - 0
        /\ \A k \in 1 .. Len(l) : l[k] \in Visible /\ 0 <= l[k] /\ l[k] < b
        /\ \A k, m \in 1 .. Len(l) : k < m => l[k] < l[m]
        /\ \A x \in Visible : 0 <= x /\ x < b => \E k \in 1 .. Len(l) : l[k] = x
        /\ Len(l) = ENTRIES \/ \A x \in Visible : x < b
  BY <1>1, ListAnswers
<1> HIDE DEF l
<1>3. \A x \in Visible : 0 <= x /\ x < b
  <2>1. CASE Len(l) = ENTRIES
    <3>1. b = ENTRIES
      BY <1>1, <1>2, <2>1
    <3> QED BY <1>1, <3>1
  <2>2. CASE \A x \in Visible : x < b
    BY <1>1, <2>2
  <2> QED BY <1>2, <2>1, <2>2
<1>4. {l[i] : i \in 1 .. Len(l)} = Visible
  BY <1>2, <1>3
<1> QED BY <1>2, <1>4 DEF l

(* Whatever is added, written and removed, wherever the disk fills up and  *)
(* whatever its directory was marked with before it was formatted: on a    *)
(* disk of any size the chains of fat16.c stay whole, none of its asserts  *)
(* fails, fs_list and the shell's find_file find exactly the files that    *)
(* are not marked as the system's, once and in order, and cat shows the    *)
(* bytes of every file up to the size of its buffer, and of every file if  *)
(* the buffer is a number of whole clusters.                               *)
THEOREM FilesAlwaysWhole == FatSpec => []FilesWhole
<1>1. FatInv => FilesWhole
  <2> SUFFICES ASSUME FatInv PROVE FilesWhole
    OBVIOUS
  <2>1. ListExact
    BY FindsFile, ListsAll DEF ListExact
  <2> QED BY <2>1, CatWorks, InvPartition DEF FilesWhole
<1> QED BY <1>1, FatAlways, PTL
=============================================================================
