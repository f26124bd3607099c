--------------------------- MODULE DebuggerProofs ----------------------------
(***************************************************************************)
(* Theorems about the kernel's debugger: under any order of traps, keys    *)
(* and commands gdb gets the traps of the program and the program its      *)
(* screen (TrapsHandled), and the two never disagree on the registers, on  *)
(* the memory or on how far the program was to run (ProgramAgrees).        *)
(***************************************************************************)
EXTENDS GdbStub, ListLemmas

(* What keeps TrapsHandled: the conversation is entered with do_debug set, *)
(* and during the register dump the program's screen is in video_mem.      *)
Handling ==
  /\ connected \in BOOLEAN /\ do_debug \in BOOLEAN
  /\ pc \in {"run", "trace", "dump", "converse", "down"}
  /\ pc = "converse" => do_debug
  /\ pc = "dump" => video_mem = shown
  /\ TrapsHandled

LEMMA HandlingInit == StubInit => Handling
BY DEF StubInit, Handling, TrapsHandled, ConnectedDebugs, ScreenBack

(* A trap goes to gdb or to the dump, which saves the screen. *)
LEMMA TrapHandling ==
  ASSUME NEW n, Handling, pc \in {"run", "trace"}, trap_handler(n)
  PROVE  Handling'
<1> USE DEF Handling, TrapsHandled, ConnectedDebugs, ScreenBack
<1>1. CASE do_debug
  BY <1>1 DEF trap_handler, debugger
<1>2. CASE ~do_debug
  BY <1>2 DEF trap_handler, dbg
<1> QED BY <1>1, <1>2

LEMMA MachineHandling ==
  ASSUME Handling, Machine
  PROVE  Handling'
<1> USE DEF Handling, TrapsHandled, ConnectedDebugs, ScreenBack
<1>1. CASE Instruction
  BY <1>1 DEF Instruction, dbg
<1>2. CASE Trace \/ Exception
  BY <1>2, TrapHandling DEF Trace, Exception
<1>3. CASE Reboot \/ KeyEscape
  BY <1>3 DEF Reboot, KeyEscape, reboot
<1>4. CASE KeySpace
  BY <1>4 DEF KeySpace, dbg
<1>5. CASE KeyI
  BY <1>5 DEF KeyI, dbg
<1>6. CASE KeyD
  BY <1>6 DEF KeyD, debugger
<1> QED BY <1>1, <1>2, <1>3, <1>4, <1>5, <1>6 DEF Machine

(* A command is answered, or ends the conversation in one of four ways. *)
Leaves(p) == Continue(p) \/ Detach(p) \/ Restart(p) \/ Kill(p)
Goes(p) ==
  \/ Thread(p) \/ ReadRegs(p) \/ WriteRegs(p) \/ WriteReg(p) \/ ReadMem(p) \/ WriteMem(p)
  \/ WriteBinary(p) \/ BadSignal(p) \/ Query(p) \/ ToggleDebug(p) \/ Other(p)

LEMMA CommandKinds ==
  ASSUME NEW S, CommandOf(S)
  PROVE  pc = "converse" /\ \E p \in S : Leaves(p) \/ Goes(p)
BY DEF CommandOf, Leaves, Goes

(* What every answer leaves alone. *)
Answers ==
  /\ connected' = TRUE
  /\ UNCHANGED <<cpu, do_debug, pc, trapno, d, video, video_mem, shown, asked, ran>>

LEMMA GoesAnswers ==
  ASSUME NEW p, Goes(p)
  PROVE  Answers
<1> USE DEF Answer, Answers
<1>1. CASE Thread(p) \/ ReadRegs(p) \/ ReadMem(p)
  BY <1>1 DEF Thread, ReadRegs, ReadMem
<1>2. CASE WriteRegs(p)
  BY <1>2 DEF WriteRegs
<1>3. CASE WriteReg(p)
  BY <1>3 DEF WriteReg
<1>4. CASE WriteMem(p)
  BY <1>4 DEF WriteMem, Written
<1>5. CASE WriteBinary(p)
  BY <1>5 DEF WriteBinary, Written
<1>6. CASE BadSignal(p) \/ Query(p) \/ ToggleDebug(p) \/ Other(p)
  BY <1>6 DEF BadSignal, Query, ToggleDebug, Other
<1> QED BY <1>1, <1>2, <1>3, <1>4, <1>5, <1>6 DEF Goes

LEMMA CommandHandling ==
  ASSUME Handling, CommandOf(Commands)
  PROVE  Handling'
<1> USE DEF Handling, TrapsHandled, ConnectedDebugs, ScreenBack
<1>1. PICK p \in Commands : Leaves(p) \/ Goes(p)
  BY CommandKinds
<1>2. pc = "converse"
  BY CommandKinds
<1>3. CASE Goes(p)
  BY <1>2, <1>3, GoesAnswers DEF Answers
<1>4. CASE Continue(p)
  BY <1>2, <1>4 DEF Continue, Leave
<1>5. CASE Detach(p) \/ Restart(p)
  BY <1>2, <1>5 DEF Detach, Restart, Leave
<1>6. CASE Kill(p)
  BY <1>2, <1>6 DEF Kill
<1> QED BY <1>1, <1>3, <1>4, <1>5, <1>6 DEF Leaves

(* trap_handler, debugger and gdb_serial_converse: whatever the order of   *)
(* traps, keys of the dump and commands, a connected gdb gets every trap,  *)
(* and the program has its own screen back whenever it runs.  For every    *)
(* program and every set of packets, also malformed ones.                  *)
THEOREM TrapsAlwaysHandled == StubSpec => []TrapsHandled
<1>1. StubInit => Handling
  BY HandlingInit
<1>2. Handling /\ [StubNext]_stub_vars => Handling'
  <2>1. ASSUME Handling, UNCHANGED stub_vars PROVE Handling'
    BY <2>1 DEF Handling, TrapsHandled, ConnectedDebugs, ScreenBack, stub_vars, dbg
  <2> QED BY <2>1, MachineHandling, CommandHandling DEF StubNext
<1>3. Handling => TrapsHandled
  BY DEF Handling
<1> QED BY <1>1, <1>2, <1>3, PTL DEF StubSpec

-----------------------------------------------------------------------------
(* The registers.                                                          *)

(* What keeps the registers and the course of the program: a task under a  *)
(* step has its trace flag set and has not run yet, or is stopped; one     *)
(* that goes on has it clear.                                              *)
InCourse ==
  /\ cpu \in Regs /\ state \in Regs /\ told \in Regs
  /\ signo \in 0 .. NSIG - 1 /\ ran \in Nat
  /\ regs_changed \in BOOLEAN /\ connected \in BOOLEAN /\ do_debug \in BOOLEAN
  /\ pc \in {"run", "trace", "dump", "converse", "down"} /\ d \in BOOLEAN
  /\ video \in {"before", "after", "dump"} /\ video_mem \in {"before", "after", "dump"}
  /\ RegistersAgree
  /\ asked = "step" => ran <= 1 /\ (pc = "run" => ran = 0 /\ cpu.tf)
  /\ asked \in {"start", "cont"} => pc # "trace" /\ (pc = "run" => ~cpu.tf)

LEMMA CourseInit == StubInit => InCourse
<1> SUFFICES ASSUME StubInit PROVE InCourse
  OBVIOUS
<1>1. cpu \in [eip : {0}, eax : {0}, tf : {FALSE}] /\ state = cpu /\ told = cpu
  BY DEF StubInit
<1>2. cpu \in Regs
  <2>1. 0 \in 0 .. NEip - 1 /\ 0 \in 0 .. 1
    BY StubAssumption
  <2>2. [eip |-> 0, eax |-> 0, tf |-> FALSE] \in Regs
    BY <2>1 DEF Regs
  <2>3. cpu = [eip |-> 0, eax |-> 0, tf |-> FALSE]
    BY <1>1
  <2> QED BY <2>2, <2>3
<1>3. cpu.tf = FALSE
  BY <1>1
<1>4. RegistersAgree
  BY <1>1 DEF RegistersAgree
<1>5. signo \in 0 .. NSIG - 1 /\ ran \in Nat
  BY StubAssumption DEF StubInit
<1>6. /\ regs_changed \in BOOLEAN /\ connected \in BOOLEAN /\ do_debug \in BOOLEAN
      /\ d \in BOOLEAN
      /\ pc \in {"run", "trace", "dump", "converse", "down"}
      /\ video \in {"before", "after", "dump"} /\ video_mem \in {"before", "after", "dump"}
  BY DEF StubInit
<1>7. asked = "start" /\ pc = "run"
  BY DEF StubInit
<1> QED BY <1>1, <1>2, <1>3, <1>4, <1>5, <1>6, <1>7 DEF InCourse

LEMMA SignalRange == \A n : Signal(n) \in 0 .. NSIG - 1
BY StubAssumption DEF Signal

(* The registers change in a few ways: those of the task to an instruction *)
(* further, those of the conversation to what gdb has been told.           *)
LEMMA TrapCourse ==
  ASSUME NEW n, InCourse, pc \in {"run", "trace"}, trap_handler(n)
  PROVE  InCourse'
<1> USE DEF InCourse, RegistersAgree
<1>1. CASE do_debug
  BY <1>1, SignalRange DEF trap_handler, debugger
<1>2. CASE ~do_debug
  BY <1>2 DEF trap_handler, dbg
<1> QED BY <1>1, <1>2

LEMMA InstructionCourse ==
  ASSUME InCourse, Instruction
  PROVE  InCourse'
<1> USE DEF InCourse, RegistersAgree
<1>1. cpu' \in Regs /\ cpu'.tf = cpu.tf
  <2>1. (cpu.eip + 1) % NEip \in 0 .. NEip - 1
    BY StubAssumption DEF Regs
  <2> QED BY <2>1 DEF Instruction, Regs
<1>2. ran' \in 1 .. ran + 1
  BY DEF Instruction, Least
<1> QED BY <1>1, <1>2 DEF Instruction, dbg

LEMMA MachineCourse ==
  ASSUME InCourse, Machine
  PROVE  InCourse'
<1>1. CASE Instruction
  BY <1>1, InstructionCourse
<1>2. CASE Trace \/ Exception
  BY <1>2, TrapCourse DEF Trace, Exception
<1> USE DEF InCourse, RegistersAgree
<1>3. CASE Reboot \/ KeyEscape
  BY <1>3 DEF Reboot, KeyEscape, reboot
<1>4. CASE KeySpace
  BY <1>4 DEF KeySpace, dbg
<1>5. CASE KeyI
  BY <1>5 DEF KeyI, dbg
<1>6. CASE KeyD
  BY <1>6, SignalRange DEF KeyD, debugger
<1> QED BY <1>1, <1>2, <1>3, <1>4, <1>5, <1>6 DEF Machine

(* A command that is answered has told gdb what it made of the registers.  *)
LEMMA GoesRegisters ==
  ASSUME InCourse, pc = "converse", NEW p, Proper(p), Goes(p)
  PROVE  /\ state' \in Regs /\ told' = state'
         /\ signo' = signo /\ regs_changed' \in BOOLEAN
<1> USE DEF InCourse, RegistersAgree
<1>1. CASE Thread(p) \/ ReadRegs(p) \/ ReadMem(p)
  BY <1>1 DEF Thread, ReadRegs, ReadMem
<1>2. CASE WriteRegs(p)
  <2>1. p.regs \in Regs
    BY <1>2 DEF WriteRegs, Proper
  <2>2. CASE p.ok
    BY <1>2, <2>1, <2>2 DEF WriteRegs
  <2>3. CASE ~p.ok
    <3>1. p.regs.eax \in 0 .. 1
      BY <2>1 DEF Regs
    <3>2. [state EXCEPT !.eax = p.regs.eax] \in Regs
      BY <3>1 DEF Regs
    <3> QED BY <1>2, <2>3, <3>2 DEF WriteRegs
  <2> QED BY <2>2, <2>3
<1>3. CASE WriteReg(p)
  <2> DEFINE st == [state EXCEPT ![p.reg] = p.val]
  <2>1. p.reg \in {"eip", "eax"} => st \in Regs
    <3>1. CASE p.reg = "eip"
      <4>1. p.val \in 0 .. NEip - 1
        BY <1>3, <3>1 DEF WriteReg, Proper
      <4>2. [state EXCEPT !.eip = p.val] \in Regs
        BY <4>1 DEF Regs
      <4> QED BY <3>1, <4>2
    <3>2. CASE p.reg = "eax"
      <4>1. p.val \in 0 .. 1
        BY <1>3, <3>2 DEF WriteReg, Proper
      <4>2. [state EXCEPT !.eax = p.val] \in Regs
        BY <4>1 DEF Regs
      <4> QED BY <3>2, <4>2
    <3> QED BY <3>1, <3>2
  <2>2. [told EXCEPT ![p.reg] = p.val] = st
    OBVIOUS
  <2> HIDE DEF st
  <2> QED BY <1>3, <2>1, <2>2 DEF WriteReg, st
<1>4. CASE WriteMem(p) \/ WriteBinary(p)
  BY <1>4 DEF WriteMem, WriteBinary
<1>5. CASE BadSignal(p) \/ Query(p) \/ ToggleDebug(p) \/ Other(p)
  BY <1>5 DEF BadSignal, Query, ToggleDebug, Other
<1> QED BY <1>1, <1>2, <1>3, <1>4, <1>5 DEF Goes

(* c, s, C and S: gdb knows the registers the task goes on with. *)
LEMMA ContinueCourse ==
  ASSUME InCourse, pc = "converse", NEW p, Proper(p), Continue(p)
  PROVE  InCourse'
<1> USE DEF InCourse, RegistersAgree
<1> DEFINE step == p.c \in {"s", "S"}
           moved == IF p.eip # -1 THEN [state EXCEPT !.eip = p.eip] ELSE state
           st == [moved EXCEPT !.tf = step]
<1>1. p.c \in {"c", "s", "C", "S"} /\ p.eip \in -1 .. NEip - 1
  BY DEF Continue, Proper
<1>2. moved \in Regs
  BY <1>1, StubAssumption DEF Regs
<1>3. step \in BOOLEAN
  OBVIOUS
<1>4. st \in Regs /\ st.tf = step
  <2> HIDE DEF moved, step
  <2> QED BY <1>2, <1>3 DEF Regs
<1>5. told' = st
  <2>1. told' = [state EXCEPT !.eip = IF p.eip # -1 THEN p.eip ELSE @, !.tf = step]
    BY DEF Continue
  <2>2. CASE p.eip # -1
    <3>1. told' = [state EXCEPT !.eip = p.eip, !.tf = step]
      BY <2>1, <2>2
    <3> HIDE DEF step
    <3>2. [state EXCEPT !.eip = p.eip, !.tf = step] = [[state EXCEPT !.eip = p.eip] EXCEPT !.tf = step]
      BY DEF Regs
    <3> QED BY <2>2, <3>1, <3>2
  <2>3. CASE p.eip = -1
    <3>1. told' = [state EXCEPT !.eip = state.eip, !.tf = step]
      BY <2>1, <2>3
    <3> HIDE DEF step
    <3>2. [state EXCEPT !.eip = state.eip, !.tf = step] = [state EXCEPT !.tf = step]
      BY DEF Regs
    <3> QED BY <2>3, <3>1, <3>2
  <2> QED BY <2>2, <2>3
<1>6. cpu' = st /\ state' = st /\ pc' = "run" /\ ran' = 0
  BY DEF Continue, Leave, gdb_set_trace_flag
<1>7. asked' = IF step THEN "step" ELSE "cont"
  BY DEF Continue, Leave
<1>8. signo' \in 0 .. NSIG - 1 /\ connected' = TRUE /\ UNCHANGED <<do_debug, d, video, video_mem>>
  BY StubAssumption DEF Continue, Leave
<1>9. regs_changed' \in BOOLEAN
  BY DEF Continue
<1> HIDE DEF st, step
<1> QED BY <1>4, <1>5, <1>6, <1>7, <1>8, <1>9

LEMMA CommandCourse ==
  ASSUME InCourse, CommandOf(Commands)
  PROVE  InCourse'
<1>1. PICK p \in Commands : Leaves(p) \/ Goes(p)
  BY CommandKinds
<1>2. pc = "converse" /\ Proper(p)
  BY CommandKinds, CommandsAssumption
<1>3. CASE Goes(p)
  <2>1. Answers
    BY <1>3, GoesAnswers
  <2>2. state' \in Regs /\ told' = state' /\ signo' = signo /\ regs_changed' \in BOOLEAN
    BY <1>2, <1>3, GoesRegisters
  <2> QED BY <1>2, <2>1, <2>2 DEF InCourse, RegistersAgree, Answers
<1>4. CASE Continue(p)
  BY <1>2, <1>4, ContinueCourse
<1> USE DEF InCourse, RegistersAgree
<1>5. CASE Detach(p)
  <2>1. connected' = FALSE /\ do_debug' = FALSE /\ asked' = "detach"
    BY <1>5 DEF Detach, Leave
  <2>2. /\ cpu' = state /\ state' = state /\ pc' = "run" /\ ran' = 0
        /\ UNCHANGED <<signo, regs_changed, told, d, video, video_mem>>
    BY <1>5 DEF Detach, Leave
  <2> QED BY <1>2, <2>1, <2>2
<1>6. CASE Restart(p)
  <2>1. connected' = FALSE /\ asked' = "rerun"
    BY <1>6 DEF Restart, Leave
  <2>2. /\ cpu' = state /\ state' = state /\ pc' = "run" /\ ran' = 0
        /\ UNCHANGED <<signo, regs_changed, do_debug, told, d, video, video_mem>>
    BY <1>6 DEF Restart, Leave
  <2> QED BY <1>2, <2>1, <2>2
<1>7. CASE Kill(p)
  BY <1>2, <1>7 DEF Kill
<1> QED BY <1>1, <1>3, <1>4, <1>5, <1>6, <1>7 DEF Leaves

-----------------------------------------------------------------------------
(* The page tables.                                                        *)

Super == PageSize * TablePages

(* A virtual address is an offset of a page of an entry. *)
LEMMA AddressParts ==
  ASSUME NEW va \in 0 .. VirtSize - 1
  PROVE  /\ Super \in Nat \ {0}
         /\ va \div Super + 1 \in DOMAIN Pte /\ Pte[va \div Super + 1] \in Entry
         /\ va % Super \in 0 .. Super - 1
         /\ (va % Super) \div PageSize + 1 \in 1 .. TablePages
         /\ va % PageSize \in 0 .. PageSize - 1
<1> DEFINE S == Super
           n == Len(Pte)
<1>1. PageSize \in Nat \ {0} /\ TablePages \in Nat \ {0} /\ n \in Nat /\ Pte \in Seq(Entry)
  BY TablesAssumption
<1>2. S \in Nat \ {0} /\ VirtSize = S * n /\ VirtSize \in Nat
  BY <1>1, SMT DEF Super, VirtSize
<1> HIDE DEF S
<1>3. va \in Nat /\ va < S * n
  BY <1>2
<1>4. va \div S \in 0 .. n - 1 /\ va % S \in 0 .. S - 1
  BY <1>1, <1>2, <1>3, QuotientRange
<1>5. DOMAIN Pte = 1 .. n
  BY <1>1
<1>6. va \div S + 1 \in DOMAIN Pte
  BY <1>1, <1>4, <1>5
<1>7. Pte[va \div S + 1] \in Entry
  BY <1>1, <1>6
<1>8. (va % S) \div PageSize \in 0 .. TablePages - 1
  <2>1. va % S \in Nat /\ va % S < PageSize * TablePages
    BY <1>4, <1>2 DEF S, Super
  <2> QED BY <1>1, <2>1, QuotientRange
<1>9. va % PageSize \in 0 .. PageSize - 1
  BY <1>1, <1>3, SMT
<1> QED BY <1>1, <1>2, <1>4, <1>6, <1>7, <1>8, <1>9 DEF S

(* What phys_addr_lookup finds is in the physical memory. *)
LEMMA LookupInMemory ==
  ASSUME NEW va \in 0 .. VirtSize - 1
  PROVE  LET a == phys_addr_lookup(va) IN
         /\ a.pa \in Nat /\ a.len \in Nat
         /\ a.len # 0 => a.pa \in 0 .. PhysSize - 1
<1> DEFINE a == phys_addr_lookup(va)
           e == Pte[va \div Super + 1]
           i == (va % Super) \div PageSize + 1
<1>1. /\ PageSize \in Nat \ {0} /\ TablePages \in Nat \ {0} /\ PhysSize \in Nat
      /\ Paging \in BOOLEAN /\ va \in Nat /\ VirtSize \in Int
  <2>1. PageSize \in Nat \ {0} /\ TablePages \in Nat \ {0} /\ PhysSize \in Nat
        /\ Paging \in BOOLEAN /\ Len(Pte) \in Nat
    BY TablesAssumption
  <2> QED BY <2>1 DEF VirtSize
<1>2. /\ Super \in Nat \ {0} /\ va \div Super + 1 \in DOMAIN Pte /\ e \in Entry
      /\ va % Super \in 0 .. Super - 1 /\ i \in 1 .. TablePages
      /\ va % PageSize \in 0 .. PageSize - 1
  BY AddressParts
<1>3. CASE ~Paging
  <2>1. a = [pa |-> va, len |-> PhysSize]
    BY <1>3 DEF phys_addr_lookup
  <2>2. VirtSize <= PhysSize
    BY <1>3, TablesAssumption
  <2> HIDE DEF a
  <2> QED BY <1>1, <2>1, <2>2 DEF a
<1>4. CASE Paging /\ e.kind = "none"
  BY <1>4 DEF phys_addr_lookup, Super
<1>5. CASE Paging /\ e.kind = "super"
  <2>1. a = [pa |-> e.base + (va % Super), len |-> Super - (va % Super)]
    BY <1>5 DEF phys_addr_lookup, Super
  <2>2. e.base \in Nat
    BY <1>2, <1>5 DEF Entry
  <2>3. e.base + Super <= PhysSize
    BY <1>2, <1>5, TablesAssumption DEF Super
  <2> HIDE DEF a, e
  <2> QED BY <1>1, <1>2, <2>1, <2>2, <2>3 DEF a
<1>6. CASE Paging /\ e.kind = "table"
  <2>1. e.pages[i] \in Nat \cup {-1}
    BY <1>2, <1>6 DEF Entry
  <2>2. CASE e.pages[i] < 0
    BY <1>6, <2>2 DEF phys_addr_lookup, Super
  <2>3. CASE e.pages[i] >= 0
    <3>1. a = [pa |-> e.pages[i] + (va % PageSize), len |-> PageSize - (va % PageSize)]
      BY <1>6, <2>1, <2>3 DEF phys_addr_lookup, Super
    <3>2. e.pages[i] + PageSize <= PhysSize
      BY <1>2, <1>6, <2>3, TablesAssumption
    <3> HIDE DEF a, e, i
    <3> QED BY <1>1, <1>2, <2>1, <2>3, <3>1, <3>2 DEF a
  <2> QED BY <2>1, <2>2, <2>3
<1>7. e.kind \in {"none", "super", "table"}
  BY <1>2 DEF Entry
<1> QED BY <1>1, <1>3, <1>4, <1>5, <1>6, <1>7

(* The bytes up to the end of a page lie one after the other. *)
LEMMA Contiguous ==
  ASSUME NEW va \in 0 .. VirtSize - 1, NEW k \in Nat,
         k < phys_addr_lookup(va).len, va + k \in 0 .. VirtSize - 1
  PROVE  /\ phys_addr_lookup(va + k).pa = phys_addr_lookup(va).pa + k
         /\ phys_addr_lookup(va + k).len # 0
<1> DEFINE a == phys_addr_lookup(va)
           b == phys_addr_lookup(va + k)
           e == Pte[va \div Super + 1]
           i == (va % Super) \div PageSize + 1
<1>1. /\ PageSize \in Nat \ {0} /\ TablePages \in Nat \ {0} /\ PhysSize \in Nat
      /\ Paging \in BOOLEAN /\ va \in Nat
  BY TablesAssumption
<1>2. /\ Super \in Nat \ {0} /\ e \in Entry
      /\ va % Super \in 0 .. Super - 1 /\ i \in 1 .. TablePages
      /\ va % PageSize \in 0 .. PageSize - 1
  BY AddressParts
<1>3. CASE ~Paging
  <2>1. a = [pa |-> va, len |-> PhysSize] /\ b = [pa |-> va + k, len |-> PhysSize]
    BY <1>3 DEF phys_addr_lookup
  <2> HIDE DEF a, b
  <2> QED BY <1>1, <2>1 DEF a, b
<1>4. CASE Paging /\ e.kind = "none"
  <2>1. a.len = 0
    BY <1>4 DEF phys_addr_lookup, Super
  <2> QED BY <2>1
<1>5. CASE Paging /\ e.kind = "super"
  <2>1. a = [pa |-> e.base + (va % Super), len |-> Super - (va % Super)]
    BY <1>5 DEF phys_addr_lookup, Super
  <2>0. (va % Super) + k < Super
    <3> HIDE DEF a
    <3> QED BY <1>2, <2>1 DEF a
  <2>2. (va + k) \div Super = va \div Super /\ (va + k) % Super = (va % Super) + k
    BY <1>1, <1>2, <2>0, SameQuotient
  <2>3. b = [pa |-> e.base + ((va % Super) + k), len |-> Super - ((va % Super) + k)]
    BY <1>5, <2>2 DEF phys_addr_lookup, Super
  <2>4. e.base \in Nat
    BY <1>2, <1>5 DEF Entry
  <2> HIDE DEF a, b, e
  <2> QED BY <1>1, <1>2, <2>0, <2>1, <2>3, <2>4 DEF a, b
<1>6. CASE Paging /\ e.kind = "table"
  <2>0. e.pages[i] \in Nat \cup {-1}
    BY <1>2, <1>6 DEF Entry
  <2>1. e.pages[i] >= 0
    <3>1. e.pages[i] < 0 => a.len = 0
      BY <1>6 DEF phys_addr_lookup, Super
    <3> HIDE DEF e, i
    <3> QED BY <2>0, <3>1
  <2>2. a = [pa |-> e.pages[i] + (va % PageSize), len |-> PageSize - (va % PageSize)]
    BY <1>6, <2>0, <2>1 DEF phys_addr_lookup, Super
  <2>3. (va % PageSize) + k < PageSize
    <3> HIDE DEF a
    <3> QED BY <1>1, <1>2, <2>2 DEF a
  <2>4. (va + k) % PageSize = (va % PageSize) + k
    BY <1>1, <2>3, SameQuotient
  <2> DEFINE r == va % Super
             q == r \div PageSize
             o == r % PageSize
  <2>5. q \in 0 .. TablePages - 1 /\ o \in 0 .. PageSize - 1 /\ r = PageSize * q + o
    <3>1. r \in Nat /\ r < PageSize * TablePages
      BY <1>2 DEF Super
    <3> QED BY <1>1, <3>1, QuotientRange
  <2>6. o = va % PageSize
    <3> DEFINE n == va \div Super
    <3>1. n \in Int /\ va = Super * n + r
      BY <1>1, <1>2, SMT
    <3> HIDE DEF r, q, o, n
    <3>2. va = PageSize * (TablePages * n + q) + o /\ TablePages * n + q \in Int
      BY <1>1, <2>5, <3>1, SMT DEF Super
    <3>3. (PageSize * (TablePages * n + q) + o) % PageSize = o
      BY <1>1, <2>5, <3>2, Division
    <3> QED BY <3>2, <3>3
  <2>7. (r + k) \div PageSize = q
    <3>1. r \in Nat /\ (r % PageSize) + k < PageSize
      BY <1>2, <2>3, <2>6
    <3> QED BY <1>1, <3>1, SameQuotient
  <2>8. r + k < Super
    <3> HIDE DEF r, q, o
    <3>1. PageSize * (q + 1) <= PageSize * TablePages
      BY <1>1, <2>5, SMT
    <3>2. r + k = PageSize * q + o + k /\ o + k < PageSize
      BY <1>1, <2>3, <2>5, <2>6
    <3>3. PageSize * (q + 1) = PageSize * q + PageSize
      BY <1>1, <2>5, SMT
    <3> QED BY <1>1, <2>5, <3>1, <3>2, <3>3, SMT DEF Super
  <2>9. (va + k) \div Super = va \div Super /\ (va + k) % Super = r + k
    BY <1>1, <1>2, <2>8, SameQuotient
  <2>10. b = [pa |-> e.pages[i] + ((va % PageSize) + k), len |-> PageSize - ((va % PageSize) + k)]
    <3>1. ((va + k) % Super) \div PageSize + 1 = i
      BY <2>7, <2>9
    <3> QED BY <1>6, <2>0, <2>1, <2>4, <2>9, <3>1 DEF phys_addr_lookup, Super
  <2> HIDE DEF a, b, e, i
  <2> QED BY <1>1, <1>2, <2>0, <2>1, <2>2, <2>3, <2>10 DEF a, b
<1>7. e.kind \in {"none", "super", "table"}
  BY <1>2 DEF Entry
<1> QED BY <1>1, <1>3, <1>4, <1>5, <1>6, <1>7

-----------------------------------------------------------------------------
(* gdb_copyout.                                                            *)

Memories == [0 .. PhysSize - 1 -> Byte]
Copies(src) == [fail : BOOLEAN, m : Memories, done : 0 .. Len(src)]

(* An image of the virtual memory with the first n bytes of src at va. *)
Overlaid(image, src, va, n) ==
  [v \in 0 .. VirtSize - 1 |-> IF v \in va .. va + n - 1 THEN src[v - va + 1] ELSE image[v]]

(* The bytes written so far, and no others, show. *)
Shows(t, m, src, va) ==
  t \in Copies(src) /\ Image(t.m) = Overlaid(Image(m), src, va, t.done)

LEMMA LeastRange ==
  ASSUME NEW x \in Nat \ {0}, NEW y \in Nat \ {0}
  PROVE  Least(x, y) \in 1 .. y /\ Least(x, y) <= x
BY DEF Least

(* Indices of a piece of sz bytes at pa, of which k is one. *)
LEMMA PieceIndex ==
  ASSUME NEW pa \in Nat, NEW sz \in Nat, NEW i \in pa .. pa + sz - 1, NEW done \in Nat,
         NEW n \in Nat, sz <= n - done
  PROVE  /\ done + i - pa + 1 \in 1 .. n
         /\ i - pa \in 0 .. sz - 1 /\ i = pa + (i - pa)
OBVIOUS

LEMMA PieceOffset ==
  ASSUME NEW pa \in Nat, NEW sz \in Nat, NEW k \in 0 .. sz - 1, NEW done \in Nat
  PROVE  pa + k \in pa .. pa + sz - 1 /\ done + (pa + k) - pa + 1 = done + k + 1
OBVIOUS

(* A turn of the loop writes a piece of a page, or fails. *)
LEMMA TurnShows ==
  ASSUME NoAliases, NEW m \in Memories, NEW src \in Seq(Byte), NEW va \in Nat,
         va + Len(src) <= VirtSize,
         NEW t, Shows(t, m, src, va), ~t.fail, t.done # Len(src)
  PROVE  LET u == CopyoutTurn(t, src, va) IN
         Shows(u, m, src, va) /\ (u.fail \/ u.done >= t.done + 1)
<1> DEFINE n == Len(src)
           w == va + t.done
           a == phys_addr_lookup(w)
           sz == Least(a.len, n - t.done)
           u == CopyoutTurn(t, src, va)
           mm == [i \in 0 .. PhysSize - 1 |-> IF i \in a.pa .. a.pa + sz - 1
                                              THEN src[t.done + i - a.pa + 1] ELSE t.m[i]]
<1>1. n \in Nat /\ PhysSize \in Nat /\ VirtSize \in Int
  BY TablesAssumption DEF VirtSize
<1>2. /\ t \in Copies(src) /\ t.fail \in BOOLEAN /\ t.m \in Memories /\ t.done \in 0 .. n
      /\ DOMAIN t.m = 0 .. PhysSize - 1
  BY DEF Shows, Copies, Memories
<1>3. t.done < n /\ w \in 0 .. VirtSize - 1
  BY <1>1, <1>2
<1>4. a.pa \in Nat /\ a.len \in Nat /\ (a.len # 0 => a.pa \in 0 .. PhysSize - 1)
  BY <1>3, LookupInMemory
<1>5. CASE a.len = 0
  <2>1. u = [t EXCEPT !.fail = TRUE]
    BY <1>5 DEF CopyoutTurn
  <2>2. u \in Copies(src) /\ u.fail /\ u.m = t.m /\ u.done = t.done
    <3> HIDE DEF u
    <3> QED BY <1>2, <2>1 DEF Copies
  <2> HIDE DEF u
  <2> QED BY <2>2 DEF Shows, u
<1>6. CASE a.len # 0
  <2>1. sz \in 1 .. n - t.done /\ sz <= a.len
    <3>1. n - t.done \in Nat \ {0} /\ a.len \in Nat \ {0}
      BY <1>1, <1>2, <1>3, <1>4, <1>6
    <3> HIDE DEF a, n
    <3> QED BY <3>1, LeastRange
  <2>0. sz \in Nat /\ sz <= n - t.done /\ t.done \in Nat
    <3> HIDE DEF sz, n
    <3> QED BY <1>1, <1>2, <2>1
  <2>2. u = [t EXCEPT !.done = @ + sz, !.m = mm]
    BY <1>2, <1>6 DEF CopyoutTurn
  <2>3. mm \in Memories
    <3> HIDE DEF a, sz, n
    <3> SUFFICES ASSUME NEW i \in 0 .. PhysSize - 1, i \in a.pa .. a.pa + sz - 1
                 PROVE  src[t.done + i - a.pa + 1] \in Byte
      BY <1>2 DEF Memories
    <3>1. t.done + i - a.pa + 1 \in 1 .. n
      BY <1>1, <1>4, <2>0, PieceIndex
    <3> QED BY <3>1 DEF n
  <2>4. u \in Copies(src) /\ u.fail = t.fail /\ u.m = mm /\ u.done = t.done + sz
    <3> HIDE DEF u, mm, sz, a, n
    <3>1. t.done + sz \in 0 .. n
      BY <1>1, <1>2, <2>1
    <3> QED BY <1>2, <2>2, <2>3, <3>1 DEF Copies, n
  <2> DEFINE old == Overlaid(Image(m), src, va, t.done)
             new == Overlaid(Image(m), src, va, t.done + sz)
  <2>5. Image(t.m) = old
    BY DEF Shows
  <2>6. ASSUME NEW v \in 0 .. VirtSize - 1
        PROVE  Image(mm)[v] = new[v]
    <3> DEFINE b == phys_addr_lookup(v)
    <3>1. b.pa \in Nat /\ b.len \in Nat /\ (b.len # 0 => b.pa \in 0 .. PhysSize - 1)
      BY LookupInMemory
    <3>2. Image(mm)[v] = IF b.len = 0 THEN 0 ELSE mm[b.pa]
      BY DEF Image
    <3>3. old[v] = IF b.len = 0 THEN 0 ELSE t.m[b.pa]
      BY <2>5 DEF Image
    <3>4. /\ old[v] = IF v \in va .. w - 1 THEN src[v - va + 1] ELSE Image(m)[v]
          /\ new[v] = IF v \in va .. w + sz - 1 THEN src[v - va + 1] ELSE Image(m)[v]
      <4>1. va + (t.done + sz) - 1 = w + sz - 1 /\ va + t.done - 1 = w - 1
        BY <1>2, <2>1, <1>1
      <4> QED BY <4>1 DEF Overlaid
    <3>5. CASE v \in w .. w + sz - 1
      <4> DEFINE k == v - w
      <4>1. k \in 0 .. sz - 1 /\ v = w + k /\ k < a.len /\ k \in Nat
        <5> HIDE DEF a, sz, w
        <5> QED BY <1>3, <1>4, <2>1, <3>5
      <4>2. b.pa = a.pa + k /\ b.len # 0
        <5> HIDE DEF k
        <5> QED BY <1>3, <4>1, Contiguous
      <4>3. mm[b.pa] = src[t.done + k + 1]
        <5>1. b.pa \in 0 .. PhysSize - 1 /\ b.pa \in a.pa .. a.pa + sz - 1
              /\ t.done + b.pa - a.pa + 1 = t.done + k + 1
          <6> HIDE DEF a, b, sz, k
          <6>1. /\ a.pa + k \in a.pa .. a.pa + sz - 1
                /\ t.done + (a.pa + k) - a.pa + 1 = t.done + k + 1
            <7> DEFINE pa == a.pa
                       dn == t.done
            <7>1. pa \in Nat /\ dn \in Nat /\ sz \in Nat /\ k \in 0 .. sz - 1
              BY <1>4, <2>0, <4>1
            <7> HIDE DEF pa, dn
            <7>2. pa + k \in pa .. pa + sz - 1 /\ dn + (pa + k) - pa + 1 = dn + k + 1
              BY <7>1, PieceOffset
            <7> QED BY <7>2 DEF pa, dn
          <6>2. b.pa \in 0 .. PhysSize - 1
            BY <3>1, <4>2
          <6> QED BY <4>2, <6>1, <6>2
        <5>2. mm[b.pa] = src[t.done + b.pa - a.pa + 1]
          <6> HIDE DEF a, b, sz, k
          <6> QED BY <5>1
        <5> HIDE DEF a, b, sz, k, mm
        <5> QED BY <5>1, <5>2
      <4>4. t.done + k + 1 = v - va + 1 /\ v \in va .. w + sz - 1
        <5> HIDE DEF sz
        <5> QED BY <1>1, <1>2, <2>1, <3>5
      <4> HIDE DEF mm, b, k, w, sz, new, old
      <4> QED BY <3>2, <3>4, <4>2, <4>3, <4>4
    <3>6. CASE v \notin w .. w + sz - 1
      <4>1. new[v] = old[v]
        <5>1. v \in va .. w + sz - 1 <=> v \in va .. w - 1
          <6> HIDE DEF sz
          <6> QED BY <1>1, <1>2, <2>1, <3>6
        <5> HIDE DEF new, old
        <5> QED BY <3>4, <5>1
      <4>2. b.len # 0 => b.pa \notin a.pa .. a.pa + sz - 1
        <5> SUFFICES ASSUME b.len # 0, b.pa \in a.pa .. a.pa + sz - 1
                     PROVE  FALSE
          OBVIOUS
        <5> DEFINE k == b.pa - a.pa
        <5>1. k \in 0 .. sz - 1 /\ k \in Nat /\ b.pa = a.pa + k /\ k < a.len
          <6>1. k \in 0 .. sz - 1 /\ b.pa = a.pa + k
            <7> HIDE DEF a, b, sz, n
            <7> QED BY <1>1, <1>4, <2>0, PieceIndex
          <6> HIDE DEF a, b, k
          <6>2. k < sz
            <7> HIDE DEF sz
            <7> QED BY <2>0, <6>1
          <6>3. k < a.len
            <7> DEFINE l == a.len
            <7>1. l \in Nat /\ sz \in Nat /\ sz <= l /\ k \in 0 .. sz - 1
              BY <1>4, <2>0, <2>1, <6>1
            <7> HIDE DEF sz, l
            <7>2. k < l
              BY <7>1
            <7> QED BY <7>2 DEF l
          <6> QED BY <6>1, <6>3
        <5>2. w + k \in 0 .. VirtSize - 1 /\ w + k \in w .. w + sz - 1
          <6> DEFINE dn == t.done
          <6>1. /\ dn \in Nat /\ sz \in Nat /\ n \in Nat /\ sz <= n - dn /\ k \in 0 .. sz - 1
                /\ va + n <= VirtSize /\ VirtSize \in Int
            BY <1>1, <2>0, <5>1
          <6> HIDE DEF sz, k, dn, n
          <6>2. va + dn + k \in 0 .. VirtSize - 1 /\ va + dn + k \in va + dn .. va + dn + sz - 1
            BY <6>1
          <6> QED BY <6>2 DEF dn
        <5>3. phys_addr_lookup(w + k).pa = a.pa + k /\ phys_addr_lookup(w + k).len # 0
          <6> HIDE DEF k
          <6> QED BY <1>3, <5>1, <5>2, Contiguous
        <5>4. v # w + k
          BY <3>6, <5>2
        <5> HIDE DEF k, w, sz
        <5> QED BY <5>1, <5>2, <5>3, <5>4 DEF NoAliases
      <4>3. b.len # 0 => mm[b.pa] = t.m[b.pa]
        <5> HIDE DEF a, b, sz
        <5> QED BY <3>1, <4>2
      <4> HIDE DEF mm, b, sz, w, new, old
      <4> QED BY <3>2, <3>3, <4>1, <4>3
    <3> QED BY <3>5, <3>6
  <2>7. Image(mm) = new
    <3>1. Image(mm) = [v \in 0 .. VirtSize - 1 |-> Image(mm)[v]]
      BY DEF Image
    <3>2. new = [v \in 0 .. VirtSize - 1 |-> new[v]]
      BY DEF Overlaid
    <3> HIDE DEF mm, new
    <3> QED BY <2>6, <3>1, <3>2
  <2> HIDE DEF u, mm, sz
  <2> QED BY <1>1, <1>2, <2>1, <2>4, <2>7 DEF Shows, u
<1> QED BY <1>5, <1>6

(* The loop, turn by turn. *)
LEMMA CopyoutRun ==
  ASSUME NoAliases, NEW m \in Memories, NEW src \in Seq(Byte), NEW va \in Nat,
         va + Len(src) <= VirtSize
  PROVE  \E h : /\ h \in [0 .. Len(src) -> {t \in Copies(src) : Shows(t, m, src, va)}]
                /\ \A k \in 0 .. Len(src) : h[k].fail \/ h[k].done >= k
                /\ gdb_copyout(m, src, va) = h[Len(src)]
<1> DEFINE N == Len(src)
           first == [fail |-> FALSE, m |-> m, done |-> 0]
           S == {t \in Copies(src) : Shows(t, m, src, va)}
           Turn(t) == CopyoutTurn(t, src, va)
           F == [i \in 1 .. N |-> [t \in S |-> Turn(t)]]
           Body(g) == [k \in 0 .. N |-> IF k = 0 THEN first ELSE Turn(g[k - 1])]
<1>1. N \in Nat /\ first \in S
  <2>1. N \in Nat /\ first \in Copies(src)
    BY DEF Copies
  <2>2. Image(m) = Overlaid(Image(m), src, va, 0)
    <3>1. \A v : v \notin va .. va + 0 - 1
      OBVIOUS
    <3> QED BY <3>1 DEF Overlaid, Image
  <2> QED BY <2>1, <2>2 DEF Shows
<1>2. \A t \in S : Turn(t) \in S /\ (t.fail \/ t.done = N => Turn(t) = t)
                 /\ (~t.fail /\ t.done # N => Turn(t).fail \/ Turn(t).done >= t.done + 1)
  <2> TAKE t \in S
  <2>1. CASE t.fail \/ t.done = N
    BY <2>1 DEF CopyoutTurn
  <2>2. CASE ~t.fail /\ t.done # N
    BY <2>2, TurnShows DEF Shows
  <2> QED BY <2>1, <2>2
<1>3. F \in LoopBodies(N, S) /\ \A i \in 1 .. N, t \in S : F[i][t] = Turn(t)
  <2> HIDE DEF S, Turn, N
  <2> QED BY <1>2 DEF LoopBodies
<1>4. PICK g : LoopRun(g, N, S, first, F)
  <2> HIDE DEF S, F, N, first
  <2> QED BY <1>1, <1>3, LoopExists
<1>5. /\ g \in [0 .. N -> S] /\ g[0] = first
      /\ \A i \in 1 .. N : i - 1 \in 0 .. N /\ g[i - 1] \in S /\ g[i] = Turn(g[i - 1])
  <2> HIDE DEF S, F, N, Turn, first
  <2> QED BY <1>1, <1>3, <1>4 DEF LoopRun
<1>6. g = Body(g)
  <2> HIDE DEF S, F, N, Turn, first
  <2> QED BY <1>1, <1>5
<1> DEFINE h == CHOOSE f : f = Body(f)
<1>7. h = Body(h) /\ gdb_copyout(m, src, va) = h[N]
  <2>1. gdb_copyout(m, src, va) = h[N]
    BY DEF gdb_copyout
  <2>2. h = Body(h)
    <3> HIDE DEF Body
    <3> QED BY <1>6
  <2> QED BY <2>1, <2>2
<1>8. h[0] = first /\ \A i \in 1 .. N : h[i] = Turn(h[i - 1])
  <2> HIDE DEF h, Turn, first, N
  <2> QED BY <1>1, <1>7
<1> HIDE DEF h
<1> DEFINE H == {k \in 0 .. N : h[k] \in S /\ (h[k].fail \/ h[k].done >= k)}
<1>9. 0 \in H
  <2>1. first.done = 0
    OBVIOUS
  <2> HIDE DEF S, first
  <2> QED BY <1>1, <1>8, <2>1
<1>10. \A k \in 1 .. N : k - 1 \in H => k \in H
  <2> SUFFICES ASSUME NEW k \in 1 .. N, k - 1 \in H PROVE k \in H
    OBVIOUS
  <2> DEFINE t == h[k - 1]
             u == h[k]
  <2>1. t \in S /\ (t.fail \/ t.done >= k - 1) /\ u = Turn(t)
    BY <1>8
  <2>2. t.fail \in BOOLEAN /\ t.done \in 0 .. N
    BY <2>1 DEF Copies
  <2> HIDE DEF S, t, u, Turn, N
  <2>3. u \in S /\ (u.fail \/ u.done >= k)
    <3>1. CASE t.fail \/ t.done = N
      BY <1>1, <1>2, <2>1, <2>2, <3>1
    <3>2. CASE ~t.fail /\ t.done # N
      <4>1. u \in S /\ (u.fail \/ u.done >= t.done + 1) /\ t.done >= k - 1
        BY <1>2, <2>1, <3>2
      <4>2. u.done \in Int
        BY <1>1, <4>1 DEF S, Copies
      <4> QED BY <1>1, <2>2, <4>1, <4>2
    <3> QED BY <3>1, <3>2
  <2> QED BY <2>3 DEF u
<1>11. \A k \in 0 .. N : k \in H
  <2> HIDE DEF H, N
  <2> QED BY <1>1, <1>9, <1>10, UpTo
<1>12. h \in [0 .. N -> S]
  <2>1. DOMAIN h = 0 .. N /\ h = [k \in DOMAIN h |-> h[k]]
    <3> HIDE DEF Turn, first
    <3> QED BY <1>7
  <2> HIDE DEF S, N
  <2> QED BY <1>11, <2>1
<1> HIDE DEF S, N
<1> QED BY <1>7, <1>11, <1>12 DEF S, N

(* An acknowledged write shows all of its bytes and nothing else. *)
LEMMA CopyoutShows ==
  ASSUME NoAliases, NEW m \in Memories, NEW src \in Seq(Byte), NEW va \in Nat,
         va + Len(src) <= VirtSize
  PROVE  LET r == gdb_copyout(m, src, va) IN
         /\ r.m \in Memories /\ r.fail \in BOOLEAN
         /\ ~r.fail => Image(r.m) = Overlaid(Image(m), src, va, Len(src))
<1>0. Len(src) \in Nat
  OBVIOUS
<1>1. PICK h : /\ h \in [0 .. Len(src) -> {t \in Copies(src) : Shows(t, m, src, va)}]
               /\ \A k \in 0 .. Len(src) : h[k].fail \/ h[k].done >= k
               /\ gdb_copyout(m, src, va) = h[Len(src)]
  BY CopyoutRun
<1> DEFINE r == gdb_copyout(m, src, va)
<1>2. Shows(r, m, src, va) /\ (r.fail \/ r.done >= Len(src))
  <2>1. Len(src) \in 0 .. Len(src)
    BY <1>0
  <2> QED BY <1>1, <2>1
<1> HIDE DEF r
<1>3. r.m \in Memories /\ r.fail \in BOOLEAN /\ r.done \in 0 .. Len(src)
  BY <1>2 DEF Shows, Copies
<1>4. ~r.fail => r.done = Len(src)
  BY <1>0, <1>2, <1>3
<1> QED BY <1>2, <1>3, <1>4 DEF Shows, r

LEMMA DataReplaced ==
  ASSUME NEW x, NEW y
  PROVE  /\ [[fail |-> FALSE, data |-> x] EXCEPT !.data = y] = [fail |-> FALSE, data |-> y]
         /\ [fail |-> FALSE, data |-> x].data = x
<1> DEFINE r == [fail |-> FALSE, data |-> x]
<1>1. r.data = x /\ r.fail = FALSE /\ DOMAIN r = {"fail", "data"}
  OBVIOUS
<1>2. r \in [fail : BOOLEAN, data : {x, y}]
  OBVIOUS
<1>3. [r EXCEPT !.data = y] \in [fail : BOOLEAN, data : {x, y}]
  BY <1>2
<1>4. [r EXCEPT !.data = y].data = y /\ [r EXCEPT !.data = y].fail = FALSE
  BY <1>1, <1>2
<1>5. [r EXCEPT !.data = y] = [fail |-> FALSE, data |-> y]
  <2> HIDE DEF r
  <2> DEFINE t == [r EXCEPT !.data = y]
  <2> HIDE DEF t
  <2>1. t = [fail |-> t.fail, data |-> t.data]
    BY <1>3 DEF t
  <2>2. t.fail = FALSE /\ t.data = y
    BY <1>4 DEF t
  <2> QED BY <2>1, <2>2 DEF t
<1> QED BY <1>1, <1>5

(* Bytes of which none is quoted stand for themselves. *)
LEMMA UnquotedStand ==
  ASSUME NEW in \in Seq(Byte), \A i \in 1 .. Len(in) : in[i] # Quote
  PROVE  unquote(in) = [fail |-> FALSE, data |-> in]
<1> DEFINE N == Len(in)
           Rest(i) == [fail |-> FALSE, data |-> SubSeq(in, i, N)]
           Body(g) ==
             [i \in 1 .. N + 1 |->
                IF i > N THEN [fail |-> FALSE, data |-> <<>>]
                ELSE IF in[i] # Quote THEN [g[i + 1] EXCEPT !.data = <<in[i]>> \o @]
                ELSE IF i = N THEN [fail |-> TRUE, data |-> <<>>]
                ELSE [g[i + 2] EXCEPT !.data = <<in[i + 1] - 8>> \o @]]
           f == [i \in 1 .. N + 1 |-> Rest(i)]
           h == CHOOSE g : g = Body(g)
<1>1. N \in Nat
  OBVIOUS
<1>2. /\ Rest(N + 1) = [fail |-> FALSE, data |-> <<>>] /\ Rest(1) = [fail |-> FALSE, data |-> in]
      /\ \A i \in 1 .. N : [Rest(i + 1) EXCEPT !.data = <<in[i]>> \o @] = Rest(i)
  <2>1. SubSeq(in, N + 1, N) = <<>> /\ SubSeq(in, 1, N) = in
    OBVIOUS
  <2>2. \A i \in 1 .. N : <<in[i]>> \o SubSeq(in, i + 1, N) = SubSeq(in, i, N)
    OBVIOUS
  <2>3. ASSUME NEW i \in 1 .. N
        PROVE  [Rest(i + 1) EXCEPT !.data = <<in[i]>> \o @] = Rest(i)
    <3> DEFINE x == SubSeq(in, i + 1, N)
               y == <<in[i]>> \o x
    <3>1. Rest(i + 1) = [fail |-> FALSE, data |-> x] /\ Rest(i) = [fail |-> FALSE, data |-> y]
      BY <2>2
    <3> HIDE DEF x, Rest
    <3>2. Rest(i + 1).data = x
      BY <3>1, DataReplaced
    <3>3. [Rest(i + 1) EXCEPT !.data = y] = Rest(i)
      <4> HIDE DEF y
      <4> QED BY <3>1, DataReplaced
    <3> QED BY <3>2, <3>3
  <2>4. Rest(N + 1) = [fail |-> FALSE, data |-> <<>>] /\ Rest(1) = [fail |-> FALSE, data |-> in]
    BY <2>1
  <2> HIDE DEF Rest, N
  <2> QED BY <2>3, <2>4
<1>3. f = Body(f)
  <2>1. \A i \in 1 .. N : i + 1 \in 1 .. N + 1 /\ f[i + 1] = Rest(i + 1)
    <3> HIDE DEF Rest
    <3> QED BY <1>1
  <2>2. \A i \in 1 .. N + 1 : f[i] = Body(f)[i]
    <3> TAKE i \in 1 .. N + 1
    <3>1. CASE i = N + 1
      <4>1. i > N /\ N + 1 \in 1 .. N + 1
        BY <1>1, <3>1
      <4> HIDE DEF Rest, N
      <4> QED BY <1>2, <3>1, <4>1
    <3>2. CASE i # N + 1
      <4>1. i \in 1 .. N /\ ~(i > N) /\ in[i] # Quote
        BY <1>1, <3>2
      <4>2. Body(f)[i] = [f[i + 1] EXCEPT !.data = <<in[i]>> \o @]
        <5> HIDE DEF f, Rest, N
        <5> QED BY <4>1
      <4> HIDE DEF Rest, N
      <4> QED BY <1>2, <2>1, <4>1, <4>2
    <3> QED BY <3>1, <3>2
  <2>3. f = [i \in 1 .. N + 1 |-> f[i]] /\ Body(f) = [i \in 1 .. N + 1 |-> Body(f)[i]]
    OBVIOUS
  <2> HIDE DEF f, Body
  <2> QED BY <2>2, <2>3
<1>4. h = Body(h)
  <2> HIDE DEF Body, f
  <2> QED BY <1>3
<1> HIDE DEF h, f
<1>5. h[N + 1] = [fail |-> FALSE, data |-> <<>>]
  <2>1. N + 1 \in 1 .. N + 1 /\ N + 1 > N
    BY <1>1
  <2> HIDE DEF N
  <2> QED BY <1>4, <2>1
<1>6. \A i \in 1 .. N : h[i] = [h[i + 1] EXCEPT !.data = <<in[i]>> \o @]
  <2> TAKE i \in 1 .. N
  <2>1. i \in 1 .. N + 1 /\ ~(i > N) /\ in[i] # Quote
    BY <1>1
  <2> HIDE DEF N
  <2> QED BY <1>4, <2>1
<1> DEFINE G == {k \in 0 .. N : h[N + 1 - k] = Rest(N + 1 - k)}
<1>7. 0 \in G
  <2>1. N + 1 - 0 = N + 1 /\ 0 \in 0 .. N
    BY <1>1
  <2> HIDE DEF Rest, N
  <2> QED BY <1>2, <1>5, <2>1
<1>8. \A k \in 1 .. N : k - 1 \in G => k \in G
  <2> SUFFICES ASSUME NEW k \in 1 .. N, k - 1 \in G PROVE k \in G
    OBVIOUS
  <2> DEFINE i == N + 1 - k
  <2>1. i \in 1 .. N /\ i + 1 = N + 1 - (k - 1) /\ k \in 0 .. N
    BY <1>1
  <2> HIDE DEF Rest, N, i
  <2>2. h[i + 1] = Rest(i + 1)
    BY <2>1
  <2>3. h[i] = Rest(i)
    BY <1>2, <1>6, <2>1, <2>2
  <2> QED BY <2>1, <2>3 DEF i
<1>9. N \in G
  <2> HIDE DEF G
  <2>1. \A k \in 0 .. N : k \in G
    <3> HIDE DEF N
    <3> QED BY <1>1, <1>7, <1>8, UpTo
  <2> QED BY <1>1, <2>1
<1>10. h[1] = Rest(1)
  <2>1. N + 1 - N = 1
    BY <1>1
  <2> HIDE DEF N, Rest
  <2> QED BY <1>9, <2>1
<1>11. unquote(in) = h[1]
  BY DEF unquote, h
<1> HIDE DEF Rest
<1> QED BY <1>2, <1>10, <1>11

-----------------------------------------------------------------------------
(* The memory.                                                             *)

Remembered == mem \in Memories /\ MemoryAgrees

NothingQuoted == \A p \in Commands : Unquoted(p)

LEMMA RememberedInit == StubInit => Remembered
BY TablesAssumption DEF StubInit, Remembered, MemoryAgrees, Memories

(* M and X: an acknowledged write is complete, and after an error gdb      *)
(* reads again.                                                            *)
LEMMA WrittenRemembered ==
  ASSUME NoAliases, Remembered, NEW p, p.data \in Seq(Byte), p.addr \in Nat,
         p.addr + Len(p.data) <= VirtSize, Written(gdb_copyout(mem, p.data, p.addr), p)
  PROVE  Remembered'
<1> DEFINE r == gdb_copyout(mem, p.data, p.addr)
<1>1. /\ r.m \in Memories /\ r.fail \in BOOLEAN
      /\ ~r.fail => Image(r.m) = Overlaid(Image(mem), p.data, p.addr, Len(p.data))
  BY CopyoutShows DEF Remembered
<1>2. /\ mem' = r.m
      /\ view' = IF r.fail THEN Image(r.m)
                 ELSE [va \in DOMAIN view |-> IF va \in p.addr .. p.addr + Len(p.data) - 1
                                              THEN p.data[va - p.addr + 1] ELSE view[va]]
  BY DEF Written
<1>3. view = Image(mem) /\ DOMAIN view = 0 .. VirtSize - 1
  BY DEF Remembered, MemoryAgrees, Image
<1> HIDE DEF r
<1>4. view' = Image(r.m)
  BY <1>1, <1>2, <1>3 DEF Overlaid
<1>5. Image(mem') = Image(r.m)
  BY <1>2
<1> QED BY <1>1, <1>2, <1>4, <1>5 DEF Remembered, MemoryAgrees, Image

LEMMA CommandRemembered ==
  ASSUME NoAliases, NothingQuoted, Remembered, CommandOf(Commands)
  PROVE  Remembered'
<1>1. PICK p \in Commands : Leaves(p) \/ Goes(p)
  BY CommandKinds
<1>2. Proper(p) /\ Unquoted(p)
  BY CommandsAssumption DEF NothingQuoted
<1>3. UNCHANGED <<mem, view>> => Remembered'
  BY DEF Remembered, MemoryAgrees, Image
<1>4. CASE WriteMem(p)
  <2>1. CASE ~p.ok
    BY <1>3, <1>4, <2>1 DEF WriteMem
  <2>2. CASE p.ok
    <3>1. Written(gdb_copyout(mem, p.data, p.addr), p) /\ p.c = "M"
      BY <1>4, <2>2 DEF WriteMem
    <3> QED BY <1>2, <3>1, WrittenRemembered DEF Proper
  <2> QED BY <2>1, <2>2
<1>5. CASE WriteBinary(p)
  <2> DEFINE u == unquote(SubSeq(p.raw, 1, p.len))
  <2>1. CASE ~p.ok \/ u.fail
    BY <1>3, <1>5, <2>1 DEF WriteBinary
  <2>2. CASE ~(~p.ok \/ u.fail)
    <3>1. Written(gdb_copyout(mem, u.data, p.addr), p) /\ p.c = "X"
      BY <1>5, <2>2 DEF WriteBinary
    <3>2. /\ p.data \in Seq(Byte) /\ p.addr \in Nat /\ p.addr + Len(p.data) <= VirtSize
          /\ p.raw = p.data /\ p.len = Len(p.data) /\ \A i \in 1 .. Len(p.data) : p.data[i] # Quote
      BY <1>2, <3>1 DEF Proper, Unquoted
    <3>3. SubSeq(p.raw, 1, p.len) = p.data
      BY <3>2
    <3>4. u.data = p.data
      <4>1. unquote(p.data) = [fail |-> FALSE, data |-> p.data]
        BY <3>2, UnquotedStand
      <4>2. u = [fail |-> FALSE, data |-> p.data]
        BY <3>3, <4>1
      <4> HIDE DEF u
      <4> QED BY <4>2, DataReplaced
    <3> HIDE DEF u
    <3> QED BY <3>1, <3>2, <3>4, WrittenRemembered
  <2> QED BY <2>1, <2>2
<1>6. CASE Leaves(p)
  BY <1>3, <1>6 DEF Leaves, Continue, Detach, Restart, Kill, Leave
<1>7. CASE Goes(p) /\ ~WriteMem(p) /\ ~WriteBinary(p)
  BY <1>3, <1>7 DEF Goes, Thread, ReadRegs, WriteRegs, WriteReg, ReadMem, BadSignal, Query,
                    ToggleDebug, Other
<1> QED BY <1>1, <1>4, <1>5, <1>6, <1>7

LEMMA MachineRemembered ==
  ASSUME Remembered, Machine
  PROVE  Remembered'
<1>1. UNCHANGED <<mem, view>> => Remembered'
  BY DEF Remembered, MemoryAgrees, Image
<1> QED BY <1>1 DEF Machine, Instruction, Trace, Exception, Reboot, KeySpace, KeyEscape, KeyI,
                    KeyD, trap_handler, debugger, reboot

(* gdb_serial_converse, gdb_copyout, debugger: gdb and the program never   *)
(* disagree on the registers, acknowledged writes are complete across any  *)
(* page tables, a step is one instruction, and after "continue" only the   *)
(* program's own traps stop it.  For every size of the pages and tables in *)
(* which no page is mapped twice, and packets without quoted bytes.        *)
THEOREM ProgramAlwaysAgrees ==
  ASSUME NoAliases, NothingQuoted
  PROVE  StubSpec => []ProgramAgrees
<1> DEFINE Inv == InCourse /\ Remembered
<1>1. StubInit => Inv
  BY CourseInit, RememberedInit
<1>2. Inv /\ [StubNext]_stub_vars => Inv'
  <2>1. ASSUME Inv, UNCHANGED stub_vars PROVE Inv'
    BY <2>1 DEF InCourse, RegistersAgree, Remembered, MemoryAgrees, Image, stub_vars, dbg
  <2>2. ASSUME Inv, StubNext PROVE Inv'
    BY <2>2, MachineCourse, CommandCourse, MachineRemembered, CommandRemembered DEF StubNext
  <2> QED BY <2>1, <2>2
<1>3. Inv => ProgramAgrees
  BY DEF InCourse, Remembered, Memories, ProgramAgrees, StubTypeOK, StepsAndRuns
<1> HIDE DEF Inv
<1> QED BY <1>1, <1>2, <1>3, PTL DEF StubSpec

=============================================================================
