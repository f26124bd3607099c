------------------------------- MODULE GdbStub -------------------------------
(***************************************************************************)
(* The kernel's debugger: trap_handler and debugger of kernel/debugger.c,  *)
(* the commands of gdb_serial_converse in kernel/gdb_serial.c, and the     *)
(* copies through the client's page tables of gdb_serial_support.c.        *)
(*                                                                         *)
(* The program under test is a processor with three registers: eip, eax    *)
(* for every other one, and the trace flag of eflags.  A packet is a       *)
(* record, with ok FALSE when a field of it does not parse; GdbLine has    *)
(* how packets cross the serial line.  There are no thread callbacks, as   *)
(* debugger passes none.                                                   *)
(***************************************************************************)
EXTENDS Integers, Sequences

CONSTANTS NEip,               \* instructions of the program
          Traps,              \* exceptions the program may raise, besides 1
          Commands,           \* packets gdb may send
          Pte,                \* page directory and tables, see Entry
          PageSize, TablePages, Paging, PhysSize,
          Byte, Quote,        \* values of a byte; 0x7d
          BUFMAX, NSIG

VARIABLES cpu,                \* registers of the task, in its TSS
          state,              \* struct gdb_state of debugger()
          signo, regs_changed, connected, do_debug, gdb_serial_debug,
          pc,                 \* "run", "trace", "dump", "converse", "down"
          trapno, d,          \* the trap; trap_handler's d
          mem,                \* physical memory
          video, video_mem,   \* the screen and trap_handler's copy of it
          reply,              \* last packet sent to gdb
          shown, told, view, asked, ran  \* history, see below
dbg == <<signo, regs_changed, connected, do_debug, gdb_serial_debug>>
stub_vars == <<cpu, state, dbg, pc, trapno, d, mem, video, video_mem, reply, shown, told, view,
          asked, ran>>
(* shown: what the program has on the screen.  told, view: the registers   *)
(* and the virtual memory as gdb knows them (after an error it reads them  *)
(* again).  asked: how gdb last let the program go.  ran: instructions     *)
(* since then.                                                             *)

Regs == [eip : 0 .. NEip - 1, eax : 0 .. 1, tf : BOOLEAN]

(* The signals reported go up to 11. *)
ASSUME StubAssumption == NEip \in Nat \ {0} /\ NSIG \in Nat /\ NSIG > 11

-----------------------------------------------------------------------------
(* gdb_serial_support.c.  Pte[n] is the entry of the page directory:       *)
(* [kind |-> "super", base], [kind |-> "none"] or [kind |-> "table", pages]*)
(* with the physical address of each page or -1.                           *)

VirtSize == PageSize * TablePages * Len(Pte)

Entry == [kind : {"none"}] \cup [kind : {"super"}, base : Nat]
         \cup [kind : {"table"}, pages : [1 .. TablePages -> Nat \cup {-1}]]

(* The tables name pages of the physical memory; without them an address   *)
(* is physical.                                                            *)
ASSUME TablesAssumption ==
  /\ PageSize \in Nat \ {0} /\ TablePages \in Nat \ {0} /\ PhysSize \in Nat /\ 0 \in Byte
  /\ Pte \in Seq(Entry) /\ Paging \in BOOLEAN
  /\ \A n \in DOMAIN Pte :
       /\ Pte[n].kind = "super" => Pte[n].base + PageSize * TablePages <= PhysSize
       /\ Pte[n].kind = "table" =>
            \A i \in 1 .. TablePages : Pte[n].pages[i] >= 0 => Pte[n].pages[i] + PageSize <= PhysSize
  /\ ~Paging => VirtSize <= PhysSize

phys_addr_lookup(va) ==
  LET super == PageSize * TablePages
      e     == Pte[va \div super + 1]
      page  == e.pages[((va % super) \div PageSize) + 1]
      offs  == va % PageSize
      none  == [pa |-> 0, len |-> 0]
  IN IF ~Paging THEN [pa |-> va, len |-> PhysSize]
     ELSE IF e.kind = "none" THEN none
     ELSE IF e.kind = "super"
          THEN [pa |-> e.base + (va % super), len |-> super - (va % super)]
     ELSE IF page < 0 THEN none
     ELSE [pa |-> page + offs, len |-> PageSize - offs]

Least(a, b) == IF a < b THEN a ELSE b

(* What is copied of the last n bytes, page by page. *)
gdb_copyin(va, size) ==
  LET Copied[n \in 0 .. size] ==
        LET a  == phys_addr_lookup(va + size - n)
            sz == Least(a.len, n)
        IN IF n = 0 THEN [fail |-> FALSE, data |-> <<>>]
           ELSE IF a.len = 0 THEN [fail |-> TRUE, data |-> <<>>]
           ELSE [Copied[n - sz] EXCEPT !.data = [i \in 1 .. sz |-> mem[a.pa + i - 1]] \o @]
  IN Copied[size]

(* Fault: the data is not advanced to the next page. *)
FaultCopyoutTurn(t, src, va) ==
  LET a  == phys_addr_lookup(va + t.done)
      sz == Least(a.len, Len(src) - t.done)
  IN IF t.fail \/ t.done = Len(src) THEN t
     ELSE IF a.len = 0 THEN [t EXCEPT !.fail = TRUE]
     ELSE [t EXCEPT !.done = @ + sz,
                    !.m = [i \in DOMAIN @ |-> IF i \in a.pa .. a.pa + sz - 1
                                              THEN src[i - a.pa + 1] ELSE @[i]]]

(* A turn of the loop, after which t.done bytes are written. *)
CopyoutTurn(t, src, va) ==
  LET a  == phys_addr_lookup(va + t.done)
      sz == Least(a.len, Len(src) - t.done)
  IN IF t.fail \/ t.done = Len(src) THEN t
     ELSE IF a.len = 0 THEN [t EXCEPT !.fail = TRUE]
     ELSE [t EXCEPT !.done = @ + sz,
                    !.m = [i \in DOMAIN @ |-> IF i \in a.pa .. a.pa + sz - 1
                                              THEN src[t.done + i - a.pa + 1] ELSE @[i]]]

(* There are no more turns than bytes. *)
gdb_copyout(m, src, va) ==
  LET Turn[k \in 0 .. Len(src)] ==
        IF k = 0 THEN [fail |-> FALSE, m |-> m, done |-> 0]
        ELSE CopyoutTurn(Turn[k - 1], src, va)
  IN Turn[Len(src)]

-----------------------------------------------------------------------------
(* The stop: debugger up to the report of gdb_serial_converse.             *)

(* Fault: an exception without a signal of its own is reported as it is. *)
FaultSignal(n) == IF n = 3 THEN 5 ELSE n + 32

Signal(n) == IF n \in {0, 4, 5, 7, 8, 9, 15} THEN 8
             ELSE IF n \in {1, 3} THEN 5
             ELSE IF n \in 10 .. 14 THEN 11 ELSE 4

Report(sig) == [type |-> "S", sig |-> sig]

debugger(n) ==
  /\ state' = cpu /\ signo' = Signal(n) /\ regs_changed' = FALSE
  /\ reply' = Report(Signal(n)) /\ pc' = "converse"
  /\ told' = cpu
  /\ UNCHANGED <<cpu, connected, gdb_serial_debug, mem, view, shown, asked, ran>>

(* Fault: the screen is left with the dump. *)
FaultTrapHandler(n) ==
  /\ trapno' = n
  /\ IF do_debug THEN debugger(n) /\ UNCHANGED <<do_debug, d, video, video_mem>>
     ELSE /\ video' = "dump" /\ video_mem' = "dump" /\ d' = TRUE /\ pc' = "dump"
          /\ UNCHANGED <<cpu, state, dbg, mem, view, reply, shown, told, asked, ran>>

trap_handler(n) ==
  /\ trapno' = n
  /\ IF do_debug THEN debugger(n) /\ UNCHANGED <<do_debug, d, video, video_mem>>
     ELSE /\ video_mem' = video /\ video' = "dump" /\ d' = TRUE /\ pc' = "dump"
          /\ UNCHANGED <<cpu, state, dbg, mem, view, reply, shown, told, asked, ran>>

(* reboot: a connected debugger is told that the program has exited.       *)
reboot ==
  /\ pc' = "down" /\ connected' = FALSE
  /\ reply' = IF connected THEN [type |-> "W", sig |-> 0] ELSE reply
  /\ UNCHANGED <<cpu, state, signo, regs_changed, do_debug, gdb_serial_debug, trapno, d, mem, view,
                 video, video_mem, shown, told, asked, ran>>

(* The keys of the register dump.                                          *)
KeySpace ==
  /\ pc = "dump" /\ d' = ~d /\ video' = IF d' THEN "dump" ELSE video_mem
  /\ UNCHANGED <<cpu, state, dbg, pc, trapno, mem, view, video_mem, reply, shown, told, asked, ran>>

KeyEscape == pc = "dump" /\ reboot

KeyI ==
  /\ pc = "dump" /\ video' = video_mem /\ pc' = "run" /\ ran' = 0 /\ asked' = "ignore"
  /\ UNCHANGED <<cpu, state, dbg, trapno, d, mem, view, video_mem, reply, shown, told>>

KeyD ==
  /\ pc = "dump" /\ video' = video_mem
  /\ do_debug' = TRUE /\ debugger(trapno)
  /\ UNCHANGED <<trapno, d, video_mem>>

-----------------------------------------------------------------------------
(* The program.  With the trace flag set an instruction is followed by     *)
(* trap 1; the flag stays in the saved eflags.                             *)

Instruction ==
  /\ pc = "run"
  /\ cpu' = [cpu EXCEPT !.eip = (@ + 1) % NEip] /\ ran' = Least(ran + 1, 2)
  /\ \E v \in {"before", "after"} : video' = v /\ shown' = v
  /\ pc' = IF cpu.tf THEN "trace" ELSE "run"
  /\ UNCHANGED <<state, dbg, trapno, d, mem, view, video_mem, reply, told, asked>>

Trace == pc = "trace" /\ trap_handler(1)
Exception == pc = "run" /\ \E n \in Traps : trap_handler(n)

(* The program reboots the machine (syscall 63, the mouse on the cross).   *)
Reboot == pc = "run" /\ reboot

-----------------------------------------------------------------------------
(* gdb_serial_converse: one action per command.                            *)

OK == [type |-> "OK"]
Unknown == [type |-> ""]
Err(n) == [type |-> "E", sig |-> n]
Answer(r) == /\ reply' = r /\ connected' = TRUE
             /\ UNCHANGED <<cpu, do_debug, pc, trapno, d, video, video_mem, shown, asked, ran>>

(* H, T: without thread callbacks. *)
Thread(p) ==
  /\ p.c \in {"H", "T"}
  /\ Answer(IF ~p.ok THEN Err(IF p.c = "H" THEN 4 ELSE 1) ELSE Unknown)
  /\ UNCHANGED <<state, signo, regs_changed, gdb_serial_debug, mem, view, told>>

ReadRegs(p) ==
  /\ p.c = "g" /\ Answer([type |-> "regs", regs |-> state]) /\ told' = state
  /\ UNCHANGED <<state, signo, regs_changed, gdb_serial_debug, mem, view>>

(* hex2bin stores the bytes before the one it cannot read. *)
WriteRegs(p) ==
  /\ p.c = "G"
  /\ IF p.ok
     THEN Answer(OK) /\ state' = p.regs /\ told' = p.regs /\ regs_changed' = TRUE
     ELSE /\ Answer(Err(4)) /\ state' = [state EXCEPT !.eax = p.regs.eax]
          /\ told' = state' /\ UNCHANGED regs_changed
  /\ UNCHANGED <<signo, gdb_serial_debug, mem, view>>

(* Fault: the register is acknowledged and not stored. *)
FaultWriteReg(p) ==
  /\ p.c = "P" /\ Answer(OK)
  /\ regs_changed' = TRUE
  /\ told' = IF p.bad = "no" /\ p.reg = "eax" THEN [told EXCEPT !.eax = p.val] ELSE told
  /\ UNCHANGED <<state, signo, gdb_serial_debug, mem, view>>

(* Register 0x29 (orig_eax) is accepted and dropped; a value that does not *)
(* parse has been stored in part.                                          *)
WriteReg(p) ==
  /\ p.c = "P"
  /\ LET st == [state EXCEPT ![p.reg] = p.val] IN
     \/ /\ p.bad = "form" \/ p.reg = "bogus"
        /\ Answer(Err(4)) /\ UNCHANGED <<state, told, regs_changed>>
     \/ /\ p.bad # "form" /\ p.reg = "orig_eax"
        /\ Answer(OK) /\ UNCHANGED <<state, told, regs_changed>>
     \/ /\ p.bad = "value" /\ p.reg \in {"eip", "eax"}
        /\ Answer(Err(4)) /\ state' = st /\ told' = st /\ UNCHANGED regs_changed
     \/ /\ p.bad = "no" /\ p.reg \in {"eip", "eax"}
        /\ Answer(OK) /\ regs_changed' = TRUE
        /\ state' = st /\ told' = [told EXCEPT ![p.reg] = p.val]
  /\ UNCHANGED <<signo, gdb_serial_debug, mem, view>>

ReadMem(p) ==
  /\ p.c = "m"
  /\ LET r == gdb_copyin(p.addr, p.len) IN
     Answer(IF ~p.ok \/ p.len * 2 > BUFMAX THEN Err(2)
            ELSE IF r.fail THEN Err(3) ELSE [type |-> "data", data |-> r.data])
  /\ UNCHANGED <<state, signo, regs_changed, gdb_serial_debug, mem, view, told>>

(* The virtual memory. *)
Image(m) == [va \in 0 .. VirtSize - 1 |->
               LET a == phys_addr_lookup(va) IN IF a.len = 0 THEN 0 ELSE m[a.pa]]
Written(r, p) ==
  /\ Answer(IF r.fail THEN Err(3) ELSE OK) /\ mem' = r.m
  /\ view' = IF r.fail THEN Image(r.m)
             ELSE [va \in DOMAIN view |-> IF va \in p.addr .. p.addr + Len(p.data) - 1
                                          THEN p.data[va - p.addr + 1] ELSE view[va]]

WriteMem(p) ==
  /\ p.c = "M"
  /\ LET r == gdb_copyout(mem, p.data, p.addr) IN
     IF ~p.ok THEN Answer(Err(2)) /\ UNCHANGED <<mem, view>>
     ELSE Written(r, p)
  /\ UNCHANGED <<state, signo, regs_changed, gdb_serial_debug, told>>

(* The bytes of X up to end, which is len bytes of the packet further.     *)
(* Byte b stands quoted as Quote, b + 8 (b XOR 0x20 in the code).          *)
(* Fault: the quote stays in the data. *)
FaultUnquote(in) == [fail |-> FALSE, data |-> [i \in 1 .. Len(in) |-> Quote]]

unquote(in) ==
  LET From[i \in 1 .. Len(in) + 1] ==      \* what stands from byte i on
        IF i > Len(in) THEN [fail |-> FALSE, data |-> <<>>]
        ELSE IF in[i] # Quote THEN [From[i + 1] EXCEPT !.data = <<in[i]>> \o @]
        ELSE IF i = Len(in) THEN [fail |-> TRUE, data |-> <<>>]
        ELSE [From[i + 2] EXCEPT !.data = <<in[i + 1] - 8>> \o @]
  IN From[1]

WriteBinary(p) ==
  /\ p.c = "X"
  /\ LET u == unquote(SubSeq(p.raw, 1, p.len))
         r == gdb_copyout(mem, u.data, p.addr)
     IN IF ~p.ok \/ u.fail THEN Answer(Err(2)) /\ UNCHANGED <<mem, view>>
        ELSE Written(r, p)
  /\ UNCHANGED <<state, signo, regs_changed, gdb_serial_debug, told>>

(* debugger after the conversation: the registers go back to the task.     *)
Leave(st, how) ==
  /\ cpu' = st /\ pc' = "run" /\ asked' = how /\ ran' = 0 /\ state' = st
  /\ UNCHANGED <<gdb_serial_debug, trapno, d, mem, view, video, video_mem, shown>>

(* Fault: the flag is set and never cleared. *)
FaultTraceFlag(st, on) == IF on THEN [st EXCEPT !.tf = TRUE] ELSE st

gdb_set_trace_flag(st, on) == [st EXCEPT !.tf = on]

(* c, s, C and S, each with an optional address. *)
Continue(p) ==
  /\ p.c \in {"c", "s", "C", "S"} /\ (p.c \in {"C", "S"} => p.sig \in 1 .. NSIG - 1)
  /\ LET moved == IF p.eip # -1 THEN [state EXCEPT !.eip = p.eip] ELSE state
         st    == gdb_set_trace_flag(moved, p.c \in {"s", "S"})
     IN /\ Leave(st, IF p.c \in {"s", "S"} THEN "step" ELSE "cont")
        /\ regs_changed' = (regs_changed \/ moved # state)
        /\ told' = [told EXCEPT !.eip = IF p.eip # -1 THEN p.eip ELSE @, !.tf = p.c \in {"s", "S"}]
  /\ signo' = (IF p.c \in {"C", "S"} THEN p.sig ELSE 0) /\ connected' = TRUE
  /\ UNCHANGED <<do_debug, reply>>

BadSignal(p) ==
  /\ p.c \in {"C", "S"} /\ p.sig \notin 1 .. NSIG - 1 /\ Answer(Err(5))
  /\ UNCHANGED <<state, signo, regs_changed, gdb_serial_debug, mem, view, told>>

Query(p) ==
  /\ p.c = "?" /\ Answer(Report(signo))
  /\ UNCHANGED <<state, signo, regs_changed, gdb_serial_debug, mem, view, told>>

(* Fault: the connection is kept. *)
FaultDetach(p) ==
  /\ p.c = "D" /\ reply' = OK /\ connected' = TRUE /\ do_debug' = FALSE
  /\ Leave(state, "detach") /\ UNCHANGED <<signo, regs_changed, told>>

Detach(p) ==
  /\ p.c = "D" /\ reply' = OK /\ connected' = FALSE /\ do_debug' = FALSE
  /\ Leave(state, "detach") /\ UNCHANGED <<signo, regs_changed, told>>

(* The restart is ignored: the program goes on. *)
Restart(p) ==
  /\ p.c = "R" /\ connected' = FALSE /\ Leave(state, "rerun")
  /\ UNCHANGED <<signo, regs_changed, do_debug, reply, told>>

Kill(p) ==
  /\ p.c = "k" /\ connected' = FALSE /\ pc' = "down"
  /\ UNCHANGED <<cpu, state, signo, regs_changed, do_debug, gdb_serial_debug, trapno, d, mem, view,
                 video, video_mem, reply, shown, told, asked, ran>>

ToggleDebug(p) ==
  /\ p.c = "d" /\ gdb_serial_debug' = ~gdb_serial_debug /\ Answer(OK)
  /\ UNCHANGED <<state, signo, regs_changed, mem, view, told>>

Other(p) ==
  /\ p.c \in {"!", "other"} /\ Answer(IF p.c = "!" THEN OK ELSE Unknown)
  /\ UNCHANGED <<state, signo, regs_changed, gdb_serial_debug, mem, view, told>>

(* The values that a packet may carry: what a register holds, bytes that   *)
(* end before the last virtual address.                                    *)
Proper(p) ==
  /\ p.c = "G" => p.regs \in Regs
  /\ p.c = "P" /\ p.reg = "eip" => p.val \in 0 .. NEip - 1
  /\ p.c = "P" /\ p.reg = "eax" => p.val \in 0 .. 1
  /\ p.c \in {"c", "s", "C", "S"} => p.eip \in -1 .. NEip - 1
  /\ p.c \in {"M", "X"} => p.data \in Seq(Byte) /\ p.addr \in Nat /\ p.addr + Len(p.data) <= VirtSize

ASSUME CommandsAssumption == \A p \in Commands : Proper(p)

StubInit ==
  /\ cpu \in [eip : {0}, eax : {0}, tf : {FALSE}] /\ state = cpu /\ told = cpu
  /\ signo = 0 /\ regs_changed = FALSE /\ connected = FALSE /\ do_debug = FALSE
  /\ gdb_serial_debug = FALSE /\ pc = "run" /\ trapno = 0 /\ d = TRUE
  /\ mem = [i \in 0 .. PhysSize - 1 |-> 0] /\ view = Image(mem)
  /\ video = "before" /\ video_mem = "before" /\ shown = "before"
  /\ reply = Unknown /\ asked = "start" /\ ran = 0

CommandOf(packets) ==
  /\ pc = "converse"
  /\ \E p \in packets :
       \/ Thread(p) \/ ReadRegs(p) \/ WriteRegs(p) \/ WriteReg(p)
       \/ ReadMem(p) \/ WriteMem(p) \/ WriteBinary(p)
       \/ Continue(p) \/ BadSignal(p) \/ Query(p)
       \/ Detach(p) \/ Restart(p) \/ Kill(p) \/ ToggleDebug(p) \/ Other(p)

Machine ==
  \/ Instruction \/ Trace \/ Exception \/ Reboot
  \/ KeySpace \/ KeyEscape \/ KeyI \/ KeyD

StubNext == Machine \/ CommandOf(Commands)

StubSpec == StubInit /\ [][StubNext]_stub_vars
-----------------------------------------------------------------------------
StubTypeOK ==
  /\ cpu \in Regs /\ state \in Regs /\ told \in Regs
  /\ signo \in 0 .. NSIG - 1 /\ mem \in [0 .. PhysSize - 1 -> Byte]
  /\ regs_changed \in BOOLEAN /\ connected \in BOOLEAN /\ do_debug \in BOOLEAN
  /\ pc \in {"run", "trace", "dump", "converse", "down"} /\ d \in BOOLEAN
  /\ video \in {"before", "after", "dump"} /\ video_mem \in {"before", "after", "dump"}

(* What gdb has been told, and what it was told OK to, are the registers:  *)
(* in the conversation, and in the task when it runs on.                   *)
RegistersAgree ==
  /\ pc = "converse" => told = state
  /\ pc = "run" /\ ran = 0 /\ asked \in {"cont", "step", "detach", "rerun"} => cpu = told

(* A step runs one instruction and stops; after "continue" the program is  *)
(* stopped by its own traps only.                                          *)
StepsAndRuns ==
  /\ asked = "step" => ran <= 1
  /\ asked \in {"start", "cont"} => pc # "trace"

(* A connected gdb always has traps: connected of gdb_serial.c and         *)
(* do_debug of debugger.c never disagree that way, so no trap of a program *)
(* under gdb ends in the register dump.                                    *)
ConnectedDebugs == connected => do_debug /\ pc # "dump"

(* Whatever was looked at and in whatever order, the program gets its      *)
(* screen back before it runs on or gdb takes over.                        *)
ScreenBack == pc \in {"run", "trace", "converse"} => video = shown

(* Acknowledged writes are complete, across pages, and touch nothing else: *)
(* what gdb knows of the memory is what the program's page tables show.    *)
MemoryAgrees == view = Image(mem)

(* gdb_serial_support.h:68 GDB_DETACH "continue; debugger is going away":  *)
(* the program is not stopped by the trace flag of an earlier step.        *)
DetachContinues == asked = "detach" => pc # "trace"

(* gdb_serial_support.h:53 regs_changed: "Set by gdb_serial_converse when  *)
(* values in regs have been changed".                                      *)
ChangesTold == [][pc = "converse" /\ pc' = "run" /\ cpu' # cpu => regs_changed']_stub_vars

(* What MemoryAgrees needs: no page is mapped twice, or a write through    *)
(* one address changes what another shows; no byte of X is quoted, as its  *)
(* length would count that byte twice.                                     *)
NoAliases ==
  \A v, w \in 0 .. VirtSize - 1 :
    phys_addr_lookup(v).len # 0 /\ phys_addr_lookup(w).len # 0 /\ v # w
      => phys_addr_lookup(v).pa # phys_addr_lookup(w).pa
Unquoted(p) == p.c = "X" => /\ p.raw = p.data /\ p.len = Len(p.data)
                            /\ \A i \in 1 .. Len(p.raw) : p.raw[i] # Quote

(* gdb_serial_converse: gdb and the program never disagree on registers or *)
(* memory, and the program runs as far as gdb let it.                      *)
ProgramAgrees == StubTypeOK /\ RegistersAgree /\ StepsAndRuns /\ MemoryAgrees

(* trap_handler: under any order of keys and commands gdb gets the traps   *)
(* and the program its screen.                                             *)
TrapsHandled == ConnectedDebugs /\ ScreenBack
=============================================================================
