# CalmOS: a TLA+ model of the kernel, its drivers and its library

CalmOS is a small preemptive operating system for 32-bit x86: a priority
scheduler, message queues, a handful of drivers, a FAT16 file system on a
floppy disk, a debugger stub on the serial line and a shell. This directory
holds TLA+ modules that model it, the properties that make each part correct,
the TLC configurations that check them on small instances, and TLAPS proofs of
the central ones for every size of the tables. `PROJECT.json` maps each
definition to the lines it models and lists the runs, the faults each property
detects, the hazards, the findings and the theorems.

## 1. Inventory

| Component | State | Operations | Hard behaviour | What makes it correct |
|---|---|---|---|---|
| Scheduler (`kernel/scheduler.c`) | `processes[]` (state, priority, parent, the union `state_attr`), the intrusive lists, `active_process` | start, exit, kill, chprio, wait_clock, waitpid, tick_scheduler, fix_scheduler | one union word is the link of whichever list a process is on; a call is suspended in its middle by the context switch and finds another world when it resumes; pids are reused at once | a process is on exactly the list its state names; priority rule; parents get their zombies exactly once; no pid is lost |
| Message queues (`kernel/queues.c`) | 300 rings and two priority lists of blocked processes each | pcreate, pdelete, preset, psend, preceive, pcount | direct hand-over; a blocked process is killed, demoted, or its queue is reset, deleted and created again | nobody blocks without a reason; the ring stays consistent; a blocked call returns what happened to it |
| Timer and interrupts (`kernel/interrupt.c`, `handlers.S`) | `pit_count` | tic_PIT, keyboard_IT, mouse_callback | preemption of user code anywhere; the counter wraps | sleepers wake, equal priorities share the processor |
| Boot, system calls, context switch | the first process, the keyboard's queue | kernel_start, user_IT, CTX_switch | masked interrupts make a call atomic up to a context switch | - |
| Memory allocators (`shared/malloc.c.h`, `kernel/mem.c`, `user_stack_mem.c`) | chunks with boundary tags, fast bins, bins and their map, top | mem_alloc, mem_free | chunks merge and split from tags that earlier calls left | blocks never overlap; a request fails only when nothing fits |
| Scan codes (`kernel/kbd-linux/`, `driver/keyboard-glue.c`) | prefix, key_down, k_down, shift_state, npadch, lights | do_scancode, one byte per interrupt | a key spread over several interrupts; two keys for one modifier; combinations without a keymap | modifiers act exactly while a key for them is held |
| Console input (`kernel/driver/keyboard.c`) | queue `keyboard_buffer`, echo flag | keyboard_data (interrupt), cons_read, cons_readline | psend in interrupt context on behalf of whatever process is active | the handler never blocks; the lines read are the lines typed |
| PC speaker (`kernel/driver/beep.c`) | deadline of the tone, the speaker bits | beep, async_beep, check_buzzer | processes and interrupts share one speaker | a tone lasts its delay and ends |
| Console output (`kernel/console.c`) | display memory, cursor, colours | console_putbytes, the clock and the cross | the clock interrupt writes in the middle of output | the screen shows the end of what was written |
| PS/2 and mouse (`kernel/driver/ps2.c`, `mouse.c`) | packet assembly, position | init_ps2, init_mouse, mouse_IT | lost bytes; any part may fail its test | packets stay aligned, the keyboard survives |
| Floppy and disk (`kernel/driver/floppy.c`, `disk.c`) | motor, DMA buffer and its cylinder, controller phases | read, view, write | transfers fail and are retried; processes sleep inside the driver and share one buffer | a block device |
| FAT16 (`kernel/filesystem/`) | clusters, directory entries | read, write, list, add, remove | chains across clusters, running out of space half way | files are byte sequences |
| Library (`shared/string.c`, `doprnt.c`, `printf.c`, `sprintf.c`, `strto*.c`, `div64.c`) | strtok's pointer, printf's buffer | - | overlap, cut strings, widths and precisions, a quotient estimate | each function is its definition |
| Debugger (`kernel/debugger.c`, `gdb_serial*.c`, `serial.c`) | saved registers, `connected`, `do_debug`, a packet buffer | trap_handler, gdb_serial_converse, getpacket, putfrags | a line that loses and spoils characters, with no timeout on this side | gdb and the program agree; every command is answered |
| Shell, user programs, tests, processor structures | - | - | - | see section 7 |

Components interact by direct calls under masked interrupts: system calls
(interrupt gate 49) and device interrupts enter the kernel, which runs to
`iret` or to `CTX_switch`. What crosses a context switch is shared state: the
process and queue tables, the pointers a blocked process leaves in `state_attr`
to the locals of its suspended call, the floppy's buffer and its tag, the
speaker, the cursor. That is where most hazards of this code are; the others
are numeric edges in the library and lost or repeated bytes on the mouse's and
the debugger's lines.

## 2. Modules

    ProcessLists        the lists as sequences: where insertions go
      Scheduler         process table primitives, tick_scheduler, fix_scheduler
        Queues          rings, waiting lists, queue calls
          Kernel        variables, system calls, timer, boot: Init, Next, Spec
            KernelProperties   invariants, action properties, liveness
              MCKernel         instance for TLC
    ListLemmas          facts about lists, loops and quotients      (proofs)
      KernelProofs      primitives and calls keep the kernel consistent   (proofs)
        KernelTheorems  what each call changes; families, messages,
                        order of the lists                          (proofs)

    Heap  implements  Allocator       the allocator
      QueueMemory                     pcreate and pdelete as its callers
    Floppy  implements  BlockDevice   the driver        MCFloppy
    Fat16  implements  FileStore      the file system   MCStorage (both)
      StorageProofs                   the file system, and the driver
                                      with one process in it        (proofs)
    LinuxKeyboard                     scan codes to characters
    ConsoleInput                      characters to readers
    Speaker                           beeps             MCKeyboard (these three)
      KeyboardProofs                  the last two                  (proofs)
    Console                           the screen
      Mouse                           packets, pointer and clicks on the screen
        ScreenProofs                  screen and pointer            (proofs)
    Ps2                               initialisation    MCScreen (with both)
    Strings, Printf, Div64            the library       MCLibrary (with Heap)
      DivisionProofs                  division                      (proofs)
    GdbStub                           traps and commands of gdb
      DebuggerProofs                  screen, registers, memory     (proofs)
    GdbLine  implements  RemoteCalls  packets on a faulty line
                                                        MCDebugger (both)

### The kernel

**State.** `K` is the record of all kernel globals; in `Scheduler` and `Queues`
every C function is an operator from such a record to the record it leaves, so
that a function that calls another is written as a composition, as in the code.
`Kernel` makes each field a variable and turns each system call into an action
`guard /\ Becomes(f(K, args))`. The guard is the negation of the call's early
returns: a refused call changes nothing and is a stuttering step. `Floppy`,
`LinuxKeyboard`, `Console` and `Heap` are written the same way.

**Atomicity.** The IDT entries are interrupt gates and kernel code never enables
interrupts except in `idle`, so a system call is one step unless it switches
context. `waitpid`, `psend` and `preceive` do something after `tick_scheduler`
returns: `call[p]` records which call process `p` is suspended in, and when `p` is
the active process that second half (`WaitpidResume`, `QueueCallResume`) is the
only step possible. `wait_clock`, `chprio`, `exit`, `start` and a preempting
`tic_PIT` do nothing after the switch but return.

**Union.** Of `state_attr`, `attr[p]` keeps the scalar that matters in the state of
`p` (wake-up clock, exit code, queue id); links are the sequences `runnable`,
`asleep`, `dead` and `waiting[<<fid, state>>]`; the pointers to locals are
`local[p]` (`child_pid` or `retval`) and `message[p]`. Reading intrusive links as
sequences is sound exactly while every process is on the list its state names,
which is `ListsMatchStates`, proved below.

**Failures.** A failed `assert`, a dereferenced NULL list head and a write through
a NULL `messages` set `mode` to `"panic"`, after which nothing happens.
`user_stack_alloc` and `mem_alloc` may return NULL when the constants
`StackAllocMayFail` and `MemAllocMayFail` say so; what they do otherwise is
module `Heap`.

**Left out.** Names, stack contents and registers; the return values of calls
that do not block; the difference between `start`/`start_background` (kernel
processes, no user stack) and `start_user` with a successful allocation; the user
pointer of `preceive` being NULL (the message is then dropped, nothing else
changes); the stale `messages` pointer between `pdelete` and the next `pcreate`,
which nobody reads. A priority given to `start` is not checked by the code and not
in the model either. `exit` of the idle process does not exist: `UserMode` says the
caller is not pid 0.

### Storage

`Floppy`: a driver call runs from one `timer_sleep` to the next without
interruption, so a step of process `p` is the code between two sleeps
(`run[p].pc` names the sleep). The controller, the disk and the head are external:
the controller takes command bytes, executes, interrupts and offers result bytes,
and any execution may fail, half-done. `BlockDevice` is what a user of `disk_t`
relies on; the mapping reads its bytes off the disk, so what a read takes from the
buffer has to agree with the disk.
`Fat16` is written on that interface: the first allocation table, the root
directory and the data area, with one action per call of `filesystem.h` and the
shell's `cat`, `ls` and find as operators. `fat_format` leaves the attributes of the
directory's entries as the disk had them, which on the in-memory disk is 0xe5 and on a
floppy anything, and adding a file keeps them: `FatInit` picks any set of entries
marked as the system's. `FileStore` is files as byte sequences.

### Keyboard and speaker

`LinuxKeyboard` models the physical keyboard (external) as a set of held keys and
the bytes on the wire; each byte is one interrupt through `do_scancode`,
`handle_scancode`, the keymaps and the key handlers. The keymap has a row for
each kind of key. The character that a handler sends may wake a reader, which runs
at once: the handler is then `suspended` and further interrupts are served before
`Resume` does what is left of it (`do_shift` forgets the number typed on the pad
only then). `ConsoleInput` has the keyboard interrupt running `psend` on the
process it interrupted, with the switch to the reader it wakes in the middle of a
key's string, and `cons_readline`, which pushes back what does not fit. It has its
own small queue (`psend`, `preceive`, `preset`, `pcount` of `queues.c` on one queue)
and scheduler: `active` changes where a call blocks or wakes somebody
(`fix_scheduler`), in `wait_clock` and at a tick of the clock, and processes of equal
priority take turns. `Prio` gives every process its priority, those that do not read
the console and the idle process included. What a process interrupted in
`keyboard_data` has left of its key waits in `proc[p].rest` until `p` is active again.
Which of several equals comes first, and which sleepers are due, is left open, so
the model allows more orders than the lists of `scheduler.c` do. `Speaker` has `beep`, `async_beep`, the clock
interrupt and the echo of keys with its piano.

### Screen and mouse

`Console` writes characters to a small screen, with the clock interrupt between
any two; `paper`, a history, is everything written since the last flush. `Mouse`
extends it with bytes read from a line that loses some. `Ps2` is the
initialisation as lines of writes and reads between decisions, against a
controller and a device (external) of which one may fail its test.

### Library

`Strings` and `Printf` give each function as an operator translated from its loop,
checked against a definition of what it is for on all memories, formats and
arguments of an instance. A format is one directive, a record of what `_doprnt` has
in its variables when it comes to the switch, between a line break and a percent
sign; its text goes character by character to the buffer of `printf` and to the area
of `snprintf`, which ends it with a NUL. `Div64` has a step per round of the correcting loop.
`Heap` is dlmalloc as CalmOS builds it (no mmap, `sbrk` up to a fixed end) with
the marker words of `mem_alloc`; `Allocator` says that blocks lie in the heap and
do not overlap.

### Debugger

`GdbStub` has the trap handler with its register dump and keys, and one action
per command of gdb, on a processor of three registers and memory behind page
tables. `GdbLine` has `getpacket` and `putfrags` a character at a time, and gdb
(external) with its retransmissions. `RemoteCalls` says that commands are carried
out in order and answered by their own answers.

### Composition in one run

Parts that share no state are checked in one run: the MC module has a variable
`part` that names the part in use, the others stay in their initial state. Where a
part is looked at under several workloads these are records the module takes
from a constant (`session`, `users`, `keyboard`, `mouse`): the workload is picked
in the initial state and never changes.

### Faults

Operators marked `Fault:` are plausible mistakes in the definition that follows
them. The model does not use them; each property, and each named part of those
that are conjunctions, fails when one of them replaces the definition.
`PROJECT.json` ("mutants") names one for each property.

## 3. Runs

| Run | Properties | Bounds | States |
|---|---|---|---|
| `processes` | `TypeOK`, `ListsMatchStates`, `PidsConserved`, `ListsSorted`, `NoPanic`, `ParentsAlive`, `NoLostChild`, `WokenParentHasChild`, `PriorityKept`, `ZombiesKept` | 4 pids, 2 priorities, clock of 4 values with a tick every 2, exit codes 0 and 7, waits for a named child and for any | 118 556 |
| `queue_calls` | `KernelInv`, `ListsSorted`, `WaitersJustified`, `QueuesCounted`, `ReceiveTruthful`, `NoOvertaking`, `PriorityKept` | 4 pids, 1 queue of capacity 1 or 2, 2 messages up to renaming, kill and demotion | 383 279 |
| `timer` | `RoundRobin`, `SleepersWake` | 4 pids, clock of 4 values that wraps, sleeps to every value, waits for any child | 115 300 |
| `storage` | `DriverInStep`, `IsBlockDevice`, `WritesEnd`, `FilesWhole`, `IsFileStore` | 2 cylinders of 2 bytes, 2 tries; 3 data clusters of 2 bytes, 2 entries marked in any way, cat in pieces of 3 | 122 944 |
| `keyboard` | `ModifiersExact`, `KeysDelivered`, `LinesRead`, `BeepsHeard` | three keyboards and one suspended handler, four uses of the console, three uses of the speaker | 468 100 |
| `screen` | `ScreenShown`, `PointerFollows`, `MouseReady` | screen of 4 by 2, 4 rows written; 2 or 1 bytes lost; 6 devices, 4 failures | 612 437 |
| `library` | `StringsFollowed`, `FormatsExact`, `DivisionsExact`, `HeapWhole`, `IsAllocator` | memories of 6 and 10 bytes, 8-bit longs, 3-bit words, heap of 508 bytes | 169 806 |
| `debugger` | `ProgramAgrees`, `TrapsHandled`, `IsRemoteCalls`, `CommandsAnswered` | 2 instructions, 8 bytes behind 3 page directory entries; 3 commands, 1 fault of the line | 245 917 |
| `wait_any_negative`, `queue_memory`, `floppy_shared`, `fat_cat` | one each | | findings |

Programs are arbitrary: any process may make any call with any argument of the
input sets. Why the bounds are enough to be interesting:

- Kernel: three user processes give a parent, a child and a bystander that
  interferes between the child's end and the parent's resumption, or two blocked
  processes and one that acts on them; two of them can have equal priority with
  the third above or below. Capacity 1 makes a queue full and empty at once within
  one step, capacity 2 makes the ring wrap. Odd clock values lie between
  scheduler ticks, and the clock wraps. The queue run lets the timer tick at every
  interrupt, which preempts everywhere, and has no sleepers or waitpid, which are
  in the other runs.
- Storage: requests lie inside a cylinder and across both; two tries make a
  first failure, a success after it and an exhaustion. Files of 0, 1, 3 and 5 bytes
  take no, one, two and three of the three clusters, so chains fragment and
  additions fail half way; cat, which reads 3 bytes at a time, shows the first three
  as the shell shows files up to 2000 bytes.
- Keyboard: both Shift, both Control, AltGr and CapsLock with a letter, all
  held together; the pad with Alt, where a number is being typed, and a handler
  that is suspended in sending it (`MaxSuspended`). Lines longer
  than the string in a buffer of 4, type-ahead on a buffer of 3 that fills up, the
  same beside two processes of equal priority of which one is interrupted in the
  middle of a key and the other by the next, three readers of characters of which two
  have the same priority. Sessions with type-ahead have no line longer than
  the string, because the code loses type-ahead there (section 5).
- Screen: text goes past twice the height, so lines that the clock drew over
  scroll away. Displacements reach the edges from anywhere in one packet.
- Library: six bytes hold two strings, a separator and an overlap; ten hold
  two words and a tail, at most four of them not NUL. Arguments at 0, the largest, the most negative, and in
  between. Every division of a 6-bit by a 6-bit number, but by those whose leading
  word is all ones (section 5). The heap has room for a few blocks from fast bins,
  small and large bins; any number of calls with three blocks, and every sequence
  of 7 calls with five.
- Debugger: page and table boundaries, a large page and holes. One fault
  anywhere, in either direction, in a conversation in which packets contain `+`
  and a quoted `#`. The stub's buffer holds the longest packet and no more.

Fairness, and why the code justifies it:

- `timer`: strong fairness of the tick. The PIT fires at 200 Hz whatever programs
  do; a request that comes while interrupts are masked is kept by the 8259 and
  served when they are not. Weak fairness would not do, because the interrupt is
  not possible while a suspended call is being finished, and processes may do
  that again and again. Weak fairness of the two resumption steps, which are the
  continuation of running kernel code. `SleepersWake` speaks of clocks up to the
  last tick before the wrap: a later clock is only reached by other calls of
  `tick_scheduler`.
- `storage`: the controller ends what it executes (well or not), and a process in
  the driver goes on when its sleep is over.
- `keyboard`: kernel code that runs goes on; for the speaker, the clock ticks and a
  sleep that is over ends. Nothing is assumed of who is elected: a reader that sends
  a line back is not preempted, as interrupts are masked.
- `screen`: the mouse goes on sending, its interrupts are served; straight-line
  code goes on.
- `library`, `debugger`: code that runs goes on; gdb goes on reading, and repeats
  after its timeout.

Nothing is assumed of programs. Deadlock is checked in the kernel runs, where the
idle process and the timer never stop; the other runs end where their bounds or
the end of the calls end them.

`PriorityKept` is an action property because the boot state is the one place
where a process of higher priority is runnable while another one, the idle
process, is active: `kernel_start` uses `start_user_background`, and the first tick
elects the first program.

## 4. Findings

1. `wait_any_negative`: `waitpid` with a negative pid other than -1 accepts any
   child before it blocks, but `stop` wakes a parent only for -1 or the child's own
   pid: the parent is never woken (`NoLostChild`).
2. `queue_memory`: `pdelete` zeroes `capacity` before it passes `capacity * 4` to
   `mem_free`, which returns at once for length 0; after enough `pcreate` and
   `pdelete` there is no memory for a queue, with no queue left (`PcreateServes`).
3. `floppy_shared`: while a process sleeps in `do_track`, the buffer already holds
   another cylinder under the old tag; a second process is told it is "Already in
   floppy_dmabuf" and reads the wrong cylinder (`AlreadyInBuffer`). `storage` has
   one process in the driver at a time for this reason.
4. `fat_cat`: a read that starts inside a cluster takes a whole cluster from there,
   runs into its neighbour and starts the next one too early; the shell's cat
   reads 2000 bytes at a time from clusters of 512 (`CatShowsFile`). `storage` has
   offsets at clusters for this reason.

## 5. Other known deviations

Each was met while modelling and confirmed with TLC. The runs above are set up so
that they stay clear of them; the property in the third column, defined next to
the others, is violated under the change of configuration in the fourth.

| Where | What | Property | Under |
|---|---|---|---|
| `scheduler.c:178` | a failed `user_stack_alloc` loses the popped pid | `PidsConserved` | `processes`, `StackAllocMayFail = TRUE` |
| `queues.c:163` | a failed `mem_alloc` leaves a capacity with no memory | `NoPanic` | `queue_calls`, `MemAllocMayFail = TRUE` |
| `scheduler.c:93` | `chprio(0, n)` raises the halt process, "Lowest priority halt process" (`scheduler.h:61`) | `IdleLowest` | `processes` |
| `floppy.c:396` | `sleep_timer` is started only if its pid is 0, which is -1 at first: the motor never stops | `MotorStops` | `TimerSpec` of `Floppy` |
| `fat16.c:242` | a new file keeps the attributes its entry had: on the in-memory disk 0xe5, and it is never listed | `ListComplete` | `storage`, `fat_cat` |
| `fat16.c:477` | `size - offset` wraps past the end of a file | `ReadsPart` | `PartOffsets` between a file's size and the end of its last cluster |
| `scancode.c:256` | an E0 modifier held at boot: its release is taken for a press | `NothingSticks` | a keyboard with boot key 97 |
| `kbd-linux/keyboard.c:773` | the number typed on the pad is sent before it is forgotten; while its handler is suspended in the send the next digit continues it | `NumbersApart` | `keyboard` |
| `malloc.c.h:15` | `sbrk` refuses to shrink, so free never trims | `FreeTrims` | `Heap`, small `TrimThreshold` |
| `doprnt.c:364` | `%-6.2s` of a longer string is one blank short | `LeftAdjusted` | `library` |
| `doprnt.c:491` | `%X` prints small letters | `CapitalLetters` | `library` |
| `doprnt.c:282` | the example of the comment on `%b` prints `13<FIELD1=2,BITTWO,BITONE>` | `BitFieldExample` | `library` |
| `sprintf.c:90` | of a text of `size` characters or more `vsnprintf` keeps `size` and writes the NUL to `s[size]`; nothing in the repository calls it | `WithinSize` | `library` |
| `div64.c:39` | the leading word of the divisor plus one wraps to 0: a trap | `NeverTraps` | `OnesDivisors = TRUE` |
| `gdb_serial.c:450` | the length of `X` counts quoted bytes twice | `MemoryAgrees` | `CommandOf(MemoryEscaped)` in `MCDebugger` |
| `gdb_serial.c:562` | detach leaves the trace flag of a step | `DetachContinues` | `debugger` |
| `gdb_serial.c:492` | a step changes eflags and does not set `regs_changed` | `ChangesTold` | `debugger` |
| `keyboard.c:21` | the rest of a key waits behind processes of the same priority as the one interrupted, and their keys get in between | `KeysTogether` | `keyboard` |
| `keyboard.c:47` | what is typed beyond the string goes to `buf_save`, without a look at its `BUFFER_SIZE` places | `InputTypeOK` | `line` beyond `length + buffer` |
| `keyboard.c:68` | pushing a long line back drops what was typed ahead | `LinesExact` | long lines with `ahead` |
| `keyboard.c:72` | a line longer than string and buffer together blocks its reader for ever | `EnterReturns` | `line` beyond `length + buffer` |
| `beep.c:37` | of two beeps the first to end silences the other | `HeardToTheEnd` | without `OneSource` |
| `beep.c:36` | a player killed in `beep` leaves the speaker on | `FallsSilent` | without `~MayKill` |
| `interrupt.c:66` | after 99 hours the time does not fit `time_str` | `TimeFits` | `CLOCKFREQ = 1`, `Sixty = 1`, 100 ticks |
| `interrupt.c:90` | a painted cell turns black when the button is released and the mouse moves | `ClickPaints` | `screen`, packets with buttons |
| `ps2.c:211` | the wait for the controller has its condition inverted | `WritesWhenClear` | `FastController = FALSE` |

## 6. Proofs

Every invariant and action property that the kernel runs check is a theorem, with
no bound on the tables, the clock, the priorities, the capacities or the programs
(`SizesAssumption`, `InputsAssumption`, `UninitAssumption` are all that is assumed
of the constants). So is that the floppy driver implements the block device, for
every size of the disk and every number of retries and polls (`FloppyAssumption`,
and `RequestsAssumption`: callers stay on the disk), and that the file system
implements files, for every size of disk, directory and cluster (`Fat16Assumption`,
whose one bound is that of 16-bit cluster numbers). The invariants of the console,
the screen, the speaker and the debugger are theorems as well: for every buffer,
screen, tab stop, page size, page table, program of gdb's commands and byte of the
mouse (`SessionsAssumption`, `SpeakerAssumption`, `ScreenAssumption`,
`PacketsAssumption`, `StubAssumption`, `TablesAssumption`, `CommandsAssumption` give the
constants their types; the last two also keep page frames inside the memory and
addresses below the last one). Where a hypothesis is named, section 4 or 5 or the
subsection below shows what happens without it.

| Theorem | Property | Hypothesis | Inductive invariant |
|---|---|---|---|
| `KernelInvariant`, `TypesKept`, `ListsKeptInStep`, `RunningIsActive`, `WokenParentsFindChild` | `KernelInv`, `TypeOK`, `ListsMatchStates`, `OneRunning`, `WokenParentHasChild` | | `KernelInv` |
| `PanicFree` | `NoPanic` | `~MemAllocMayFail` | `KernelInv` |
| `ParentsStayAlive` | `ParentsAlive` | | `KernelInv /\ Family(K)` |
| `PidsNeverLost` | `PidsConserved` | `~StackAllocMayFail` | `KernelInv /\ Family(K)` |
| `WaitersKeepAChild` | `NoLostChild` | `DocumentedWaits`: no negative pid but -1 | `KernelInv /\ Family(K)` |
| `ZombiesWait` | `ZombiesKept` | | `KernelInv /\ Family(K)` |
| `NobodyWaitsInVain` | `WaitersJustified` | | `KernelInv /\ Post(K)` |
| `ReceiversToldTheTruth` | `ReceiveTruthful` | | `KernelInv /\ Post(K)` |
| `QueuesStayCounted` | `QueuesCounted` | `~MemAllocMayFail` | `KernelInv /\ Post(K)` |
| `ListsStaySorted` | `ListsSorted` | | `KernelInv /\ Sorted(K)` |
| `NobodyOvertakes` | `NoOvertaking` | | `KernelInv /\ Sorted(K)` |
| `PriorityIsKept` | `PriorityKept` | | `KernelInv /\ Sorted(K)` |
| `DriverInvariant`, `DriverStaysInStep` | `DriverInStep` | `Procs = {p}`: one process in the driver | `Good(G, p)` |
| `ImplementsBlockDevice` | `IsBlockDevice` | `Procs = {p}` | `Good(G, p)` |
| `ChainsAlwaysWhole` | `FatTypeOK`, `FatNoPanic`, `ChainsPartition` (parts of `FilesWhole`) | | `FatInv` |
| `FilesAreStored` | `IsFileStore` | `Aligned`: calls start at cluster boundaries | `FatInv` |
| `FilesAlwaysWhole` | `FilesWhole` | | `FatInv` |
| `KeysAlwaysDelivered` | `KeysDelivered` | each session is `ByCharacter` or `ByLine` | `InputInv`: `KeyInv`, and `CharInv` or `LineInv` |
| `BeepsEndInTime` | `SomeoneStops`, `HeardToTheEnd` (parts of `BeepsHeard`) | | `SpeakerInv` |
| `ScreenAlwaysShown` | `ScreenShown` | | `ScreenInv` |
| `PointerAlwaysOnScreen` | `OnScreen` (part of `PointerFollows`) | | `ScreenInv` |
| `TrapsAlwaysHandled` | `TrapsHandled` | | `Handling` |
| `DivisionsAreExact` | `DivTypeOK`, `Divides`, `NearEstimate` (the safety of `DivisionsExact`) | | `DivInv` |
| `DivisionsNeverTrap` | `NeverTraps` | `~OnesDivisors`: no divisor leads with a word of ones | `DivInv` |
| `ProgramAlwaysAgrees` | `ProgramAgrees` | `NoAliases`, `NothingQuoted` | `InCourse /\ Remembered` |

### Consistency (`KernelProofs`)

None of the first six is inductive alone. `NoPanic` needs the runnable list
to hold a process whenever the context switch runs (the idle process, so
`OneRunning` and `ListsMatchStates`), the assertion of `waitpid` needs
`WokenParentHasChild`, and that one needs to know that a process blocked on a queue
is not in `waitpid` (`QueueCallers`), or `wakeup_all_processes` could overwrite
`child_pid` with -1. `KernelInv` puts them together: `Stable(K)` (types, lists, idle
ready, only the active process running, written children, queue callers) and,
while `mem_alloc` finds room, `SafeRings(K)` (indices inside the ring, an array as
long as the capacity, no panic).

Inside a system call the kernel passes through states that are not stable: a
process is off every list, or the active one no longer runs. Hence two
predicates. `ListsBut(s, X)` is list consistency with the processes of `X` on no
list; each primitive moves one process into or out of `X`. `Sound(s)` is `Stable`
without "the active process runs": `TickStable` and `FixStable` show that
the scheduler turns a sound state into a stable one. There is a lemma per system
call, and the step of `Next` cites it. The loops (`WakeTurns`, `FailTurns`,
`UnbindTurns`) are recursive functions over an interval; `LoopExists` shows that such
a function exists and `UpTo` carries the invariant along it, both from the least
element of a set of naturals.

### Changes (`KernelTheorems`)

A call changes something and then runs the scheduler, which may elect another
process and wake sleepers. `StepKinds` takes `Next` apart that way: every step goes
from `K` through a state `u` with `Change(K, u)` (`Reprioritised`, `Slept`,
`Awaits`, `Reaped`, `Started`, `Stopped`, the queue changes, ...: one predicate per
kind of change, naming every field) to `K'`, which is `tick_scheduler(u)`,
`fix_scheduler(u)`, or `u` itself when the change moved nobody (`Unmoved`).
`TickQuiet` and `FixQuiet` say what the scheduler leaves alone. The three parts that
follow need one lemma per kind of change, and none about the calls.

### Families (`KernelTheorems`)

`Family` strengthens what the properties say in one place: a process suspended in
`waitpid` for any child has a child that is not dead and none that is a zombie, and
one suspended for a named child has that very child, alive (`Awaiting`). `stop`
keeps it because the end of a child either wakes its parent or is not what the
parent waits for; the unbinding loop of the ending process, because its own
children are no longer anybody's. `PidsKept` needs `start` to return the pid it
popped whenever it fails, which it does not when the user stack is missing: hence
the hypothesis.

### Messages (`KernelTheorems`)

`ReceiveTruthful` speaks of the return of a suspended call, so `Post` follows the
call from its suspension (`Letter`: the locals a blocked process left are the
initial ones until somebody hands over a message or fails it). `Justified` gives
each blocked process its reason. It is kept by `psend` and `preceive` because they
hand over directly whenever somebody waits on the other side, so a queue with
waiting receivers is empty and stays so; by `preset` and `pdelete` because they wake
everybody. `Rings` has `front`, `rear` and `size` agree modulo the capacity;
`QueuesStayCounted` adds that `pcount` is the messages plus the blocked senders, or
minus the blocked receivers: a waiting list is as long as the set it holds.

### Order (`KernelTheorems`)

`Sorted` says that the runnable list and the waiting lists fall in priority and that
the asleep list rises in wake-up time. A change takes processes out of a list
(`Thinned`) or puts one in where `PrioSlot` or `ClockSlot` says (`Grown`); either
way the list `Serves`: if it was sorted it still is, and no process that kept its
priority was passed by an equal. `Serves` composes (`ServesTrans`), because
no process leaves the runnable list in the first part of a step to come back in the
second (`Stays`). `PriorityKept` follows from the sorted list: the
scheduler compares with its head, and where the scheduler does not run nobody
moved.

### The floppy driver (`StorageProofs`)

The hypothesis is the one the code needs: finding 3 is what a second process does.
Of the programs in the repository only the shell reads files (`user/shell.c:160`,
`:190`, `:211`), but the calls are open to every process.

`IsBlockDevice` asks that the bytes copied out of the buffer are on the disk, which
follows only from where in its retries the process is. `Good(G, p)` says so. While
the kernel runs (`Working`):

- `Rounds`: the count of a retry loop is below its limit;
- `Errand`: what the process is asleep for is the cylinder of the next byte of its
  request, or it has nothing to do;
- `InPhase`: how many bytes of the command the controller has and how many the
  process has left make the command (`IsCommand`), the result bytes read and to be
  read make the answer, and the interrupt flag tells which of the two it is;
- `Spun`: a command is given and executed with the motor on;
- `Held`: between calls the buffer is the cylinder `floppy_dmacyl` names; during a
  write it is the cylinder on the disk with the bytes of the write in it
  (`Merged`), even after a transfer that failed half way; and while results are
  read they are all the same status, which is OK only if buffer and disk agree.

A C function is an operator on states, so there is a lemma per function
(`SeekGood`, `DoTrackGood`, `LoadedGood`, `WriteGood`, `ReadGood`, ...), from the states
between two commands (`Calm`, `Vacant`) up to the actions. Each also says what
happens to the disk and to the call: nothing (`Inward`), bytes copied out or
acknowledged (`Served`), or bytes of a write on their cylinder (`Landed`). `StoreStep`
turns these into `Submit`, `Deliver`, `Land`, `Acknowledge`, `Finish` or no step of
`BlockDevice`; it needs that addresses of one turn are one cylinder
(`SameCylinder`, `OwnAddress`), which is arithmetic on quotients (`Division`).

### The file system (`StorageProofs`)

`Aligned` is what the code relies on and does not check: the shell's cat reads 2000
bytes at a time from clusters of 512, which is finding 4. What goes wrong there is
which bytes are transferred, never the chains: `ChainsAlwaysWhole` and
`FilesAlwaysWhole` need no hypothesis. The latter says of `cat` what is true of this
shell, too: files that it reads in one call come out right (`CatExact`), and all files
would if its buffer were whole clusters; and of `ls` and find that they show the files
that are not marked as the system's (`ListExact`), whatever the directory's entries
were marked with, on the in-memory disk or any other. That new files are marked at
all is the row on `fat16.c:242` in section 5. Writes of any length are covered, beyond the
end of the file too (`Trim`), and so are offsets past it, as a chain has no clusters
there: with `Aligned` neither `size - offset` that wraps nor the rest of the last
cluster lets a call leave its file's clusters.

`FatInv` says of the table and the directory (`WholeFiles`) that the chain of a file is
`IsChain` (ends with the mark, no cluster twice, each value the next one) and as
long as its size needs (`TurnsFor`), that two files have no cluster in common, and
that every cluster that is not free is in a file. Beside the types it needs that
cluster 1 keeps the end-of-chain value, which `fat_add_data` reads from there.

- Chains: `Chain` walks the table with a recursive function that may end in `Broken`;
  `ChainFound` shows that it returns any sequence that `IsChain`, and `ChainKept` that it
  does not look at other clusters.
- Adding: `AddTurnKeeps` is the invariant of the loop of `fat_add_data`: what was written
  so far is a chain of clusters that were free, and the rest of the table is as it
  was. When there is no free cluster that chain is given back, so the table is the
  one before the call (`AddDone`). `RemoveKeeps` is the same for a removal.
- Bytes: `TransfersAre` says which pieces the loops of `fat_read_data` and
  `fat_write_data` transfer, `PiecesJoin` puts pieces end to end, and with them
  `Delivers` is the read and `Rewritten` the write of a part. Two clusters have no
  address in common (`AddressesApart`), so other files keep their bytes. `AddIs`,
  `RemoveIs`, `ReadIs` and `WriteIs` make the four calls steps of `FileStore`.
- The shell: `CatStarts` gives the first read of `cat` and `CatReads` the following ones,
  `CatWorks` joins them; `ListAnswers` follows `fat_fs_list` from entry to entry
  (`Listed`: the visible files so far, less those to skip), of which `FindsFile` and
  `ListsAll` are the uses.

### Console input (`KeyboardProofs`)

The keyboard interrupt sends the characters of a key with `psend` on behalf of the
process it interrupted; it first asks `pcount`, and gives the rest of the key up when
`BUFFER_SIZE` characters are queued. `pcount` also counts blocked senders, so once
`cons_readline` blocks while it sends back the end of a long line the count exceeds
`BUFFER_SIZE`, the comparison `!=` in `keyboard_data` lets the next character through and
the interrupt blocks a process that made no call. The theorem therefore has to
show that no reader ever blocks in `psend`. Processes that read single characters
(`ByCharacter`) send nothing; for a process that reads lines (`ByLine`) it follows
from two conditions: it is the only one that reads the console, and what is typed
between two Enters is shorter than its string and the buffer together (section 5,
`keyboard.c:72`, is the case beyond). Other processes, any number of them and of any
priorities, may run beside it.

`KeyInv` is about the order. Several keys may be under way at a time, each on the
stack of the process it interrupted. `Elected` says that the active process has the
highest priority of those that can run, and that nobody sleeps in the handler.
A key is only ever pressed while the active process is outside the kernel, so those
whose rest waits have at most its priority: `Stacked` says that of two keys under way
the later is on a process of at least the priority of the earlier one's, and
that the next character of each may follow what has been accepted. Equal priorities
satisfy this, so the characters of two keys may mix (`KeysTogether` in section 5);
what stays is `KeysInOrder` and `OvertakenByHigher`. `Loaded` counts the characters
under way against the bound of a line. `Settled` is what these arguments need of the
reader: nobody is blocked in `psend` nor will be by the next step.

`CharInv` counts: what was accepted is returned, queued or received by one process,
and the waiting list is the set of processes that wait. `LineInv` has to bound
`msg_len` and `buf_save` of a suspended `cons_readline` by what was typed, although
type-ahead of later lines and characters that were sent back stand in the
same queue. `Places(messages, low, top)` says so without a history: each queued
character can be given its place in its line, rising between two Enters; the reader
has seen at most `low` characters of the line at the front (`Within`) and the line at
the end has at most `top`, which is no more than what was typed since the last Enter.
What is being sent back (`Unread`) fits the room left and ends in Enter, because the
buffer is empty when it begins and nobody else runs until it ends: its `psend` wakes
nobody, as the only reader is the sender itself.

### Speaker (`KeyboardProofs`)

`SpeakerInv` adds to `SomeoneStops` who the speaker sounds for: with the keys alone the
deadline of the tone is that of the last beep, with one player alone it sounds
while that player sleeps.

### Screen (`ScreenProofs`)

`ScreenInv` relates the display memory to `paper`, the history of what was written:
row `l` of the screen is row `l + Above` of the paper wherever the clock and the cross
have not drawn, cells beyond the paper are blank, and the cursor is in the last row
of the paper. `wrap_cursor`, `handle_char` and `screen_scroll` each have a lemma that
says what happens to screen and paper together (`Struck`, `Rolled`); the
characters of one `console_putbytes` are a loop, carried by `UpTo`. The pointer part
needs only that the three or four bytes of a packet are bytes: the position is
clipped whatever they are.

### Debugger (`DebuggerProofs`)

`Handling` adds to `TrapsHandled` that the conversation is entered with `do_debug` set
and that the program's screen is saved during the register dump. `InCourse` says
what gdb was last told of the registers, which flag a step leaves and how many
instructions were run since. `Remembered` says that what gdb knows of the memory is
what the page tables show. Its lemma `CopyoutShows` is about the loop of
`gdb_copyout`: after each turn the bytes written are those of the packet and the
rest is as it was (`Shows`), page after page, across tables, large pages and holes.
It needs `NoAliases`, since a page mapped twice shows one write at two addresses and gdb
is told of one; and `NothingQuoted` because of `gdb_serial.c:450` (section 5). The tables and
packets of the run satisfy both (`MemoryAssumption` in `MCDebugger`).

### Division (`DivisionProofs`)

The run divides 3-bit words, the theorem words of any length (`DivAssumption`).
`Estimate` is the arithmetic behind the algorithm. Let `h` be the highest power of two
in the upper word of the divisor `b`, so that `h W <= b < 2 h W`, and let `ys` and `xs`
be divisor and dividend shifted right past `h`. Then `b < 2 h (ys + 1)`, so the
quotient `e` of `xs` and `ys + 1` is not above the true one; and `a` is below
`2 h (ys + 1) (e + 1)`, which exceeds `b (e + 1)` by at most `2 h W`, twice the divisor:
`e` is at most two below. `DivInv` adds the rounds used to what is left of the
remainder, so that the loop ends in time and `x0` does not wrap. The small
divisors are long division (`LongDivision`). Powers of two are a recursive function
(`Powers`) because the provers know nothing of `^`.

### Only model-checked

Liveness (`RoundRobin`, `SleepersWake`, `CallsEnd` and the other temporal
properties) is beyond this prover, as is what a recursive function computes for
every input: `StringsFollowed`, `FormatsExact`, `HeapWhole` and `IsAllocator`
rest on such functions. `LinesRead` and `BeepsHeard` contain liveness; the
lines themselves (`LinesExact`) compare with a recursive reading of the history.
`ModifiersExact`, `MouseReady`, `IsRemoteCalls` and `CommandsAnswered` have no theorems; of
`PointerFollows` and `DivisionsExact` the parts in the table are proved.

## 7. Not modelled

- The shell and the user programs. They act on the kernel through system calls
  only, and `Kernel` lets every process make every call at any time, so what they
  can do to it is included; their own text handling is the library's.
- The kernel and user tests, which were read as statements of what is expected.
- The processor set-up (`crt0.S`, `boot/processor_structs.c`), the PIT and PIC
  programming, register saving and argument passing: straight-line code run
  once, or beneath the level of these modules.
- File names (short and long), and code nothing calls: `calibrate` and `reset` of the
  floppy, realloc and the statistics of the allocator, the raw and Unicode modes of
  the keyboard, the ioctl entry points, `console_set_foreground`.
- The order of equals in the lists of the scheduler and `chprio` or `kill` of a process
  that uses the console, in `ConsoleInput`: they are in `Kernel`.
- `applkey` builds the string of a cursor key in a static buffer
  (`kbd-linux/keyboard.c:406`), which a second cursor key may overwrite while the
  first is suspended in `keyboard_data`. In `LinuxKeyboard` a string is one token, in
  `ConsoleInput` each key has its own. The two characters of `do_meta` are sent in one
  step, for the same reason.
- Speaker: the deadline is a number of ticks left, so the wrap of the clock and a
  deadline that happens to be the clock value 0, which `check_buzzer` takes for none
  (`beep.c:31`, `:46`), are not in the model.
- `memmove` backwards leaves the direction flag set (`string.c:141`); what compiled code
  does with string instructions after that is beneath these modules.
- Floppy: `do_cached` asks `has_floppy()` first (`floppy.c:530`) and fails at once without
  a drive; the model has a drive.
- Debugger: the sequence test reads the third byte of a packet that may be shorter
  (`gdb_serial.c:112`), a byte of an earlier one; the model takes it for no colon.
  gdb asks for at least one byte of memory and for lengths and register numbers
  far from the largest word: an `m` of length 0 makes `putfrags` print the buffer up to
  its first NUL (`:150`, `:380`), `len*2` wraps (`:371`) and so does `(reg + 1) * 4`
  (`:341`).
- The floppy's cache under the file system: `fat_update_dir_entry` writes through
  the pointer of `disk_view`, which on the floppy is the cache only. Nothing adds
  files on the floppy.

## 8. Plan

1. Proofs about `GdbLine` (`IsRemoteCalls`) and `LinuxKeyboard` (`ShiftStateHeld`).
2. An abstract channel for the queues, and `Kernel` shown to implement it.
