# Verification of DosBox4SK

This directory holds TLA+ specifications of DosBox4SK, the Android port of the
DOSBox 0.74 emulator, the TLC configurations that check them and TLAPS proofs
about them. Paths below are relative to `src/jni/dosbox/` unless they start
with `src/`.

The emulated machine runs on one thread: `Normal_Loop` lets the CPU core
execute guest code for a slice of cycles, fires the timed events of the
devices, and starts a new millisecond. What makes this hard is not parallel
execution but the *order* of calls. Guest code, event handlers, tick handlers
and input events all call into the same interrupt controllers, event queue and
memory managers, each at its own point of the loop, and the controllers and
managers keep redundant state (caches, linked lists threaded through guest
memory) that has to stay consistent through every order of calls. The Android
user interface adds a second thread that writes into the first one's state.

## 1. Inventory

| Component | State | Operations | Interacts with |
|---|---|---|---|
| Interrupt controllers, `src/hardware/pic.cpp:26-354` | `irqs[16]`, `pics[2]`, `PIC_IRQCheck`, `PIC_IRQActive`, `PIC_Special_Mode` | raise and lower a line, write mask, ICWs and OCWs, `PIC_runIRQs` | devices, guest I/O, CPU loop |
| BIOS interrupt handlers, `src/cpu/callback.cpp:196-313`, `src/ints/bios.cpp` | guest stack, interrupt flag | CLI, STI, EOI, IRET, nested calls | controllers, CPU |
| Event queue, `pic.cpp:356-501` | `pic_queue` (used and free list), `srv_lag`, `CPU_Cycles`, `CPU_CycleLeft` | add, remove, run, end of slice | every device, CPU core |
| Clock and ticks, `pic.cpp:503-550`, `include/pic.h` | `PIC_Ticks`, tick handlers | `TIMER_AddTick`, `PIC_FullIndex` | emulation loop |
| Emulation loop, `src/dosbox.cpp:131-260` | `ticksRemain`, cycle statistics | `Normal_Loop` | all of the above |
| Interval timer, `src/hardware/timer.cpp` | `pit[3]`, latches | control word, reload, read, `PIT0_Event` | queue, IRQ 0 |
| Page allocator, `src/hardware/memory.cpp:310-489` | `memory.mhandles` | allocate, release, reallocate, best match | XMS, EMS, VCPI |
| XMS driver, `src/ints/xms.cpp` | `xms_handles` | allocate, free, lock, resize, move, UMBs | allocator, DOS memory |
| EMS and VCPI, `src/ints/ems.cpp` | `emm_handles`, `emm_mappings` | allocate, reallocate, release, map, save and restore maps | allocator |
| DOS memory, `src/dos/dos_memory.cpp` | memory control blocks in guest memory, strategy, UMB link | allocate, resize, free, link | programs, XMS driver |
| DOS processes, `src/dos/dos_execute.cpp` | PSPs, environment blocks | execute, terminate, stay resident | DOS memory, files |
| Keyboard, `src/hardware/keyboard.cpp`, `src/ints/bios_keyboard.cpp` | scan code ring, port 60h latch, BIOS ring | key event, transfer event, IRQ 1 handler, INT 16h | queue, IRQ 1, UI |
| Mouse, `src/ints/mouse.cpp` | event queue, button state | UI event, IRQ 12 handler | queue, IRQ 12, UI |
| DMA, `src/hardware/dma.cpp` | channels, page registers | read, write, mask, terminal count | sound cards |
| Sound cards and mixer, `src/hardware/{sblaster,mixer,...}.cpp` | DSP state, ring buffer | DSP commands, DMA transfer, mix, callback | DMA, queue, audio thread |
| Video, `src/hardware/vga*.cpp`, `src/gui/render.cpp` | registers, draw state | I/O, draw events | queue |
| DOS files and drives, `src/dos/dos_files.cpp`, `drive_*.cpp`, `drive_cache.cpp` | `Files[]`, PSP handle tables, FAT, directory cache | open, close, duplicate, read, write, search | processes, host files |
| Shell, `src/shell/` | batch file stack, environment | commands, batch | processes |
| CPU cores, `src/cpu/` | registers, code cache, TLB | execute | all |
| Android bridge, `src/jni/locnet_al/AndroidOSfunc.cpp`, `src/jni/fishstix/locnet_loader.cpp` | `eventQueue`, `loadf`, settings | JNI calls from the UI thread, poll from the emulator thread | loop, mixer, video |
| Android UI, `src/src/com/fishstix/dosbox/` | activity lifecycle | touch and key events, menu | bridge |

Not part of the core: SDL and the maths library (vendored), scalers, the
debugger, configure scripts and project files, binaries under `bin/` and
`obj/`, generated Java under `gen/`.

What makes each modelled component correct:

* **Controllers.** The CPU loop looks for an interrupt only when
  `PIC_IRQCheck` says so, so it must hold exactly the deliverable lines, after
  any order of raising, masking and cascade changes. `PIC_IRQActive` must be
  the most urgent line in service, or a less urgent interrupt gets in or none
  ever does.
* **BIOS handlers.** Each EOI must retire the handler's own line, whatever
  interrupted it, and no handler may be entered again before it returns.
* **Event queue.** No entry is lost or freed twice, events fire in order, none
  fires late by more than the granularity of the slices, each one asked for
  fires or is cancelled.
* **Timer.** A counter that runs has one event, never two; its interrupt comes
  when the counter the program reads reaches its end.
* **Keyboard.** No order of keys, reads and commands silences it; the BIOS's
  shift, control and alt flags end up showing the keys that are down.
* **Files.** A file's reference count is the number of handles that name it,
  over all processes; the host's file stays open until the last; redirection
  reaches the command and is undone after it.
* **Memory.** A page or paragraph has one owner; what a program stored stays in
  its place; a refusal is justified; a grant is as large as asked for.

PROJECT.json lists the hazards, each at its line, with the properties that
guard against it, and says which are still open.

## 2. Modules

| Module | Models | State and actions in the code's terms |
|---|---|---|
| `PicIrq` | `pic.cpp:26-354` | `masked`, `active`, `inservice` are the lines whose `irqs[i]` flag is set; `IRQCheck` is the set of one bits; one action per port write and per device call; `PIC_runIRQs` starts the first line of the priority walk that may start |
| `PicIrqProofs` | | theorems about `PicIrq` |
| `BiosIrq` | `callback.cpp:196-313`, `bios.cpp:43-66` | extends `PicIrq` by the stack of handlers; a handler is the sequence of its STI, CLI, EOI and IRET, with the calls that may return with interrupts on |
| `BiosIrqProofs` | | theorems about `BiosIrq`, on top of those about `PicIrq` |
| `PicQueueProofs` | | theorems about `PicQueue` and `PicQueueTime` |
| `PicQueue` | `pic.cpp:356-550`, `dosbox.cpp:131-155`, the cycle counters in `core_normal.cpp`, `core_normal/string.h`, `core_dynrec.cpp`, `callback.cpp`, and where devices set them | `phase` is where the thread is in the loop or in a core; `queue` and `free` are the two lists, `current` the entry whose handler runs |
| `PicQueueTime` | `PIC_Ticks`, `PIC_FullIndex` | adds the count of milliseconds and the history of the last event fired |
| `EventSchedule` | the promise of the queue | pending events in order of absolute time |
| `Timer` | counter 0 of `timer.cpp` | extends `PicQueue` by `pit` (`pit[0]`), `start` and the line of IRQ 0; one action per port write, `PIT0_Event` as a handler of the queue |
| `TimerProofs` | | theorems about `Timer`, on top of those about `PicQueue` |
| `MCPicQueueTime`, `MCTimer` | | the events and the symmetry for TLC |
| `Keyboard` | `keyboard.cpp`, the IRQ 1 handler of `bios_keyboard.cpp`, the modifiers of `AndroidOSfunc.cpp` | the ring, port 60h, the pending transfer, the handler in three steps and the BIOS flags; one action per key event, tick, port read and command |
| `KeyboardProofs` | | theorems about `Keyboard` |
| `DosFiles` | `dos_files.cpp`, `dos_classes.cpp`, `dos_execute.cpp`, `shell.cpp` | `files` is `Files`, `tables` the handle table of each PSP, `running` the chain of processes, `command` what a shell has redirected; one action per call |
| `DosFilesProofs` | | theorems about `DosFiles` |
| `MemPages` | `memory.cpp:318-489` | the allocator as operators on the link array |
| `ExtMem` | `xms.cpp`, `ems.cpp` and VCPI | one action per call that changes state; composes the drivers over `MemPages` |
| `PageOwners` | the promise of the allocator | who holds which pages |
| `ExtMemProofs` | | theorems about `MemPages` and `ExtMem` |
| `McbChain` | `dos_memory.cpp` | the MCB chain as operators on the headers in memory |
| `DosMemory` | INT 21h 31h/48h/49h/4Ah/58h, XMS 10h/11h, `dos_execute.cpp`, of LOADFIX the option `-D` (`dos_programs.cpp:849-855`) | one action per call; `running` is the chain of processes by PSP |
| `DosMemoryProofs` | | theorems about `McbChain` and `DosMemory` |

How they compose: `BiosIrq` extends `PicIrq`; `PicQueueTime` extends
`PicQueue` and instantiates `EventSchedule`; `Timer` extends `PicQueue`;
`ExtMem` extends `MemPages` and
instantiates `PageOwners`; `DosMemory` extends `McbChain`.

### Decisions worth knowing

*PicIrq.* Line 2 is never raised by a device. Commands that end in `E_Exit`
before they change anything (level triggered mode, poll, rotate) are not
enumerated; ICW4 without 8086 mode sets `exited`, as does automatic rotation
when an interrupt starts, since state changes come first there. Registers
that only reads look at (`request_issr`, the vector base) are left out. The
constants choose the machine and the guest: `Reinit` the controllers that are
initialised anew, `SpecialMaskUsed` whether special mask mode is used, `Pcjr`
the machine. The runs use no PCjr and set special mask mode only in
`pic_special`; the proofs cover every value of the three.

*BiosIrq.* A `hook` step is a call into code that a program may have replaced;
it may leave the interrupt flag either way, and is assumed to send no EOI.
The handler of IRQ 8 does its work in a callback, in which nothing can
interrupt, so its two EOIs follow the entry directly. The handler of IRQ 9 calls
INT 0Ah (`callback.cpp:270-271`), which a program may replace too; here it is the
BIOS's own.

*PicQueue.* An event's index is a float; the model counts it in parts of a
cycle, `Sub` to a cycle, so that truncation to whole cycles shows. `Cores` says what a
slice may begin in: the interpreter (`cpu`), the recompiler of the Android build
(`dynrec`, `C_DYNREC` in `config.h:53`), or, with `core=auto`, either.

How far a slice can be overrun is what the timing properties turn on, so every way the code
takes cycles is there:

* The interpreter counts an instruction when it begins and tests before the next
  (`while (CPU_Cycles-- > 0)`, which takes one more). What an instruction takes besides is
  `Spend`: REP SCAS and REP CMPS take a cycle for each round and never test
  (`string.h:55-57`), so they go on below zero; the other string instructions stop at the
  end of the slice, and so do port delays and `CALLBACK_Idle`.
* The recompiler tests where a block begins; a block's instructions are taken all at once when
  it ends (`core_dynrec.cpp:212`), so the code in it sees the time of its beginning. A block
  ends with `BlockEnd`, or with `Handover`: an instruction it cannot hold, which the
  interpreter runs with one cycle while the rest of the slice is kept
  (`core_dynrec.cpp:277-278`). `Detour` is an instruction of memory that is being rewritten,
  which the interpreter runs without a test; `FallBack` a page without code of its own.
* `Burst` bounds what is taken without a test: the rounds of one REP SCAS (65535 in a program
  of 16 bits), the instructions of a block (32), a row of detours. It is a parameter: the
  proofs hold for each value, and the overrun of a slice is stated with it (twice, since an
  instruction handed over comes on top of its block).
* Callbacks (`native`) return to `Normal_Loop`. Code that needs cycles sets `CPU_Cycles`
  within the slice (`SetCycles`): to at most `Boost`, from nowhere, in the timer
  (`timer.cpp:337`), DOS (`dos.cpp:51-58`) and the CD extensions; down to a few, keeping the
  rest besides, in the MPU-401. Both set the clock back inside the millisecond. `MaxBack`
  bounds by how much it may stand before the millisecond's start.
* `WritePic` is a write to the interrupt controllers that ends the slice when a line is
  deliverable. `Trap` is the one instruction that the trap core runs with a slice of one
  cycle: what it schedules is counted from the end of the slice (`core_normal.cpp:193`). It
  differs from `Leave` only there.

Left out: the changes of the cycle setting and of the core while a program runs
(`cpu.cpp:1562`, `:2115`, `:2141`, `dos_execute.cpp:140`, `:150`), so `CycleMax` is constant
and the UI thread's changes of it are an open hazard; the cores nested in a page or port
fault (`paging.cpp:116`, `iohandler.cpp:155`); code that sets the cycles while the trap flag
or a detour has its own slice; the debugger. An instruction that costs nothing (after `POP
SS`, a REP with a count of zero) is counted with the next one. A loop of nothing but
instructions that are rewritten all the time never gets to the test of the slice's end; in the
model `Burst` ends it.

*Timer.* The count written is a delay in the queue's unit. `start` is an
absolute time in the code and is kept relative to the running millisecond; of a
counter without an event only its phase matters, and `Settled` keeps that (or
that it is further back than one period). Mode 4 stands for modes 1 and 5.
A control word that raises the line at once leaves the program `Boost` cycles
(25 in the code) at least, which come from nowhere, and other code does the like
(`OthersBoost`): `MaxBoosts` limits both together to so many in a millisecond, since a
program that writes control words without end keeps the clock from moving. The two
liveness properties hold of programs within that limit, and say so. Other devices add and cancel their own events only
and have at most `MaxOthers` in the queue, so the queue is never full. The
latches of reading, BCD counting and counters 1 and 2 are left out.

*Keyboard.* A scan code is a name and bit 7. `PIC_AddEvent` is assumed to accept
the transfer (that it may not is a listed hazard). The handler of IRQ 1 is three
steps, taking the interrupt, `in al, 60h` and the rest with the EOI, because
keys and ticks come between them. `al` counts as `Ack` outside the handler, and
`down` as empty once `lost`, to keep states apart only while it matters. Pause,
caps lock and scroll lock, which the Android user interface cannot send, the
layouts, the BIOS key ring with INT 16h, and the PCjr are left out.

*DosFiles.* A shell alternates between `Line` and `EndOfCommand`; in between it may
start programs and further shells. What the host says (does the file open, can
it be created) is a choice. `roomy` is history: whether `Files` had the two
slots that redirection needs. The first shell's table is computed from the
calls of `SHELL_Init` and starts 01 01 01 00 02. An FCB is guest memory and not
part of the state, so `FcbOpen` is what it does to the tables. Programs close
and duplicate the entries in `Touched`, one of the standard ones and one of their
own. `Touched` lies within the table in the run and, as the hypothesis `InTable`, in the
theorems: beyond it, forced duplication counts a reference that `SetFileHandle` does not
store (`dos_files.cpp:729`, `dos_classes.cpp:220`), and `CountsMatch` fails. The model has
both lines as they are, so TLC shows it when `Touched` has such an entry.
Functions 26h, 55h and 67h and the deleting of open files are left out; what
there is to say of them is under "Noted while modelling".

*ExtMem.* Calls that return an error before they change state are no steps.
`contents` is what makes moves visible: the program fills each page with its
place in its block. The word behind the link array belongs to the C++ heap and
may be zero or not; it is part of the state because `MEM_AllocatePages` can
read and write it. A VCPI client frees only pages it was given. Blocks of no
size are allocated only in the run that shows what is wrong with them
(`mem_zero`); in the other runs `NewSizes` has no 0, while resizing to 0 is
included.

*McbChain, DosMemory.* Segments are small numbers; `FirstMCB` is 100 so that
no block is taken for one of the special owners. Machines other than PCjr and
Tandy are modelled. Names in the headers are omitted. A program frees and
resizes only its own blocks and does not free the block it runs in; the shell
lives below the chain. `Execute` is one action because DOS_Execute is one
native call that nothing interrupts. LOADFIX is a program that allocates, gives the block
to the owner 0x40, runs another program in a shell and frees the block whoever owns it by
then (`dos_programs.cpp:865-890`); only its option `-D`, which frees what has that owner, is
modelled (`RemoveLock`).

## 3. Runs

Every run is complete: TLC explores all reachable states of the instance.

| Run | Question | Bounds and why they are enough |
|---|---|---|
| `pic_nesting` | Do the cached sets stay exact and do handlers nest, also while the second controller is initialised anew? | five lines: the most urgent, the cascade, 3, whose number is lower but whose rank is below the second controller's lines, and two of that controller |
| `pic_special` | violation, see findings | the smallest set of lines that shows it |
| `bios_nesting` | Does each EOI retire its own line; are handlers never re-entered; is a deliverable line served in the end? | all five lines with BIOS handlers, so the deepest nesting occurs |
| `queue_refines` | Are entries conserved, order kept, and events late by no more than an overrun, with both cores, added cycles, boosts and the trap flag? Does the queue implement `EventSchedule`; where and how far can the clock step back? | two entries, so that the queue fills; delays of half a cycle and of one and a half, in a millisecond of six; `Hack` 1, `Burst` 2, `Boost` 1, `MaxBack` 0; `MaxTicks` 1, so events cross a rebase |
| `timer` | One event per running counter, in phase with what is read; where the clock steps back; does the timer tick and do other events leave the queue while it is reprogrammed? | delays of 1 and 3 cycles, one within and one beyond a millisecond of 2; modes 0 and 2, two-byte counts; `Burst` 2, one boost of a cycle in a millisecond (`MaxBoosts`, `MaxBack` 1); one other event, three entries. The interpreter only: the recompiler's steps are in `queue_refines`, the proofs have both |
| `keyboard` | Is the keyboard never silenced; do the flags follow the keys; do codes move on? | both control keys, one of them also a modifier, so that the prefix matters; a ring of three, which an extended key with a modifier fills; the command with a parameter |
| `files` | Counts, inheritance, redirection and its undoing | six slots and six entries: the first shell has five entries open on three slots, so that both tables fill; three processes deep, each a program or a shell; programs touch entries 0 and 5, a standard one and the last |
| `files_fcb` | violation, see findings | five slots suffice |
| `mem` | No page lost, shared or moved; contiguity, moves, locks, best match; does the composition of all three drivers implement exclusive ownership? | six pages, EMS pages of two, one XMS handle, the system's and one more EMS handle, one VCPI page: free space fragments and refills; the XMS block may grow in place, move, shrink or fail; lock count limit 1 |
| `mem_zero`, `mem_leave` | violations, see findings | the same pages |
| `dos` | Chains without holes, no missed fit and sound grants under all nine strategies; nested, resident and ending programs; does the request after the size query succeed under every strategy? | a few paragraphs of low memory behind the fixed blocks; an upper memory with two free paragraphs, which may be split into neighbours that nothing joins while it is not linked; requests of 0, 1 and 2; linking at any time; a child of the shell that takes what just fits or everything |

The free size of a memory includes the headers, a paragraph each; the smallest
instance in which a block can be split, joined with its neighbour and left with
an empty rest is the one used.

`MaxOps` bounds queue calls per handler, `MaxTicks` the milliseconds, `Burst` what the
cores take without a test of the slice's end, `Boost` what code gives itself and `MaxBack`
how far it sets the clock before its millisecond,
`MaxBoosts` and `MaxOthers` what is said above, `MaxVcpi` the VCPI pages,
`MaxLock` the lock count (255 in the code), `MaxDepth` the processes, `Touched`
the entries programs close. `KEYBUFSIZE`, `DOS_FILES` and `MaxFiles` are sizes of the
code made small so that its limits are reached. Symmetry is used for the entries of the event
queue, which only their address distinguishes, and never in a liveness run.

Deadlock is not checked where the system may stop: after `E_Exit`
(`PicIrq`, `ExtMem`, `DosMemory`), at the bound on milliseconds
(`PicQueueTime`), and when a program has used up the table of files and ends
its work (`DosFiles`: the first program does not end). It is checked in the runs
of `Timer`, `Keyboard` and `BiosIrq`.

### Fairness

*BiosIrq.* `WF(HandlerStep)`: the CPU executes the handler's code. `SF(Interrupt)`:
`PIC_runIRQs` is called at the start of every slice and after each STI and
IRET that ends one, so an interrupt that is possible again and again is
taken. `WF(Program /\ IF_flag')`: the interrupted program does not keep
interrupts off for ever; this is an assumption about the program.

*Timer.* Weak fairness of each kind of step of the single thread: the core burns
cycles, slices end, the queue is served, handlers return, the host's clock lets
the next millisecond start. Strong fairness of `EnterBlock`: a program of nothing but
callbacks that the recompiler leaves to the interpreter would stop the clock, so some block
runs again and again (the run uses the interpreter, for which this says nothing). None is
assumed for what the program writes, but `MaxBoosts` bounds how often in a millisecond it
takes cycles from nowhere. The
timer's event carries `TimerTicks`; `OtherLeaves` is the queue's own promise
under a program that reprograms the timer at will.

*Keyboard.* Weak fairness of the transfer event, which the queue fires, and of the
steps of the IRQ 1 handler: a program leaves the line open and lets the handler
run. None is assumed for keys, commands or polling; `CodesMoveOn` therefore
names the programs that send commands for ever, each of which clears the ring.

### Findings

Each is a `violation` run; PROJECT.json quotes the line that says otherwise.

1. `pic_special`: a write to the second controller's special mask mode loses
   the first one's in the summary flag (`pic.cpp:97`: `pic[0]` for `pics[0]`).
2. `mem_zero`: an XMS block of no size refers to a page it does not own.
3. `mem_leave`: reallocating an empty EMS handle can leave the emulator.
4. `files_fcb`: opening by FCB a file that another process has open finds the
   file but no entry of the caller's ("This shouldnt happen",
   `dos_files.cpp:938`), and is refused (`dos_files.cpp:937-940`) though the file is
   there.

Noted while modelling, without a run; the first is part of the model's
behaviour and PROJECT.json lists it as a hazard:

* An allocation that takes the last free run goes on past the end of the link
  array when the word behind it is zero (`memory.cpp:395`).
* On a PCjr a write to the mask opens line 6 again only after it has been taken
  out of the deliverable set (`pic.cpp:164`); `CheckTracksLines` leaves that
  machine out.
* A single controller (`pic.cpp:185`) goes on to ICW4 even if ICW1 announced
  none, so that the next mask write is taken for ICW4.
* With bit 7 set, best and last fit search upper and low memory before they
  decide, so they do not prefer upper memory (`dos_memory.cpp:161`).
* After a redirected command the shell opens the console, whatever its handle
  named before: a known limit (`shell.cpp:215`), so `ShellKeepsEntries` speaks of
  entries being open or closed and not of their names.
* With stdin closed and an input that cannot be opened, redirected output
  lands in entry 0 (`shell.cpp:234`); `RedirectReaches` names the exception.
* Extended open leaves a file open whose existence it reports as a failure
  (`dos_files.cpp:590`); opening by FCB ignores the drive (`:935`); forced
  duplication past the table counts a reference nobody holds (`:729`).
* Freeing and resizing do not check who owns a block (`dos_memory.cpp:290`);
  the model's programs stay within their own.
* While upper memory is not linked, free neighbours in it stay apart
  (`dos_memory.cpp:30-45`, called at `:96`, walks the low chain only), so a request under
  strategies 40h and 80h that the two would hold is refused; `NoMissedFit` says so.
* Making a new PSP by function 26h copies the parent's handle table without counting
  the references (`dos_classes.cpp:261`); enlarging the table by 67h, twice, copies
  from the old place in memory that belongs to nobody any more
  (`dos_classes.cpp:312`).
* Deleting a file that is open closes it for the host while its entries stay
  (`drive_local.cpp:159`).
* `MakeEnv` allocates the environment before it can fail, and nobody frees the
  block then (`dos_execute.cpp:199`).

## 4. Proofs

`PicIrqProofs` proves for every set of lines, with or without special mask
mode, reinitialisation and PCjr:

* `TypeCorrect`, `CheckIsExact`, `ActiveNeverStale`, `ActiveMostUrgent`:
  `[]TypeOK`, `[]CheckTracksLines`, `[]ActiveInService`, `[]ActiveIsHighest`;
* `Nesting`: the action property `NestsByPriority`.

They rest on the assumptions named in `PicIrq` (the lines are among 0..15 and
include the cascade; a PCjr has line 6). The inductive invariant is

    IInv == TypeOK /\ CheckTracksLines /\ ActiveInService /\ ActiveIsHighest /\ NoSpecial

`NoSpecial` (no flag is set unless special mask mode is used) is needed
because `ActiveIsHighest` speaks of guests that do not use it, and
`PIC_runIRQs` compares ranks only when the flags are off. Two lemmas carry the
argument: `RankProperties` (the priority table is a total order on the lines)
and `HighestProperties` (the walk down the table finds the most urgent line of
a non-empty set; by well-foundedness of the naturals). Each action has a lemma
that it preserves `IInv`; `NextPreserves` combines them.
`Nesting` follows because a line enters service only in `PIC_startIRQ`, which
requires it to be more urgent than `PIC_IRQActive`, which by `ActiveIsHighest`
is the most urgent in service.

`BiosIrqProofs` goes on from there for every subset of the five lines the BIOS has
handlers for, and any depth of nesting:

* `EOIRetiresOwn`: `[]ServiceMatchesFrames`; `NeverReentered`:
  `[]HandlersNest`.

A handler is at one of fifteen places. `Interruptible` names those at which
interrupts may be on, `Begun` the others before the EOI for its own line, `Retired`
those after it. The inductive invariant

    NestInv == Stack /\ Control /\ InService /\ HandlersNest

says that every handler but the innermost is interruptible where it waits, that
interrupts are on only while the innermost is, and that the lines in service are
those of the handlers not retired. The three parts need each other: an EOI
retires its own line (`OwnEOI`) because the innermost handler's line is the most
urgent in service (`TopIsActive`), which is what `HandlersNest` says of a stack
whose lines are all in service; a handler is interrupted only while that holds
(`AllInService`); and the second EOI of a handler of the second controller
retires nothing because it has interrupted no line of the first but less urgent
ones, of which there are none here (`FirstIdle`). Without the `cli` before the EOI the
first conjunct fails, which is the mutant of the run.

`KeyboardProofs` proves, for every set of keys, of modifiers and extended keys, and
every ring size:

* `NeverStuck`: `[]NothingStuck`, the keyboard is never left with a code in the
  ring and nothing under way to fetch it;
* `TypeCorrect`: `[]TypeOK`, which says of the ring that the entries in use hold
  codes;
* `RingIsQueue`: the action property that every step keeps the codes of the ring in
  their places and appends to them, or takes the first away to port 60h, or clears
  them as a command does. The ring is an array with a position and a count, so this
  is a statement about arithmetic modulo `KEYBUFSIZE` (`Wrapped`, `Places`,
  `AddBufferAppends`, `TakeFirst`).

* `FlagsFollow`: `[]FlagsFollowKeys`, the flags will show the keys that are down once
  the codes on their way are handled.

They rest on `KeyboardAssumption`. The inductive invariant is `TypeOK /\
NothingStuck`; `NothingStuck` is inductive because a transfer is scheduled
whenever a code is added to an empty port, and again whenever the port is read.

`FlagsFollowKeys` needs `InTurn` besides: until a code is lost, the raised line or the
handler's entry stands for the code in port 60h, exactly one of them, and no transfer is
under way that would overwrite it. The flags after what is in flight are then those of three
stages (handler, port, ring; `WayIs`), and every step moves a code from one stage to the next
(`HandleFirst`) or adds codes at the end (`HandleMore`, `BehindOthers`); `AfterCodes` is a
recursive function, so these are inductions on the number of codes. `KeyShown` and
`ModifiersShown` say what the codes of one event do to the flags. `KeyboardAssumption` keeps
keys from having the names of codes.

`PicQueueProofs` proves, for every array of entries, length of a millisecond,
resolution of the index, set of delays, number of hack cycles, choice of cores, and every
`Burst`, `Boost` and `MaxBack`:

* `EntriesConserved`: `[]SlotsConserved`; `TypeCorrect`: `[]TypeOK`, which bounds the two
  cycle counters;
* `NeverLate`: `[]FiresOnTime`, an event is late by less than two bursts and a cycle;
* `ClockStepsBack`: `TimeSpec => ClockBackstep`, the clock goes back by at most `Hack` and
  two bursts, at the end of a millisecond, and by at most `Boost` and a burst where code
  sets its cycles.

The inductive invariant is

    IInv == Lists /\ Clock /\ HandlerRuns /\ Bounds /\ Timely

`Lists` says that the lists are typed, sorted and conserve the entries, `Clock` is the types
of the rest, `HandlerRuns` that an entry is out exactly in a handler. `Bounds` says how far
each phase takes the clock past the end of the slice and of the millisecond
(`BoundsOf`): no further than a slice in the recompiler, a burst further where a block has
ended, two where the interpreter has run the instruction it handed over. `Timely` is the
strengthening that `FiresOnTime` needs: no event is due before `Floor`, the cycle that
`FloorOf` gives for the phase. `EndService` makes the slice short enough for the head
(`SliceIsShort`) and the queue is sorted; an event added in the slice either leaves that true
or cuts the slice (`ScheduleKeeps`, with `NotCut` for the conversion that drops the
fraction); each phase after that lowers the floor by what it may overrun; setting the clock
back disturbs nothing, since a floor follows the clock down; the tick moves it with the
indices. What the list operations do is proved by induction on the length of the list, stated for
sets of numbers (`Induction`): inserting and cancelling keep the list sorted and its
entries (`InsertSorted`, `OfSorted`, `OfAll`). `ClockStepsBack` combines the three cases
(`TickCounts`, `SetBack`, and `CyclesBurn` for every other step, which gives no cycles
back). The assumptions are those of `PicQueue`.

The same module proves that the queue implements what it promises:

* `SchedulesEvents`: `TimeSpec => ImplementsSchedule`, for every number of entries,
  milliseconds, delays and handlers.

Every action of `PicQueueTime` maps to an addition no earlier than what has fired, a
cancellation of one kind, the firing of the first event, the end of its handler, or
nothing. `EventSchedule` keeps events in order of absolute time and the code in order
of an index that is rebased each millisecond, so the proof needs what relates the two:
`Reach` says that
the time of the last event fired (the horizon, which steps back with the clock where code sets
it) lies beyond neither the clock, nor the end of the running millisecond, nor the slice's
end in the recompiler, nor any event in the queue. The second part is why the cycles that the
clock loses at the end of a millisecond let no event be added before one that has fired, the
third is for requests under the trap flag or in a detour, which count from that end;
the rebase moves the indices and the count of milliseconds together, so no absolute
time changes. A call adds or cancels, and a lemma for each
(`AddSchedules`, `RemoveSchedules`) says what becomes of the absolute times. `TickAssumption` says that `MaxTicks` is a number; `Times`, the range of times of
the instance, from `MaxBack` before the start on, is proved wide enough for all of them.

`TimerProofs` proves, for every set of delays, length of a millisecond, number of
cycles a control word adds, and every array of entries with room for the timer:

* `OneEvent`: `[]OneEventPerCounter`; `StaysInPhase`: `InterruptInPhase`; `StepsBack`:
  `ClockBacksteps`.

It extends `PicQueueProofs`, whose list lemmas and bounds of the clock it uses; when events
fire is not needed here. The invariant is

    TimerInv == Places /\ Cycles /\ Counter

`Places` is the conservation of entries, with the bound on the events of other devices
that keeps an entry free for the timer; `Cycles` is the `Bounds` of `PicQueueProofs`; `Counter` says how many of its events the timer has, in each phase and while its
handler runs. `Counter` alone is not inductive: `PIC_AddEvent` drops an event when no
entry is free (`pic.cpp:390`), so `RoomAssumption` states that there are two more entries
than other devices use (the code has `PIC_QUEUESIZE`, 512, and a few devices with an
event or two each). One lemma for each action (`...Good`) shows that the
invariant stays, that the phase moves only by a count written to a running counter, and
where the clock goes.

`DosFilesProofs` proves, for every number of slots, of entries in a handle table and of
processes, all that the run `files` checks, with the hypothesis `InTable` that programs name
entries of their table (`Touched \subseteq Entries`):

* `CountsCorrect`: `[]CountsMatch`; `HeldFilesOpen`: `[]HeldIsOpen`; `TypeCorrect`:
  `[]TypeOK`; `OthersUntouched`: `OthersKeepFiles`;
* `CommandsGetTheirFiles`: `RedirectReaches`; `ShellsKeepTheirs`: `ShellKeepsEntries`.

The first four rest on the invariant `Inv` (`Invariance`): counts, names and open
files agree with the tables, entries of ended processes are closed, and a file opened
without inheritance is named by one process. It is stated for a *pair* of file table
and handle tables and kept by each call (opening, closing, duplicating, forced
duplication, inheriting, closing all), since one action is several calls and the
property must hold between them. The lemmas under it say what a call does to the
count of every slot; the counts are cardinalities of sets of entries, so
closing one entry is removing one element. `CloseFiles` walks the table with a recursive
function; what it leaves is proved by induction on the number of entries.
Without `InTable` they are false: forced duplication to an entry past the table counts a
reference that nobody holds (`dos_files.cpp:729`). Nor do they speak of function 26h, which
copies a table without counting (`dos_classes.cpp:261`) and is not modelled.
The last two need `ShellInv` (`ShellInvariance`): from the line that asked for it to the
end of the command, what was redirected stays in the shell's entries, through processes and
further shells started meanwhile. The proof follows the calls of `ParseLine` and
`EndOfCommand` one by one, because redirection relies on each open taking the lowest free
entry (`FirstFree`). `DosFilesAssumption` keeps `DOS_FILES` and `MaxFiles` within 255, the
number of no slot, gives the first shell its three standard entries, and makes the set of
processes finite.

`ExtMemProofs` proves, for any number of pages and handles, any unit of the two drivers and
any sizes, what the run `mem` checks:

* `ScanIsRight`: `[]BestMatchIsShortest`. `BestMatch` is a single pass with four locals that
  treats the last run apart; `Scanned` says what the locals mean after each page, and
  `RunsApart`, that two maximal runs do not touch, makes the run found unique.
* `HasTypes`: `[]TypeOK`; `NoPageLost`: `[]UsedIffHeld`; `BlocksAreWhole`: `[]BlocksWhole`;
  `ContentsStay`: `[]ContentsKept`; `LocksKeep`: `LockedStays`;
* `SharesPages`: `ImplementsOwnership`, the refinement of `PageOwners`.

All but the first have the hypothesis `0 \notin NewSizes`: no program asks for an XMS block
of no size. Without it they are false, which is the finding of the run `mem_zero`; resizing
a block to nothing is allowed, and so is an EMS handle without pages. The other
assumptions are those of `MemPages` and `ExtMem`.

The inductive invariant `MemInv` is that a *layout* exists: a function from holders (XMS
handles, EMS handles, VCPI pages, and a spare one) to their blocks, lists of pages,
such that

* the words of each block link it from first page to last, and blocks are apart; every other
  word is zero, but for the one behind the array (`Layout`);
* the record of each handle names the first page of its block and says how long it is, in
  kilobytes or EMS pages (`XmsFits`, `EmsFits`, `VcpiFits`);
* what the program stored in a block is at its place (`Kept`).

The code has no layout, only the walks, so it is a witness in the proof. `ChainIs` shows that
walking from a block's handle visits the block, though `Chain` is a recursive
function that need not be defined on an array with cycles (`WalkExists` gives it on one with
a layout). Each branch of `MEM_ReAllocatePages` is shown to make a new block of
the holder's out of the old one and to change nothing else, word for word (`Relinks`,
`Resized`), and to say rightly where the contents come from (`MovesFrom`). A block that moves is
for a moment there twice; the spare holder has the new one then. A non-sequential request takes
pages in the order of `VisitOrder`, which counts who comes before; `OrderEnumerates` shows that
this lists every candidate once. One lemma for each call then builds the next layout
(`Steps`), in which the block of one holder has changed; that it is one holder's, and not a
locked one's, is also what `LockedStays` and the refinement need.

`DosMemoryProofs` proves, for any amount of conventional and upper memory, with or without
UMBs, any requests, any strategy and any depth of processes, what the run `dos` checks:

* `Types`: `[]TypeOK`; `NoHoles`: `[]ChainsTile`; `OthersKeep`: `OthersKeepBlocks`;
  `NoOrphans`: `[]OwnersHoldTheirProgram`;
* `SearchTheorem`: `[]SearchIsRight`, for all the requests in `Wants` and every strategy: a
  request is refused exactly when the chains it looks at offer no stretch for it, where a
  stretch may be of several blocks in what `DOS_CompressMemory` walks and must be one block
  in upper memory that is not linked (`Offered`);
* `ProgramGetsItsBlock`: `[]ExecutionNeverFails`, with the hypothesis
  `0 \notin MinSizes`. Every program needs the 16 paragraphs of its PSP; only an EXE
  whose header claims to be larger than the file, so that the image size is negative, could
  ask for none (`dos_execute.cpp:302`, `:330`). Then the
  query may answer 0 because nothing is free, the request be made for 0 paragraphs, and fail.
  The theorem says nothing of such a program, nor does the run.

The inductive invariant `IInv` speaks of the headers as a set, not of the walks along them:

* `Layout`: every header's successor is a header or the end of memory, no header lies
  between the two, and a header is a Z exactly where its chain ends: in conventional memory
  before the UMBs when these are not linked, at the end of memory otherwise;
* `Sys`: the first header and the one before the UMBs are the system's, so nothing
  frees them or merges them into a neighbour;
* `Owners`: a block names free memory, the system, LOADFIX's owner, the shell, or the PSP in
  a block that owns itself;
* `Run`: the processes in `running` differ and each but the shell holds its own block.

`Owners` and `Run` need each other: `DOS_FreeProcessMemory` frees by owner, and it is the
distinct PSPs with their own blocks that make sure that ending the current process frees
nobody else's. The walks of the code (`Walk`, `CompressFrom`, the search) are
recursive functions over segments; `WalkIs` shows by induction over the memory that on a layout
the walk meets the headers at and above its start, in order. `CompressIs` says what is left after
`DOS_CompressMemory`, by induction over the walk: the headers that are not free or have no free block
before them, each free one with all the paragraphs up to the next; it follows that a
second compression changes nothing, which `AgainIs` uses for the query before a request. `SplitLayout`
and `JoinLayout` are the two ways a call changes a layout, `AllocIs` and `ResizeIs` what the
calls make of them, and `LowLastIs` and `LinkIs` that the switch of the chains' link finds the one
Z to change. For the search, `GrantedWasFree` and `RunInBlock` relate blocks after
compression to stretches of free memory before it: each stretch that is walked lies in one block.
`ChainFits` says for a chain that some block of it fits exactly when it offers a stretch, joined
or not, and `NoFitIsMissed` combines the two chains as the nine strategies do.

Only model-checked: all liveness (`PendingServed`, `TimerTicks`, `OtherLeaves`,
`CodesMoveOn`), which under fairness is beyond the prover; the four violations, which
are single counterexamples. Every other property of a passing run is stated by a theorem.

## 5. Not modelled, and what would come next

In the order in which we would go on:

1. `EmsMap`: the page frame and saved maps on top of `ExtMem`, where released
   pages stay mapped (`ems.cpp:373`).
2. `Mouse`: the queue of button events and the delay event over IRQ 12.
3. The BIOS key ring and INT 16h over `Keyboard`.
4. `Dma` and the Sound Blaster's DSP automaton; the mixer's ring buffer, which the
   audio callback shares under SDL's lock.
5. `DriveCache`, the FAT drive's cluster chains, batch files of the shell, the
   serial port's FIFO, the TLB's links and the recompiler's code cache.

Left out for good, each with its reason in PROJECT.json: the instruction
semantics of the CPU cores, waveform generation, pixel conversion and scalers
(numerical, with little control flow); CD-ROM tables; the modem and IPX (not
part of the Android build); configuration parsing (runs once); the Java user
interface (layout and drawing); SDL, the maths library and the debugger. The
Android bridge's event queue is a data race in a library container
(`AndroidOSfunc.cpp:489`): what it leaves behind is undefined, so nothing could be
claimed of it, and its shutdown goes through code of the guest program.
