# SchedOS in TLA+

SchedOS (`src/weensyos2`) is a teaching kernel of one file, `schedos-kern.c`,
that runs four small applications on one processor and lets them share a
console.  This directory holds its specification: TLA+ modules, the TLC
configurations that check them on small instances, and proofs that TLAPS checks
for every instance.

- Check a run: `tlc -workers 2 -config MCThreads_lock.cfg MCThreads`
  (`PROJECT.json`, "runs", lists module and configuration of each).
- Check a proof: `tlapm ThreadsProofs.tla`.

## 1. Inventory of the system

| Component | Source | State | Operations | Interacts with |
|---|---|---|---|---|
| Applications | `schedos-1.c` .. `-4.c`, `schedos-app.h`, `x86sync.h` | loop counter `i`; shared memory `lock`, `cursorpos`, the console | set priority, share, tickets; print RUNCOUNT times (under a spin lock, or by a system call) and yield after each print; exit | kernel by `int 48..53`; each other by the shared memory at 0x198000 |
| Kernel | `schedos-kern.c`, `schedos-kern.h` | `proc_array` (state, saved registers, exit status, priority, share, `p_num_times`, tickets), `current`, `scheduling_algorithm` | `start`, `interrupt` (six system calls, the clock), `schedule` | applications; `run` |
| Scheduler | `schedule()` | the same | five algorithms: round robin, lowest pid, priority, proportional share, random draw | reads the cycle counter (4) |
| Context switch, interrupt entry | `schedos-int.S`, `schedos-x86.c` (`run`, `segments_init`), `x86.h` | kernel stack frame `registers_t`, descriptor tables | push a frame, call `interrupt`; `run` loads one and returns to the application | the processor |
| Interrupt controller and timer | `schedos-x86.c` (`interrupt_controller_init`) | masks, vectors, requests, interrupts not yet ended | 16 bytes to the controllers, 3 to the timer | the processor |
| Keyboard, console clear | `schedos-x86.c` | device registers | `console_clear`; `console_read_digit` (not called) | devices |
| Kernel console output | `lib.c` | cursor, console | `console_putc`, `console_vprintf` | only `schedule()`'s "Unknown scheduling algorithm" |
| Memory functions | `lib.c` | memory | `memcpy`, `memmove`, `memset`, `strlen`, `strnlen` | loader, `start` |
| Application loader | `schedos-loader.c`, `elf.h` | memory | `program_loader`, `copyseg` | `start` |
| Boot loader | `bootstart.S`, `schedos-boot.c` | memory with the scratch page, disk controller | `bootmain`, `readseg`, `readsect` | `start` |
| Image builder | `mkbootdisk.c` | output file offset | write sectors, fill up to 1024 | runs on the host |

What is hard about it:

- **Preemption.**  With the clock on (`interrupt_controller_init(1)`), an
  application can be interrupted between any two of its instructions.
  `*cursorpos++ = PRINTCHAR` is three memory accesses, of which the compiler may
  even move one past the lock's release.
- **Context switches by hand.**  The registers are saved where `current` points;
  `schedule()` never returns; `run` sets `current`.  Every path must keep the
  three in step.
- **Endless loops as control flow.**  `schedule()` searches round the process
  table until it finds a process.  Whether it does depends on counters and
  priorities that several system calls and the search itself change.
- **Words that three pieces of code must agree on.**  What the processor and
  the entry points push, `registers_t` names and `run` pops: one word off, and an
  exception passes for a system call or an application resumes with shifted
  registers.  Exceptions may push one word more, and their entry point pushes one
  less.
- **Devices programmed by a sequence of bytes** whose meaning depends on the ones
  before, and an end of interrupt that nobody writes.
- **Spinning.**  An application waits for the lock by spinning while its holder
  is preempted, so progress depends on the scheduling algorithm.
- **Memory nobody initialises.**  `lock` lies outside every loaded segment.

What makes the components correct: no print is lost or overwritten and each
application prints RUNCOUNT times and exits (applications); the registers an
application resumes with are the ones it had (context switch); a process that
has exited never runs again and the kernel searches for ever only if nothing is
runnable (kernel); each algorithm picks the process it is meant to pick, lets
nobody starve where it promises so, and its loops end (scheduler); the kernel is
entered from applications only, through the entry point that belongs to what
happened, and the clock goes on (interrupt entry); a field is printed as C's
`printf` would and never beyond the console (console output); a segment is loaded where its header says (loaders); every byte of every input reaches the
image once (image builder).

## 2. The modules

```
SchedOS ---- UserCode ------ Threads ........> PrintLog     (...> implements)
   |            |               ^
   |            '--- Kernel ....'
   |--- Scheduler ---'  '--- KernelQuanta
   |        '--- ScheduleLoop ---.
   |             ConsolePrintf --+-- Schedule
   |
   '--- Descriptors ---- InterruptController ---- Interrupts .....> Contexts

DiskImage ---- BootLoader ---- Startup
Elf -------------'--- Loader -----'
```

| Module | What it is |
|---|---|
| `SchedOS` | `NPROCS` and the process identifiers |
| `UserCode` | the program of `schedos-1.c`, one action per access to shared memory, over a *context* (a set of registers) |
| `Threads` | the applications as threads, each with a processor of its own |
| `PrintLog` | the abstract promise: a log to which every application appends its character RUNCOUNT times and then exits |
| `Scheduler` | descriptors, and the outcome of `schedule()` for each algorithm |
| `Kernel` | one processor: `start`, `interrupt`, `schedule`, `run`, the clock, and the application that runs |
| `KernelQuanta` | `Kernel` with a history variable that counts how long a process waits |
| `ScheduleLoop` | the loops of `schedule()`, one action per iteration |
| `ConsolePrintf` | `console_printf`: the field a directive prints, and `console_putc` |
| `Schedule` | all of `schedule()`: the loops, and the message for an unknown algorithm |
| `Descriptors` | segments, gates, entry points and `registers_t`: what is where |
| `InterruptController` | `interrupt_controller_init`, and the 8259As and the timer it programs |
| `Interrupts` | from application to kernel and back, word by word, with the devices |
| `Contexts` | the abstract promise: an application's registers are its own |
| `Elf` | memory, program headers, and what a loader promises of a segment |
| `DiskImage` | `mkbootdisk`: `main` and `diskwrite` |
| `BootLoader` | `bootmain`, `readseg`, `readsect`, with the scratch page |
| `Loader` | `program_loader`, `copyseg` and the loop of `start()` that calls them |
| `Startup` | the three in a row: the image is the boot loader's disk, the kernel it loads holds the applications' files |
| `MC*` | constants for TLC |
| `UserCodeProofs`, `SchedulerProofs` | lemmas about the program and about `schedule()`'s choice |
| `ThreadsProofs`, `KernelProofs`, `KernelQuantaProofs`, `InterruptsProofs`, `ScheduleProofs`, `StartupProofs` | theorems |

### UserCode and Threads

| In the model | In the code |
|---|---|
| `regs[c].app`, `.eip` | `%eip`: which program, where in it |
| `regs[c].i` | the loop counter of `start()` |
| `regs[c].old`, `.todo` | the value of `cursorpos` that `*cursorpos++ = PRINTCHAR` has read, and the stores it still owes |
| `SwapIn`, `SwapOut` | `while (atomic_swap(&lock, 1) != 0)`, `atomic_swap(&lock, 0)` |
| `LoadCursor`, `StoreCursor`, `StoreCell` | the three accesses of line 52 |
| `SysCall`, `SysAtomicPrint` | the `int` instructions of `schedos-app.h` |
| `LockApps` | the files compiled with `__PRINT_METHOD_LOCK__` |

`cursorpos` is declared volatile and the cell it points at is not, and
`atomic_swap`'s `asm volatile` names only `lock` in its constraints, with no
`"memory"` clobber.  So a compiler must keep the order of the swaps, the read
and the write of `cursorpos`, but may place the write of the cell anywhere
between the read of `cursorpos` and the `int` of `sys_yield`, which has the
clobber.  `StoreCell` is enabled in all of that range.  (On one processor there
is no further reordering by the hardware.)

`cursorpos` is the number of cells below the cursor.  The console is sparse:
the set of cells written and what they hold.  It has no end in the model;
`CursorBound` is the property that says none is needed: no print lies beyond
cell RUNCOUNT * (NPROCS - 1), which is 1280 of the 2000 cells in the code.

### Kernel

| In the model | In the code |
|---|---|
| `regs[CPU]` | the processor's registers |
| `regs[pid]` | `proc_array[pid].p_registers` |
| `proc_array`, `scheduling_algorithm` | the same, without `p_pid` (the index) |
| `clock_on` | the argument of `interrupt_controller_init`: the clock's line is unmasked |
| `current` | `current->p_pid` |
| `searching` | `schedule()` is in a loop that will not end |
| `Interrupt(frame, table)` | the first line of `interrupt()`, the case (the table it leaves), `schedule()` |
| `SysYield` .. `SysAtomicPrint`, `Clock` | the cases |
| `Run` | `run()` |
| `Execute` | an instruction of the current application |

The kernel runs with interrupts disabled (`multiboot_start` clears the flags and
all gates are interrupt gates), and `schedule()` reads nothing that changes
under it but the cycle counter.  So an interrupt, its handling, the choice and
`run()` are one step.  The loops of `schedule()` are given there by their
outcome; `ScheduleLoop` has them iteration by iteration and its run shows that
the outcome is right.  Where no process can be picked the kernel stays in the
search, which the model shows by the stuttering action `Search`: SchedOS never
terminates, so no run turns deadlock checking off (`Startup` says where it ends
by its stuttering action `Ended`).

Registers that no property depends on (segments, flags, the stack pointer) are
left out; what the system calls pass in `%eax` is the caller's constant.

### Descriptors, InterruptController, Interrupts

| In the model | In the code |
|---|---|
| `cpu` | the processor's registers |
| `stack` | the words on the kernel's stack, the last pushed first; `Unknown` is an address in the kernel's code |
| `at` | `devices`, `run`: `start()`; `entry`, `interrupt`, `schedule`: the way through the kernel; `hang`, `search`: its endless loops; `app` |
| `p_registers[p]` | the same, 17 words |
| `Take(v, code)` | the processor goes through gate v: new stack if it leaves an application, error code, interrupts off unless it is a trap gate |
| `Call`, `Exception`, `HardwareInterrupt` | `int v` (a gate that is not for applications becomes a general protection exception), an exception, an acknowledged request |
| `GenericIntHandler` | the entry point of the gate and `_generic_int_handler` |
| `Frame`, `Interrupt` | `*reg`, `interrupt(reg)` by the way it ends |
| `Popped`, `Run(p)` | the pops of `run()` |
| `writes`, `OutB` | the `outb`s of `interrupt_controller_init`, one by one |
| `pics`, `timer`, `requests` | the devices: initialisation words expected, vectors, masks, interrupts not ended; bytes given to the timer; requested lines |

`Kernel` takes an interrupt, its handling and `run()` for one step, on the
grounds that the kernel is not interrupted and that all registers come back.
`Interrupts` is where this is shown: `KernelEntered` and `ImplementsContexts`.
There the steps of the way are steps of their own, between which devices request
and would be served if the processor let them, and what `interrupt()` and
`schedule()` decide is left open (any process that can run).  Applications do
what applications can: change all their registers, execute any `int`, cause
exceptions.  The stack is a sequence of words from the top down, so that a frame
left behind by an earlier interrupt would be found there; the processor starts
from the top only when it comes from an application.

Left out: the bit fields within a descriptor (a segment is its type and its
privilege level, a gate its four arguments), the task state segment beyond
`ts_esp0` and `ts_ss0`, the segment limits (all of memory), `%fs` and `%gs`.

### ConsolePrintf, Schedule

| In the model | In the code |
|---|---|
| `Directive(conv, arg, flags, width, precision)` | what the parser of `console_vprintf` makes of a `%`; an ordinary character is `%c` |
| `Field(d)` | `data`, `len`, the sign, `zeros` and `width`: the characters one directive prints |
| `console_putc` | the same, on a console of `COLS` by `ROWS` cells |
| `Convert`, `Put` | one round of the loop up to its first `console_putc`; one `console_putc` |
| `start`, `put` | history: where the cursor was, the characters put since |

`schedule()` prints only for an algorithm that does not exist.  `OtherCall`
stands for any other caller there may be, so that all that `lib.h` offers is
checked, from any cell of the console, and with `int`s of `WORD` values, so that
`-x` overflows for the smallest one.

### DiskImage, BootLoader, Loader, Startup

| In the model | In the code |
|---|---|
| `argv`, `args`, `nsectors`, `pos` | the same in `main` of `mkbootdisk.c`; an argument is a file's bytes or `@X` |
| `data`, `out` | what `diskwrite` has left to write, standard output |
| `rest`, `cut` | what `fread` will still return; `fread` has failed, which `main` cannot tell from the end |
| `Write(w)`, `WriteFails` | a `write` that returns `w`; one that returns 0 or an error other than `EINTR` |
| `kernel` | the kernel's file: bytes and program headers |
| `bootVa`, `bootSect`, `bootPh` | `va`, `sect` of `readseg`, `ph` of `bootmain`; header 0 is the first page |
| `ELFHDR` | the scratch page, which is read first |
| `Memcpy` | `memcpy` of `lib.c`, forwards, byte by byte |
| `memory` | memory, a number per byte; `Unknown` before anything is loaded |
| `ramimages[p]` | where in memory the file of application p begins, and its program headers |
| `program`, `loaderPh` | `i` of `start()`, `ph` of `program_loader` |

Program headers are given beside the bytes of the file they are in, and the
magic number is one byte.  That they may be given apart is what `HeadersKept`
says: the page they are read from is not overwritten before its end.  `readsect` takes a sector from the image that
`mkbootdisk` has written; `copyseg` takes the bytes from the memory that the boot
loader has filled.  So a byte that goes astray in one program breaks the
properties of the next.  These modules and `Kernel` meet at the descriptors:
`Kernel` begins with every application loaded.

## 3. The runs

| Run | Instance | Shows |
|---|---|---|
| `threads_lock` | 3 applications, 2 prints each, lock, fair | every interleaving keeps `MutualExclusion`, `NoStaleCursor`, `CursorBound`, the inductive invariant `IInv`, and implements `PrintLog`, with its fairness: all print RUNCOUNT times and exit |
| `threads_syscall` | 3 applications, 2 prints, `sys_atomic_print`, lock word 7, fair | the same by the other method, whatever `lock` holds; but see finding 2 |
| `kernel_switch` | 3 applications, 1 print, two by lock and one by `sys_atomic_print`, clock, algorithms 0-4 | `CurrentOwnsCPU`, `SearchesOnlyWhenDone`; the kernel implements `Threads`; under algorithms 0 and 3 nobody waits longer than the others' turns (`BoundedWait`) |
| `kernel_order` | 4 applications, 4 prints; algorithm 0 without the clock, 1 and 2 with it | the kernel as delivered prints `1234 1234 ...`; prints ordered by pid and by priority (`PrintsInOrder`, `PrintsByPriority`); the turnaround times of `answers.txt`, counted in prints (`TurnaroundTimes`); and, all printing alike, no print lost or overwritten on the one processor (`ImplementsPrintLog`) |
| `kernel_exit` | 3 applications, 1 print, two by lock and one by `sys_atomic_print`, clock, algorithms 0-4, fair | every application exits |
| `loops_choice` | tables of 3 processes, all algorithms and three that do not exist, fair; some 780 messages on a console of 3 by 3 | the loops of `schedule()` end where they should, with the counters they should leave (`LoopsPick`, `LoopsEnd`, `LoopsSearch`); the console is never left (`CursorInConsole`) and holds what was put on it, wound round (`PrintedRight`); every field is what C's `printf` prints (`FieldRight`) |
| `interrupt_frames` | 2 applications, 6 `int`s, 2 exceptions, 3 lines, fair | the kernel is entered from applications only and as the clock only by the clock (`KernelEntered`), reads the right trap number or 0 (`TrapNumber`), with fitting segments (`SegmentsFit`); the controllers are left as meant (`ControllerReady`) and the clock ticks on (`ClockReturns`); applications keep their registers (`ImplementsContexts`) |
| `startup` | 3 boot sectors, 3 kernels, 3 lists of arguments, 3 sets of applications, fair | the image is what the arguments ask for whatever `write` and `read` do (`ImageRight`), the boot loader reads no segment over the headers it still needs (`HeadersKept`), kernel and applications are in memory byte for byte and zero for zero (`KernelLoaded`, `AppsLoaded`), and the system starts unless the host fails or the arguments are refused (`Starts`) |

and four that TLC refutes, one for each finding below.

**Bounds.**  Three applications are the least that show a third party between
two others; two prints the least that bring an application back to the lock
after it has released it with its cell still owed.  `kernel_switch` and
`kernel_exit` make do with one print because the clock may strike at every
instruction and what they show is about context switches and waiting; printing
more often is the affair of the threads, which the kernel is shown to implement.
`kernel_order` has all four applications and needs several rounds.  Priorities
and shares are those of `schedos-1.c` to `-4.c`: 1, 2, 1, 4 and 2, 4, 8, 4 (two
equal, two different).  `loops_choice` starts from every table of runnable and
exited processes, with negative, zero, positive and largest priorities and
shares, and `INT_MAX` of 3.  In the same run a console of three rows and three
columns, with every cell to start from, meets messages longer than itself and
newlines at each place of a row; ints of 8 bits with both ends of their range;
every conversion with every combination of its flags, widths below and above the
length of the text and precisions above it.  `interrupt_frames` has one number
of each kind the gates tell apart (calls the kernel knows, with and without
effect on the process table, one it does not know, the clock's, an exception's),
an exception with and one without error code, a line of each controller and the
clock; an application's registers take two sets of values, all different.
`startup` has sectors of 4 bytes, pages and read buffers of 8, images of 8
sectors and memory of 56 bytes, in which the scratch page lies behind the
kernel: enough for a boot sector that just fits and one that just does not,
files longer than a buffer and files of whole sectors or not, `@X` before, at
and behind the present sector, kernel segments that share a sector of memory,
and applications with two segments, with zeros beyond a page, and with a header
that is not to be loaded.  Its segments are laid out as `ld` does: in ascending
order, congruent to their offsets, memory to be cleared last, and for
applications, as in `GNUmakefile`, starting on pages.  The largest run has
358000 states.  Nothing else is bounded: no state constraint, no view; no
symmetry, since pids are ordered.

**Fairness.**  `Threads`: weak fairness of each thread, that is, every
application keeps getting the processor; the kernel's scheduling is to justify
it.  `Kernel`: (1) weak fairness of `Next`, the processor does not stop; (2) for
each application, strong fairness of its executing while it is current: the
clock strikes at most 3000 times a second, leaving an application thousands of
instructions each time it is run, so it cannot be interrupted for ever before
its next instruction; (3) under algorithm 4, strong fairness of a draw for each
application, the cycle counter modulo NPROCS leaving none out for ever (the
code's own claim: "the same probability of being selected").  (2) says nothing
about which application is run; that is the algorithm's doing.
`Schedule`: the processor goes on, and each pid is drawn again and again.
`Interrupts`: the processor goes on, and the timer requests interrupts again and
again.
`Startup`: weak fairness of `Next`, each program goes on while it can; a `write`
that is interrupted for ever is excluded.

**Starting with priority 0.**  `PrintsByPriority` is stated for positive
priorities: every application starts at 0 and sets its own as its first step, so
all of them have passed through 0 before any prints.

## 4. Findings

1. `threads_lockinit`: **the lock is never initialised.**  `start()` sets
   `cursorpos` (`schedos-kern.c:101`), nothing sets `lock`, and it lies at
   0x198004, in no segment that a loader clears.  Unless that word happens to be
   0 when the machine starts, all applications spin and nothing is printed.
2. `threads_colour`: **`sys_atomic_print` drops the colour.**
   `schedos-kern.c:173` casts the 16-bit cell to `char`; the attribute becomes 0,
   black on black, where `schedos-1.c:7` has red "1"s.
3. `kernel_share`: **a share of n is n + 1 runs.**  `p_num_times++ <= p_share`
   (`schedos-kern.c:250`) counts after it compares; the comment above it says
   "has not reached its share".  The backup of the file in the repository tests
   `p_num_times < p_share` before it counts.
4. `loader_copyseg`: **`copyseg` loads a segment at the start of its page.**
   `schedos-loader.c:77` rounds the address down and line 80 copies to it from the
   first byte of the segment, so a segment that begins inside a page lies too
   low, over what is there; the comment above says "into virtual address 'dst'".
   The boot loader's `readseg` rounds too, but its sector number is the offset
   rounded in the same way.  `GNUmakefile` starts all segments on pages.

Six remarks that are not findings.  `mkbootdisk` takes a read error for the end
of a file and succeeds with a short one (`ReadFails`).  The kernel's print does not take the lock,
so in a build where only some files define `__PRINT_METHOD_LOCK__` prints are
lost (`NoStaleCursor` fails); `answers.txt:93` asks to change all files.
`schedos-x86.c:93` says that most interrupts "are effectively ignored": those of
devices are, by the masks, but an exception, or an `int` without a system call,
ends in the endless loop of `interrupt()`'s default case with interrupts off, and
all applications stop.  `console_vprintf` cuts digits off a number when the
precision is smaller than their count (`%.2d`), and prints `+` and space flags
before strings and unsigned numbers, where C's `printf` does neither; such
directives, and a negative width for `*`, are not among the inputs of
`loops_choice`.  A negative
share removes its process from algorithm 3 for ever (`ScheduleLoop` covers it,
`Renewable`).  And priorities below the initial 0 let an application become more
urgent than one that is inside the lock and spin for it for ever.

Under the delivered settings (algorithm 0, no clock interrupts) an application
is never interrupted inside the lock; the runs with the clock on are the
setting exercises 5 and 8 of `answers.txt` are about.

## 5. The proofs

The theorems hold for every `NPROCS > 1`, `RUNCOUNT`, `PRINTCHAR`, `LockInit`,
every choice of priorities, shares and tickets, all five algorithms, with the
clock and without, every set of calls, exceptions and device lines, and every
size of the console.  What the constants have to satisfy is what the modules
name (`NPROCSAssumption`, `UserCodeAssumption`, `KernelAssumption`,
`LinesAssumption`, `InterruptsAssumption`, `ScheduleLoopAssumption`,
`ScheduleAssumption`, `ConsolePrintfAssumption`), and TLC evaluates it in the
runs.  Six theorem hypotheses say more, and where they are needed:

- `OneMethod`: all applications print by the same method.  Without it
  `NoStaleCursor` and what rests on it do not hold (section 4).
- `ShownApart`, for `PrintsByPriority`: no two applications show the same cell.
  If two did, the console would not tell whose print it is.
- `SharesNonNegative`, for `SearchesOnlyWhenDone` and `BoundedWait`: no share is
  negative where algorithm 3 is among the settings.  With a negative one
  `schedule()` does pass over its process for ever (section 4).
- `PRIORITY[p] > 0` is a hypothesis of `PrintsByPriority` itself.
- `FilesInPlace`, for the start-up, of which `HeadersKept` needs
  `KernelsInPlace` only and `AppsLoaded` needs `AppsInPlace` only: the files are
  placed in memory as `ld` and `GNUmakefile` place them.  For the kernel
  (`KernelPlaced`) this is that addresses are congruent to offsets, that where
  the whole sectors read for a segment reach over an earlier one they are the
  same part of the file, and that nothing reaches over the scratch page.  For the
  applications (`AppsPlaced`) it is that segments start on pages and lie neither
  over each other nor over bytes still to be copied; `Apart`, that they do not
  lie over the kernel.  `MCStartup` has TLC evaluate that the files of the run
  `startup`, two segments in one sector included, are so placed, and that those
  of `loader_copyseg`, where `AppsLoaded` fails, are not.
- `LegalFormats`, for `FieldRight`: what other callers print has, for each
  directive, an argument of the type and flags that C gives a meaning, no
  precision smaller than the text is long, and no negative width or precision
  for `*` (`Legal`).  The code does cut a number off at the precision (`%.2d`),
  and prints a sign for `%+u` (section 4).  `MCSchedule` has TLC evaluate that
  all messages of the run `loops_choice` are legal; that the message of
  `schedule()` itself is, is proved.

### Applications (`UserCodeProofs`, `ThreadsProofs`)

`ThreadsTypeOK`; `LockExcludes` (`MutualExclusion`); `CursorNeverStale`
(`NoStaleCursor`).  Mutual exclusion is inductive with `TypeOK` and `ControlInv`,
which says of each application that its registers agree with its program.
`NoStaleCursor` is not: after a thread has moved the cursor on, its cell may still
be owed while another thread reads the cursor.  `CursorInv` adds that such a cell
lies below the cursor.

`CursorIsBounded` (`CursorBound`) holds for any mixture of methods, where prints
may overwrite each other but never add cells.  The sum over the applications that
it seems to need is the number of elements of a set of pairs, the prints made
(`BoundInv`): a step that moves the cursor on adds one pair, and all pairs
together are `RUNCOUNT` for each application.

`ThreadsIInv` adds `ConsoleInv`: every cell below the cursor has been written or
is owed, and a thread that has written its cell before its cursor has the right
character there.  `ThreadsImplementPrintLog` then maps each step: the store to
`cursorpos` (or the kernel's print) is the append, the rest stutter or exit.  The
log is read off the console *as if all owed cells had been written*; `LogStays`
shows that no step changes what it holds below the cursor.

### Scheduler (`SchedulerProofs`, `ScheduleProofs`)

`SchedulerProofs` is about the choice as an operator, for every table:
schedule() picks only runnable processes (`PicksRunnable`), one if there is one
(`PicksIfRunnable`, which needs that a set of pids has a member of least rank,
`LeastRank`, and that a round meets one of them first, `FirstMet`), and under
algorithms 0 to 3 no two (`PicksOne`); and it changes nothing but `p_num_times`
(`ChargedType`, `ExhaustedType`).

`ScheduleProofs` is about the loops that make the choice.  `LoopsPickRight`
(`LoopsPick`): a loop that stops, stops at the process `Picks` allows, with the
counters `Charged` leaves.  `LoopInv` has a part for each loop, which says what
it has passed so far: `NextInv` no runnable process, `LowestInv` none with a
lower pid, `ScanInv` none more urgent than `most_priority`, `SeekInv` none as
urgent, `ShareInv` none within its share, all with their count at 0 again in the
first round and none at all left in the second.  `OneOn` and its like turn one
step of `pid = (pid + 1) % NPROCS` into arithmetic on rounds.

The rest is about the console.  `CursorStaysInConsole` (`CursorInConsole`)
follows from how `console_putc` wraps round and fills rows (`RowEnds`).

`PrintsRight` (`PrintedRight`) relates the console to one without an end, on
which each character has a place of its own (`PositionOf`).  The cursor is that
place's remainder, except that it may stand just behind the end; `AfterWound`
shows that a character covers the remainders of its places whichever of the two
it finds, and that a newline ends its row in both because the end of the console
is the end of a row.  What a cell shows is the latest character that covers it
(`Latest`), and one more character changes that for its own cells only
(`LatestIs`, `PutRight`).

`FieldsAreRight` (`FieldRight`): the digits by induction on the number
(`AllBelow`), from the last one to the front, as `fill_numbuf` writes them
(`DigitMore`), while `IsNumeral` adds them up from the front (`SumOf`;
`WorthOnce` shows that there is only one sum).  `MagnitudeIs` is the step that
needs the width of an `int`: that `-x`, which overflows for the smallest one,
is still its magnitude as an unsigned number.  Around the digits, `BodyIs` and
`FieldAround` say where sign, zeros and blanks lie, `ZerosFill` how many zeros
there are.

### Kernel (`KernelProofs`, `KernelQuantaProofs`)

`KernelTypeOK`, `CurrentAlwaysOwnsCPU`, and `KernelImplementsThreads`: the
registers of a thread are the processor's for the current process and the saved
copy for the others; a context switch leaves this view as it is, which is where
`CurrentOwnsCPU` is needed.  `SearchIsOver` (`SearchesOnlyWhenDone`) follows with
`DoneInv`, that no share in the table is negative, and `PicksIfRunnable`.

`KernelImplementsPrintLog` is the composition of the two refinements: what is
proved of `Threads` holds of the kernel's threads.  So each step of the kernel
can be seen from the threads (`Executes`, `SystemCalls`, `Ticks`), from the
scheduler (`Schedules`), and from the descriptors, which keep step with the
threads (`TableInv`).  On this rest the three theorems about order:

- `PrintsAreByPriority`, with `UrgentInv`: the current process is most urgent, so
  that one gets past its second system call only after all more urgent ones have
  exited; their cells then lie below whatever it still owes.
- `PrintsAreInOrder` and `TurnaroundIsExact`, with `LowestInv` (algorithm 1: when
  an application has started, those before it have exited after RUNCOUNT prints
  each) and `TurnInv` (algorithm 0 without the clock: all applications go through
  the program in lockstep, those before the current process one call ahead).

`NobodyStarves` (`BoundedWait`) holds for whatever shares and however the clock
ticks.  `BoundedWait` bounds a wait by a sum over all other applications;
`QuantaInv` says what has been spent of it: whoever waits has waited at most for
the turns of those that the round has met since it began (`Between`) and for the
turns of the current process (`Taken`).  Going on to the next process adds the one
that is left to the first and starts the second anew (`BetweenGrows`); it adds
none twice because the round meets none twice before it comes back.  For
algorithm 3 it takes in addition that counts are forgotten when their process is
passed (`Counted`, `NextCounts`), and that `sys_set_share` can take off one turn,
its own (`Dispatches`).  The sum is the fold of the community modules, of which
there was nothing to cite: that it exists, adds up in any order and is monotone
are the lemmas `SumIs`, `SumAdd` and `SumMonotone`, each by a smallest
counterexample.

### Interrupt entry (`InterruptsProofs`)

`TypeCorrect`, `NumberIsRight` (`TrapNumber`), `SegmentsAlwaysFit`
(`SegmentsFit`), `ControllerIsReady` (`ControllerReady`), and the action
properties `EnteredFromApplications` (`KernelEntered`) and `ContextsAreKept`
(`ImplementsContexts`).  The invariant has two parts.  `DevicesInv` says what the
bytes sent to the devices so far have done: the meaning of each depends on the
ones before, so nothing weaker than the state after every one of the 19 is
inductive.  `MachineInv` says that the registers of every application are an
application's wherever they are - in the processor, half pushed on the stack of
the kernel, or in its descriptor -, how many words the stack has on each part of
the way, and that the eleventh is the number if the entry point pushes one.
`ContextsAreKept` then follows word by word (`SavedWords`, `Underway`): each word
is pushed, copied and popped in the same place.

### Start-up (`StartupProofs`)

`ImageIsRight` (`ImageRight`), `HeadersStay` (`HeadersKept`), `KernelStays`
(`KernelLoaded`) and `SegmentsLoaded` (`AppsLoaded`).  The image needs no
assumption on the files.  Its invariant `ImageInv` looks forward: what is still
to be done, put after what there is, makes the image (`Promised`), so that no
step has to know which argument it deals with.  A sector of zeros more leaves
what `@X` fills up to the same (`FilledBySector`), a part of a file read is not
less of it (`Regroup`), and dealing with an argument is one step of the fold that
defines the image (`AddedNext`).  `FoldIs` is what unfolds it: the fold over all
subsets of the positions is a sequence of values, by induction on the number of
arguments (`AllNat`, from the library's theorem on well-founded sets, which
needs no operator).  `Counted` holds even after a failed read, which is why
`nsectors` counts whole sectors then.

For the other three there is an invariant for each program, and each rests on
the one before:

- `DiskInv`: unless a read has failed, what mkbootdisk has written, and
  `diskwrite` has still to write, holds the kernel's file from the first byte of
  sector 1 on, as much of it as has been read (`Copying`, `KernelOn`); nothing
  that follows goes over it.  The output need not be all that is asked for:
  `KernelOn` is what the boot loader relies on.
- `BootInv`: the segments that bootmain is done with are there (`SegmentsThere`),
  and of the one it reads all bytes below `bootVa` (`SectorsThere`).  What makes
  this inductive is that `bootSect * SECTORSIZE - bootVa` is the same for all
  sectors of a segment: a byte's address tells where in the file it comes from.
- `LoaderInv`: the segments that the loader has passed are where they belong,
  compared with the application's file in memory (`PassedThere`), so that neither
  the copy nor the original may be written over.  `MemcpyApart` is that memcpy,
  which copies in ascending order, copies right if the two places do not overlap.

`KernelInv` joins the last two: an application's segment goes where none of the
kernel's is (`CopyApart`).

### Only model-checked

- All liveness (`PrintsAppear`, `ImplementsFairPrintLog`, `AllExit`, `LoopsEnd`,
  `LoopsSearch`, `ClockReturns`, `Starts`), which is out of TLAPS's reach.

## 6. Not modelled

- `bootstart.S`: straight-line set-up with no state a property could be about
  beyond the bits themselves; `console_clear` likewise, whose result, an empty
  console, is where `Threads` begins.
- `console_read_digit`, `compare_and_swap`, `fetch_and_add`, `memmove`, and
  most of `x86.h`'s wrappers of single instructions: nothing calls them.
- Of formats, the parsing of their characters; the `#` flag has no effect in
  the code.
- In the start-up: the bytes of the command that `readsect` gives to the disk
  controller, `maxoff` of `mkbootdisk` (always 0), its messages, and what a
  machine does whose image has been cut short.
- In `Interrupts`: non-maskable interrupts, exceptions the kernel itself would
  cause, and spurious interrupts of the controllers.

## 7. Plan

Done, in this order: `UserCode`, `Threads`, `PrintLog`, `Scheduler`, `Kernel`,
`KernelQuanta`, `ScheduleLoop`, `Elf`, `DiskImage`, `BootLoader`, `Loader`,
`Startup`, `Descriptors`, `InterruptController`, `Contexts`, `Interrupts`,
`ConsolePrintf`, `Schedule`; of the proofs, those about `Threads` and that
`Kernel` implements it, then the order of prints and the composition, the
endless search, the interrupt entry, the loops of the scheduler, the console's
cursor, the bound on waiting, the start-up from the kernel's file to the loaded
applications, the disk image, what the console shows, and last the fields that
are printed.

All safety properties of the passing runs are now theorems, under the hypotheses
of section 5.  Next: weaker hypotheses where the code would bear them, and the
safety half of what the refutations leave true (which settings of algorithm 3
respect shares, which segments `copyseg` loads right).
