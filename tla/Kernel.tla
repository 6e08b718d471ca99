------------------------------- MODULE Kernel -------------------------------
(***************************************************************************)
(* schedos-kern.c on the processor: one set of registers that runs the     *)
(* application `current' points at, and one saved copy per process         *)
(* descriptor.  An interrupt saves the registers, handles the system call  *)
(* or the clock, and ends in schedule(), which either loads another copy   *)
(* (run) or searches for ever.  Interrupts are off in the kernel, so an    *)
(* interrupt and all it does is one step.                                  *)
(***************************************************************************)
EXTENDS UserCode, Scheduler

CONSTANTS
  PRIORITY, SHARE, TICKETS,   \* __PRIORITY__, __SHARE__, __LOTTERY_TICKETS__
  Settings                    \* of scheduling_algorithm and the argument of
                              \* interrupt_controller_init, in pairs

ASSUME KernelAssumption ==
  /\ PRIORITY \in [Apps -> Int]
  /\ SHARE \in [Apps -> Int]
  /\ TICKETS \in [Apps -> Int]
  /\ Settings \subseteq Algorithms \X BOOLEAN

VARIABLES
  proc_array,             \* the descriptors; p_registers of pid is regs[pid]
  current,                \* p_pid of the descriptor current points at
  scheduling_algorithm,
  clock_on,               \* the interrupt controller lets the clock through
  searching               \* schedule() has gone into its endless search

settings == <<scheduling_algorithm, clock_on>>
kernelVars == <<proc_array, current, settings, searching>>
vars == <<regs, lock, cursorpos, console, kernelVars>>

(* The context of the processor; the others are the saved copies.          *)
CPU == 0

Contexts == Apps \cup {CPU}

(* start(), from the descriptors it fills in to its run(&proc_array[1]).   *)
Init ==
  /\ regs = [c \in Contexts |-> StartOf(IF c = CPU THEN 1 ELSE c)]
  /\ lock = LockInit
  /\ cursorpos = 0
  /\ console = <<>>
  /\ proc_array = [pid \in Pids |->
       IF pid \in Apps THEN [EmptyDescriptor EXCEPT !.p_state = "P_RUNNABLE"]
       ELSE EmptyDescriptor]
  /\ current = 1
  /\ \E setting \in Settings :
       scheduling_algorithm = setting[1] /\ clock_on = setting[2]
  /\ searching = FALSE

-----------------------------------------------------------------------------

(* Mutant of Run: current still points at the process that ran before.     *)
RunAsBefore(pid, saved) ==
  /\ regs' = [saved EXCEPT ![CPU] = saved[pid]]
  /\ UNCHANGED <<current, searching>>

(* run(&proc_array[pid]): the processor takes the registers saved there.   *)
Run(pid, saved) ==
  /\ current' = pid
  /\ regs' = [saved EXCEPT ![CPU] = saved[pid]]
  /\ UNCHANGED searching

(* schedule(), with the handler's table and the saved registers.           *)
Schedule(table, saved) ==
  /\ UNCHANGED settings
  /\ \/ \E pid \in Pids :
          /\ Picks(scheduling_algorithm, table, current, pid)
          /\ proc_array' = Charged(scheduling_algorithm, table, current, pid)
          /\ Run(pid, saved)
     \/ /\ \A pid \in Pids :
             ~ Picks(scheduling_algorithm, table, current, pid)
        /\ proc_array' = Exhausted(scheduling_algorithm, table)
        /\ regs' = saved
        /\ searching' = TRUE
        /\ UNCHANGED current

(* interrupt(): current->p_registers = `*reg', then the switch's case, given *)
(* by the table it leaves, then schedule().  `frame' is what the processor *)
(* and _generic_int_handler have pushed.                                   *)
Interrupt(frame, table) == Schedule(table, [regs EXCEPT ![current] = frame])

Trap(call, table) ==
  /\ ~ searching
  /\ AtTrap(CPU, call)
  /\ Interrupt(Resume(regs[CPU]), table)

(* The program the processor executes, whose constants are the arguments   *)
(* that reach the kernel in %eax.                                          *)
Caller == regs[CPU].app

SysYield ==
  /\ Trap("sys_yield", proc_array)
  /\ UNCHANGED memory

(* Mutant of SysExit: the process is not marked as a zombie.               *)
SysExitUnmarked ==
  /\ Trap("sys_exit", [proc_array EXCEPT ![current].p_exit_status = 0])
  /\ UNCHANGED memory

SysExit ==
  /\ Trap("sys_exit", [proc_array EXCEPT ![current].p_state = "P_ZOMBIE",
                                         ![current].p_exit_status = 0])
  /\ UNCHANGED memory

SysSetPriority ==
  /\ Trap("sys_set_priority",
          [proc_array EXCEPT ![current].p_priority = PRIORITY[Caller]])
  /\ UNCHANGED memory

SysSetShare ==
  /\ Trap("sys_set_share",
          [proc_array EXCEPT ![current].p_share = SHARE[Caller],
                             ![current].p_num_times = 0])
  /\ UNCHANGED memory

SysSetLotteryTickets ==
  /\ Trap("sys_set_lottery_tickets",
          [proc_array EXCEPT ![current].p_num_tickets = TICKETS[Caller]])
  /\ UNCHANGED memory

(* Mutant of SysAtomicPrint: returns without the print.                    *)
SysAtomicPrintNothing ==
  /\ Trap("sys_atomic_print", proc_array)
  /\ UNCHANGED memory

SysAtomicPrint ==
  /\ Trap("sys_atomic_print", proc_array)
  /\ KernelPrint(Caller)
  /\ UNCHANGED lock

(* Mutant of Clock: its interrupts save no registers.                      *)
ClockUnsaved ==
  /\ clock_on
  /\ ~ searching
  /\ Schedule(proc_array, regs)
  /\ UNCHANGED memory

(* The clock may tick between any two instructions of an application.      *)
Clock ==
  /\ clock_on
  /\ ~ searching
  /\ Interrupt(regs[CPU], proc_array)
  /\ UNCHANGED memory

SystemCall ==
  \/ SysYield
  \/ SysExit
  \/ SysSetPriority
  \/ SysSetShare
  \/ SysSetLotteryTickets
  \/ SysAtomicPrint

(* The processor executes an instruction of the current application.       *)
Execute == ~ searching /\ Instruction(CPU) /\ UNCHANGED kernelVars

(* schedule()'s endless search, and so the machine, goes on for ever.      *)
Search == searching /\ UNCHANGED vars

Next == Execute \/ SystemCall \/ Clock \/ Search

Spec == Init /\ [][Next]_vars

-----------------------------------------------------------------------------
(* Fairness.  The processor never stops.  Interrupts come far enough apart *)
(* (HZ is 3000) that a process which keeps getting the processor gets to   *)
(* execute; and the cycle counter's draws leave no pid out for ever.       *)

Fairness ==
  /\ WF_vars(Next)
  /\ \A p \in Apps : SF_vars(current = p /\ (Execute \/ SystemCall))
  /\ \A p \in Apps : SF_vars(/\ scheduling_algorithm = 4
                             /\ SystemCall \/ Clock
                             /\ current' = p)

FairSpec == Spec /\ Fairness

-----------------------------------------------------------------------------

TypeOK ==
  /\ regs \in [Contexts -> Registers]
  /\ lock \in Nat
  /\ cursorpos \in Nat
  /\ DOMAIN console \subseteq Nat
  /\ proc_array \in Tables
  /\ current \in Apps
  /\ settings \in Settings
  /\ searching \in BOOLEAN

(* interrupt() saves the registers where `current' points.  While an       *)
(* application runs, that is its own descriptor and the descriptor is      *)
(* runnable; no saved copy is ever another application's.                  *)
CurrentOwnsCPU ==
  /\ ~ searching => regs[CPU].app = current /\ Runnable(proc_array, current)
  /\ \A p \in Apps : regs[p].app = p

(* "If there are no runnable processes, it spins forever" (the comment on  *)
(* schedule()), and not otherwise: it never searches past one.             *)
SearchesOnlyWhenDone ==
  searching => \A p \in Apps : ~ Runnable(proc_array, p)

(* The application whose print a cell shows.                               *)
ShowsPrintOf(cell, p) == console[cell] = Shown(p)

(* 2: no application's print comes before one of a more urgent             *)
(* application, once all have left priority 0, with which they start.      *)
PrintsByPriority ==
  scheduling_algorithm = 2 /\ (\A p \in Apps : PRIORITY[p] > 0) =>
    \A p, q \in Apps : PRIORITY[p] < PRIORITY[q] =>
      \A c, d \in DOMAIN console :
        ShowsPrintOf(c, p) /\ ShowsPrintOf(d, q) => c < d

(* What answers.txt says applications 0 and 1 print: 1234 1234 ... without *)
(* the clock, and all of 1's prints, then all of 2's, and so on, even with *)
(* it.                                                                     *)
PrintsInOrder ==
  \A c \in DOMAIN console :
    /\ scheduling_algorithm = 0 /\ ~ clock_on =>
         ShowsPrintOf(c, (c % (NPROCS - 1)) + 1)
    /\ scheduling_algorithm = 1 => ShowsPrintOf(c, (c \div RUNCOUNT) + 1)

(* Its turnaround times, in prints: under algorithm 0 without the clock    *)
(* all applications exit after the last print of all, under algorithm 1    *)
(* application p exits after p * RUNCOUNT prints.                          *)
Exits(p) == Runnable(proc_array, p) /\ ~ Runnable(proc_array', p)

TurnaroundTimes ==
  [][\A p \in Apps : Exits(p) =>
       /\ scheduling_algorithm = 0 /\ ~ clock_on =>
            cursorpos = RUNCOUNT * (NPROCS - 1)
       /\ scheduling_algorithm = 1 => cursorpos = RUNCOUNT * p]_vars

(* Every application is run until it has exited, whatever the schedule and *)
(* whoever holds the lock when the clock ticks.                            *)
AllExit == <>(\A p \in Apps : proc_array[p].p_state = "P_ZOMBIE")

(* 3: "run current process if it has not reached its share" (schedule()):  *)
(* a process that has set a share is run at most so many times before      *)
(* another one is tried.                                                   *)
ShareRespected ==
  /\ scheduling_algorithm = 3
  /\ ~ searching
  /\ proc_array[current].p_share > 0
  => proc_array[current].p_num_times <= proc_array[current].p_share

(* ------------- the kernel implements the threads' view ----------------- *)

(* The registers of application p, wherever they are.                      *)
threadRegs ==
  [p \in Apps |-> IF p = current /\ ~ searching THEN regs[CPU] ELSE regs[p]]

T == INSTANCE Threads WITH regs <- threadRegs

(* Sharing one processor, with or without the clock and under every        *)
(* scheduling algorithm, shows an application nothing it could not see     *)
(* with a processor of its own: no register is lost or mixed up by a       *)
(* context switch, and nothing comes between the kernel's steps.           *)
ImplementsThreads == T!Spec

(* Nor does it lose or garble a print: what the system promises its user   *)
(* holds on the one processor too, if all applications print alike.        *)
ImplementsPrintLog == T!ImplementsPrintLog

=============================================================================
