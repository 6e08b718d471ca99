----------------------------- MODULE Interrupts -----------------------------
(***************************************************************************)
(* The way into the kernel and out of it, word by word: the processor      *)
(* takes an interrupt, schedos-int.S completes the frame, interrupt()      *)
(* copies it to the process descriptor, run() loads another one.           *)
(*                                                                         *)
(* Kernel takes all of this for one step; here it is several, between      *)
(* which a device may interrupt if the processor lets it.  What the kernel *)
(* does in between is in Kernel: here schedule() picks any process that    *)
(* can run.  The processor is external.                                    *)
(***************************************************************************)
EXTENDS InterruptController

CONSTANTS
  Calls,        \* numbers of the int instructions the applications execute
  Exceptions    \* and of the exceptions they cause

ASSUME InterruptsAssumption ==
  /\ Calls \subseteq 0 .. 255
  /\ Exceptions \subseteq 0 .. 31

VARIABLES
  at,           \* where the kernel is, or "app"
  cpu,          \* the processor's registers
  stack,        \* the words on the kernel's stack, the last one first
  vector,       \* the interrupt the processor took last
  p_registers,  \* of each process descriptor
  runnable,     \* the processes whose p_state is P_RUNNABLE
  current

machineVars == <<cpu, stack, vector>>
processVars == <<p_registers, runnable, current>>
vars == <<at, machineVars, processVars, deviceVars>>

(* A word of which nothing is known: memory above the stack, addresses in  *)
(* the kernel's code.                                                      *)
Unknown == -1

RegisterNames == Range(registers_t) \ {"original_esp", "intno", "err"}
RegisterSets == [RegisterNames -> Int]

CPL == RPL(cpu.cs)
Interruptible == InterruptFlag(cpu.eflags)

(* start() with interrupts disabled by multiboot_start, which also set the *)
(* stack up.  segments_init, whose tables are in Descriptors, is done.     *)
Init ==
  /\ at = "devices"
  /\ cpu = [name \in RegisterNames |->
              CASE name = "cs" -> SEGSEL_KERN_CODE
                [] name \in {"ds", "es", "ss"} -> SEGSEL_KERN_DATA
                [] OTHER -> 0]
  /\ stack = <<>>
  /\ vector = 0
  /\ p_registers = [p \in Apps |-> [n \in DOMAIN registers_t |-> 0]]
  /\ runnable = {}
  /\ current = 0
  /\ ControllerInit

-----------------------------------------------------------------------------
(* The processor.                                                          *)

(* The words it pushes, the flags and the return address on the kernel's   *)
(* stack: on top of what is there, or, when it leaves an application,      *)
(* from the top with the application's stack pointer before them.          *)
Pushed ==
  <<cpu.eip, cpu.cs, cpu.eflags>>
    \o IF CPL = 3 THEN <<cpu.esp, cpu.ss>> ELSE stack

(* It goes through a gate.  `code' is the error code, if there is one.     *)
Take(v, code) ==
  /\ at' = "entry"
  /\ vector' = v
  /\ stack' = code \o Pushed
  /\ cpu' = [cpu EXCEPT !.cs = Gate(v).sel, !.eip = Unknown,
                        !.ss = IF CPL = 3 THEN ts_ss0 ELSE @,
                        !.esp = ts_esp0 - 4 * Len(stack'),
                        !.eflags = IF Interruptible /\ ~ Gate(v).istrap
                                   THEN @ - EFLAGS_IF ELSE @]
  /\ UNCHANGED processVars

HasErrorCode(v) == v \in {8} \cup 10 .. 14 \cup {17}

Raise(v, code) == Take(v, IF HasErrorCode(v) THEN <<code>> ELSE <<>>)

GeneralProtection == 13

NoInterruptPending == Interruptible => ~ \E line \in Lines : Pending(line)

(* The application computes: its registers change, to one of two values    *)
(* each.  A system call's arguments are among them.                        *)
Compute(k) ==
  /\ at = "app"
  /\ NoInterruptPending
  /\ cpu' = [name \in RegisterNames |->
       CASE name \in Range(GeneralRegisters) ->
              100 * current + 10 * k + Place(GeneralRegisters, name)
         [] name = "esp" -> PROC1_START + current * PROC_SIZE - 4 * k
         [] name = "eip" -> PROC1_START + (current - 1) * PROC_SIZE + k
         [] name = "eflags" -> EFLAGS_IF + k
         [] OTHER -> cpu[name]]
  /\ UNCHANGED <<at, stack, vector, processVars, deviceVars>>

(* int v: a gate that is not for applications protects itself.             *)
Call(v) ==
  /\ at = "app"
  /\ NoInterruptPending
  /\ IF Gate(v).dpl >= CPL THEN Take(v, <<>>)
     ELSE Raise(GeneralProtection, 8 * v + 2)
  /\ UNCHANGED deviceVars

Exception(v) ==
  /\ at = "app"
  /\ NoInterruptPending
  /\ Raise(v, 0)
  /\ UNCHANGED deviceVars

(* Between any two steps, if interrupts are enabled.                       *)
HardwareInterrupt(line) ==
  /\ Interruptible
  /\ Acknowledge(line)
  /\ Take(VectorOf(line), <<>>)

-----------------------------------------------------------------------------
(* The kernel.                                                             *)

ProgramDevices ==
  at = "devices" /\ OutB /\ UNCHANGED <<at, machineVars, processVars>>

(* The loop of start() over the applications.                              *)
CreateProcesses ==
  /\ at = "devices"
  /\ writes = <<>>
  /\ p_registers' = [p \in Apps |->
       special_registers_init(p, PROC1_START + (p - 1) * PROC_SIZE)]
  /\ runnable' = Apps
  /\ at' = "run"
  /\ UNCHANGED <<machineVars, current, deviceVars>>

(* The entry point's words, then those of _generic_int_handler: %ds, %es,  *)
(* the general registers.                                                  *)
GenericIntHandler ==
  /\ at = "entry"
  /\ LET words == <<cpu.es, cpu.ds>> \o Gate(vector).off \o stack
     IN  stack' = [n \in DOMAIN GeneralRegisters |->
                     IF GeneralRegisters[n] = "original_esp"
                     THEN ts_esp0 - 4 * Len(words) ELSE cpu[GeneralRegisters[n]]]
                  \o words
  /\ cpu' = [cpu EXCEPT !.eax = SEGSEL_KERN_DATA, !.ds = SEGSEL_KERN_DATA,
                        !.es = SEGSEL_KERN_DATA, !.esp = ts_esp0 - 4 * Len(stack')]
  /\ at' = "interrupt"
  /\ UNCHANGED <<vector, processVars, deviceVars>>

(* *reg: as many words as registers_t has, from the end of the stack on.   *)
Frame ==
  [n \in DOMAIN registers_t |-> IF n <= Len(stack) THEN stack[n] ELSE Unknown]

(* interrupt(reg), by the way it ends: in schedule(), for the system calls *)
(* and the clock, or in the endless loop of its default case.              *)
Interrupt ==
  /\ at = "interrupt"
  /\ p_registers' = [p_registers EXCEPT ![current] = Frame]
  /\ LET intno == Reg(Frame, "intno")
     IN  /\ at' = IF intno \in {INT_CLOCK} \cup INT_SYS_YIELD .. INT_SYS_SET_LOTTERY
                  THEN "schedule" ELSE "hang"
         /\ runnable' = IF intno = INT_SYS_EXIT THEN runnable \ {current}
                        ELSE runnable
  /\ UNCHANGED <<machineVars, current, deviceVars>>

(* schedule()                                                              *)
Schedule ==
  /\ at = "schedule"
  /\ at' = IF runnable = {} THEN "search" ELSE "run"
  /\ UNCHANGED <<machineVars, processVars, deviceVars>>

(* run(&proc_array[p]); start() runs the first process.                    *)
Run(p) ==
  /\ at = "run"
  /\ p \in runnable
  /\ current = 0 => p = 1
  /\ current' = p
  /\ cpu' = [name \in RegisterNames |-> p_registers[p][Place(Popped, name)]]
  /\ at' = "app"
  /\ UNCHANGED <<stack, vector, p_registers, runnable, deviceVars>>

(* interrupt() or schedule() goes round for ever.                          *)
Stopped == at \in {"hang", "search"}

Spin == Stopped /\ UNCHANGED vars

DeviceRequest(line) == Request(line) /\ UNCHANGED <<at, machineVars, processVars>>

Next ==
  \/ ProgramDevices
  \/ CreateProcesses
  \/ \E k \in {1, 2} : Compute(k)
  \/ \E v \in Calls : Call(v)
  \/ \E v \in Exceptions : Exception(v)
  \/ \E line \in Lines : HardwareInterrupt(line)
  \/ GenericIntHandler
  \/ Interrupt
  \/ Schedule
  \/ \E p \in Apps : Run(p)
  \/ Spin
  \/ \E line \in Lines : DeviceRequest(line)

Spec == Init /\ [][Next]_vars

(* The processor goes on, and the timer ticks.                             *)
FairSpec == Spec /\ WF_vars(Next) /\ WF_vars(DeviceRequest(0))

-----------------------------------------------------------------------------

TypeOK ==
  /\ at \in {"devices", "run", "app", "entry", "interrupt", "schedule",
             "hang", "search"}
  /\ cpu \in RegisterSets
  /\ stack \in Seq(Int) /\ Len(stack) <= Len(registers_t)
  /\ vector \in 0 .. 255
  /\ p_registers \in [Apps -> [DOMAIN registers_t -> Int]]
  /\ runnable \subseteq Apps
  /\ current \in Pids

(* The kernel is entered from applications only: "we will never receive    *)
(* clock interrupts while in the kernel" (interrupt()), from its first     *)
(* instruction on.  And as the clock it is entered for the clock only:     *)
(* `int' or an exception cannot pass for it.                               *)
KernelEntered ==
  [][at' = "entry" /\ stack' # stack =>
       /\ at = "app"
       /\ vector' = INT_CLOCK <=> 0 \in requests \ requests']_vars

(* interrupt() reads the number of the system call or of the clock where   *)
(* reg_intno is, and 0, for which it has no case, for everything else: no  *)
(* exception passes for a system call, with an error code or without.      *)
TrapNumber ==
  at = "interrupt" =>
    Reg(Frame, "intno") =
      IF vector \in {INT_CLOCK} \cup INT_SYS_YIELD .. INT_SYS_YIELD + 9
      THEN vector ELSE 0

Fits(selector, Kind(_), level) ==
  /\ selector \div 8 \in DOMAIN segments
  /\ Kind(SegmentOf(selector))
  /\ RPL(selector) = level
  /\ SegmentOf(selector).dpl = level

(* The segment registers hold what the processor demands of them at each   *)
(* privilege level: code in %cs and writeable data in the others, of this  *)
(* level.                                                                  *)
SegmentsFit ==
  LET level == IF at = "app" THEN 3 ELSE 0
      IsCode(seg) == seg.type >= STA_X
      IsData(seg) == seg.type < STA_X /\ seg.type % 4 >= STA_W
  IN  /\ Fits(cpu.cs, IsCode, level)
      /\ Fits(cpu.ss, IsData, level)
      /\ at # "entry" => Fits(cpu.ds, IsData, level) /\ Fits(cpu.es, IsData, level)

(* Before the first application runs, the sequence of bytes has done its   *)
(* work: no device but the clock gets through, and that only if allowed,   *)
(* at its own vector and HZ times a second, to the nearest count.          *)
ControllerReady ==
  at = "app" =>
    /\ {line \in 0 .. 15 : Unmasked(line)} =
         IF allow_clock_interrupt THEN {0} ELSE {}
    /\ VectorOf(0) = INT_CLOCK
    /\ allow_clock_interrupt =>
         /\ timer[1] = 52        \* counter 0, 16 bits, rate generator
         /\ LET count == timer[2] + 256 * timer[3]
            IN  2 * count * HZ - 2 * TIMER_FREQ \in -HZ .. HZ

(* If it is allowed the clock interrupts again and again, unless the       *)
(* kernel has stopped for ever: each interrupt ends by itself, without a   *)
(* word to the controller.                                                 *)
ClockReturns ==
  allow_clock_interrupt =>
    []<>(Stopped \/ (at = "interrupt" /\ vector = INT_CLOCK))

(* --------------- every application keeps its registers ------------------ *)

(* The registers of the current application: in the processor, then partly *)
(* on the stack, then all there.                                           *)
Interrupted ==
  [name \in RegisterNames |->
     IF name \in Range(TaskStatus)
     THEN stack[Len(stack) - Len(TaskStatus) + Place(TaskStatus, name)]
     ELSE IF at = "entry" THEN cpu[name]
     ELSE stack[Place(registers_t, name)]]

ContextOf(p) ==
  IF p = current /\ at = "app" THEN cpu
  ELSE IF p = current /\ at \in {"entry", "interrupt", "hang"} THEN Interrupted
  ELSE [name \in RegisterNames |-> Reg(p_registers[p], name)]

C == INSTANCE Contexts WITH
       context <- [p \in Apps |-> ContextOf(p)],
       running <- current,
       mode <- IF at = "app" THEN "app" ELSE "kernel"

(* Whatever interrupts an application and wherever, it goes on with the    *)
(* registers it had, all of them, and no other's.                          *)
ImplementsContexts == C!Spec

=============================================================================
