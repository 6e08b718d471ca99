---------------------------- MODULE KernelProofs ----------------------------
(***************************************************************************)
(* Sharing one processor is invisible to the applications: Kernel          *)
(* implements Threads for every number of applications, every priority and *)
(* share, every scheduling algorithm, with the clock or without.  Then     *)
(* what that says of the applications' printing.                           *)
(***************************************************************************)
EXTENDS Kernel, UserCodeProofs, SchedulerProofs

(* CurrentOwnsCPU and what it rests on.  In the endless search nothing is  *)
(* running, and the registers left on the processor belong to nobody.      *)
KernelInv ==
  /\ TypeOK
  /\ CurrentOwnsCPU
  /\ \A p \in Apps : Controlled(p, threadRegs[p])
  /\ ~ Runnable(proc_array, CPU)

-----------------------------------------------------------------------------

LEMMA CPUNotApp == CPU \notin Apps /\ CPU \in Contexts /\ CPU \in Pids
  BY NPROCSAssumption DEF CPU, Apps, Contexts, Pids

LEMMA InitKernelInv == Init => KernelInv
  <1> SUFFICES ASSUME Init PROVE KernelInv
    OBVIOUS
  <1>1. 1 \in Apps /\ Apps \subseteq Pids
    BY NPROCSAssumption DEF Apps, Pids
  <1>2. /\ EmptyDescriptor \in Descriptor
        /\ [EmptyDescriptor EXCEPT !.p_state = "P_RUNNABLE"] \in Descriptor
        /\ [EmptyDescriptor EXCEPT !.p_state = "P_RUNNABLE"].p_state = "P_RUNNABLE"
        /\ EmptyDescriptor.p_state # "P_RUNNABLE"
    BY DEF EmptyDescriptor, Descriptor, States
  <1>3. regs \in [Contexts -> Registers]
    BY <1>1, StartControlled DEF Init, Contexts
  <1>4. \A p \in Apps : regs[p] = StartOf(p) /\ regs[p].app = p
    BY CPUNotApp DEF Init, Contexts, StartOf
  <1>5. regs[CPU] = StartOf(1) /\ regs[CPU].app = 1
    BY CPUNotApp DEF Init, Contexts, StartOf
  <1>6. TypeOK
    <2>1. proc_array \in Tables
      BY <1>1, <1>2 DEF Init, Tables
    <2>2. lock \in Nat /\ cursorpos \in Nat /\ DOMAIN console \subseteq Nat
      BY UserCodeAssumption DEF Init
    <2>3. settings \in Settings
      <3>1. PICK setting \in Settings :
              scheduling_algorithm = setting[1] /\ clock_on = setting[2]
        BY DEF Init
      <3>2. setting = <<setting[1], setting[2]>>
        BY KernelAssumption
      <3> QED
        BY <3>1, <3>2 DEF settings
    <2> QED
      BY <1>1, <1>3, <2>1, <2>2, <2>3 DEF Init, TypeOK
  <1>7. CurrentOwnsCPU
    BY <1>1, <1>2, <1>4, <1>5 DEF Init, CurrentOwnsCPU, Runnable
  <1>8. \A p \in Apps : threadRegs[p] = StartOf(p)
    BY <1>4, <1>5 DEF Init, threadRegs
  <1>9. ~ Runnable(proc_array, CPU)
    BY <1>2, CPUNotApp DEF Init, Runnable
  <1> QED
    BY <1>6, <1>7, <1>8, <1>9, StartControlled DEF KernelInv

(* interrupt() puts the frame back into the descriptor it came from, and   *)
(* run() loads one that is whole: whatever schedule() picks, only the      *)
(* interrupted application's registers have changed.                       *)
LEMMA InterruptSwitches ==
  ASSUME KernelInv, ~ searching,
         NEW frame \in Registers, Controlled(current, frame),
         NEW table \in Tables, ~ Runnable(table, CPU),
         Interrupt(frame, table)
  PROVE  /\ regs' \in [Contexts -> Registers]
         /\ proc_array' \in Tables
         /\ current' \in Apps
         /\ searching' \in BOOLEAN
         /\ UNCHANGED settings
         /\ CurrentOwnsCPU'
         /\ ~ Runnable(proc_array', CPU)
         /\ threadRegs' = [threadRegs EXCEPT ![current] = frame]
  <1> DEFINE saved == [regs EXCEPT ![current] = frame]
  <1>0. /\ regs \in [Contexts -> Registers]
        /\ current \in Apps
        /\ Apps \subseteq Contexts
        /\ Apps = Pids \ {CPU}
        /\ \A p \in Apps : regs[p].app = p
        /\ CPU \in Contexts
        /\ frame.app = current
    BY CPUNotApp, NPROCSAssumption
       DEF KernelInv, TypeOK, CurrentOwnsCPU, Contexts, Controlled, Apps, Pids, CPU
  <1>1. /\ saved \in [Contexts -> Registers]
        /\ \A p \in Apps : saved[p].app = p
        /\ \A p \in Apps : saved[p] = IF p = current THEN frame ELSE regs[p]
    BY <1>0
  <1>2. threadRegs = [p \in Apps |-> IF p = current THEN regs[CPU] ELSE regs[p]]
    BY DEF threadRegs
  <1>3. [threadRegs EXCEPT ![current] = frame] = [p \in Apps |-> saved[p]]
    BY <1>0, <1>1, <1>2
  <1>4. Schedule(table, saved)
    BY DEF Interrupt
  <1> HIDE DEF saved
  <1>5. CASE \E pid \in Pids :
               /\ Picks(scheduling_algorithm, table, current, pid)
               /\ proc_array' = Charged(scheduling_algorithm, table, current, pid)
               /\ Run(pid, saved)
    <2>1. PICK pid \in Pids :
            /\ Picks(scheduling_algorithm, table, current, pid)
            /\ proc_array' = Charged(scheduling_algorithm, table, current, pid)
            /\ Run(pid, saved)
      BY <1>5
    <2>2. Runnable(table, pid) /\ pid \in Apps
      BY <1>0, <2>1, PicksRunnable
    <2>3. /\ proc_array' \in Tables
          /\ Runnable(proc_array', pid)
          /\ ~ Runnable(proc_array', CPU)
      BY <2>1, <2>2, ChargedType, CPUNotApp
    <2>4. /\ current' = pid
          /\ searching' = FALSE
          /\ regs' = [saved EXCEPT ![CPU] = saved[pid]]
      BY <2>1 DEF Run
    <2>5. /\ regs' \in [Contexts -> Registers]
          /\ regs'[CPU] = saved[pid]
          /\ \A p \in Apps : regs'[p] = saved[p]
      BY <1>0, <1>1, <2>2, <2>4
    <2>6. CurrentOwnsCPU'
      BY <1>1, <2>2, <2>3, <2>4, <2>5 DEF CurrentOwnsCPU
    <2>7. threadRegs' = [p \in Apps |-> saved[p]]
      BY <2>4, <2>5 DEF threadRegs
    <2>8. UNCHANGED settings
      BY <1>4 DEF Schedule
    <2> QED
      BY <1>3, <2>2, <2>3, <2>4, <2>5, <2>6, <2>7, <2>8
  <1>6. CASE /\ proc_array' = Exhausted(scheduling_algorithm, table)
             /\ regs' = saved
             /\ searching' = TRUE
             /\ UNCHANGED current
    <2>1. proc_array' \in Tables /\ ~ Runnable(proc_array', CPU)
      BY <1>6, ExhaustedType, CPUNotApp
    <2>2. CurrentOwnsCPU'
      BY <1>1, <1>6 DEF CurrentOwnsCPU
    <2>3. threadRegs' = [p \in Apps |-> saved[p]]
      BY <1>6 DEF threadRegs
    <2>4. UNCHANGED settings
      BY <1>4 DEF Schedule
    <2> QED
      BY <1>0, <1>1, <1>3, <1>6, <2>1, <2>2, <2>3, <2>4
  <1> QED
    BY <1>4, <1>5, <1>6 DEF Schedule

-----------------------------------------------------------------------------

(* The threads' registers of the process on the processor are its own.     *)
LEMMA CurrentThread ==
  ASSUME KernelInv, ~ searching
  PROVE  /\ current \in Apps
         /\ threadRegs[current] = regs[CPU]
         /\ regs[CPU] \in Registers
         /\ Controlled(current, regs[CPU])
         /\ Caller = current
         /\ Runnable(proc_array, current)
  BY CPUNotApp DEF KernelInv, TypeOK, CurrentOwnsCPU, threadRegs, Caller

(* A system call is the same in Threads ...                                *)
LEMMA TrapSwitches ==
  ASSUME KernelInv, NEW call \in Traps,
         NEW table \in Tables, ~ Runnable(table, CPU), Trap(call, table),
         MemoryOK'
  PROVE  /\ KernelInv'
         /\ T!AtTrap(current, call)
         /\ threadRegs' = [threadRegs EXCEPT ![current] = T!Resume(@)]
  <1>1. ~ searching /\ AtTrap(CPU, call)
    BY DEF Trap
  <1>2. /\ regs[CPU] \in Registers
        /\ Controlled(current, regs[CPU])
        /\ threadRegs[current] = regs[CPU]
        /\ current \in Apps
    BY <1>1, CurrentThread
  <1>3. /\ Resume(regs[CPU]) \in Registers
        /\ Controlled(current, Resume(regs[CPU]))
    BY <1>1, <1>2, ResumeControlled DEF AtTrap
  <1>4. Interrupt(Resume(regs[CPU]), table)
    BY DEF Trap
  <1>5. /\ regs' \in [Contexts -> Registers]
        /\ proc_array' \in Tables
        /\ current' \in Apps
        /\ searching' \in BOOLEAN
        /\ UNCHANGED settings
        /\ CurrentOwnsCPU'
        /\ ~ Runnable(proc_array', CPU)
        /\ threadRegs' = [threadRegs EXCEPT ![current] = Resume(regs[CPU])]
    BY <1>1, <1>3, <1>4, InterruptSwitches
  <1>6. Resume(regs[CPU]) = T!Resume(threadRegs[current])
    BY <1>2 DEF Resume, T!Resume, LoopTop, T!LoopTop
  <1>7. T!AtTrap(current, call)
    BY <1>1, <1>2 DEF AtTrap, T!AtTrap
  <1>8. TypeOK'
    BY <1>5 DEF KernelInv, TypeOK, MemoryOK
  <1>9. \A p \in Apps : Controlled(p, threadRegs'[p])
    <2>1. \A p \in Apps : threadRegs'[p] =
            IF p = current THEN Resume(regs[CPU]) ELSE threadRegs[p]
      BY <1>5 DEF threadRegs
    <2> QED
      BY <1>3, <2>1 DEF KernelInv
  <1> QED
    BY <1>5, <1>6, <1>7, <1>8, <1>9 DEF KernelInv

LEMMA TableUpdate ==
  ASSUME KernelInv, ~ searching, NEW d \in Descriptor
  PROVE  /\ [proc_array EXCEPT ![current] = d] \in Tables
         /\ ~ Runnable([proc_array EXCEPT ![current] = d], CPU)
         /\ proc_array[current] \in Descriptor
  BY CurrentThread, CPUNotApp, NPROCSAssumption
     DEF KernelInv, TypeOK, Tables, Runnable, Apps, Pids

(* What a system call does to the caller's descriptor.                     *)
Changed(call, d) ==
  /\ d.p_state = IF call = "sys_exit" THEN "P_ZOMBIE"
                 ELSE proc_array[current].p_state
  /\ d.p_priority = IF call = "sys_set_priority" THEN PRIORITY[current]
                    ELSE proc_array[current].p_priority
  /\ d.p_share = IF call = "sys_set_share" THEN SHARE[current]
                 ELSE proc_array[current].p_share
  /\ d.p_num_times = IF call = "sys_set_share" THEN 0
                     ELSE proc_array[current].p_num_times

LEMMA SystemCallChanges ==
  ASSUME KernelInv, SystemCall
  PROVE  \E call \in Traps : \E d \in Descriptor :
           /\ Changed(call, d)
           /\ Trap(call, [proc_array EXCEPT ![current] = d])
           /\ call # "sys_atomic_print" => UNCHANGED memory
           /\ call = "sys_atomic_print" => KernelPrint(current) /\ UNCHANGED lock
  <1>0. ~ searching
    BY DEF SystemCall, SysYield, SysExit, SysSetPriority, SysSetShare,
           SysSetLotteryTickets, SysAtomicPrint, Trap
  <1>1. /\ current \in Apps
        /\ Caller = current
        /\ proc_array = [proc_array EXCEPT ![current] = proc_array[current]]
        /\ proc_array[current] \in Descriptor
        /\ PRIORITY[current] \in Int
        /\ SHARE[current] \in Int
        /\ TICKETS[current] \in Int
    BY <1>0, CurrentThread, TableUpdate, KernelAssumption, NPROCSAssumption
       DEF KernelInv, TypeOK, Tables, Apps, Pids
  <1> DEFINE old == proc_array[current]
  <1>2. CASE SysYield
    <2>1. "sys_yield" \in Traps /\ Changed("sys_yield", old)
      BY DEF Traps, Changed
    <2>2. Trap("sys_yield", [proc_array EXCEPT ![current] = old]) /\ UNCHANGED memory
      BY <1>1, <1>2 DEF SysYield
    <2> QED
      BY <1>1, <2>1, <2>2
  <1>3. CASE SysExit
    <2> DEFINE e == [old EXCEPT !.p_state = "P_ZOMBIE"]
               d == [e EXCEPT !.p_exit_status = 0]
    <2>1. e \in Descriptor /\ e.p_state = "P_ZOMBIE"
          /\ e.p_priority = old.p_priority /\ e.p_share = old.p_share
          /\ e.p_num_times = old.p_num_times
      BY <1>1 DEF Descriptor, States
    <2>2. Trap("sys_exit", [proc_array EXCEPT ![current] = d]) /\ UNCHANGED memory
      BY <1>3 DEF SysExit
    <2> HIDE DEF e
    <2>3. d \in Descriptor /\ d.p_state = e.p_state
          /\ d.p_priority = e.p_priority /\ d.p_share = e.p_share
          /\ d.p_num_times = e.p_num_times
      BY <2>1 DEF Descriptor
    <2> HIDE DEF d
    <2>4. "sys_exit" \in Traps /\ Changed("sys_exit", d)
      BY <2>1, <2>3 DEF Traps, Changed
    <2> QED
      BY <2>2, <2>3, <2>4
  <1>4. CASE SysSetPriority
    <2> DEFINE d == [old EXCEPT !.p_priority = PRIORITY[current]]
    <2>1. d \in Descriptor /\ d.p_state = old.p_state
          /\ d.p_priority = PRIORITY[current] /\ d.p_share = old.p_share
          /\ d.p_num_times = old.p_num_times
      BY <1>1 DEF Descriptor
    <2>2. Trap("sys_set_priority", [proc_array EXCEPT ![current] = d])
          /\ UNCHANGED memory
      BY <1>1, <1>4 DEF SysSetPriority
    <2> HIDE DEF d
    <2>3. "sys_set_priority" \in Traps /\ Changed("sys_set_priority", d)
      BY <2>1 DEF Traps, Changed
    <2> QED
      BY <2>1, <2>2, <2>3
  <1>5. CASE SysSetShare
    <2> DEFINE e == [old EXCEPT !.p_share = SHARE[current]]
               d == [e EXCEPT !.p_num_times = 0]
    <2>1. e \in Descriptor /\ e.p_state = old.p_state
          /\ e.p_priority = old.p_priority /\ e.p_share = SHARE[current]
      BY <1>1 DEF Descriptor
    <2>2. Trap("sys_set_share", [proc_array EXCEPT ![current] = d])
          /\ UNCHANGED memory
      BY <1>1, <1>5 DEF SysSetShare
    <2> HIDE DEF e
    <2>3. d \in Descriptor /\ d.p_state = e.p_state
          /\ d.p_priority = e.p_priority /\ d.p_share = e.p_share
          /\ d.p_num_times = 0
      BY <2>1 DEF Descriptor
    <2> HIDE DEF d
    <2>4. "sys_set_share" \in Traps /\ Changed("sys_set_share", d)
      BY <2>1, <2>3 DEF Traps, Changed
    <2> QED
      BY <2>2, <2>3, <2>4
  <1>6. CASE SysSetLotteryTickets
    <2> DEFINE d == [old EXCEPT !.p_num_tickets = TICKETS[current]]
    <2>1. d \in Descriptor /\ d.p_state = old.p_state
          /\ d.p_priority = old.p_priority /\ d.p_share = old.p_share
          /\ d.p_num_times = old.p_num_times
      BY <1>1 DEF Descriptor
    <2>2. Trap("sys_set_lottery_tickets", [proc_array EXCEPT ![current] = d])
          /\ UNCHANGED memory
      BY <1>1, <1>6 DEF SysSetLotteryTickets
    <2> HIDE DEF d
    <2>3. "sys_set_lottery_tickets" \in Traps
          /\ Changed("sys_set_lottery_tickets", d)
      BY <2>1 DEF Traps, Changed
    <2> QED
      BY <2>1, <2>2, <2>3
  <1>7. CASE SysAtomicPrint
    <2>1. "sys_atomic_print" \in Traps /\ Changed("sys_atomic_print", old)
      BY DEF Traps, Changed
    <2>2. /\ Trap("sys_atomic_print", [proc_array EXCEPT ![current] = old])
          /\ KernelPrint(current) /\ UNCHANGED lock
      BY <1>1, <1>7 DEF SysAtomicPrint
    <2> QED
      BY <1>1, <2>1, <2>2
  <1> QED
    BY <1>2, <1>3, <1>4, <1>5, <1>6, <1>7 DEF SystemCall

(* ... and each prints or changes nothing the threads see.                 *)
LEMMA SystemCallImplements ==
  ASSUME KernelInv, SystemCall
  PROVE  KernelInv' /\ T!Next
  <1>0. PICK call \in Traps, d \in Descriptor :
          /\ Trap(call, [proc_array EXCEPT ![current] = d])
          /\ call # "sys_atomic_print" => UNCHANGED memory
          /\ call = "sys_atomic_print" => KernelPrint(current) /\ UNCHANGED lock
    BY SystemCallChanges
  <1> DEFINE table == [proc_array EXCEPT ![current] = d]
  <1>1. /\ current \in Apps
        /\ table \in Tables
        /\ ~ Runnable(table, CPU)
    BY <1>0, CurrentThread, TableUpdate DEF Trap
  <1>2. MemoryOK'
    BY <1>0, KernelPrintType DEF KernelInv, TypeOK, MemoryOK, memory
  <1>3. /\ KernelInv'
        /\ T!AtTrap(current, call)
        /\ threadRegs' = [threadRegs EXCEPT ![current] = T!Resume(@)]
    BY <1>0, <1>1, <1>2, TrapSwitches
  <1>4. CASE call # "sys_atomic_print"
    <2>1. T!SysCall(current)
      BY <1>0, <1>3, <1>4 DEF T!SysCall, T!Traps, Traps, T!memory, memory
    <2> QED
      BY <1>1, <1>3, <2>1 DEF T!Next, T!Step, T!Apps, Apps
  <1>5. CASE call = "sys_atomic_print"
    <2>1. threadRegs[current].app = current
      BY <1>1 DEF KernelInv, Controlled
    <2>2. T!SysAtomicPrint(current)
      BY <1>0, <1>3, <1>5, <2>1
         DEF T!SysAtomicPrint, T!KernelPrint, KernelPrint, T!Write, Write,
             T!CharCast, CharCast
    <2> QED
      BY <1>1, <1>3, <2>2 DEF T!Next, T!Step, T!Apps, Apps
  <1> QED
    BY <1>4, <1>5

LEMMA ClockStutters ==
  ASSUME KernelInv, Clock
  PROVE  KernelInv' /\ UNCHANGED T!vars
  <1>0. ~ searching /\ Interrupt(regs[CPU], proc_array) /\ UNCHANGED memory
    BY DEF Clock
  <1>1. /\ regs[CPU] \in Registers
        /\ Controlled(current, regs[CPU])
        /\ threadRegs[current] = regs[CPU]
    BY <1>0, CurrentThread
  <1>2. /\ proc_array \in Tables
        /\ ~ Runnable(proc_array, CPU)
    BY DEF KernelInv, TypeOK
  <1>3. /\ regs' \in [Contexts -> Registers]
        /\ proc_array' \in Tables
        /\ current' \in Apps
        /\ searching' \in BOOLEAN
        /\ UNCHANGED settings
        /\ CurrentOwnsCPU'
        /\ ~ Runnable(proc_array', CPU)
        /\ threadRegs' = [threadRegs EXCEPT ![current] = regs[CPU]]
    BY <1>0, <1>1, <1>2, InterruptSwitches
  <1>4. threadRegs' = threadRegs
    BY <1>1, <1>3 DEF threadRegs
  <1>5. TypeOK'
    BY <1>0, <1>3 DEF KernelInv, TypeOK, memory
  <1>6. \A p \in Apps : Controlled(p, threadRegs'[p])
    BY <1>4 DEF KernelInv
  <1> QED
    BY <1>0, <1>3, <1>4, <1>5, <1>6 DEF KernelInv, T!vars, memory

(* An instruction on the processor is one of the current thread's.         *)
LEMMA ExecuteImplements ==
  ASSUME KernelInv, Execute
  PROVE  KernelInv' /\ T!Next
  <1>0. ~ searching /\ Instruction(CPU) /\ UNCHANGED kernelVars
    BY DEF Execute
  <1>1. /\ current \in Apps
        /\ threadRegs[current] = regs[CPU]
        /\ regs[CPU] \in Registers
        /\ Controlled(current, regs[CPU])
    BY <1>0, CurrentThread
  <1>2. /\ regs \in [Contexts -> Registers]
        /\ MemoryOK
        /\ CPU \in DOMAIN regs
    BY CPUNotApp DEF KernelInv, TypeOK, MemoryOK
  <1>3. /\ MemoryOK'
        /\ regs' = [regs EXCEPT ![CPU] = regs'[CPU]]
        /\ regs'[CPU] \in Registers
        /\ Controlled(current, regs'[CPU])
    BY <1>0, <1>1, <1>2, InstructionControlled
  <1>4. /\ regs' \in [Contexts -> Registers]
        /\ \A p \in Apps : regs'[p] = regs[p]
    BY <1>2, <1>3, CPUNotApp DEF Contexts
  <1>5. TypeOK'
    BY <1>0, <1>3, <1>4 DEF KernelInv, TypeOK, MemoryOK, kernelVars
  <1>6. CurrentOwnsCPU' /\ ~ Runnable(proc_array', CPU)
    BY <1>0, <1>3, <1>4 DEF KernelInv, CurrentOwnsCPU, Controlled, kernelVars
  <1>7. threadRegs' = [threadRegs EXCEPT ![current] = regs'[CPU]]
    <2>1. /\ threadRegs = [p \in Apps |-> IF p = current THEN regs[CPU] ELSE regs[p]]
          /\ threadRegs' = [p \in Apps |-> IF p = current THEN regs'[CPU] ELSE regs[p]]
      BY <1>0, <1>4 DEF threadRegs, kernelVars
    <2> QED
      BY <2>1
  <1>8. \A p \in Apps : Controlled(p, threadRegs'[p])
    BY <1>3, <1>7 DEF KernelInv, threadRegs
  <1>9. T!Instruction(current)
    <2>1. CASE SwapIn(CPU)
      <3>1. regs'[CPU] = [regs[CPU] EXCEPT !.eip = IF lock = 0 THEN "load" ELSE "swap_in"]
        BY <1>2, <2>1 DEF SwapIn, AtomicSwap
      <3>2. T!SwapIn(current)
        BY <1>1, <1>7, <2>1, <3>1 DEF SwapIn, T!SwapIn, AtomicSwap, T!AtomicSwap
      <3> QED
        BY <3>2 DEF T!Instruction
    <2>2. CASE LoadCursor(CPU)
      <3>1. regs'[CPU] = [regs[CPU] EXCEPT !.eip = "store", !.old = cursorpos, !.todo = Stores]
        BY <1>2, <2>2 DEF LoadCursor
      <3>2. T!LoadCursor(current)
        BY <1>1, <1>7, <2>2, <3>1 DEF LoadCursor, T!LoadCursor, memory, T!memory, Stores, T!Stores
      <3> QED
        BY <3>2 DEF T!Instruction
    <2>3. CASE StoreCursor(CPU)
      <3>1. regs'[CPU] = [regs[CPU] EXCEPT !.todo = @ \ {"cursor"}]
        BY <1>2, <2>3 DEF StoreCursor
      <3>2. T!StoreCursor(current)
        BY <1>1, <1>7, <2>3, <3>1 DEF StoreCursor, T!StoreCursor
      <3> QED
        BY <3>2 DEF T!Instruction
    <2>4. CASE StoreCell(CPU)
      <3>1. regs'[CPU] = [regs[CPU] EXCEPT !.todo = @ \ {"cell"}]
        BY <1>2, <2>4 DEF StoreCell
      <3>2. T!StoreCell(current)
        BY <1>1, <1>7, <2>4, <3>1 DEF StoreCell, T!StoreCell, Write, T!Write
      <3> QED
        BY <3>2 DEF T!Instruction
    <2>5. CASE SwapOut(CPU)
      <3>1. regs'[CPU] = [regs[CPU] EXCEPT !.eip = "sys_yield"]
        BY <1>2, <2>5 DEF SwapOut, AtomicSwap
      <3>2. T!SwapOut(current)
        BY <1>1, <1>7, <2>5, <3>1 DEF SwapOut, T!SwapOut, AtomicSwap, T!AtomicSwap
      <3> QED
        BY <3>2 DEF T!Instruction
    <2> QED
      BY <1>0, <2>1, <2>2, <2>3, <2>4, <2>5 DEF Instruction
  <1> QED
    BY <1>1, <1>5, <1>6, <1>8, <1>9 DEF KernelInv, T!Next, T!Step, T!Apps, Apps

LEMMA NextKernelInv == KernelInv /\ [Next]_vars => KernelInv'
  <1> SUFFICES ASSUME KernelInv, [Next]_vars PROVE KernelInv'
    OBVIOUS
  <1>1. CASE UNCHANGED vars
    BY <1>1 DEF KernelInv, TypeOK, CurrentOwnsCPU, threadRegs, Runnable, vars,
                kernelVars
  <1> QED
    BY <1>1, ExecuteImplements, SystemCallImplements, ClockStutters
       DEF Next, Search

(* The registers, the descriptors and `current' keep their shape in every  *)
(* step of the kernel and the applications (schedos-kern.c).               *)
THEOREM KernelTypeOK == Spec => []TypeOK
  <1>1. KernelInv => TypeOK
    BY DEF KernelInv
  <1> QED
    BY InitKernelInv, NextKernelInv, <1>1, PTL DEF Spec

(* While an application runs, `current' points at its own descriptor,      *)
(* which is runnable, so that interrupt() saves into the right place       *)
(* (schedos-kern.c, interrupt; schedos-x86.c, run).                        *)
THEOREM CurrentAlwaysOwnsCPU == Spec => []CurrentOwnsCPU
  <1>1. KernelInv => CurrentOwnsCPU
    BY DEF KernelInv
  <1> QED
    BY InitKernelInv, NextKernelInv, <1>1, PTL DEF Spec

(* The applications cannot tell the one processor, switched by any         *)
(* scheduling algorithm and the clock, from a processor each.              *)
THEOREM KernelImplementsThreads == Spec => ImplementsThreads
  <1>1. Init => T!Init
    <2> SUFFICES ASSUME Init PROVE T!Init
      OBVIOUS
    <2>1. \A p \in Apps : threadRegs[p] = T!StartOf(p)
      BY CPUNotApp DEF Init, threadRegs, Contexts, StartOf, T!StartOf
    <2>2. threadRegs = [p \in Apps |-> T!StartOf(p)]
      BY <2>1 DEF threadRegs
    <2> QED
      BY <2>2 DEF Init, T!Init, T!Apps, Apps
  <1>2. KernelInv /\ [Next]_vars => [T!Next]_(T!vars)
    <2> SUFFICES ASSUME KernelInv, [Next]_vars
                 PROVE  T!Next \/ UNCHANGED T!vars
      OBVIOUS
    <2>1. CASE UNCHANGED vars
      BY <2>1 DEF vars, kernelVars, threadRegs, T!vars
    <2> QED
      BY <2>1, ExecuteImplements, SystemCallImplements, ClockStutters
         DEF Next, Search
  <1> QED
    BY InitKernelInv, NextKernelInv, <1>1, <1>2, PTL
       DEF Spec, ImplementsThreads, T!Spec

-----------------------------------------------------------------------------
(* Every step of the kernel, seen from the threads and the descriptors.    *)

LEMMA ThreadsType ==
  ASSUME KernelInv
  PROVE  /\ DOMAIN threadRegs = Apps
         /\ \A p \in Apps : /\ threadRegs[p] \in Registers
                            /\ threadRegs[p].i \in 0 .. RUNCOUNT
                            /\ threadRegs[p].old \in Nat
                            /\ Controlled(p, threadRegs[p])
         /\ current \in Apps /\ cursorpos \in Nat /\ DOMAIN console \subseteq Nat
         /\ proc_array \in Tables /\ scheduling_algorithm \in Algorithms
  BY CPUNotApp, KernelAssumption
     DEF KernelInv, TypeOK, threadRegs, Contexts, Registers, settings

(* An instruction moves the current thread ...                             *)
LEMMA Executes ==
  ASSUME KernelInv, Execute
  PROVE  /\ ~ searching /\ UNCHANGED kernelVars
         /\ regs[CPU] = threadRegs[current]
         /\ regs'[CPU] = threadRegs'[current]
         /\ \A q \in Apps \ {current} : threadRegs'[q] = threadRegs[q]
         /\ regs \in [Contexts -> Registers] /\ CPU \in Contexts
         /\ Instruction(CPU)
  <1>0. ~ searching /\ Instruction(CPU) /\ UNCHANGED kernelVars
    BY DEF Execute
  <1>1. /\ current \in Apps
        /\ regs[CPU] = threadRegs[current]
        /\ regs[CPU] \in Registers
        /\ Controlled(current, regs[CPU])
    BY <1>0, CurrentThread
  <1>2. regs \in [Contexts -> Registers] /\ CPU \in DOMAIN regs /\ MemoryOK
    BY CPUNotApp DEF KernelInv, TypeOK, MemoryOK
  <1>3. regs' = [regs EXCEPT ![CPU] = regs'[CPU]]
    BY <1>0, <1>1, <1>2, InstructionControlled
  <1>4. \A q \in Apps : regs'[q] = regs[q]
    BY <1>2, <1>3, CPUNotApp DEF Contexts
  <1> QED
    BY <1>0, <1>1, <1>2, <1>4 DEF threadRegs, kernelVars

(* ... and its descriptor, as all the others, only in a system call.       *)
LEMMA SystemCalls ==
  ASSUME KernelInv, SystemCall
  PROVE  \E call \in Traps : \E d \in Descriptor :
           /\ ~ searching /\ Changed(call, d)
           /\ threadRegs[current].eip = call /\ threadRegs[current].todo = {}
           /\ threadRegs' = [threadRegs EXCEPT ![current] = Resume(@)]
           /\ Interrupt(Resume(regs[CPU]), [proc_array EXCEPT ![current] = d])
           /\ [proc_array EXCEPT ![current] = d] \in Tables
           /\ ~ Runnable([proc_array EXCEPT ![current] = d], CPU)
           /\ call # "sys_atomic_print" => UNCHANGED memory
           /\ call = "sys_atomic_print" => KernelPrint(current) /\ UNCHANGED lock
  <1>0. PICK call \in Traps, d \in Descriptor :
          /\ Changed(call, d)
          /\ Trap(call, [proc_array EXCEPT ![current] = d])
          /\ call # "sys_atomic_print" => UNCHANGED memory
          /\ call = "sys_atomic_print" => KernelPrint(current) /\ UNCHANGED lock
    BY SystemCallChanges
  <1> DEFINE table == [proc_array EXCEPT ![current] = d]
  <1>1. ~ searching /\ AtTrap(CPU, call) /\ Interrupt(Resume(regs[CPU]), table)
    BY <1>0 DEF Trap
  <1>2. /\ regs[CPU] = threadRegs[current] /\ current \in Apps
        /\ regs[CPU] \in Registers /\ Controlled(current, regs[CPU])
    BY <1>1, CurrentThread
  <1>3. table \in Tables /\ ~ Runnable(table, CPU)
    BY <1>1, TableUpdate
  <1>4. Resume(regs[CPU]) \in Registers /\ Controlled(current, Resume(regs[CPU]))
    BY <1>1, <1>2, ResumeControlled DEF AtTrap
  <1>5. threadRegs' = [threadRegs EXCEPT ![current] = Resume(regs[CPU])]
    BY <1>1, <1>3, <1>4, InterruptSwitches
  <1> QED
    BY <1>0, <1>1, <1>2, <1>3, <1>5 DEF AtTrap

LEMMA Ticks ==
  ASSUME KernelInv, Clock
  PROVE  /\ ~ searching /\ clock_on /\ UNCHANGED memory
         /\ threadRegs' = threadRegs
         /\ Interrupt(regs[CPU], proc_array)
         /\ proc_array \in Tables /\ ~ Runnable(proc_array, CPU)
  BY ClockStutters DEF Clock, T!vars, KernelInv, TypeOK

(* What resumes after a system call.                                       *)
LEMMA Resumes ==
  ASSUME NEW p, NEW r \in Registers, r.app = p, r.eip \in Traps
  PROVE  /\ Resume(r).app = p
         /\ Resume(r).old = r.old
         /\ Resume(r).todo = r.todo
         /\ Resume(r).i = IF r.eip = "sys_yield" THEN r.i + 1 ELSE r.i
         /\ r.eip = "sys_set_priority" => Resume(r).eip = "sys_set_share"
         /\ r.eip = "sys_set_share" => Resume(r).eip = "sys_set_lottery_tickets"
         /\ r.eip = "sys_set_lottery_tickets" => Resume(r).eip = LoopTop(p, r.i)
         /\ r.eip = "sys_atomic_print" => Resume(r).eip = "sys_yield"
         /\ r.eip = "sys_yield" => Resume(r).eip = LoopTop(p, r.i + 1)
         /\ r.eip = "sys_exit" => Resume(r).eip = "halted"
  <1>1. CASE r.eip = "sys_yield"
    BY <1>1 DEF Resume, Registers
  <1>2. CASE r.eip = "sys_set_lottery_tickets"
    BY <1>2 DEF Resume, Registers
  <1>3. CASE r.eip \in {"sys_set_priority", "sys_set_share", "sys_atomic_print",
                        "sys_exit"}
    BY <1>3 DEF Resume, Registers
  <1> QED
    BY <1>1, <1>2, <1>3 DEF Traps

(* What schedule() leaves.                                                 *)
LEMMA Schedules ==
  ASSUME KernelInv, ~ searching, NEW frame,
         NEW table \in Tables, ~ Runnable(table, CPU), Interrupt(frame, table)
  PROVE  /\ UNCHANGED <<scheduling_algorithm, clock_on>>
         /\ \A q \in Apps : SameButCount(proc_array'[q], table[q])
         /\ scheduling_algorithm # 3 =>
              /\ proc_array' = table
              /\ (\E q \in Apps : Runnable(table, q)) =>
                   /\ ~ searching'
                   /\ Picks(scheduling_algorithm, table, current, current')
              /\ (\A q \in Apps : ~ Runnable(table, q)) =>
                   searching' /\ UNCHANGED current
  <1>0. /\ \A p \in Apps : p \in Pids
        /\ \A p \in Pids : p \in Apps \/ p = CPU
        /\ current \in Pids
        /\ scheduling_algorithm \in Algorithms
        /\ UNCHANGED <<scheduling_algorithm, clock_on>>
    BY NPROCSAssumption, ThreadsType
       DEF Apps, Pids, CPU, settings, Interrupt, Schedule
  <1>1. CASE \E pid \in Pids :
               /\ Picks(scheduling_algorithm, table, current, pid)
               /\ proc_array' = Charged(scheduling_algorithm, table, current, pid)
               /\ current' = pid
               /\ UNCHANGED searching
    <2>1. /\ \A q \in Apps : SameButCount(proc_array'[q], table[q])
          /\ scheduling_algorithm # 3 => proc_array' = table
      <3>1. \A q \in Apps : SameButCount(proc_array'[q], table[q])
        BY <1>0, <1>1, ChargedType
      <3> QED
        BY <1>1, <3>1 DEF Charged
    <2>2. current' \in Pids /\ Runnable(table, current')
      BY <1>1, PicksRunnable
    <2> QED
      BY <1>0, <1>1, <2>1, <2>2
  <1>2. CASE /\ \A pid \in Pids :
                  ~ Picks(scheduling_algorithm, table, current, pid)
             /\ proc_array' = Exhausted(scheduling_algorithm, table)
             /\ searching'
             /\ UNCHANGED current
    <2>1. /\ \A q \in Apps : SameButCount(proc_array'[q], table[q])
          /\ scheduling_algorithm # 3 => proc_array' = table
      <3>1. \A q \in Apps : SameButCount(proc_array'[q], table[q])
        BY <1>0, <1>2, ExhaustedType
      <3> QED
        BY <1>2, <3>1 DEF Exhausted
    <2>2. scheduling_algorithm # 3 => \A q \in Pids : ~ Runnable(table, q)
      BY <1>0, <1>2, PicksIfRunnable
    <2> QED
      BY <1>0, <1>2, <2>1, <2>2
  <1> QED
    BY <1>1, <1>2 DEF Interrupt, Schedule, Run

(* The descriptors keep step with the threads: one is runnable until its   *)
(* thread has exited and has the priority its thread has asked for.        *)
TableInv ==
  \A p \in Apps :
    /\ Runnable(proc_array, p) <=> threadRegs[p].eip # "halted"
    /\ proc_array[p].p_priority =
         IF threadRegs[p].eip = "sys_set_priority" THEN 0 ELSE PRIORITY[p]

LEMMA InitTableInv == Init => TableInv
  <1> SUFFICES ASSUME Init, NEW p \in Apps
               PROVE  /\ Runnable(proc_array, p) <=> threadRegs[p].eip # "halted"
                      /\ proc_array[p].p_priority =
                           IF threadRegs[p].eip = "sys_set_priority" THEN 0
                           ELSE PRIORITY[p]
    BY DEF TableInv
  <1>1. proc_array[p] = [EmptyDescriptor EXCEPT !.p_state = "P_RUNNABLE"]
    BY NPROCSAssumption DEF Init, Apps, Pids
  <1>2. threadRegs[p].eip = "sys_set_priority"
    BY CPUNotApp DEF Init, threadRegs, Contexts, StartOf
  <1> QED
    BY <1>1, <1>2 DEF EmptyDescriptor, Runnable

LEMMA NextTableInv == KernelInv /\ TableInv /\ [Next]_vars => TableInv'
  <1> SUFFICES ASSUME KernelInv, TableInv, [Next]_vars PROVE TableInv'
    OBVIOUS
  <1>1. CASE Execute
    <2>1. /\ threadRegs[current].eip \in {"swap_in", "load", "store", "sys_yield"}
          /\ threadRegs'[current].eip \in {"swap_in", "load", "store", "sys_yield"}
      BY <1>1, Executes, ThreadsType
         DEF Instruction, SwapIn, LoadCursor, StoreCursor, StoreCell, SwapOut,
             Registers
    <2>2. /\ \A q \in Apps \ {current} : threadRegs'[q] = threadRegs[q]
          /\ UNCHANGED proc_array
      BY <1>1, Executes DEF kernelVars
    <2> QED
      BY <2>1, <2>2 DEF TableInv, Runnable
  <1>2. CASE SystemCall
    <2>1. PICK call \in Traps, d \in Descriptor :
           /\ ~ searching /\ Changed(call, d)
           /\ threadRegs[current].eip = call
           /\ threadRegs' = [threadRegs EXCEPT ![current] = Resume(@)]
           /\ Interrupt(Resume(regs[CPU]), [proc_array EXCEPT ![current] = d])
           /\ [proc_array EXCEPT ![current] = d] \in Tables
           /\ ~ Runnable([proc_array EXCEPT ![current] = d], CPU)
      BY <1>2, SystemCalls
    <2>2. \A q \in Apps : SameButCount(proc_array'[q],
                            [proc_array EXCEPT ![current] = d][q])
      BY <2>1, Schedules
    <2>3. ASSUME NEW q \in Apps, q # current
          PROVE  threadRegs'[q] = threadRegs[q] /\ SameButCount(proc_array'[q], proc_array[q])
      BY <2>1, <2>2, <2>3, ThreadsType DEF Tables
    <2>4. SameButCount(proc_array'[current], d)
      BY <2>2, ThreadsType, NPROCSAssumption DEF Tables, Apps, Pids
    <2>5. /\ threadRegs'[current].eip # "sys_set_priority"
          /\ threadRegs'[current].eip = "halted" <=> call = "sys_exit"
      <3>1. threadRegs'[current] = Resume(threadRegs[current])
        BY <2>1, ThreadsType
      <3>2. ASSUME NEW n \in Nat
            PROVE  LoopTop(current, n) \notin {"sys_set_priority", "halted"}
        BY DEF LoopTop
      <3> QED
        BY <2>1, <3>1, <3>2, Resumes, ThreadsType, UserCodeAssumption
           DEF Traps, Controlled
    <2> QED
      BY <2>1, <2>3, <2>4, <2>5, ThreadsType
         DEF TableInv, Changed, SameButCount, Runnable, Traps
  <1>3. CASE Clock
    BY <1>3, Ticks, Schedules, ZenonT(30) DEF TableInv, SameButCount, Runnable
  <1>4. CASE Search \/ UNCHANGED vars
    BY <1>4 DEF Search, vars, kernelVars, TableInv, threadRegs
  <1> QED
    BY <1>1, <1>2, <1>3, <1>4 DEF Next

-----------------------------------------------------------------------------
(* The endless search.                                                     *)

(* No application asks for a negative share where shares matter.           *)
SharesNonNegative ==
  (\E setting \in Settings : setting[1] = 3) => \A p \in Apps : SHARE[p] >= 0

(* SearchesOnlyWhenDone and what it rests on: schedule() finds a runnable  *)
(* process under every algorithm, because no descriptor has a negative     *)
(* share under algorithm 3.                                                *)
SharesOK(table) ==
  scheduling_algorithm = 3 => \A p \in Apps : table[p].p_share >= 0

DoneInv == SharesOK(proc_array) /\ SearchesOnlyWhenDone

LEMMA InterruptDone ==
  ASSUME KernelInv, ~ searching, NEW frame,
         NEW table \in Tables, SharesOK(table), ~ Runnable(table, CPU),
         Interrupt(frame, table)
  PROVE  DoneInv'
  <1>0. /\ \A p \in Apps : p \in Pids
        /\ \A p \in Pids : p \in Apps \/ p = CPU
        /\ current \in Pids
        /\ scheduling_algorithm \in Algorithms
        /\ scheduling_algorithm' = scheduling_algorithm
    BY NPROCSAssumption, KernelAssumption
       DEF KernelInv, TypeOK, Apps, Pids, CPU, settings, Interrupt, Schedule
  <1>1. CASE \E pid \in Pids :
               /\ proc_array' = Charged(scheduling_algorithm, table, current, pid)
               /\ UNCHANGED searching
    <2>1. \A p \in Pids : proc_array'[p].p_share = table[p].p_share
      BY <1>1, ChargedType DEF SameButCount
    <2> QED
      BY <1>0, <1>1, <2>1 DEF DoneInv, SharesOK, SearchesOnlyWhenDone
  <1>2. CASE /\ \A pid \in Pids :
                  ~ Picks(scheduling_algorithm, table, current, pid)
             /\ proc_array' = Exhausted(scheduling_algorithm, table)
    <2>1. \A p \in Pids : /\ proc_array'[p].p_share = table[p].p_share
                          /\ Runnable(proc_array', p) <=> Runnable(table, p)
      BY <1>2, ExhaustedType DEF SameButCount
    <2>2. \A p \in Pids : ~ Runnable(table, p)
      BY <1>0, <1>2, PicksIfRunnable DEF SharesOK
    <2> QED
      BY <1>0, <2>1, <2>2 DEF DoneInv, SharesOK, SearchesOnlyWhenDone
  <1> QED
    BY <1>1, <1>2 DEF Interrupt, Schedule, Run

LEMMA NextDoneInv ==
  ASSUME SharesNonNegative, KernelInv, DoneInv, [Next]_vars
  PROVE  DoneInv'
  <1>0. /\ KernelInv /\ proc_array \in Tables /\ ~ Runnable(proc_array, CPU)
        /\ SharesOK(proc_array)
    BY DEF KernelInv, TypeOK, DoneInv
  <1>1. CASE SystemCall
    <2>1. PICK call \in Traps, d \in Descriptor :
            Changed(call, d) /\ Trap(call, [proc_array EXCEPT ![current] = d])
      BY <1>1, SystemCallChanges
    <2> DEFINE table == [proc_array EXCEPT ![current] = d]
    <2>2. ~ searching /\ Interrupt(Resume(regs[CPU]), table)
      BY <2>1 DEF Trap
    <2>3. table \in Tables /\ ~ Runnable(table, CPU) /\ current \in Apps
      BY <2>2, TableUpdate, CurrentThread
    <2>4. SharesOK(table)
      <3> SUFFICES ASSUME scheduling_algorithm = 3, NEW p \in Apps
                   PROVE  table[p].p_share >= 0
        BY DEF SharesOK
      <3>1. SHARE[p] >= 0
        <4>1. <<3, clock_on>> \in Settings
          BY DEF KernelInv, TypeOK, settings
        <4>2. <<3, clock_on>>[1] = 3
          OBVIOUS
        <4> QED
          BY <4>1, <4>2, SharesNonNegative DEF SharesNonNegative
      <3>2. p \in Pids /\ proc_array[p].p_share >= 0
        BY <1>0, NPROCSAssumption DEF SharesOK, Apps, Pids
      <3> QED
        BY <1>0, <2>1, <3>1, <3>2 DEF Changed, Tables
    <2> QED
      BY <2>2, <2>3, <2>4, InterruptDone
  <1>2. CASE Clock
    BY <1>0, <1>2, InterruptDone DEF Clock
  <1>3. CASE Execute \/ Search \/ UNCHANGED vars
    BY <1>0, <1>3
       DEF Execute, Search, vars, kernelVars, settings, DoneInv, SharesOK,
           SearchesOnlyWhenDone, Runnable
  <1> QED
    BY <1>1, <1>2, <1>3 DEF Next

(* schedule() goes round for ever only if no application is runnable,      *)
(* under every algorithm and however the system calls and its own rounds   *)
(* have set the counters (schedos-kern.c, schedule).                       *)
THEOREM SearchIsOver ==
  ASSUME SharesNonNegative
  PROVE  Spec => []SearchesOnlyWhenDone
  <1>1. Init => DoneInv
    <2> SUFFICES ASSUME Init PROVE DoneInv
      OBVIOUS
    <2>1. \A p \in Apps : proc_array[p].p_share = 0
      BY NPROCSAssumption DEF Init, EmptyDescriptor, Apps, Pids
    <2> QED
      BY <2>1 DEF Init, DoneInv, SharesOK, SearchesOnlyWhenDone
  <1>2. KernelInv /\ DoneInv /\ [Next]_vars => DoneInv'
    BY SharesNonNegative, NextDoneInv
  <1>3. DoneInv => SearchesOnlyWhenDone
    BY DEF DoneInv
  <1> QED
    BY InitKernelInv, NextKernelInv, <1>1, <1>2, <1>3, PTL DEF Spec

-----------------------------------------------------------------------------
(* What the applications' printing comes to on one processor: nothing of   *)
(* it is lost, and the scheduling algorithms order it as they promise.     *)
(* Kernel implements Threads and Threads the print log, so the first is    *)
(* the composition of two refinements; the theorems about the threads are  *)
(* used here with the registers wherever the kernel keeps them.            *)

PP == INSTANCE ThreadsProofs WITH regs <- threadRegs

OneMethod == LockApps \in {{}, Apps}

LEMMA InstanceAssumptions ==
  /\ PP!NPROCSAssumption
  /\ PP!UserCodeAssumption
  /\ OneMethod => PP!OneMethod
  BY NPROCSAssumption, UserCodeAssumption
     DEF PP!NPROCSAssumption, PP!UserCodeAssumption, OneMethod, PP!OneMethod,
         PP!Apps, Apps

-----------------------------------------------------------------------------
(* T and PP are the same instance of Threads under two names.              *)

LEMMA SameInit == T!Init <=> PP!Init
  BY DEF T!Init, PP!Init, T!StartOf, PP!StartOf, T!Apps, PP!Apps

LEMMA SameNext == [T!Next]_(T!vars) => [PP!Next]_(PP!vars)
  <1>1. T!Next <=> PP!Next
    BY DEF T!Next, T!Step, T!Halted, T!Done, T!Apps, T!vars, T!Instruction,
           T!SwapIn, T!LoadCursor, T!StoreCursor, T!StoreCell, T!SwapOut,
           T!SysCall, T!SysAtomicPrint, T!AtTrap, T!KernelPrint, T!Write,
           T!CharCast, T!Resume, T!LoopTop, T!AtomicSwap, T!memory, T!Stores,
           T!Traps,
           PP!Next, PP!Step, PP!Halted, PP!Done, PP!Apps, PP!vars,
           PP!Instruction, PP!SwapIn, PP!LoadCursor, PP!StoreCursor,
           PP!StoreCell, PP!SwapOut, PP!SysCall, PP!SysAtomicPrint, PP!AtTrap,
           PP!KernelPrint, PP!Write, PP!CharCast, PP!Resume, PP!LoopTop,
           PP!AtomicSwap, PP!memory, PP!Stores, PP!Traps
  <1> QED
    BY <1>1 DEF T!vars, PP!vars

LEMMA SameSpec == T!Spec => PP!Spec
  BY SameInit, SameNext, PTL DEF T!Spec, PP!Spec

LEMMA SameMapping ==
  /\ T!log = PP!log /\ T!log' = PP!log'
  /\ T!printed = PP!printed /\ T!printed' = PP!printed'
  /\ T!exited = PP!exited /\ T!exited' = PP!exited'
  <1>1. T!log = PP!log /\ T!log' = PP!log'
    BY DEF T!log, PP!log, T!CellOf, PP!CellOf, T!Cell, PP!Cell,
           T!OwesCell, PP!OwesCell, T!Apps, PP!Apps
  <1>2. T!printed = PP!printed /\ T!printed' = PP!printed'
    BY DEF T!printed, PP!printed, T!Counted, PP!Counted, T!OwesCursor,
           PP!OwesCursor, T!Apps, PP!Apps
  <1>3. T!exited = PP!exited /\ T!exited' = PP!exited'
    BY DEF T!exited, PP!exited, T!Apps, PP!Apps
  <1> QED
    BY <1>1, <1>2, <1>3

(* What the system promises its user holds on one processor: with all      *)
(* applications printing alike, every print is appended to those before,   *)
(* none is lost or garbled, under every scheduling algorithm and wherever  *)
(* the clock ticks (schedos-1.c, run; schedos-kern.c, interrupt).          *)
THEOREM KernelImplementsPrintLog ==
  ASSUME OneMethod
  PROVE  Spec => ImplementsPrintLog
  <1>1. PP!Spec => PP!ImplementsPrintLog
    BY OneMethod, InstanceAssumptions, PP!ThreadsImplementPrintLog
  <1>2. PP!PL!Init => T!PL!Init
    BY SameMapping DEF PP!PL!Init, T!PL!Init, T!Apps, PP!Apps
  <1>3. [PP!PL!Next]_(PP!PL!vars) => [T!PL!Next]_(T!PL!vars)
    BY SameMapping
       DEF PP!PL!Next, T!PL!Next, PP!PL!PrintChar, T!PL!PrintChar, PP!PL!Exit,
           T!PL!Exit, T!Apps, PP!Apps, T!Shown, PP!Shown, T!CharCast,
           PP!CharCast, PP!PL!vars, T!PL!vars
  <1>4. PP!ImplementsPrintLog => T!ImplementsPrintLog
    BY <1>2, <1>3, PTL
       DEF PP!ImplementsPrintLog, T!ImplementsPrintLog, PP!PL!Spec, T!PL!Spec
  <1> QED
    BY <1>1, <1>4, SameSpec, KernelImplementsThreads, PTL
       DEF ImplementsThreads, ImplementsPrintLog

-----------------------------------------------------------------------------
(* Algorithm 2.                                                            *)

(* No two applications put the same cell on the console.                   *)
ShownApart == \A p, q \in Apps : Shown(p) = Shown(q) => p = q

(* The application has been scheduled with the priority it asked for.      *)
Past(p) == threadRegs[p].eip \notin {"sys_set_priority", "sys_set_share"}

(* PrintsByPriority and what it rests on: an application gets past its     *)
(* second system call only when the more urgent ones have exited, so that  *)
(* their cells lie below whatever it owes.                                 *)
UrgentOrder ==
  /\ \A q \in Apps : ~ Past(q) => \A c \in DOMAIN console : ~ ShowsPrintOf(c, q)
  /\ \A p, q \in Apps : PRIORITY[p] < PRIORITY[q] =>
       /\ Past(q) => threadRegs[p].eip = "halted"
       /\ \A c \in DOMAIN console : ShowsPrintOf(c, p) =>
            /\ threadRegs[q].todo # {} => c < threadRegs[q].old
            /\ \A d \in DOMAIN console : ShowsPrintOf(d, q) => c < d

ByPriority == scheduling_algorithm = 2 /\ \A p \in Apps : PRIORITY[p] > 0

UrgentInv ==
  ByPriority =>
    /\ ~ searching => MostUrgent(proc_array, current)
    /\ UrgentOrder

(* At the read of cursorpos, and when the kernel prints, every cell        *)
(* written lies below the cursor.                                          *)
LEMMA AllBelow ==
  ASSUME OneMethod, KernelInv, PP!IInv, PP!NothingAbove, ~ searching,
         threadRegs[current].eip \in {"load", "sys_atomic_print"},
         NEW c \in DOMAIN console
  PROVE  c < cursorpos
  <1>1. current \in Apps
    BY ThreadsType
  <1>2. SUFFICES ASSUME NEW q \in Apps, "cursor" \in threadRegs[q].todo
                 PROVE  FALSE
    BY DEF PP!NothingAbove, PP!OwesCursor, PP!Apps, Apps
  <1>3. threadRegs[q].eip = "store" /\ q \in LockApps
    BY <1>2, ThreadsType DEF Controlled
  <1>4. threadRegs[current].eip = "load"
    BY <1>1, <1>3, ThreadsType DEF Controlled, OneMethod
  <1>5. q = current
    BY <1>1, <1>3, <1>4
       DEF PP!IInv, PP!MutualExclusion, PP!InLock, PP!Apps, Apps
  <1> QED
    BY <1>3, <1>4, <1>5

(* A thread's step that prints no cell ...                       *)
LEMMA QuietUrgent ==
  ASSUME KernelInv, UrgentOrder, UNCHANGED console, NEW m \in Apps,
         \A q \in Apps \ {m} : threadRegs'[q] = threadRegs[q],
         threadRegs[m].eip # "halted",
         threadRegs[m].eip # "sys_set_share" \/
           (\A p \in Apps : PRIORITY[p] < PRIORITY[m]
                              => threadRegs[p].eip = "halted"),
         Past(m) => Past(m)',
         Past(m)' => Past(m) \/ threadRegs[m].eip = "sys_set_share",
         threadRegs'[m].todo # {} =>
           \/ threadRegs[m].todo # {}
              /\ threadRegs'[m].old = threadRegs[m].old
           \/ \A c \in DOMAIN console : c < threadRegs'[m].old
  PROVE  UrgentOrder'
  <1> USE DEF ShowsPrintOf, Past
  <1>1. ASSUME NEW q \in Apps, ~ Past(q)', NEW c \in DOMAIN console
        PROVE  console[c] # Shown(q)
    <2>1. ~ Past(q)
      BY <1>1
    <2> QED
      BY <2>1 DEF UrgentOrder
  <1>2. ASSUME NEW p \in Apps, NEW q \in Apps, PRIORITY[p] < PRIORITY[q]
        PROVE  /\ Past(q)' => threadRegs'[p].eip = "halted"
               /\ \A c \in DOMAIN console : console[c] = Shown(p) =>
                    /\ threadRegs'[q].todo # {} => c < threadRegs'[q].old
                    /\ \A d \in DOMAIN console : console[d] = Shown(q) => c < d
    <2>1. Past(q)' => threadRegs'[p].eip = "halted"
      <3> SUFFICES ASSUME Past(q)' PROVE threadRegs'[p].eip = "halted"
        OBVIOUS
      <3>0. Past(q) \/ (q = m /\ threadRegs[q].eip = "sys_set_share")
        OBVIOUS
      <3>1. threadRegs[p].eip = "halted"
        BY <1>2, <3>0 DEF UrgentOrder
      <3> QED
        BY <3>1
    <2>2. ASSUME NEW c \in DOMAIN console, console[c] = Shown(p)
          PROVE  /\ threadRegs'[q].todo # {} => c < threadRegs'[q].old
                 /\ \A d \in DOMAIN console : console[d] = Shown(q) => c < d
      BY <1>2, <2>2 DEF UrgentOrder
    <2> QED
      BY <2>1, <2>2
  <1> QED
    BY <1>1, <1>2 DEF UrgentOrder

(* ... and the one that does.                                              *)
LEMMA PrintUrgent ==
  ASSUME ShownApart, KernelInv, UrgentOrder, NEW m \in Apps,
         \A q \in Apps \ {m} : threadRegs'[q] = threadRegs[q],
         threadRegs[m].eip # "halted", Past(m), Past(m)',
         NEW cell, Write(cell, Shown(m)),
         \A p \in Apps : PRIORITY[p] < PRIORITY[m] =>
           \A c \in DOMAIN console : ShowsPrintOf(c, p) => c < cell,
         threadRegs'[m].todo # {} =>
           threadRegs[m].todo # {}
           /\ threadRegs'[m].old = threadRegs[m].old
  PROVE  UrgentOrder'
  <1> USE DEF ShowsPrintOf, Past
  <1>0. ASSUME NEW q \in Apps, q # m, NEW c \in DOMAIN console',
               console'[c] = Shown(q)
        PROVE  c \in DOMAIN console /\ console[c] = Shown(q)
    BY <1>0, WriteCell DEF ShownApart
  <1>1. ASSUME NEW c \in DOMAIN console', console'[c] = Shown(m)
        PROVE  c = cell \/ (c \in DOMAIN console /\ console[c] = Shown(m))
    BY <1>1, WriteCell
  <1>2. ASSUME NEW q \in Apps, ~ Past(q)', NEW c \in DOMAIN console'
        PROVE  console'[c] # Shown(q)
    <2>1. q # m /\ ~ Past(q)
      BY <1>2
    <2> QED
      BY <1>0, <1>2, <2>1 DEF UrgentOrder
  <1>3. ASSUME NEW p \in Apps, NEW q \in Apps, PRIORITY[p] < PRIORITY[q]
        PROVE  /\ Past(q)' => threadRegs'[p].eip = "halted"
               /\ \A c \in DOMAIN console' : console'[c] = Shown(p) =>
                    /\ threadRegs'[q].todo # {} => c < threadRegs'[q].old
                    /\ \A d \in DOMAIN console' : console'[d] = Shown(q) => c < d
    <2>0. p # q
      BY <1>3, KernelAssumption
    <2>1. Past(q)' => threadRegs'[p].eip = "halted"
      BY <1>3 DEF UrgentOrder
    <2>2. CASE p = m
      <3>1. ~ Past(q) /\ threadRegs'[q] = threadRegs[q]
        BY <1>3, <2>0, <2>2 DEF UrgentOrder
      <3>2. threadRegs'[q].todo = {}
        BY <3>1, ThreadsType DEF Controlled
      <3> QED
        BY <1>2, <2>1, <3>1, <3>2
    <2>3. CASE p # m
      <3>1. ASSUME NEW c \in DOMAIN console', console'[c] = Shown(p)
            PROVE  /\ threadRegs'[q].todo # {} => c < threadRegs'[q].old
                   /\ \A d \in DOMAIN console' : console'[d] = Shown(q) => c < d
        <4>1. c \in DOMAIN console /\ console[c] = Shown(p)
          BY <1>0, <2>3, <3>1
        <4>2. CASE q = m
          BY <1>1, <1>3, <4>1, <4>2 DEF UrgentOrder
        <4>3. CASE q # m
          BY <1>0, <1>3, <4>1, <4>3 DEF UrgentOrder
        <4> QED
          BY <4>2, <4>3
      <3> QED
        BY <2>1, <3>1
    <2> QED
      BY <2>2, <2>3
  <1> QED
    BY <1>2, <1>3 DEF UrgentOrder

LEMMA ExecuteUrgent ==
  ASSUME OneMethod, ShownApart, KernelInv, PP!IInv, PP!NothingAbove,
         ByPriority, UrgentInv, Execute
  PROVE  UrgentInv'
  <1>m. PICK m \in Apps : m = current
    BY ThreadsType
  <1>0. /\ ~ searching /\ UNCHANGED kernelVars
        /\ regs[CPU] = threadRegs[m] /\ regs'[CPU] = threadRegs'[m]
        /\ \A q \in Apps \ {m} : threadRegs'[q] = threadRegs[q]
        /\ regs \in [Contexts -> Registers] /\ CPU \in Contexts
        /\ Instruction(CPU)
        /\ threadRegs[m] \in Registers /\ Controlled(m, threadRegs[m])
    BY <1>m, Executes, ThreadsType
  <1>1. UrgentOrder /\ MostUrgent(proc_array, current)'
    BY <1>0 DEF UrgentInv, MostUrgent, Runnable, kernelVars
  <1>2. /\ threadRegs[m].eip \in {"swap_in", "load", "store", "sys_yield"}
        /\ threadRegs'[m].eip \in {"swap_in", "load", "store", "sys_yield"}
    BY <1>0 DEF Instruction, SwapIn, LoadCursor, StoreCursor, StoreCell, SwapOut,
                Registers
  <1>3. Past(m) /\ Past(m)'
    BY <1>2 DEF Past
  <1>4. UrgentOrder'
    <2>1. CASE SwapIn(CPU) \/ StoreCursor(CPU) \/ SwapOut(CPU)
      <3>1. /\ threadRegs'[m].todo \subseteq threadRegs[m].todo
            /\ threadRegs'[m].old = threadRegs[m].old
            /\ UNCHANGED console
        BY <1>0, <2>1 DEF SwapIn, StoreCursor, SwapOut, Registers
      <3> QED
        BY <1>0, <1>1, <1>2, <1>3, <3>1, QuietUrgent
    <2>2. CASE LoadCursor(CPU)
      <3>1. /\ threadRegs[m].eip = "load"
            /\ threadRegs'[m].old = cursorpos
            /\ UNCHANGED console
        BY <1>0, <2>2 DEF LoadCursor, Registers, memory
      <3>2. \A c \in DOMAIN console : c < threadRegs'[m].old
        BY <1>0, <1>m, <3>1, AllBelow
      <3> QED
        BY <1>0, <1>1, <1>2, <1>3, <3>1, <3>2, QuietUrgent
    <2>3. CASE StoreCell(CPU)
      <3>1. /\ threadRegs[m].todo # {}
            /\ threadRegs'[m].old = threadRegs[m].old
            /\ Write(threadRegs[m].old, PRINTCHAR[m])
        BY <1>0, <2>3 DEF StoreCell, Registers, Controlled
      <3>2. PRINTCHAR[m] = Shown(m)
        BY <1>0, <3>1 DEF Controlled, Shown
      <3>3. \A p \in Apps : PRIORITY[p] < PRIORITY[m] =>
              \A c \in DOMAIN console : ShowsPrintOf(c, p) => c < threadRegs[m].old
        BY <1>0, <1>1, <3>1 DEF UrgentOrder
      <3> QED
        BY <1>0, <1>1, <1>2, <1>3, <3>1, <3>2, <3>3, PrintUrgent
    <2> QED
      BY <1>0, <2>1, <2>2, <2>3 DEF Instruction
  <1> QED
    BY <1>1, <1>4 DEF UrgentInv

(* After an interrupt the most urgent process runs.                        *)
LEMMA InterruptUrgent ==
  ASSUME KernelInv, ByPriority, ~ searching, NEW frame,
         NEW table \in Tables, ~ Runnable(table, CPU), Interrupt(frame, table)
  PROVE  ~ searching' => MostUrgent(proc_array, current)'
  <1>1. scheduling_algorithm = 2
    BY DEF ByPriority
  <1>2. /\ proc_array' = table
        /\ ~ searching' => HighestPriority(table, current, current')
    BY <1>1, Schedules DEF Picks
  <1> QED
    BY <1>2 DEF HighestPriority, MostUrgent, Runnable

LEMMA SystemCallUrgent ==
  ASSUME OneMethod, ShownApart, KernelInv, TableInv, PP!IInv, PP!NothingAbove,
         ByPriority, UrgentInv, SystemCall
  PROVE  UrgentInv'
  <1>1. PICK call \in Traps, d \in Descriptor :
           /\ ~ searching
           /\ threadRegs[current].eip = call /\ threadRegs[current].todo = {}
           /\ threadRegs' = [threadRegs EXCEPT ![current] = Resume(@)]
           /\ Interrupt(Resume(regs[CPU]), [proc_array EXCEPT ![current] = d])
           /\ [proc_array EXCEPT ![current] = d] \in Tables
           /\ ~ Runnable([proc_array EXCEPT ![current] = d], CPU)
           /\ call # "sys_atomic_print" => UNCHANGED memory
           /\ call = "sys_atomic_print" => KernelPrint(current) /\ UNCHANGED lock
    BY SystemCalls
  <1>2. ~ searching' => MostUrgent(proc_array, current)'
    BY <1>1, InterruptUrgent
  <1>m. PICK m \in Apps : m = current
    BY ThreadsType
  <1>3. /\ UrgentOrder
        /\ MostUrgent(proc_array, m)
        /\ \A q \in Apps \ {m} : threadRegs'[q] = threadRegs[q]
        /\ threadRegs'[m] = Resume(threadRegs[m])
        /\ threadRegs[m] \in Registers /\ Controlled(m, threadRegs[m])
    BY <1>1, <1>m, ThreadsType DEF UrgentInv
  <1>4. /\ threadRegs'[m].todo = {}
        /\ call \notin {"sys_set_priority", "sys_set_share"} => Past(m) /\ Past(m)'
        /\ call = "sys_set_priority" => ~ Past(m) /\ ~ Past(m)'
        /\ call = "sys_set_share" => ~ Past(m) /\ Past(m)'
        /\ threadRegs[m].eip # "halted"
    <2>1. \A n \in Nat : LoopTop(m, n) \notin {"sys_set_priority", "sys_set_share"}
      BY DEF LoopTop
    <2>2. threadRegs[m].i \in Nat /\ threadRegs[m].i + 1 \in Nat
      BY <1>3, ThreadsType, UserCodeAssumption
    <2> QED
      BY <1>1, <1>m, <1>3, <2>1, <2>2, Resumes DEF Traps, Past, Controlled
  <1>5. threadRegs[m].eip = "sys_set_share" =>
          \A p \in Apps : PRIORITY[p] < PRIORITY[m] => threadRegs[p].eip = "halted"
    <2> SUFFICES ASSUME threadRegs[m].eip = "sys_set_share",
                        NEW p \in Apps, PRIORITY[p] < PRIORITY[m],
                        Runnable(proc_array, p)
                 PROVE  FALSE
      BY DEF TableInv
    <2>1. proc_array[m].p_priority <= proc_array[p].p_priority
      BY <1>3, NPROCSAssumption DEF MostUrgent, Apps, Pids
    <2>2. /\ proc_array[m].p_priority = PRIORITY[m]
          /\ proc_array[p].p_priority \in {0, PRIORITY[p]}
      BY <1>3 DEF TableInv
    <2>3. PRIORITY[m] \in Int /\ PRIORITY[p] \in Int /\ PRIORITY[m] > 0
      BY <1>3, KernelAssumption DEF ByPriority
    <2> QED
      BY <2>1, <2>2, <2>3
  <1>6. UrgentOrder'
    <2>1. CASE call # "sys_atomic_print"
      <3>1. UNCHANGED console
        BY <1>1, <2>1 DEF memory
      <3> QED
        BY <1>1, <1>m, <1>3, <1>4, <1>5, <3>1, QuietUrgent
    <2>2. CASE call = "sys_atomic_print"
      <3>1. /\ Write(cursorpos, Shown(m))
            /\ \A c \in DOMAIN console : c < cursorpos
        BY <1>1, <1>m, <1>3, <2>2, AllBelow DEF KernelPrint, Shown, Controlled
      <3> QED
        BY <1>3, <1>4, <2>2, <3>1, PrintUrgent
    <2> QED
      BY <2>1, <2>2
  <1> QED
    BY <1>2, <1>6 DEF UrgentInv

LEMMA InitUrgentInv == Init => UrgentInv
  <1> SUFFICES ASSUME Init, ByPriority
               PROVE  MostUrgent(proc_array, current) /\ UrgentOrder
    BY DEF UrgentInv
  <1>1. \A p \in Apps : threadRegs[p] = StartOf(p)
    BY CPUNotApp DEF Init, threadRegs, Contexts
  <1>2. UrgentOrder
    <2>1. DOMAIN console = {}
      BY DEF Init
    <2>2. \A p \in Apps : ~ Past(p)
      <3>1. \A p \in Apps : StartOf(p).eip = "sys_set_priority"
        BY DEF StartOf
      <3> QED
        BY <1>1, <3>1 DEF Past
    <2> QED
      BY <2>1, <2>2 DEF UrgentOrder
  <1>3. \A p \in Pids : /\ proc_array[p].p_priority = 0
                        /\ p \in Apps => Runnable(proc_array, p)
    BY DEF Init, EmptyDescriptor, Runnable
  <1>4. current \in Apps /\ current \in Pids
    BY NPROCSAssumption DEF Init, Apps, Pids
  <1> QED
    BY <1>2, <1>3, <1>4 DEF MostUrgent

LEMMA NextUrgentInv ==
  ASSUME OneMethod, ShownApart, KernelInv, TableInv, PP!IInv, PP!NothingAbove,
         UrgentInv, [Next]_vars
  PROVE  UrgentInv'
  <1> SUFFICES ASSUME ByPriority' PROVE UrgentInv'
    BY DEF UrgentInv
  <1>1. CASE Execute
    BY <1>1, Executes, ExecuteUrgent DEF ByPriority, kernelVars, settings
  <1>2. CASE SystemCall
    <2>1. UNCHANGED scheduling_algorithm
      BY <1>2, SystemCalls, Schedules
    <2> QED
      BY <1>2, <2>1, SystemCallUrgent DEF ByPriority
  <1>3. CASE Clock
    <2>1. /\ ~ searching /\ UNCHANGED memory /\ threadRegs' = threadRegs
          /\ Interrupt(regs[CPU], proc_array)
          /\ proc_array \in Tables /\ ~ Runnable(proc_array, CPU)
      BY <1>3, Ticks
    <2>2. ByPriority
      BY <2>1, Schedules DEF ByPriority
    <2>3. ~ searching' => MostUrgent(proc_array, current)'
      BY <2>1, <2>2, InterruptUrgent
    <2>4. UrgentOrder'
      BY <2>1, <2>2 DEF UrgentInv, UrgentOrder, Past, ShowsPrintOf, memory
    <2> QED
      BY <2>3, <2>4 DEF UrgentInv
  <1>4. CASE Search \/ UNCHANGED vars
    <2>1. UNCHANGED <<console, kernelVars, threadRegs>>
      BY <1>4 DEF Search, vars, kernelVars, threadRegs
    <2> QED
      BY <2>1 DEF kernelVars, settings, ByPriority, UrgentInv, UrgentOrder, Past,
                  ShowsPrintOf, MostUrgent, Runnable
  <1> QED
    BY <1>1, <1>2, <1>3, <1>4 DEF Next

LEMMA KernelPrintInv ==
  ASSUME OneMethod
  PROVE  Spec => [](KernelInv /\ TableInv /\ PP!IInv /\ PP!NothingAbove)
  <1>1. PP!Spec => []PP!IInv
    BY OneMethod, InstanceAssumptions, PP!ThreadsIInv
  <1>2. PP!Spec => []PP!NothingAbove
    BY OneMethod, InstanceAssumptions, PP!ThreadsNothingAbove
  <1> QED
    BY <1>1, <1>2, SameSpec, KernelImplementsThreads, InitKernelInv,
       NextKernelInv, InitTableInv, NextTableInv, PTL DEF Spec, ImplementsThreads

(* Under algorithm 2 no application's print comes before a more urgent     *)
(* application's, clock or no clock, if their prints can be told apart     *)
(* (schedos-kern.c, schedule and interrupt).                               *)
THEOREM PrintsAreByPriority ==
  ASSUME OneMethod, ShownApart
  PROVE  Spec => []PrintsByPriority
  <1>1. /\ KernelInv /\ TableInv /\ PP!IInv /\ PP!NothingAbove
        /\ UrgentInv /\ [Next]_vars
        => UrgentInv'
    BY OneMethod, ShownApart, NextUrgentInv
  <1>2. UrgentInv => PrintsByPriority
    BY DEF UrgentInv, ByPriority, UrgentOrder, PrintsByPriority
  <1> QED
    BY <1>1, <1>2, OneMethod, InitUrgentInv, KernelPrintInv, PTL DEF Spec

-----------------------------------------------------------------------------
(* What a step of the current thread prints, in terms of its registers.    *)

Printed(r) ==
  r.i + IF r.eip = "sys_yield" \/ (r.eip = "store" /\ "cursor" \notin r.todo)
        THEN 1 ELSE 0

LEMMA ExecutePrints ==
  ASSUME KernelInv, Execute, NEW m \in Apps, m = current
  PROVE  /\ ~ searching /\ UNCHANGED kernelVars
         /\ \A q \in Apps \ {m} : threadRegs'[q] = threadRegs[q]
         /\ threadRegs[m].eip \in {"swap_in", "load", "store", "sys_yield"}
         /\ threadRegs'[m].eip \in {"swap_in", "load", "store", "sys_yield"}
         /\ m \in LockApps
         /\ threadRegs[m].i < RUNCOUNT /\ threadRegs'[m].i = threadRegs[m].i
         /\ \/ /\ UNCHANGED cursorpos
               /\ Printed(threadRegs'[m]) = Printed(threadRegs[m])
               /\ threadRegs'[m].todo # {} =>
                    \/ /\ threadRegs[m].todo # {}
                       /\ threadRegs'[m].old = threadRegs[m].old
                    \/ /\ Printed(threadRegs[m]) = threadRegs[m].i
                       /\ threadRegs'[m].old = cursorpos
            \/ /\ cursorpos' = threadRegs[m].old + 1
               /\ threadRegs'[m].old = threadRegs[m].old
               /\ threadRegs[m].todo # {}
               /\ Printed(threadRegs'[m]) = threadRegs[m].i + 1
         /\ \/ UNCHANGED console
            \/ threadRegs[m].todo # {} /\ Write(threadRegs[m].old, Shown(m))
  <1>0. /\ ~ searching /\ UNCHANGED kernelVars
        /\ regs[CPU] = threadRegs[m] /\ regs'[CPU] = threadRegs'[m]
        /\ \A q \in Apps \ {m} : threadRegs'[q] = threadRegs[q]
        /\ regs \in [Contexts -> Registers] /\ CPU \in Contexts
        /\ Instruction(CPU)
        /\ threadRegs[m] \in Registers /\ Controlled(m, threadRegs[m])
        /\ threadRegs[m].i \in Nat
    BY Executes, ThreadsType
  <1>1. /\ threadRegs[m].eip \in {"swap_in", "load", "store", "sys_yield"}
        /\ threadRegs'[m].eip \in {"swap_in", "load", "store", "sys_yield"}
        /\ threadRegs'[m].i = threadRegs[m].i
    BY <1>0 DEF Instruction, SwapIn, LoadCursor, StoreCursor, StoreCell, SwapOut,
                Registers
  <1>2. threadRegs[m].i < RUNCOUNT /\ m \in LockApps
    BY <1>0, <1>1
       DEF Instruction, SwapIn, LoadCursor, StoreCursor, StoreCell, SwapOut,
           Controlled, LoopLabels
  <1>3. CASE SwapIn(CPU) \/ SwapOut(CPU)
    <2>1. /\ threadRegs'[m].todo = threadRegs[m].todo
          /\ threadRegs'[m].old = threadRegs[m].old
          /\ UNCHANGED <<cursorpos, console>>
      BY <1>0, <1>3 DEF SwapIn, SwapOut, Registers
    <2>2. Printed(threadRegs'[m]) = Printed(threadRegs[m])
      BY <1>0, <1>1, <1>3, <2>1 DEF SwapIn, SwapOut, Registers, Printed
    <2> QED
      BY <1>0, <1>1, <1>2, <2>1, <2>2
  <1>4. CASE LoadCursor(CPU)
    <2>1. /\ threadRegs[m].eip = "load" /\ threadRegs'[m].eip = "store"
          /\ threadRegs'[m].todo = Stores
          /\ threadRegs'[m].old = cursorpos
          /\ UNCHANGED <<cursorpos, console>>
      BY <1>0, <1>4 DEF LoadCursor, Registers, memory
    <2>2. /\ Printed(threadRegs'[m]) = Printed(threadRegs[m])
          /\ Printed(threadRegs[m]) = threadRegs[m].i
      BY <1>0, <1>1, <2>1 DEF Printed, Stores
    <2> QED
      BY <1>0, <1>1, <1>2, <2>1, <2>2
  <1>5. CASE StoreCursor(CPU)
    <2>1. /\ threadRegs[m].eip = "store" /\ threadRegs'[m].eip = "store"
          /\ "cursor" \in threadRegs[m].todo
          /\ threadRegs'[m].todo = threadRegs[m].todo \ {"cursor"}
          /\ threadRegs'[m].old = threadRegs[m].old
          /\ cursorpos' = threadRegs[m].old + 1
          /\ UNCHANGED console
      BY <1>0, <1>5 DEF StoreCursor, Registers
    <2>2. Printed(threadRegs'[m]) = threadRegs[m].i + 1
      BY <1>1, <2>1 DEF Printed
    <2> QED
      BY <1>0, <1>1, <1>2, <2>1, <2>2
  <1>6. CASE StoreCell(CPU)
    <2>1. /\ threadRegs'[m].eip = threadRegs[m].eip
          /\ "cell" \in threadRegs[m].todo
          /\ threadRegs'[m].todo = threadRegs[m].todo \ {"cell"}
          /\ threadRegs'[m].old = threadRegs[m].old
          /\ UNCHANGED cursorpos
          /\ Write(threadRegs[m].old, PRINTCHAR[m])
      BY <1>0, <1>6 DEF StoreCell, Registers, Controlled
    <2>2. Printed(threadRegs'[m]) = Printed(threadRegs[m])
      BY <1>1, <2>1 DEF Printed
    <2>3. PRINTCHAR[m] = Shown(m)
      BY <1>0, <2>1 DEF Controlled, Shown
    <2> QED
      BY <1>0, <1>1, <1>2, <2>1, <2>2, <2>3
  <1> QED
    BY <1>0, <1>3, <1>4, <1>5, <1>6 DEF Instruction

LEMMA SystemCallPrints ==
  ASSUME KernelInv, SystemCall, NEW m \in Apps, m = current
  PROVE  \E call \in Traps :
           /\ ~ searching
           /\ threadRegs[m].eip = call /\ threadRegs[m].todo = {}
           /\ \A q \in Apps \ {m} : threadRegs'[q] = threadRegs[q]
           /\ threadRegs'[m] = Resume(threadRegs[m])
           /\ threadRegs'[m].todo = {}
           /\ threadRegs'[m].eip = "halted" <=> call = "sys_exit"
           /\ call = "sys_exit" => threadRegs[m].i = RUNCOUNT
           /\ call \in LoopLabels => threadRegs[m].i < RUNCOUNT
           /\ Printed(threadRegs'[m]) = Printed(threadRegs[m])
                + IF call = "sys_atomic_print" THEN 1 ELSE 0
           /\ call # "sys_yield" => Printed(threadRegs[m]) = threadRegs[m].i
           /\ call # "sys_atomic_print" => UNCHANGED <<cursorpos, console>>
           /\ call = "sys_atomic_print" =>
                cursorpos' = cursorpos + 1 /\ Write(cursorpos, Shown(m))
  <1>1. PICK call \in Traps :
           /\ ~ searching
           /\ threadRegs[current].eip = call /\ threadRegs[current].todo = {}
           /\ threadRegs' = [threadRegs EXCEPT ![current] = Resume(@)]
           /\ call # "sys_atomic_print" => UNCHANGED memory
           /\ call = "sys_atomic_print" => KernelPrint(current)
    BY SystemCalls
  <1> DEFINE r == threadRegs[m]
             resumed == Resume(r)
  <1>2. /\ \A q \in Apps \ {m} : threadRegs'[q] = threadRegs[q]
        /\ threadRegs'[m] = resumed
        /\ r \in Registers /\ Controlled(m, r) /\ r.i \in Nat /\ r.eip = call
        /\ r.todo = {}
    BY <1>1, ThreadsType
  <1>3. /\ resumed.todo = {}
        /\ resumed.i = IF call = "sys_yield" THEN r.i + 1 ELSE r.i
        /\ call = "sys_set_priority" => resumed.eip = "sys_set_share"
        /\ call = "sys_set_share" => resumed.eip = "sys_set_lottery_tickets"
        /\ call = "sys_set_lottery_tickets" => resumed.eip = LoopTop(m, r.i)
        /\ call = "sys_atomic_print" => resumed.eip = "sys_yield"
        /\ call = "sys_yield" => resumed.eip = LoopTop(m, r.i + 1)
        /\ call = "sys_exit" => resumed.eip = "halted"
    BY <1>2, Resumes DEF Controlled
  <1>4. \A n \in Nat : LoopTop(m, n) \in {"swap_in", "sys_atomic_print", "sys_exit"}
    BY DEF LoopTop
  <1>5. /\ call = "sys_exit" => r.i = RUNCOUNT
        /\ call \in LoopLabels => r.i < RUNCOUNT
    BY <1>2 DEF Controlled
  <1>6. call = "sys_atomic_print" =>
          cursorpos' = cursorpos + 1 /\ Write(cursorpos, Shown(m))
    BY <1>1, <1>2 DEF KernelPrint, Shown, Controlled
  <1>7. /\ resumed.eip = "halted" <=> call = "sys_exit"
        /\ call # "sys_yield" => Printed(r) = r.i
        /\ Printed(resumed) = Printed(r)
             + IF call = "sys_atomic_print" THEN 1 ELSE 0
    <2> HIDE DEF r, resumed
    <2>1. r.i + 1 \in Nat
      BY <1>2
    <2> QED
      BY <1>2, <1>3, <1>4, <2>1 DEF Printed, Traps
  <1> QED
    BY <1>1, <1>2, <1>3, <1>5, <1>6, <1>7 DEF memory

-----------------------------------------------------------------------------
(* Algorithm 1.                                                            *)

LEMMA Divides ==
  ASSUME NEW n \in Nat, NEW q \in Nat, NEW i \in Nat, i < n,
         NEW x, x = n * q + i
  PROVE  x \div n = q /\ x % n = i
  OBVIOUS

(* PrintsInOrder for algorithm 1 and what it rests on: the applications    *)
(* run one after the other, each from its start to its exit, so that the   *)
(* cursor counts the prints of the finished ones and the current one's.    *)
LowestOrder ==
  /\ \A p, q \in Apps : p < q /\ threadRegs[p].eip # "halted"
                          => threadRegs[q] = StartOf(q)
  /\ cursorpos = RUNCOUNT * (current - 1) + Printed(threadRegs[current])
  /\ \A p \in Apps : threadRegs[p].todo # {} =>
       threadRegs[p].old = RUNCOUNT * (p - 1) + threadRegs[p].i
  /\ \A c \in DOMAIN console : ShowsPrintOf(c, (c \div RUNCOUNT) + 1)

LowestInv ==
  scheduling_algorithm = 1 =>
    /\ ~ searching => LowestPid(proc_array, current)
    /\ LowestOrder

(* Those before the current one have exited.                               *)
LEMMA LowestIsLeft ==
  ASSUME TableInv, NEW m \in Apps, LowestPid(proc_array, m), NEW p \in Apps, p < m
  PROVE  threadRegs[p].eip = "halted"
  BY NPROCSAssumption DEF TableInv, LowestPid, Apps, Pids

(* Print i of application m is at its place.                               *)
LEMMA LowestPrint ==
  ASSUME \A c \in DOMAIN console : ShowsPrintOf(c, (c \div RUNCOUNT) + 1),
         NEW m \in Apps, NEW i \in Nat, i < RUNCOUNT,
         NEW cell, cell = RUNCOUNT * (m - 1) + i, Write(cell, Shown(m))
  PROVE  \A c \in DOMAIN console' : console'[c] = Shown((c \div RUNCOUNT) + 1)
  <1>1. m - 1 \in Nat /\ (m - 1) + 1 = m
    BY NPROCSAssumption DEF Apps
  <1>2. cell \div RUNCOUNT = m - 1
    BY <1>1, Divides, UserCodeAssumption
  <1> QED
    BY <1>1, <1>2, WriteCell DEF ShowsPrintOf

LEMMA ExecuteLowest ==
  ASSUME KernelInv, TableInv, scheduling_algorithm = 1, LowestInv, Execute
  PROVE  LowestInv'
  <1>m. PICK m \in Apps : m = current
    BY ThreadsType
  <1>1. /\ ~ searching /\ UNCHANGED kernelVars
        /\ \A q \in Apps \ {m} : threadRegs'[q] = threadRegs[q]
        /\ threadRegs[m].eip \in {"swap_in", "load", "store", "sys_yield"}
        /\ threadRegs'[m].eip \in {"swap_in", "load", "store", "sys_yield"}
        /\ threadRegs[m].i < RUNCOUNT /\ threadRegs'[m].i = threadRegs[m].i
        /\ \/ /\ UNCHANGED cursorpos
              /\ Printed(threadRegs'[m]) = Printed(threadRegs[m])
              /\ threadRegs'[m].todo # {} =>
                   \/ /\ threadRegs[m].todo # {}
                      /\ threadRegs'[m].old = threadRegs[m].old
                   \/ /\ Printed(threadRegs[m]) = threadRegs[m].i
                      /\ threadRegs'[m].old = cursorpos
           \/ /\ cursorpos' = threadRegs[m].old + 1
              /\ threadRegs'[m].old = threadRegs[m].old
              /\ threadRegs[m].todo # {}
              /\ Printed(threadRegs'[m]) = threadRegs[m].i + 1
        /\ \/ UNCHANGED console
           \/ threadRegs[m].todo # {} /\ Write(threadRegs[m].old, Shown(m))
    BY <1>m, ExecutePrints
  <1>2. /\ LowestOrder /\ LowestPid(proc_array, m) /\ LowestPid(proc_array', m)
        /\ m = current' /\ threadRegs[m].i \in Nat /\ m \in Int
        /\ RUNCOUNT * (m - 1) \in Int
    BY <1>m, <1>1, ThreadsType, NPROCSAssumption, UserCodeAssumption
       DEF LowestInv, kernelVars, Apps
  <1>3. ASSUME NEW p \in Apps, NEW q \in Apps, p < q, threadRegs'[p].eip # "halted"
        PROVE  threadRegs'[q] = StartOf(q)
    <2>1. threadRegs[p].eip # "halted" /\ q # m
      BY <1>1, <1>2, <1>3, LowestIsLeft
    <2> QED
      BY <1>1, <1>2, <1>3, <2>1 DEF LowestOrder
  <1>4. cursorpos' = RUNCOUNT * (m - 1) + Printed(threadRegs'[m])
    BY <1>m, <1>1, <1>2 DEF LowestOrder
  <1>5. ASSUME NEW p \in Apps, threadRegs'[p].todo # {}
        PROVE  threadRegs'[p].old = RUNCOUNT * (p - 1) + threadRegs'[p].i
    BY <1>m, <1>1, <1>2, <1>5 DEF LowestOrder
  <1>6. \A c \in DOMAIN console' : console'[c] = Shown((c \div RUNCOUNT) + 1)
    <2>1. CASE UNCHANGED console
      BY <1>2, <2>1 DEF LowestOrder, ShowsPrintOf
    <2>2. CASE threadRegs[m].todo # {} /\ Write(threadRegs[m].old, Shown(m))
      <3>1. threadRegs[m].old = RUNCOUNT * (m - 1) + threadRegs[m].i
        BY <1>2, <2>2 DEF LowestOrder
      <3> QED
        BY <1>1, <1>2, <2>2, <3>1, LowestPrint DEF LowestOrder
    <2> QED
      BY <1>1, <2>1, <2>2
  <1>7. LowestOrder'
    BY <1>2, <1>3, <1>4, <1>5, <1>6 DEF LowestOrder, ShowsPrintOf
  <1> QED
    BY <1>2, <1>7 DEF LowestInv

(* After an interrupt the runnable process with the lowest pid runs.       *)
LEMMA InterruptLowest ==
  ASSUME KernelInv, scheduling_algorithm = 1, ~ searching, NEW frame,
         NEW table \in Tables, ~ Runnable(table, CPU), Interrupt(frame, table)
  PROVE  /\ scheduling_algorithm' = 1 /\ proc_array' = table
         /\ ~ searching' => LowestPid(table, current')
         /\ searching' => UNCHANGED current /\ \A q \in Apps : ~ Runnable(table, q)
  BY Schedules, PicksRunnable DEF Picks

LEMMA SystemCallLowest ==
  ASSUME KernelInv, TableInv, TableInv', scheduling_algorithm = 1, LowestInv,
         SystemCall
  PROVE  LowestInv'
  <1>m. PICK m \in Apps : m = current
    BY ThreadsType
  <1>1. PICK call \in Traps :
           /\ ~ searching
           /\ threadRegs[m].eip = call /\ threadRegs[m].todo = {}
           /\ \A q \in Apps \ {m} : threadRegs'[q] = threadRegs[q]
           /\ threadRegs'[m].todo = {}
           /\ threadRegs'[m].eip = "halted" <=> call = "sys_exit"
           /\ call = "sys_exit" => threadRegs[m].i = RUNCOUNT
           /\ call \in LoopLabels => threadRegs[m].i < RUNCOUNT
           /\ Printed(threadRegs'[m]) = Printed(threadRegs[m])
                + IF call = "sys_atomic_print" THEN 1 ELSE 0
           /\ call # "sys_yield" => Printed(threadRegs[m]) = threadRegs[m].i
           /\ call # "sys_atomic_print" => UNCHANGED <<cursorpos, console>>
           /\ call = "sys_atomic_print" =>
                cursorpos' = cursorpos + 1 /\ Write(cursorpos, Shown(m))
    BY <1>m, SystemCallPrints
  <1>2. /\ LowestOrder /\ LowestPid(proc_array, m)
        /\ threadRegs[m].i \in Nat /\ m \in Int /\ RUNCOUNT \in Int
        /\ RUNCOUNT * (m - 1) \in Int
        /\ threadRegs[m].eip # "halted"
    BY <1>m, <1>1, ThreadsType, NPROCSAssumption, UserCodeAssumption
       DEF LowestInv, Traps, Apps
  <1>3. /\ scheduling_algorithm' = 1
        /\ ~ searching' => LowestPid(proc_array', current')
        /\ searching' => UNCHANGED current
                         /\ \A q \in Apps : ~ Runnable(proc_array', q)
    BY <1>m, <1>1, SystemCalls, InterruptLowest
  <1>4. \A p \in Apps : Runnable(proc_array', p) <=> threadRegs'[p].eip # "halted"
    BY DEF TableInv
  <1>5. ASSUME NEW p \in Apps, NEW q \in Apps, p < q, threadRegs'[p].eip # "halted"
        PROVE  threadRegs'[q] = StartOf(q)
    <2>1. threadRegs[p].eip # "halted" /\ q # m
      BY <1>1, <1>2, <1>5, LowestIsLeft
    <2> QED
      BY <1>1, <1>2, <1>5, <2>1 DEF LowestOrder
  <1>6. cursorpos' = RUNCOUNT * (m - 1) + Printed(threadRegs'[m])
    <2>1. Printed(threadRegs[m]) \in Nat
      BY <1>2 DEF Printed
    <2> QED
      BY <1>m, <1>1, <1>2, <2>1 DEF LowestOrder
  <1>7. cursorpos' = RUNCOUNT * (current' - 1) + Printed(threadRegs'[current'])
    <2>1. CASE searching'
      BY <1>m, <1>3, <1>6, <2>1
    <2>2. CASE ~ searching'
      <3>1. /\ current' \in Apps /\ threadRegs'[current'].eip # "halted"
            /\ \A q \in Apps : threadRegs'[q].eip # "halted" => current' <= q
        <4>1. current' \in Apps
          BY <1>1, SystemCallImplements DEF KernelInv, TypeOK
        <4> QED
          BY <1>3, <1>4, <2>2, <4>1, NPROCSAssumption DEF LowestPid, Apps, Pids
      <3>2. ~ current' < m
        BY <1>1, <1>2, <3>1, LowestIsLeft
      <3>3. current' \in Int
        BY <3>1 DEF Apps
      <3>4. CASE call # "sys_exit"
        <4>1. current' = m
          BY <1>1, <1>2, <3>1, <3>2, <3>3, <3>4
        <4> QED
          BY <1>6, <4>1
      <3>5. CASE call = "sys_exit"
        <4>1. current' > m /\ m + 1 \in Apps /\ m < m + 1 /\ m + 1 # m
          BY <1>1, <1>2, <3>1, <3>2, <3>3, <3>5, NPROCSAssumption DEF Apps
        <4>2. threadRegs'[m + 1] = StartOf(m + 1)
          BY <1>1, <1>2, <4>1 DEF LowestOrder
        <4>3. current' = m + 1
          BY <1>2, <3>1, <3>3, <4>1, <4>2 DEF StartOf
        <4>4. Printed(threadRegs'[current']) = 0
          BY <4>2, <4>3 DEF StartOf, Printed
        <4>5. Printed(threadRegs'[m]) = RUNCOUNT
          BY <1>1, <1>2, <3>5
        <4>6. RUNCOUNT * (m - 1) + RUNCOUNT = RUNCOUNT * ((m + 1) - 1) + 0
          BY <1>2
        <4> QED
          BY <1>6, <4>3, <4>4, <4>5, <4>6
      <3> QED
        BY <3>4, <3>5
    <2> QED
      BY <2>1, <2>2
  <1>8. ASSUME NEW p \in Apps, threadRegs'[p].todo # {}
        PROVE  threadRegs'[p].old = RUNCOUNT * (p - 1) + threadRegs'[p].i
    BY <1>1, <1>2, <1>8 DEF LowestOrder
  <1>9. \A c \in DOMAIN console' : console'[c] = Shown((c \div RUNCOUNT) + 1)
    <2>1. CASE call # "sys_atomic_print"
      BY <1>1, <1>2, <2>1 DEF LowestOrder, ShowsPrintOf
    <2>2. CASE call = "sys_atomic_print"
      <3>1. /\ cursorpos = RUNCOUNT * (m - 1) + threadRegs[m].i
            /\ threadRegs[m].i < RUNCOUNT
        BY <1>m, <1>1, <1>2, <2>2 DEF LowestOrder, LoopLabels
      <3> QED
        BY <1>1, <1>2, <2>2, <3>1, LowestPrint DEF LowestOrder
    <2> QED
      BY <2>1, <2>2
  <1>10. LowestOrder'
    BY <1>5, <1>7, <1>8, <1>9 DEF LowestOrder, ShowsPrintOf
  <1> QED
    BY <1>3, <1>10 DEF LowestInv

LEMMA InitLowestInv == Init => LowestInv
  <1> SUFFICES ASSUME Init
               PROVE  LowestPid(proc_array, current) /\ LowestOrder
    BY DEF LowestInv
  <1>1. \A p \in Apps : threadRegs[p] = StartOf(p)
    BY CPUNotApp DEF Init, threadRegs, Contexts
  <1>2. \A p \in Pids : Runnable(proc_array, p) <=> p \in Apps
    BY DEF Init, EmptyDescriptor, Runnable
  <1>3. current = 1 /\ 1 \in Apps /\ 1 \in Pids
    BY NPROCSAssumption DEF Init, Apps, Pids
  <1>4. Printed(StartOf(1)) = 0 /\ \A p \in Apps : StartOf(p).todo = {}
    BY DEF Printed, StartOf
  <1>5. LowestPid(proc_array, current)
    BY <1>2, <1>3 DEF LowestPid, Apps
  <1>6. cursorpos = 0 /\ DOMAIN console = {}
    BY DEF Init
  <1> QED
    BY <1>1, <1>3, <1>4, <1>5, <1>6, UserCodeAssumption DEF LowestOrder

LEMMA NextLowestInv ==
  KernelInv /\ TableInv /\ TableInv' /\ LowestInv /\ [Next]_vars => LowestInv'
  <1> SUFFICES ASSUME KernelInv, TableInv, TableInv', LowestInv, [Next]_vars,
                      scheduling_algorithm' = 1
               PROVE  LowestInv'
    BY DEF LowestInv
  <1>1. CASE Execute
    BY <1>1, Executes, ExecuteLowest DEF kernelVars, settings
  <1>2. CASE SystemCall
    <2>1. UNCHANGED scheduling_algorithm
      BY <1>2, SystemCalls, Schedules
    <2> QED
      BY <1>2, <2>1, SystemCallLowest
  <1>3. CASE Clock
    <2>1. /\ ~ searching /\ UNCHANGED memory /\ threadRegs' = threadRegs
          /\ Interrupt(regs[CPU], proc_array)
          /\ proc_array \in Tables /\ ~ Runnable(proc_array, CPU)
      BY <1>3, Ticks
    <2>2. scheduling_algorithm = 1
      BY <2>1, Schedules
    <2>3. /\ proc_array' = proc_array
          /\ ~ searching' => LowestPid(proc_array, current')
          /\ searching' => UNCHANGED current
      BY <2>1, <2>2, InterruptLowest
    <2>4. LowestOrder /\ LowestPid(proc_array, current)
      BY <2>1, <2>2 DEF LowestInv
    <2>5. current' = current
      <3>1. /\ current \in Apps /\ current \in Pids
            /\ current' \in Apps /\ current' \in Pids
        BY <1>3, ThreadsType, ClockStutters, NPROCSAssumption
           DEF KernelInv, TypeOK, Apps, Pids
      <3> QED
        BY <2>3, <2>4, <3>1 DEF LowestPid, Pids
    <2>6. LowestOrder'
      BY <2>1, <2>4, <2>5 DEF LowestOrder, ShowsPrintOf, memory
    <2> QED
      BY <2>3, <2>6 DEF LowestInv
  <1>4. CASE Search \/ UNCHANGED vars
    <2>1. UNCHANGED <<console, cursorpos, kernelVars, threadRegs>>
      BY <1>4 DEF Search, vars, kernelVars, threadRegs
    <2> QED
      BY <2>1 DEF kernelVars, settings, LowestInv, LowestOrder, ShowsPrintOf,
                  LowestPid, Runnable
  <1> QED
    BY <1>1, <1>2, <1>3, <1>4 DEF Next

-----------------------------------------------------------------------------
(* Algorithm 0 without the clock.                                          *)

(* A thread's turn is what it does from one of its system calls to the     *)
(* next: where it began, where it will end, and the registers after it.    *)
BeganAt(r) ==
  IF r.eip \in {"load", "store"} \/ (r.eip = "sys_yield" /\ r.app \in LockApps)
  THEN "swap_in" ELSE r.eip

EndsAt(r) ==
  IF r.eip \in {"swap_in", "load", "store"} THEN "sys_yield" ELSE r.eip

After(r) == Resume([r EXCEPT !.eip = EndsAt(r)])

(* Prints of its round once the thread has got there.                      *)
InRound(r) ==
  IF r.eip = "sys_yield" /\ r.app \notin LockApps THEN NPROCS - 1
  ELSE IF r.eip \in LoopLabels THEN (r.app - 1) + (Printed(r) - r.i)
  ELSE 0

(* PrintsInOrder for algorithm 0 and what it rests on: the applications    *)
(* take turns in lockstep.  Those before the current one have had theirs,  *)
(* those after it are where it was when its turn began.                    *)
InTurns ==
  LET r == threadRegs[current]
  IN  /\ \A p \in Apps :
           /\ p < current => /\ threadRegs[p].eip = After(r).eip
                             /\ threadRegs[p].i = After(r).i
           /\ p > current => /\ threadRegs[p].eip = BeganAt(r)
                             /\ threadRegs[p].i = r.i
           /\ p # current => threadRegs[p].todo = {}
      /\ cursorpos = (NPROCS - 1) * r.i + InRound(r)
      /\ r.todo # {} => r.old = (NPROCS - 1) * r.i + (current - 1)

InLockstep == scheduling_algorithm = 0 /\ ~ clock_on

TurnInv ==
  InLockstep =>
    /\ ~ searching => InTurns
    /\ \A c \in DOMAIN console : ShowsPrintOf(c, (c % (NPROCS - 1)) + 1)

LEMMA AfterIs ==
  ASSUME NEW p \in Apps, NEW r \in Registers, Controlled(p, r), r.eip # "halted"
  PROVE  /\ After(r).i = IF EndsAt(r) = "sys_yield" THEN r.i + 1 ELSE r.i
         /\ EndsAt(r) = "sys_set_priority" => After(r).eip = "sys_set_share"
         /\ EndsAt(r) = "sys_set_share" => After(r).eip = "sys_set_lottery_tickets"
         /\ EndsAt(r) = "sys_set_lottery_tickets" => After(r).eip = LoopTop(p, r.i)
         /\ EndsAt(r) = "sys_atomic_print" => After(r).eip = "sys_yield"
         /\ EndsAt(r) = "sys_yield" => After(r).eip = LoopTop(p, r.i + 1)
         /\ EndsAt(r) = "sys_exit" => After(r).eip = "halted"
         /\ EndsAt(r) \in Traps
  <1> DEFINE s == [r EXCEPT !.eip = EndsAt(r)]
  <1>1. EndsAt(r) \in Traps
    BY DEF EndsAt, Registers, Labels, Traps
  <1>2. s \in Registers /\ s.app = p /\ s.i = r.i /\ s.eip = EndsAt(r)
    BY <1>1 DEF Registers, Labels, Controlled
  <1>3. After(r) = Resume(s)
    BY DEF After
  <1> HIDE DEF s
  <1> QED
    BY <1>1, <1>2, <1>3, Resumes

(* A turn's begin says how it goes on, for all applications alike.         *)
LEMMA SameTurns ==
  ASSUME OneMethod,
         NEW p \in Apps, NEW r \in Registers, Controlled(p, r), r.eip # "halted",
         NEW q \in Apps, NEW s \in Registers, Controlled(q, s),
         s.eip = BeganAt(r), s.i = r.i
  PROVE  /\ BeganAt(s) = BeganAt(r)
         /\ After(s).eip = After(r).eip /\ After(s).i = After(r).i
         /\ s.eip # "halted"
  <1>1. /\ p \in LockApps <=> q \in LockApps
        /\ r.app = p /\ s.app = q
    BY DEF OneMethod, Controlled
  <1>2. BeganAt(s) = BeganAt(r) /\ s.eip # "halted"
    BY <1>1 DEF BeganAt
  <1>3. EndsAt(s) = EndsAt(r)
    BY <1>1 DEF EndsAt, BeganAt, Controlled
  <1>4. \A n \in Nat : LoopTop(p, n) = LoopTop(q, n)
    BY <1>1 DEF LoopTop
  <1>5. r.i \in Nat /\ r.i + 1 \in Nat
    BY UserCodeAssumption DEF Registers
  <1> QED
    BY <1>2, <1>3, <1>4, <1>5, AfterIs DEF Traps

(* An instruction is part of a turn.                                       *)
LEMMA WithinTurn ==
  ASSUME NEW p \in LockApps, NEW r \in Registers, Controlled(p, r),
         NEW s \in Registers, Controlled(p, s), s.i = r.i,
         r.eip \in {"swap_in", "load", "store", "sys_yield"},
         s.eip \in {"swap_in", "load", "store", "sys_yield"}
  PROVE  /\ BeganAt(s) = BeganAt(r)
         /\ After(s).eip = After(r).eip /\ After(s).i = After(r).i
  <1>1. BeganAt(s) = BeganAt(r) /\ EndsAt(s) = "sys_yield" /\ EndsAt(r) = "sys_yield"
    BY DEF BeganAt, EndsAt, Controlled
  <1>2. p \in Apps
    BY UserCodeAssumption
  <1> QED
    BY <1>1, <1>2, AfterIs

(* Round robin goes from an application to the next, and round.            *)
LEMMA NextInTurn ==
  ASSUME NEW table, ~ Runnable(table, CPU), NEW m \in Apps,
         NEW c \in Pids, RoundRobin(table, m, c)
  PROVE  /\ m + 1 \in Apps /\ Runnable(table, m + 1) => c = m + 1
         /\ m = NPROCS - 1 /\ Runnable(table, 1) => c = 1
  <1>1. /\ Runnable(table, c)
        /\ \A q \in Pids : Runnable(table, q) => StepsPast(m, c) <= StepsPast(m, q)
        /\ m \in Pids /\ 1 \in Pids /\ (m + 1 \in Apps => m + 1 \in Pids)
        /\ c # CPU
    BY NPROCSAssumption DEF RoundRobin, Apps, Pids
  <1>2. \A q \in Pids : StepsPast(m, q) = IF q > m THEN q - m - 1
                                          ELSE q - m - 1 + NPROCS
    BY <1>1, Rounds
  <1> QED
    BY <1>1, <1>2, NPROCSAssumption DEF Apps, Pids, CPU

(* The print of application m in round i is at its place.                  *)
LEMMA TurnPrint ==
  ASSUME \A c \in DOMAIN console : ShowsPrintOf(c, (c % (NPROCS - 1)) + 1),
         NEW m \in Apps, NEW i \in Nat,
         NEW cell, cell = (NPROCS - 1) * i + (m - 1), Write(cell, Shown(m))
  PROVE  \A c \in DOMAIN console' : console'[c] = Shown((c % (NPROCS - 1)) + 1)
  <1>1. /\ NPROCS - 1 \in Nat /\ m - 1 \in Nat /\ m - 1 < NPROCS - 1
        /\ (m - 1) + 1 = m
    BY NPROCSAssumption DEF Apps
  <1>2. cell % (NPROCS - 1) = m - 1
    BY <1>1, Divides
  <1> QED
    BY <1>1, <1>2, WriteCell DEF ShowsPrintOf

LEMMA ExecuteTurn ==
  ASSUME KernelInv, KernelInv', InLockstep, TurnInv, Execute
  PROVE  TurnInv'
  <1>m. PICK m \in Apps : m = current
    BY ThreadsType
  <1>1. /\ ~ searching /\ UNCHANGED kernelVars
        /\ \A q \in Apps \ {m} : threadRegs'[q] = threadRegs[q]
        /\ threadRegs[m].eip \in {"swap_in", "load", "store", "sys_yield"}
        /\ threadRegs'[m].eip \in {"swap_in", "load", "store", "sys_yield"}
        /\ m \in LockApps
        /\ threadRegs[m].i < RUNCOUNT /\ threadRegs'[m].i = threadRegs[m].i
        /\ \/ /\ UNCHANGED cursorpos
              /\ Printed(threadRegs'[m]) = Printed(threadRegs[m])
              /\ threadRegs'[m].todo # {} =>
                   \/ /\ threadRegs[m].todo # {}
                      /\ threadRegs'[m].old = threadRegs[m].old
                   \/ /\ Printed(threadRegs[m]) = threadRegs[m].i
                      /\ threadRegs'[m].old = cursorpos
           \/ /\ cursorpos' = threadRegs[m].old + 1
              /\ threadRegs'[m].old = threadRegs[m].old
              /\ threadRegs[m].todo # {}
              /\ Printed(threadRegs'[m]) = threadRegs[m].i + 1
        /\ \/ UNCHANGED console
           \/ threadRegs[m].todo # {} /\ Write(threadRegs[m].old, Shown(m))
    BY <1>m, ExecutePrints
  <1>2. /\ InTurns
        /\ \A c \in DOMAIN console : ShowsPrintOf(c, (c % (NPROCS - 1)) + 1)
        /\ current' = m
    BY <1>m, <1>1 DEF TurnInv, kernelVars
  <1>3. /\ threadRegs[m] \in Registers /\ Controlled(m, threadRegs[m])
        /\ threadRegs'[m] \in Registers /\ Controlled(m, threadRegs'[m])
        /\ threadRegs[m].i \in Nat /\ m \in Int
    BY ThreadsType, NPROCSAssumption DEF Apps, KernelInv, TypeOK, threadRegs, Contexts
  <1>4. /\ BeganAt(threadRegs'[m]) = BeganAt(threadRegs[m])
        /\ After(threadRegs'[m]).eip = After(threadRegs[m]).eip
        /\ After(threadRegs'[m]).i = After(threadRegs[m]).i
    BY <1>1, <1>3, WithinTurn
  <1>5. /\ InRound(threadRegs[m]) = (m - 1) + (Printed(threadRegs[m]) - threadRegs[m].i)
        /\ InRound(threadRegs'[m]) = (m - 1) + (Printed(threadRegs'[m]) - threadRegs[m].i)
        /\ Printed(threadRegs[m]) \in Nat
    <2>1. threadRegs[m].app = m /\ threadRegs'[m].app = m
      BY <1>3 DEF Controlled
    <2> QED
      BY <1>1, <1>3, <2>1 DEF InRound, LoopLabels, Printed
  <1>6. /\ cursorpos = (NPROCS - 1) * threadRegs[m].i + InRound(threadRegs[m])
        /\ threadRegs[m].todo # {} =>
             threadRegs[m].old = (NPROCS - 1) * threadRegs[m].i + (m - 1)
        /\ (NPROCS - 1) * threadRegs[m].i \in Int
    BY <1>m, <1>2, <1>3, NPROCSAssumption DEF InTurns
  <1>7. InTurns'
    <2>1. ASSUME NEW p \in Apps
          PROVE  /\ p < m => /\ threadRegs'[p].eip = After(threadRegs'[m]).eip
                             /\ threadRegs'[p].i = After(threadRegs'[m]).i
                 /\ p > m => /\ threadRegs'[p].eip = BeganAt(threadRegs'[m])
                             /\ threadRegs'[p].i = threadRegs'[m].i
                 /\ p # m => threadRegs'[p].todo = {}
      <3>1. p < m \/ p > m => p # m
        BY <1>3
      <3> QED
        BY <1>m, <1>1, <1>2, <1>4, <3>1 DEF InTurns
    <2>2. cursorpos' = (NPROCS - 1) * threadRegs'[m].i + InRound(threadRegs'[m])
      BY <1>1, <1>3, <1>5, <1>6
    <2>3. threadRegs'[m].todo # {} =>
            threadRegs'[m].old = (NPROCS - 1) * threadRegs'[m].i + (m - 1)
      BY <1>1, <1>3, <1>5, <1>6
    <2> QED
      BY <1>2, <2>1, <2>2, <2>3 DEF InTurns
  <1>8. \A c \in DOMAIN console' : console'[c] = Shown((c % (NPROCS - 1)) + 1)
    <2>1. CASE UNCHANGED console
      BY <1>2, <2>1 DEF ShowsPrintOf
    <2>2. CASE threadRegs[m].todo # {} /\ Write(threadRegs[m].old, Shown(m))
      BY <1>2, <1>3, <1>6, <2>2, TurnPrint
    <2> QED
      BY <1>1, <2>1, <2>2
  <1> QED
    BY <1>7, <1>8 DEF TurnInv, ShowsPrintOf

(* Where a turn's system call leaves the cursor.                           *)
LEMMA TurnCursor ==
  ASSUME KernelInv, ~ searching, InTurns, NEW m \in Apps, m = current,
         threadRegs[m].eip \in Traps, threadRegs[m].todo = {}
  PROVE  LET r == threadRegs[m]
             start == (NPROCS - 1) * r.i
         IN  /\ r.eip \in Traps \ LoopLabels => cursorpos = start
             /\ r.eip = "sys_atomic_print" => cursorpos = start + (m - 1)
             /\ r.eip = "sys_yield" =>
                  cursorpos = start + IF m \in LockApps THEN m ELSE NPROCS - 1
  <1> DEFINE r == threadRegs[m]
             start == (NPROCS - 1) * r.i
  <1>1. /\ r \in Registers /\ r.app = m /\ r.i \in Nat /\ m \in Int
        /\ start \in Int /\ NPROCS - 1 \in Int
    BY ThreadsType, NPROCSAssumption DEF Controlled, Apps
  <1>2. cursorpos = start + InRound(r)
    BY DEF InTurns
  <1> HIDE DEF r
  <1>3. /\ r.eip \notin LoopLabels => InRound(r) = 0
        /\ r.eip = "sys_atomic_print" => InRound(r) = m - 1
        /\ r.eip = "sys_yield" =>
             InRound(r) = IF m \in LockApps THEN m ELSE NPROCS - 1
    BY <1>1 DEF InRound, Printed, LoopLabels
  <1> HIDE DEF start
  <1> QED
    BY <1>1, <1>2, <1>3 DEF r, start

LEMMA SystemCallTurn ==
  ASSUME OneMethod, KernelInv, KernelInv', TableInv', InLockstep, TurnInv,
         SystemCall
  PROVE  TurnInv'
  <1>m. PICK m \in Apps : m = current
    BY ThreadsType
  <1> DEFINE N == NPROCS - 1
             r == threadRegs[m]
  <1>1. PICK call \in Traps :
           /\ ~ searching
           /\ r.eip = call /\ r.todo = {}
           /\ \A q \in Apps \ {m} : threadRegs'[q] = threadRegs[q]
           /\ threadRegs'[m] = Resume(r)
           /\ threadRegs'[m].todo = {}
           /\ call # "sys_atomic_print" => UNCHANGED <<cursorpos, console>>
           /\ call = "sys_atomic_print" =>
                cursorpos' = cursorpos + 1 /\ Write(cursorpos, Shown(m))
    BY <1>m, SystemCallPrints
  <1>2. /\ InTurns
        /\ \A c \in DOMAIN console : ShowsPrintOf(c, (c % (NPROCS - 1)) + 1)
        /\ r \in Registers /\ Controlled(m, r) /\ r.i \in Nat /\ m \in Int
        /\ r.eip # "halted" /\ N \in Nat /\ N * r.i \in Int
    BY <1>1, ThreadsType, NPROCSAssumption DEF TurnInv, Apps, Traps
  <1>3. /\ call \in Traps \ LoopLabels => cursorpos' = N * r.i
        /\ call = "sys_atomic_print" =>
             cursorpos = N * r.i + (m - 1) /\ cursorpos' = N * r.i + m
        /\ call = "sys_yield" =>
             cursorpos' = N * r.i + IF m \in LockApps THEN m ELSE N
    BY <1>m, <1>1, <1>2, TurnCursor DEF LoopLabels
  <1>4. /\ EndsAt(r) = call
        /\ BeganAt(r) = IF call = "sys_yield" /\ m \in LockApps THEN "swap_in"
                        ELSE call
        /\ threadRegs'[m].eip = After(r).eip /\ threadRegs'[m].i = After(r).i
    <2>1. [r EXCEPT !.eip = r.eip] = r
      BY <1>2 DEF Registers
    <2>2. EndsAt(r) = call
      BY <1>1 DEF EndsAt, Traps
    <2> QED
      BY <1>1, <1>2, <2>1, <2>2 DEF After, BeganAt, Controlled, Traps
  <1>5. /\ \A c \in Apps : /\ threadRegs'[c] \in Registers
                           /\ Controlled(c, threadRegs'[c])
                           /\ threadRegs'[c].todo = {}
        /\ \A c \in Apps : Runnable(proc_array', c) <=> threadRegs'[c].eip # "halted"
    <2>1. \A c \in Apps : Controlled(c, threadRegs'[c])
      BY DEF KernelInv
    <2>2. \A c \in Apps : threadRegs'[c] \in Registers
      BY CPUNotApp DEF KernelInv, TypeOK, threadRegs, Contexts
    <2>3. \A c \in Apps : threadRegs'[c].todo = {}
      BY <1>m, <1>1, <1>2 DEF InTurns
    <2> QED
      BY <2>1, <2>2, <2>3 DEF TableInv
  <1>6. ASSUME NEW c \in Apps, Runnable(proc_array', c),
               \/ c = m + 1
               \/ m = NPROCS - 1 /\ c = 1
        PROVE  current' = c /\ ~ searching'
    <2>1. PICK table \in Tables, frame \in {Resume(regs[CPU])} :
            ~ Runnable(table, CPU) /\ Interrupt(frame, table)
      BY <1>1, SystemCalls
    <2>2. scheduling_algorithm = 0
      BY DEF InLockstep
    <2>3. proc_array' = table
      BY <1>1, <2>1, <2>2, Schedules
    <2>4. ~ searching' /\ RoundRobin(table, m, current')
      BY <1>m, <1>1, <1>6, <2>1, <2>2, <2>3, Schedules DEF Picks
    <2>5. current' \in Pids
      BY NPROCSAssumption DEF KernelInv, TypeOK, Apps, Pids
    <2> QED
      BY <1>6, <2>1, <2>3, <2>4, <2>5, NextInTurn
  <1>7. \A n \in Nat : LoopTop(m, n) \in {"swap_in", "sys_atomic_print", "sys_exit"}
    BY DEF LoopTop
  <1>8. ~ searching' => InTurns'
    <2>1. CASE m + 1 \in Apps
      <3>1. PICK c \in Apps : c = m + 1
        BY <2>1
      <3> DEFINE s == threadRegs[c]
      <3>2. /\ s.eip = BeganAt(r) /\ s.i = r.i
            /\ threadRegs'[c] = s /\ s \in Registers /\ Controlled(c, s)
        BY <1>m, <1>1, <1>2, <3>1, ThreadsType DEF InTurns
      <3>3. /\ BeganAt(s) = BeganAt(r)
            /\ After(s).eip = After(r).eip /\ After(s).i = After(r).i
            /\ s.eip # "halted"
        BY <1>2, <3>2, SameTurns
      <3>4. current' = c
        BY <1>5, <1>6, <3>1, <3>2, <3>3
      <3>5. ASSUME NEW p \in Apps
            PROVE  /\ p < c => /\ threadRegs'[p].eip = After(s).eip
                               /\ threadRegs'[p].i = After(s).i
                   /\ p > c => /\ threadRegs'[p].eip = BeganAt(s)
                               /\ threadRegs'[p].i = s.i
        <4>1. p \in Int
          BY DEF Apps
        <4>2. CASE p = m
          BY <1>2, <1>4, <3>1, <3>3, <4>2
        <4>3. CASE p # m
          BY <1>m, <1>1, <1>2, <3>1, <3>2, <3>3, <4>1, <4>3 DEF InTurns
        <4> QED
          BY <4>2, <4>3
      <3>6. cursorpos' = N * s.i + InRound(s)
        <4>1. s.app = c /\ (c \in LockApps <=> m \in LockApps) /\ c - 1 = m
          BY <1>2, <3>1, <3>2 DEF Controlled, OneMethod
        <4> HIDE DEF s, r, N
        <4>2. InRound(s) = IF call \notin LoopLabels THEN 0
                           ELSE IF call = "sys_yield" /\ m \notin LockApps THEN N
                           ELSE m
          BY <1>2, <1>4, <3>2, <4>1 DEF InRound, Printed, LoopLabels, Traps, N
        <4> QED
          BY <1>2, <1>3, <3>2, <4>2 DEF LoopLabels, Traps
      <3> QED
        BY <1>5, <3>2, <3>4, <3>5, <3>6 DEF InTurns
    <2>2. CASE m + 1 \notin Apps
      <3>1. m = NPROCS - 1 /\ 1 \in Apps
        BY <1>2, <2>2, NPROCSAssumption DEF Apps
      <3>2. ASSUME NEW q \in Apps
            PROVE  threadRegs'[q].eip = After(r).eip /\ threadRegs'[q].i = After(r).i
        BY <1>m, <1>1, <1>2, <1>4, <3>1, NPROCSAssumption DEF InTurns, Apps
      <3>3. CASE call = "sys_exit"
        <4>1. After(r).eip = "halted"
          BY <1>2, <1>4, <3>3, AfterIs
        <4>2. \A q \in Apps : ~ Runnable(proc_array', q)
          BY <1>5, <3>2, <4>1
        <4>3. searching'
          BY <4>2 DEF KernelInv, TypeOK, CurrentOwnsCPU
        <4> QED
          BY <4>3
      <3>4. CASE call # "sys_exit"
        <4> DEFINE s == threadRegs'[1]
        <4>1. s \in Registers /\ s.app = 1 /\ (1 \in LockApps <=> m \in LockApps)
          BY <1>5, <3>1 DEF Controlled, OneMethod
        <4>2. /\ s.eip = After(r).eip /\ s.i = After(r).i
              /\ s.i = IF call = "sys_yield" THEN r.i + 1 ELSE r.i
              /\ \/ /\ call \notin LoopLabels \/ (call = "sys_yield" /\ m \in LockApps)
                       \/ (call = "sys_yield" /\ m \notin LockApps)
                    /\ s.eip \notin {"load", "store", "sys_yield", "halted"}
                 \/ /\ call = "sys_atomic_print"
                    /\ s.eip = "sys_yield" /\ m \notin LockApps
          <5>1. r.i + 1 \in Nat
            BY <1>2
          <5>2. s.eip = After(r).eip /\ s.i = After(r).i
            BY <3>1, <3>2
          <5>3. call = "sys_atomic_print" => m \notin LockApps
            BY <1>1, <1>2 DEF Controlled
          <5> HIDE DEF s, r
          <5> QED
            BY <1>2, <1>4, <1>7, <3>4, <5>1, <5>2, <5>3, AfterIs
               DEF Traps, LoopLabels
        <4>3. BeganAt(s) = s.eip /\ s.eip # "halted"
          <5> HIDE DEF s
          <5> QED
            BY <4>1, <4>2 DEF BeganAt
        <4>4. current' = 1
          BY <1>5, <1>6, <3>1, <4>3
        <4>5. ASSUME NEW p \in Apps
              PROVE  /\ ~ p < 1
                     /\ threadRegs'[p].eip = BeganAt(s) /\ threadRegs'[p].i = s.i
          BY <3>2, <4>2, <4>3 DEF Apps
        <4>6. cursorpos' = N * s.i + InRound(s)
          <5>1. N * (r.i + 1) = N * r.i + N
            BY <1>2
          <5> HIDE DEF s, r
          <5>2. InRound(s) = IF call = "sys_atomic_print" THEN N ELSE 0
            BY <4>1, <4>2 DEF InRound, Printed, LoopLabels, Registers
          <5> HIDE DEF N
          <5> QED
            BY <1>2, <1>3, <3>1, <4>2, <5>1, <5>2 DEF LoopLabels, Traps, N
        <4> QED
          BY <1>5, <3>1, <4>4, <4>5, <4>6 DEF InTurns
      <3> QED
        BY <3>3, <3>4
    <2> QED
      BY <2>1, <2>2
  <1>9. \A c \in DOMAIN console' : console'[c] = Shown((c % (NPROCS - 1)) + 1)
    <2>1. CASE call # "sys_atomic_print"
      BY <1>1, <1>2, <2>1 DEF ShowsPrintOf
    <2>2. CASE call = "sys_atomic_print"
      BY <1>1, <1>2, <1>3, <2>2, TurnPrint
    <2> QED
      BY <2>1, <2>2
  <1> QED
    BY <1>8, <1>9 DEF TurnInv, ShowsPrintOf

LEMMA InitTurnInv == Init => TurnInv
  <1> SUFFICES ASSUME Init
               PROVE  InTurns /\ DOMAIN console = {}
    BY DEF TurnInv
  <1>1. \A p \in Apps : threadRegs[p] = StartOf(p)
    BY CPUNotApp DEF Init, threadRegs, Contexts
  <1>2. /\ current = 1 /\ 1 \in Apps /\ cursorpos = 0 /\ DOMAIN console = {}
        /\ \A p \in Apps : ~ p < 1
    BY NPROCSAssumption DEF Init, Apps
  <1>3. \A p \in Apps : /\ StartOf(p).eip = "sys_set_priority"
                        /\ StartOf(p).i = 0 /\ StartOf(p).todo = {}
    BY DEF StartOf
  <1>4. /\ BeganAt(threadRegs[1]) = "sys_set_priority"
        /\ InRound(threadRegs[1]) = 0
    BY <1>1, <1>2, <1>3 DEF BeganAt, InRound, LoopLabels
  <1>5. 0 = (NPROCS - 1) * 0 + 0
    BY NPROCSAssumption
  <1> QED
    BY <1>1, <1>2, <1>3, <1>4, <1>5 DEF InTurns

LEMMA NextTurnInv ==
  ASSUME OneMethod, KernelInv, KernelInv', TableInv', TurnInv, [Next]_vars
  PROVE  TurnInv'
  <1> SUFFICES ASSUME InLockstep' PROVE TurnInv'
    BY DEF TurnInv
  <1>1. CASE Execute
    BY <1>1, Executes, ExecuteTurn DEF InLockstep, kernelVars, settings
  <1>2. CASE SystemCall
    <2>1. UNCHANGED <<scheduling_algorithm, clock_on>>
      BY <1>2, SystemCalls, Schedules
    <2> QED
      BY <1>2, <2>1, SystemCallTurn DEF InLockstep
  <1>3. CASE Clock
    BY <1>3, Ticks, Schedules DEF InLockstep
  <1>4. CASE Search \/ UNCHANGED vars
    <2>1. UNCHANGED <<console, cursorpos, kernelVars, threadRegs>>
      BY <1>4 DEF Search, vars, kernelVars, threadRegs
    <2> QED
      BY <2>1 DEF kernelVars, settings, InLockstep, TurnInv, InTurns, ShowsPrintOf
  <1> QED
    BY <1>1, <1>2, <1>3, <1>4 DEF Next

LEMMA OrderInv ==
  ASSUME OneMethod
  PROVE  Spec => [](KernelInv /\ TableInv /\ LowestInv /\ TurnInv)
  <1>1. KernelInv /\ KernelInv' /\ TableInv' /\ TurnInv /\ [Next]_vars => TurnInv'
    BY OneMethod, NextTurnInv
  <1> QED
    BY <1>1, InitKernelInv, NextKernelInv, InitTableInv, NextTableInv,
       InitLowestInv, NextLowestInv, InitTurnInv, PTL DEF Spec

(* The applications print 1234 1234 ... under algorithm 0 without the      *)
(* clock, and all of 1's prints, then all of 2's ... under algorithm 1     *)
(* even with it (answers.txt; schedos-kern.c, schedule).                   *)
THEOREM PrintsAreInOrder ==
  ASSUME OneMethod
  PROVE  Spec => []PrintsInOrder
  <1>1. LowestInv /\ TurnInv => PrintsInOrder
    BY DEF LowestInv, LowestOrder, TurnInv, InLockstep, PrintsInOrder
  <1> QED
    BY <1>1, OneMethod, OrderInv, PTL

(* No application exits under algorithm 0 without the clock before the     *)
(* last print of all, and under algorithm 1 each exits after the last of   *)
(* its own (answers.txt; schedos-kern.c, schedule).                        *)
THEOREM TurnaroundIsExact ==
  ASSUME OneMethod
  PROVE  Spec => TurnaroundTimes
  <1>1. ASSUME KernelInv, TableInv, TableInv', LowestInv, TurnInv, [Next]_vars,
               NEW p \in Apps, Exits(p)
        PROVE  /\ scheduling_algorithm = 0 /\ ~ clock_on =>
                    cursorpos = RUNCOUNT * (NPROCS - 1)
               /\ scheduling_algorithm = 1 => cursorpos = RUNCOUNT * p
    <2>1. /\ Runnable(proc_array, p) <=> threadRegs[p].eip # "halted"
          /\ Runnable(proc_array', p) <=> threadRegs'[p].eip # "halted"
      BY <1>1 DEF TableInv
    <2>2. threadRegs[p].eip # "halted" /\ threadRegs'[p].eip = "halted"
      BY <1>1, <2>1 DEF Exits
    <2>m. PICK m \in Apps : m = current
      BY <1>1, ThreadsType
    <2>3. SystemCall
      <3>1. CASE Execute
        BY <1>1, <2>2, <2>m, <3>1, ExecutePrints
      <3>2. CASE Clock
        BY <1>1, <2>2, <3>2, Ticks
      <3>3. CASE Search \/ UNCHANGED vars
        BY <2>2, <3>3 DEF Search, vars, kernelVars, threadRegs
      <3> QED
        BY <1>1, <3>1, <3>2, <3>3 DEF Next
    <2>4. /\ ~ searching /\ p = m
          /\ threadRegs[m].eip = "sys_exit" /\ threadRegs[m].todo = {}
          /\ threadRegs[m].i = RUNCOUNT
          /\ Printed(threadRegs[m]) = RUNCOUNT
      BY <1>1, <2>2, <2>m, <2>3, SystemCallPrints
    <2>5. ASSUME scheduling_algorithm = 0, ~ clock_on
          PROVE  cursorpos = RUNCOUNT * (NPROCS - 1)
      <3>1. cursorpos = (NPROCS - 1) * RUNCOUNT
        BY <1>1, <2>m, <2>4, <2>5, TurnCursor
           DEF TurnInv, InLockstep, Traps, LoopLabels
      <3> QED
        BY <3>1, NPROCSAssumption, UserCodeAssumption
    <2>6. ASSUME scheduling_algorithm = 1
          PROVE  cursorpos = RUNCOUNT * p
      <3>1. cursorpos = RUNCOUNT * (p - 1) + RUNCOUNT
        BY <1>1, <2>m, <2>4, <2>6 DEF LowestInv, LowestOrder
      <3> QED
        BY <3>1, UserCodeAssumption DEF Apps
    <2> QED
      BY <2>5, <2>6
  <1>2. KernelInv /\ TableInv /\ TableInv' /\ LowestInv /\ TurnInv /\ [Next]_vars
        => [\A p \in Apps : Exits(p) =>
              /\ scheduling_algorithm = 0 /\ ~ clock_on =>
                   cursorpos = RUNCOUNT * (NPROCS - 1)
              /\ scheduling_algorithm = 1 => cursorpos = RUNCOUNT * p]_vars
    BY <1>1
  <1> QED
    BY <1>2, OneMethod, OrderInv, PTL DEF Spec, TurnaroundTimes

=============================================================================
