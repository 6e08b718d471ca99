---------------------------- MODULE ThreadsProofs ---------------------------
(***************************************************************************)
(* Threads is correct, and implements PrintLog, for every number of        *)
(* applications, every RUNCOUNT and every initial lock word.               *)
(***************************************************************************)
EXTENDS Threads, UserCodeProofs, Sequences, FiniteSetTheorems,
        SequenceTheorems

(* All applications are compiled with the same print method; a mix of the  *)
(* two does lose prints, since the kernel's print takes no lock.           *)
OneMethod == LockApps \in {{}, Apps}

TypeInv == TypeOK /\ ControlInv

-----------------------------------------------------------------------------

LEMMA InitTypeInv == Init => TypeInv
  <1> SUFFICES ASSUME Init PROVE TypeInv
    OBVIOUS
  <1>1. TypeOK
    BY StartControlled, UserCodeAssumption DEF Init, TypeOK
  <1>2. ControlInv
    BY StartControlled DEF Init, ControlInv, Controlled
  <1> QED
    BY <1>1, <1>2 DEF TypeInv

(* What a system call returns to is the program's next statement.          *)
LEMMA ResumeType ==
  ASSUME TypeInv, NEW p \in Apps, NEW call \in Traps, AtTrap(p, call)
  PROVE  /\ Resume(regs[p]) \in Registers
         /\ Controlled(p, Resume(regs[p]))
         /\ Resume(regs[p]).todo = {}
         /\ Resume(regs[p]).eip \notin {"load", "store"}
  BY ResumeControlled DEF TypeInv, TypeOK, ControlInv, Controlled, AtTrap

LEMMA StepTypeInv ==
  ASSUME TypeInv, NEW p \in Apps, Step(p)
  PROVE  TypeInv'
  <1>1. /\ MemoryOK'
        /\ regs' = [regs EXCEPT ![p] = regs'[p]]
        /\ regs'[p] \in Registers
        /\ Controlled(p, regs'[p])
    <2>1. CASE Instruction(p)
      BY <2>1, InstructionControlled DEF TypeInv, TypeOK, ControlInv, Controlled, MemoryOK
    <2>2. CASE SysCall(p) \/ SysAtomicPrint(p)
      <3>1. PICK call \in Traps : AtTrap(p, call)
        BY <2>2 DEF SysCall, SysAtomicPrint, Traps
      <3>2. regs' = [regs EXCEPT ![p] = Resume(regs[p])]
        BY <2>2 DEF SysCall, SysAtomicPrint
      <3>3. regs'[p] = Resume(regs[p])
        BY <3>2 DEF TypeInv, TypeOK
      <3>4. MemoryOK'
        <4>1. CASE SysCall(p)
          BY <4>1 DEF SysCall, memory, MemoryOK, TypeInv, TypeOK
        <4>2. CASE SysAtomicPrint(p)
          BY <4>2, KernelPrintType
             DEF SysAtomicPrint, MemoryOK, TypeInv, TypeOK
        <4> QED
          BY <2>2, <4>1, <4>2
      <3> QED
        BY <3>1, <3>2, <3>3, <3>4, ResumeType
    <2> QED
      BY <2>1, <2>2 DEF Step, Instruction
  <1>2. \A q \in Apps : regs'[q] = IF q = p THEN regs'[p] ELSE regs[q]
    BY <1>1 DEF TypeInv, TypeOK
  <1>3. TypeOK'
    BY <1>1, <1>2 DEF TypeInv, TypeOK, MemoryOK
  <1>4. ControlInv'
    BY <1>1, <1>2 DEF TypeInv, ControlInv, Controlled
  <1> QED
    BY <1>3, <1>4 DEF TypeInv

LEMMA NextTypeInv == TypeInv /\ [Next]_vars => TypeInv'
  <1> SUFFICES ASSUME TypeInv, [Next]_vars PROVE TypeInv'
    OBVIOUS
  <1>1. CASE \E p \in Apps : Step(p)
    BY <1>1, StepTypeInv
  <1>2. CASE UNCHANGED vars
    BY <1>2 DEF TypeInv, TypeOK, ControlInv, Controlled, OwesCursor, vars
  <1> QED
    BY <1>1, <1>2 DEF Next, Halted

(* The threads run their programs with registers and memory of the right   *)
(* shape (schedos-1.c), for every number of applications, RUNCOUNT, mix of *)
(* print methods and initial lock word.                                    *)
THEOREM ThreadsTypeOK == Spec => []TypeOK
  <1>1. TypeInv => TypeOK
    BY DEF TypeInv
  <1> QED
    BY InitTypeInv, NextTypeInv, <1>1, PTL DEF Spec

-----------------------------------------------------------------------------

(* A step of one thread leaves the registers of the others alone.          *)
LEMMA StepOthers ==
  ASSUME TypeInv, NEW p \in Apps, Step(p), NEW q \in Apps, q # p
  PROVE  regs'[q] = regs[q]
  BY DEF TypeInv, TypeOK, Step, Instruction, SwapIn, LoadCursor, StoreCursor, StoreCell,
         SwapOut, SysCall, SysAtomicPrint, AtomicSwap

(* A system call is made, and returns, outside the lock.                   *)
LEMMA TrapOutsideLock ==
  ASSUME TypeInv, NEW p \in Apps, SysCall(p) \/ SysAtomicPrint(p)
  PROVE  ~ InLock(p) /\ ~ InLock(p)' /\ UNCHANGED lock
  <1>1. PICK call \in Traps : AtTrap(p, call)
    BY DEF SysCall, SysAtomicPrint, Traps
  <1>2. regs' = [regs EXCEPT ![p] = Resume(regs[p])]
    BY DEF SysCall, SysAtomicPrint
  <1>3. regs'[p] = Resume(regs[p])
    BY <1>2 DEF TypeInv, TypeOK
  <1>4. Resume(regs[p]).eip \notin {"load", "store"}
    BY <1>1, ResumeType
  <1>5. regs[p].eip \notin {"load", "store"}
    BY <1>1 DEF AtTrap, Traps
  <1> QED
    BY <1>3, <1>4, <1>5 DEF InLock, SysCall, SysAtomicPrint, memory

LEMMA StepMutualExclusion ==
  ASSUME TypeInv, MutualExclusion, NEW p \in Apps, Step(p)
  PROVE  MutualExclusion'
  <1>0. \A q \in Apps \ {p} : InLock(q)' <=> InLock(q)
    BY StepOthers DEF InLock
  <1>1. CASE SwapIn(p)
    <2>1. /\ lock' = 1
          /\ ~ InLock(p)
          /\ InLock(p)' => lock = 0
      BY <1>1 DEF SwapIn, InLock, TypeInv, TypeOK, Registers, AtomicSwap
    <2> QED
      BY <1>0, <2>1 DEF MutualExclusion
  <1>2. CASE LoadCursor(p) \/ StoreCursor(p) \/ StoreCell(p)
    <2>1. /\ lock' = lock
          /\ InLock(p)' <=> InLock(p)
      BY <1>2 DEF LoadCursor, StoreCursor, StoreCell, memory, InLock,
                  TypeInv, TypeOK, Registers
    <2> QED
      BY <1>0, <2>1 DEF MutualExclusion
  <1>3. CASE SwapOut(p)
    <2>1. InLock(p) /\ ~ InLock(p)'
      BY <1>3 DEF SwapOut, InLock, TypeInv, TypeOK, Registers, AtomicSwap
    <2> QED
      BY <1>0, <2>1 DEF MutualExclusion
  <1>4. CASE SysCall(p) \/ SysAtomicPrint(p)
    BY <1>0, <1>4, TrapOutsideLock DEF MutualExclusion
  <1> QED
    BY <1>1, <1>2, <1>3, <1>4 DEF Step, Instruction

LEMMA InitRegisters ==
  ASSUME Init
  PROVE  \A p \in Apps : /\ regs[p].eip = "sys_set_priority"
                         /\ regs[p].i = 0
                         /\ regs[p].todo = {}
  BY DEF Init, StartOf

LEMMA InitMutualExclusion == Init => MutualExclusion
  BY InitRegisters DEF MutualExclusion, InLock

LEMMA NextMutualExclusion ==
  TypeInv /\ MutualExclusion /\ [Next]_vars => MutualExclusion'
  <1> SUFFICES ASSUME TypeInv, MutualExclusion, [Next]_vars
               PROVE  MutualExclusion'
    OBVIOUS
  <1>1. CASE \E p \in Apps : Step(p)
    BY <1>1, StepMutualExclusion
  <1>2. CASE UNCHANGED vars
    BY <1>2 DEF MutualExclusion, InLock, vars
  <1> QED
    BY <1>1, <1>2 DEF Next, Halted

(* The spin lock of schedos-1.c excludes, whatever word it starts from and *)
(* whichever applications use it.                                          *)
THEOREM LockExcludes == Spec => []MutualExclusion
  BY InitTypeInv, NextTypeInv, InitMutualExclusion, NextMutualExclusion, PTL
     DEF Spec

-----------------------------------------------------------------------------

LEMMA InitCursorInv == Init => CursorInv
  BY InitRegisters DEF CursorInv, NoStaleCursor, OwesCell, OwesCursor

(* With one print method, who prints through the kernel owes nothing, and  *)
(* no thread owes anything then.                                           *)
LEMMA SysAtomicPrintAlone ==
  ASSUME OneMethod, TypeInv, NEW p \in Apps, SysAtomicPrint(p), NEW q \in Apps
  PROVE  regs[q].eip \notin {"store", "load"}
  BY DEF OneMethod, TypeInv, ControlInv, Controlled, SysAtomicPrint, AtTrap

LEMMA StepCursorInv ==
  ASSUME OneMethod, TypeInv, MutualExclusion, CursorInv, NEW p \in Apps, Step(p)
  PROVE  CursorInv'
  <1>0. /\ \A q \in Apps \ {p} : regs'[q] = regs[q]
        /\ \A q \in Apps : regs[q] \in Registers /\ regs[q].old \in Nat
        /\ cursorpos \in Nat
        /\ DOMAIN regs = Apps
    BY StepOthers DEF TypeInv, TypeOK, Registers
  <1> USE DEF OwesCell, OwesCursor
  <1>1. CASE SwapIn(p) \/ SwapOut(p)
    <2>1. /\ regs'[p].todo = regs[p].todo
          /\ regs'[p].old = regs[p].old
          /\ cursorpos' = cursorpos
      BY <1>0, <1>1 DEF SwapIn, SwapOut, Registers, AtomicSwap
    <2> QED
      BY <1>0, <2>1 DEF CursorInv, NoStaleCursor
  <1>2. CASE LoadCursor(p)
    <2>1. /\ regs'[p].todo = Stores
          /\ regs'[p].old = cursorpos
          /\ cursorpos' = cursorpos
      BY <1>0, <1>2 DEF LoadCursor, memory, Registers
    <2>2. \A q \in Apps \ {p} : "cursor" \notin regs[q].todo
      BY <1>2 DEF LoadCursor, MutualExclusion, InLock, TypeInv, ControlInv, Controlled
    <2> QED
      BY <1>0, <2>1, <2>2 DEF CursorInv, NoStaleCursor, Stores
  <1>3. CASE StoreCursor(p)
    <2>1. /\ regs'[p].todo = regs[p].todo \ {"cursor"}
          /\ regs'[p].old = regs[p].old
          /\ cursorpos' = regs[p].old + 1
          /\ regs[p].old = cursorpos
      BY <1>0, <1>3 DEF StoreCursor, CursorInv, NoStaleCursor, Registers
    <2>2. \A q \in Apps \ {p} : "cursor" \notin regs[q].todo
      BY <1>3 DEF StoreCursor, MutualExclusion, InLock, TypeInv, ControlInv, Controlled
    <2> QED
      BY <1>0, <2>1, <2>2 DEF CursorInv, NoStaleCursor
  <1>4. CASE StoreCell(p)
    <2>1. /\ regs'[p].todo = regs[p].todo \ {"cell"}
          /\ regs'[p].old = regs[p].old
          /\ cursorpos' = cursorpos
      BY <1>0, <1>4 DEF StoreCell, Registers
    <2> QED
      BY <1>0, <2>1 DEF CursorInv, NoStaleCursor
  <1>5. CASE SysCall(p)
    <2>1. regs'[p].todo = {} /\ cursorpos' = cursorpos
      BY <1>0, <1>5, ResumeType DEF SysCall, memory
    <2> QED
      BY <1>0, <2>1 DEF CursorInv, NoStaleCursor
  <1>6. CASE SysAtomicPrint(p)
    <2>1. regs'[p].todo = {} /\ cursorpos' = cursorpos + 1
      BY <1>0, <1>6, ResumeType DEF SysAtomicPrint, KernelPrint, Traps
    <2>2. \A q \in Apps : "cursor" \notin regs[q].todo
      BY <1>6, SysAtomicPrintAlone DEF TypeInv, ControlInv, Controlled
    <2> QED
      BY <1>0, <2>1, <2>2 DEF CursorInv, NoStaleCursor
  <1> QED
    BY <1>1, <1>2, <1>3, <1>4, <1>5, <1>6 DEF Step, Instruction

LEMMA NextCursorInv ==
  OneMethod /\ TypeInv /\ MutualExclusion /\ CursorInv /\ [Next]_vars
    => CursorInv'
  <1> SUFFICES ASSUME OneMethod, TypeInv, MutualExclusion, CursorInv,
                      [Next]_vars
               PROVE  CursorInv'
    OBVIOUS
  <1>1. CASE \E p \in Apps : Step(p)
    BY <1>1, StepCursorInv
  <1>2. CASE UNCHANGED vars
    BY <1>2 DEF CursorInv, NoStaleCursor, OwesCell, OwesCursor, vars
  <1> QED
    BY <1>1, <1>2 DEF Next, Halted

(* No print is lost: the statement that increments cursorpos never works   *)
(* with a stale cursor, nor hits a cell another thread is about to write,  *)
(* if the applications print by one method.                                *)
THEOREM CursorNeverStale ==
  ASSUME OneMethod
  PROVE  Spec => []NoStaleCursor
  <1>1. CursorInv => NoStaleCursor
    BY DEF CursorInv
  <1>2. TypeInv /\ MutualExclusion /\ CursorInv /\ [Next]_vars => CursorInv'
    BY OneMethod, NextCursorInv
  <1> QED
    BY InitTypeInv, NextTypeInv, InitMutualExclusion, NextMutualExclusion,
       InitCursorInv, <1>1, <1>2, PTL DEF Spec

-----------------------------------------------------------------------------
(* Counting prints.                                                        *)

PrintedBy(p) == regs[p].i + IF Counted(p) THEN 1 ELSE 0

(* A step of p prints once or not at all.                                  *)
LEMMA StepPrints ==
  ASSUME TypeInv, NEW p \in Apps, Step(p)
  PROVE  /\ PrintedBy(p) \in Nat
         /\ \A q \in Apps \ {p} : PrintedBy(q)' = PrintedBy(q)
         /\ \/ /\ PrintedBy(p)' = PrintedBy(p)
               /\ UNCHANGED cursorpos
            \/ /\ StoreCursor(p) \/ SysAtomicPrint(p)
               /\ PrintedBy(p) = regs[p].i
               /\ PrintedBy(p) < RUNCOUNT
               /\ PrintedBy(p)' = PrintedBy(p) + 1
  <1>0. /\ regs[p] \in Registers
        /\ regs[p].app = p
        /\ Controlled(p, regs[p])
        /\ DOMAIN regs = Apps
        /\ RUNCOUNT \in Nat
        /\ regs[p].i \in Nat
    BY UserCodeAssumption DEF TypeInv, TypeOK, ControlInv, Controlled, Registers
  <1> USE DEF PrintedBy, Counted, OwesCursor
  <1>1. \A q \in Apps \ {p} : PrintedBy(q)' = PrintedBy(q)
    BY StepOthers
  <1>2. PrintedBy(p) \in Nat
    BY <1>0
  <1>3. CASE SwapIn(p)
    BY <1>0, <1>1, <1>2, <1>3 DEF SwapIn, Registers, AtomicSwap
  <1>4. CASE LoadCursor(p)
    BY <1>0, <1>1, <1>2, <1>4 DEF LoadCursor, Registers, Stores, memory
  <1>5. CASE StoreCell(p)
    BY <1>0, <1>1, <1>2, <1>5 DEF StoreCell, Registers
  <1>6. CASE SwapOut(p)
    BY <1>0, <1>1, <1>2, <1>6 DEF SwapOut, Registers, AtomicSwap
  <1>7. CASE StoreCursor(p)
    <2>1. /\ regs[p].eip = "store"
          /\ "cursor" \in regs[p].todo
          /\ regs'[p] = [regs[p] EXCEPT !.todo = @ \ {"cursor"}]
          /\ regs[p].i < RUNCOUNT
      BY <1>0, <1>7 DEF StoreCursor, Registers, Controlled, LoopLabels
    <2> QED
      BY <1>0, <1>1, <1>2, <1>7, <2>1 DEF Registers
  <1>8. CASE SysAtomicPrint(p)
    <2>1. /\ regs[p].eip = "sys_atomic_print"
          /\ regs'[p] = [regs[p] EXCEPT !.eip = "sys_yield"]
          /\ regs[p].i < RUNCOUNT
      BY <1>0, <1>8 DEF SysAtomicPrint, AtTrap, Resume, Registers,
                        Controlled, LoopLabels
    <2> QED
      BY <1>0, <1>1, <1>2, <1>8, <2>1 DEF Registers
  <1>9. CASE SysCall(p)
    <2>1. PICK call \in Traps \ {"sys_atomic_print"} : AtTrap(p, call)
      BY <1>9 DEF SysCall
    <2>2. /\ regs[p].eip = call
          /\ regs'[p] = Resume(regs[p])
          /\ UNCHANGED cursorpos
      BY <1>0, <1>9, <2>1 DEF SysCall, AtTrap, memory
    <2>3. \A n : LoopTop(p, n) \notin {"store", "sys_yield"}
      BY DEF LoopTop
    <2>4. PrintedBy(p)' = PrintedBy(p)
      <3>1. CASE call \in {"sys_set_priority", "sys_set_share", "sys_exit"}
        BY <1>0, <2>2, <3>1 DEF Resume, Registers
      <3>2. CASE call = "sys_set_lottery_tickets"
        <4>1. regs'[p] = [regs[p] EXCEPT !.eip = LoopTop(p, regs[p].i)]
          BY <1>0, <2>2, <3>2 DEF Resume
        <4> QED
          BY <1>0, <2>2, <2>3, <3>2, <4>1 DEF Registers
      <3>3. CASE call = "sys_yield"
        <4>1. regs'[p] = [regs[p] EXCEPT !.eip = LoopTop(p, regs[p].i + 1),
                                         !.i = @ + 1]
          BY <1>0, <2>2, <3>3 DEF Resume
        <4>2. /\ regs'[p].i = regs[p].i + 1
              /\ regs'[p].eip = LoopTop(p, regs[p].i + 1)
          BY <1>0, <4>1 DEF Registers
        <4> QED
          BY <1>0, <2>2, <2>3, <3>3, <4>2
      <3> QED
        BY <2>1, <3>1, <3>2, <3>3 DEF Traps
    <2> QED
      BY <1>1, <1>2, <2>2, <2>4
  <1> QED
    BY <1>3, <1>4, <1>5, <1>6, <1>7, <1>8, <1>9 DEF Step, Instruction

(* The places on the console that the prints so far were entitled to.      *)
Slots == {slot \in Apps \X (0 .. RUNCOUNT - 1) : slot[2] < PrintedBy(slot[1])}

LEMMA SlotsBound ==
  /\ IsFiniteSet(Slots)
  /\ Cardinality(Slots) \in Nat
  /\ Cardinality(Slots) <= RUNCOUNT * (NPROCS - 1)
  <1> DEFINE All == Apps \X (0 .. RUNCOUNT - 1)
  <1>1. IsFiniteSet(Apps) /\ Cardinality(Apps) = NPROCS - 1
    BY FS_Interval, NPROCSAssumption DEF Apps
  <1>2. IsFiniteSet(0 .. RUNCOUNT - 1) /\ Cardinality(0 .. RUNCOUNT - 1) = RUNCOUNT
    BY FS_Interval, UserCodeAssumption
  <1>3. IsFiniteSet(All) /\ Cardinality(All) = (NPROCS - 1) * RUNCOUNT
    BY <1>1, <1>2, FS_Product, ZenonT(30)
  <1>4. Slots \in SUBSET All
    BY DEF Slots
  <1> HIDE DEF All
  <1>5. IsFiniteSet(Slots) /\ Cardinality(Slots) <= Cardinality(All)
    BY <1>3, <1>4, FS_Subset
  <1>6. (NPROCS - 1) * RUNCOUNT = RUNCOUNT * (NPROCS - 1)
    BY NPROCSAssumption, UserCodeAssumption
  <1> QED
    BY <1>3, <1>5, <1>6, FS_CardinalityType

(* The cursor has passed at most as many cells as there were prints; a     *)
(* thread that owes its cursor store has read such a position, and its     *)
(* print is still to be counted.                                           *)
BoundInv ==
  /\ cursorpos <= Cardinality(Slots)
  /\ \A p \in Apps : OwesCursor(p) => regs[p].old <= Cardinality(Slots)

LEMMA StepBoundInv ==
  ASSUME TypeInv, BoundInv, NEW p \in Apps, Step(p)
  PROVE  BoundInv'
  <1>0. /\ \A q \in Apps \ {p} : regs'[q] = regs[q]
        /\ \A q \in Apps : regs[q] \in Registers /\ regs[q].old \in Nat
        /\ DOMAIN regs = Apps
        /\ cursorpos \in Nat
        /\ Cardinality(Slots) \in Nat
    BY StepOthers, SlotsBound DEF TypeInv, TypeOK, Registers
  <1>1. ASSUME PrintedBy(p)' = PrintedBy(p) PROVE Slots' = Slots
    BY <1>1, StepPrints DEF Slots
  <1>2. ASSUME PrintedBy(p) < RUNCOUNT, PrintedBy(p)' = PrintedBy(p) + 1
        PROVE  Cardinality(Slots') = Cardinality(Slots) + 1
    <2> DEFINE slot == <<p, PrintedBy(p)>>
    <2>1. PrintedBy(p) \in Nat /\ \A q \in Apps \ {p} : PrintedBy(q)' = PrintedBy(q)
      BY StepPrints
    <2>2. Slots' = Slots \cup {slot}
      <3>1. ASSUME NEW s \in Apps \X (0 .. RUNCOUNT - 1)
            PROVE  s[2] < PrintedBy(s[1])' <=> s[2] < PrintedBy(s[1]) \/ s = slot
        BY <1>2, <2>1
      <3>2. slot \in Apps \X (0 .. RUNCOUNT - 1)
        BY <1>2, <2>1, UserCodeAssumption
      <3> HIDE DEF slot
      <3>3. Slots' = {s \in Apps \X (0 .. RUNCOUNT - 1) : s[2] < PrintedBy(s[1])'}
        BY DEF Slots
      <3> QED
        BY <3>1, <3>2, <3>3 DEF Slots
    <2>3. slot \notin Slots
      BY <2>1 DEF Slots
    <2> HIDE DEF slot
    <2> QED
      BY <2>2, <2>3, SlotsBound, FS_AddElement
  <1>3. CASE PrintedBy(p)' = PrintedBy(p) /\ UNCHANGED cursorpos
    <2>1. OwesCursor(p)' => regs'[p].old = cursorpos
                            \/ (OwesCursor(p) /\ regs'[p].old = regs[p].old)
      <3>1. CASE SwapIn(p) \/ StoreCursor(p) \/ StoreCell(p) \/ SwapOut(p)
        BY <1>0, <3>1 DEF SwapIn, StoreCursor, StoreCell, SwapOut, OwesCursor,
                          Registers, AtomicSwap
      <3>2. CASE LoadCursor(p)
        BY <1>0, <3>2 DEF LoadCursor, Registers
      <3>3. CASE SysCall(p) \/ SysAtomicPrint(p)
        <4>1. PICK call \in Traps : AtTrap(p, call)
          BY <3>3 DEF SysCall, SysAtomicPrint, Traps
        <4>2. regs'[p].todo = {}
          BY <1>0, <3>3, <4>1, ResumeType DEF SysCall, SysAtomicPrint
        <4> QED
          BY <4>2 DEF OwesCursor
      <3> QED
        BY <3>1, <3>2, <3>3 DEF Step, Instruction
    <2> QED
      BY <1>0, <1>1, <1>3, <2>1 DEF BoundInv, OwesCursor
  <1>4. CASE /\ PrintedBy(p) < RUNCOUNT
             /\ PrintedBy(p)' = PrintedBy(p) + 1
             /\ StoreCursor(p)
    <2>1. /\ cursorpos' = regs[p].old + 1
          /\ OwesCursor(p)
          /\ ~ OwesCursor(p)'
      BY <1>0, <1>4 DEF StoreCursor, OwesCursor, Registers
    <2> QED
      BY <1>0, <1>2, <1>4, <2>1 DEF BoundInv, OwesCursor
  <1>5. CASE /\ PrintedBy(p) < RUNCOUNT
             /\ PrintedBy(p)' = PrintedBy(p) + 1
             /\ SysAtomicPrint(p)
    <2>1. /\ cursorpos' = cursorpos + 1
          /\ ~ OwesCursor(p)'
      BY <1>0, <1>5, ResumeType
         DEF SysAtomicPrint, KernelPrint, OwesCursor, Traps
    <2> QED
      BY <1>0, <1>2, <1>5, <2>1 DEF BoundInv, OwesCursor
  <1> QED
    BY <1>3, <1>4, <1>5, StepPrints

(* No print lies beyond cell RUNCOUNT * (NPROCS - 1): cursorpos, which     *)
(* nothing wraps, stays on the console (schedos-1.c; schedos-kern.c,       *)
(* INT_SYS_ATOMIC_PRINT), even if the print methods are mixed.             *)
THEOREM CursorIsBounded == Spec => []CursorBound
  <1>1. Init => BoundInv
    <2> SUFFICES ASSUME Init PROVE BoundInv
      OBVIOUS
    <2> QED
      BY InitRegisters, SlotsBound DEF Init, BoundInv, OwesCursor
  <1>2. TypeInv /\ BoundInv /\ [Next]_vars => BoundInv'
    <2> SUFFICES ASSUME TypeInv, BoundInv, [Next]_vars PROVE BoundInv'
      OBVIOUS
    <2>1. CASE \E p \in Apps : Step(p)
      BY <2>1, StepBoundInv
    <2>2. CASE UNCHANGED vars
      BY <2>2 DEF BoundInv, Slots, PrintedBy, Counted, OwesCursor, vars
    <2> QED
      BY <2>1, <2>2 DEF Next, Halted
  <1>3. TypeInv /\ BoundInv => CursorBound
    BY SlotsBound, NPROCSAssumption, UserCodeAssumption
       DEF TypeInv, TypeOK, BoundInv, CursorBound
  <1> QED
    BY InitTypeInv, NextTypeInv, <1>1, <1>2, <1>3, PTL DEF Spec

-----------------------------------------------------------------------------
(* The refinement: the racy print under the lock, or the kernel's print,   *)
(* is one append to the log.                                               *)

LEMMA InitConsoleInv == Init => ConsoleInv
  <1> SUFFICES ASSUME Init PROVE ConsoleInv
    OBVIOUS
  <1>1. 0 .. cursorpos - 1 = {}
    BY DEF Init
  <1>2. \A p \in Apps : ~ OwesCursor(p)
    BY InitRegisters DEF OwesCursor
  <1> QED
    BY <1>1, <1>2 DEF ConsoleInv

LEMMA StepConsoleInv ==
  ASSUME OneMethod, IInv, NEW p \in Apps, Step(p)
  PROVE  ConsoleInv'
  <1>0. /\ \A q \in Apps \ {p} : regs'[q] = regs[q]
        /\ \A q \in Apps : regs[q] \in Registers /\ regs[q].old \in Nat
        /\ \A q \in Apps : regs[q].app = q
        /\ cursorpos \in Nat
        /\ DOMAIN regs = Apps
    BY StepOthers DEF IInv, TypeInv, TypeOK, ControlInv, Controlled, Registers
  <1> USE DEF OwesCell, OwesCursor
  <1>1. CASE SwapIn(p) \/ SwapOut(p)
    <2>1. /\ regs'[p].todo = regs[p].todo
          /\ regs'[p].old = regs[p].old
          /\ UNCHANGED <<cursorpos, console>>
      BY <1>0, <1>1 DEF SwapIn, SwapOut, Registers, AtomicSwap
    <2> QED
      BY <1>0, <2>1 DEF IInv, ConsoleInv
  <1>2. CASE LoadCursor(p)
    <2>1. /\ regs[p].todo = {}
          /\ regs'[p].todo = Stores
          /\ UNCHANGED <<cursorpos, console>>
      BY <1>0, <1>2 DEF LoadCursor, memory, Registers, IInv, ControlInv, Controlled
    <2> QED
      BY <1>0, <2>1 DEF IInv, ConsoleInv, Stores
  <1>3. CASE StoreCursor(p)
    <2>1. /\ "cursor" \in regs[p].todo
          /\ regs'[p].todo = regs[p].todo \ {"cursor"}
          /\ regs'[p].old = regs[p].old
          /\ cursorpos' = cursorpos + 1
          /\ regs[p].old = cursorpos
          /\ UNCHANGED console
      BY <1>0, <1>3 DEF StoreCursor, IInv, CursorInv, NoStaleCursor, Registers
    <2>2. ASSUME NEW c \in 0 .. cursorpos' - 1
          PROVE  \/ c \in DOMAIN console'
                 \/ \E q \in Apps : OwesCell(q)' /\ regs'[q].old = c
      <3>1. c = cursorpos \/ c \in 0 .. cursorpos - 1
        BY <1>0, <2>1
      <3> QED
        BY <1>0, <2>1, <3>1 DEF IInv, ConsoleInv
    <2> QED
      BY <1>0, <2>1, <2>2 DEF IInv, ConsoleInv
  <1>4. CASE StoreCell(p)
    <2>1. /\ "cell" \in regs[p].todo
          /\ regs'[p].todo = regs[p].todo \ {"cell"}
          /\ regs'[p].old = regs[p].old
          /\ UNCHANGED cursorpos
          /\ Write(regs[p].old, PRINTCHAR[p])
      BY <1>0, <1>4 DEF StoreCell, Registers
    <2>2. ASSUME NEW q \in Apps, OwesCursor(q)', ~ OwesCell(q)'
          PROVE  /\ regs'[q].old \in DOMAIN console'
                 /\ console'[regs'[q].old] = PRINTCHAR[q]
      <3>1. CASE q = p
        BY <2>1, <3>1, WriteCell
      <3>2. CASE q # p
        <4>1. /\ "cursor" \in regs[q].todo
              /\ "cell" \notin regs[q].todo
              /\ regs'[q].old = regs[q].old
          BY <1>0, <2>2, <3>2
        <4>2. regs[q].old = cursorpos /\ "cursor" \notin regs[p].todo
          BY <4>1, <3>2 DEF IInv, CursorInv, NoStaleCursor, ControlInv, Controlled,
                            MutualExclusion, InLock
        <4>3. regs[p].old < cursorpos
          BY <2>1, <4>2 DEF IInv, CursorInv
        <4> QED
          BY <1>0, <2>1, <4>1, <4>2, <4>3, WriteCell DEF IInv, ConsoleInv
      <3> QED
        BY <3>1, <3>2
    <2>3. ASSUME NEW c \in 0 .. cursorpos' - 1
          PROVE  \/ c \in DOMAIN console'
                 \/ \E q \in Apps : OwesCell(q)' /\ regs'[q].old = c
      BY <1>0, <2>1, WriteCell DEF IInv, ConsoleInv
    <2> QED
      BY <2>2, <2>3 DEF ConsoleInv
  <1>5. CASE SysCall(p)
    <2>1. /\ regs[p].todo = {}
          /\ regs'[p].todo = {}
          /\ UNCHANGED <<cursorpos, console>>
      BY <1>0, <1>5, ResumeType DEF SysCall, memory, AtTrap, IInv, TypeInv
    <2> QED
      BY <1>0, <2>1 DEF IInv, ConsoleInv
  <1>6. CASE SysAtomicPrint(p)
    <2>1. /\ cursorpos' = cursorpos + 1
          /\ Write(cursorpos, CharCast(PRINTCHAR[p]))
          /\ regs[p].todo = {}
          /\ regs'[p].todo = {}
      BY <1>0, <1>6, ResumeType
         DEF SysAtomicPrint, KernelPrint, Traps, AtTrap, IInv, TypeInv
    <2>2. \A q \in Apps : ~ OwesCursor(q)'
      BY <1>0, <1>6, <2>1, SysAtomicPrintAlone DEF IInv, TypeInv, ControlInv, Controlled
    <2>3. ASSUME NEW c \in 0 .. cursorpos' - 1
          PROVE  \/ c \in DOMAIN console'
                 \/ \E q \in Apps : OwesCell(q)' /\ regs'[q].old = c
      <3>1. c = cursorpos \/ c \in 0 .. cursorpos - 1
        BY <1>0, <2>1
      <3> QED
        BY <1>0, <2>1, <3>1, WriteCell DEF IInv, ConsoleInv
    <2> QED
      BY <2>2, <2>3 DEF ConsoleInv
  <1> QED
    BY <1>1, <1>2, <1>3, <1>4, <1>5, <1>6 DEF Step, Instruction

LEMMA InitIInv == Init => IInv
  BY InitTypeInv, InitMutualExclusion, InitCursorInv, InitConsoleInv
     DEF IInv, TypeInv

LEMMA NextIInv == OneMethod /\ IInv /\ [Next]_vars => IInv'
  <1> SUFFICES ASSUME OneMethod, IInv, [Next]_vars PROVE IInv'
    OBVIOUS
  <1>1. TypeInv' /\ MutualExclusion' /\ CursorInv'
    BY NextTypeInv, NextMutualExclusion, NextCursorInv DEF IInv, TypeInv
  <1>2. ConsoleInv'
    <2>1. CASE \E p \in Apps : Step(p)
      BY <2>1, StepConsoleInv
    <2>2. CASE UNCHANGED vars
      BY <2>2 DEF IInv, ConsoleInv, OwesCell, OwesCursor, vars
    <2> QED
      BY <2>1, <2>2 DEF Next, Halted
  <1> QED
    BY <1>1, <1>2 DEF IInv, TypeInv

(* The inductive invariant of the threads' printing holds.                 *)
THEOREM ThreadsIInv ==
  ASSUME OneMethod
  PROVE  Spec => []IInv
  <1>1. IInv /\ [Next]_vars => IInv'
    BY OneMethod, NextIInv
  <1> QED
    BY InitIInv, <1>1, PTL DEF Spec

(* No cell is written above the cursor but the one whose writer is about   *)
(* to move the cursor past it.                                             *)
NothingAbove ==
  \A c \in DOMAIN console :
    \/ c < cursorpos
    \/ \E p \in Apps : OwesCursor(p) /\ ~ OwesCell(p) /\ regs[p].old = c

LEMMA StepNothingAbove ==
  ASSUME OneMethod, IInv, NothingAbove, NEW p \in Apps, Step(p)
  PROVE  NothingAbove'
  <1>0. /\ \A q \in Apps \ {p} : regs'[q] = regs[q]
        /\ \A q \in Apps : regs[q] \in Registers /\ regs[q].old \in Nat
        /\ cursorpos \in Nat /\ DOMAIN console \subseteq Nat
        /\ DOMAIN regs = Apps
    BY StepOthers DEF IInv, TypeInv, TypeOK, ControlInv, Controlled, Registers
  <1> USE DEF OwesCell, OwesCursor
  <1>1. CASE SwapIn(p) \/ SwapOut(p) \/ LoadCursor(p) \/ SysCall(p)
    <2>1. UNCHANGED <<cursorpos, console>>
      BY <1>1 DEF SwapIn, SwapOut, LoadCursor, SysCall, memory
    <2>2. OwesCursor(p) /\ ~ OwesCell(p) =>
            OwesCursor(p)' /\ ~ OwesCell(p)' /\ regs'[p].old = regs[p].old
      BY <1>0, <1>1
         DEF SwapIn, SwapOut, LoadCursor, SysCall, AtTrap, Traps, Registers,
             IInv, ControlInv, Controlled
    <2> QED
      BY <1>0, <2>1, <2>2 DEF NothingAbove
  <1>2. CASE StoreCursor(p)
    <2>1. /\ regs[p].old = cursorpos
          /\ cursorpos' = cursorpos + 1
          /\ UNCHANGED console
      BY <1>0, <1>2 DEF StoreCursor, IInv, CursorInv, NoStaleCursor
    <2>2. ASSUME NEW c \in DOMAIN console,
                 NEW q \in Apps, OwesCursor(q), ~ OwesCell(q), regs[q].old = c
          PROVE  c < cursorpos'
      BY <1>0, <2>1, <2>2 DEF IInv, CursorInv, NoStaleCursor
    <2>3. \A c \in DOMAIN console : c < cursorpos => c < cursorpos'
      BY <1>0, <2>1
    <2> QED
      BY <2>1, <2>2, <2>3 DEF NothingAbove
  <1>3. CASE StoreCell(p)
    <2>1. /\ Write(regs[p].old, PRINTCHAR[regs[p].app])
          /\ UNCHANGED cursorpos
          /\ "cell" \in regs[p].todo
          /\ regs'[p].todo = regs[p].todo \ {"cell"}
          /\ regs'[p].old = regs[p].old
      BY <1>0, <1>3 DEF StoreCell, Registers
    <2>2. DOMAIN console' \subseteq DOMAIN console \cup {regs[p].old}
      BY <2>1, WriteCell
    <2>3. \/ regs[p].old < cursorpos'
          \/ OwesCursor(p)' /\ ~ OwesCell(p)' /\ regs'[p].old = regs[p].old
      BY <2>1 DEF IInv, CursorInv
    <2>4. ASSUME NEW c \in DOMAIN console,
                 NEW q \in Apps, OwesCursor(q), ~ OwesCell(q), regs[q].old = c
          PROVE  OwesCursor(q)' /\ ~ OwesCell(q)' /\ regs'[q].old = c
      BY <1>0, <2>1, <2>4
    <2> QED
      BY <2>1, <2>2, <2>3, <2>4 DEF NothingAbove
  <1>4. CASE SysAtomicPrint(p)
    <2>1. /\ cursorpos' = cursorpos + 1
          /\ Write(cursorpos, CharCast(PRINTCHAR[regs[p].app]))
      BY <1>4 DEF SysAtomicPrint, KernelPrint
    <2>2. DOMAIN console' \subseteq DOMAIN console \cup {cursorpos}
      BY <2>1, WriteCell
    <2>3. \A q \in Apps : ~ OwesCursor(q)
      BY <1>4, SysAtomicPrintAlone DEF IInv, TypeInv, ControlInv, Controlled
    <2> QED
      BY <1>0, <2>1, <2>2, <2>3 DEF NothingAbove
  <1> QED
    BY <1>1, <1>2, <1>3, <1>4 DEF Step, Instruction

LEMMA ThreadsNothingAbove ==
  ASSUME OneMethod
  PROVE  Spec => []NothingAbove
  <1>1. Init => NothingAbove
    BY DEF Init, NothingAbove
  <1>2. IInv /\ NothingAbove /\ [Next]_vars => NothingAbove'
    <2> SUFFICES ASSUME IInv, NothingAbove, [Next]_vars PROVE NothingAbove'
      OBVIOUS
    <2>1. CASE UNCHANGED vars
      BY <2>1 DEF NothingAbove, OwesCell, OwesCursor, vars
    <2> QED
      BY <2>1, OneMethod, StepNothingAbove DEF Next, Halted
  <1>3. Spec => []IInv
    BY OneMethod, ThreadsIInv
  <1> QED
    BY <1>1, <1>2, <1>3, PTL DEF Spec

-----------------------------------------------------------------------------

Owed(c) == \E p \in Apps : OwesCell(p) /\ regs[p].old = c

(* A cell has at most one thread that owes it: its value in the log.       *)
LEMMA OwedCell ==
  ASSUME CursorInv, NEW c, NEW p \in Apps, OwesCell(p), regs[p].old = c
  PROVE  CellOf(c) = PRINTCHAR[p]
  <1> DEFINE q == CHOOSE q \in Apps : OwesCell(q) /\ regs[q].old = c
  <1>1. q \in Apps /\ OwesCell(q) /\ regs[q].old = c
    OBVIOUS
  <1>2. q = p
    BY <1>1 DEF CursorInv, NoStaleCursor
  <1> QED
    BY <1>2 DEF CellOf

LEMMA OwedCellNext ==
  ASSUME CursorInv', NEW c, NEW p \in Apps, OwesCell(p)', regs'[p].old = c
  PROVE  CellOf(c)' = PRINTCHAR[p]
  <1> USE DEF OwesCell
  <1> DEFINE q == CHOOSE q \in Apps : "cell" \in regs'[q].todo /\ regs'[q].old = c
  <1>1. q \in Apps /\ "cell" \in regs'[q].todo /\ regs'[q].old = c
    OBVIOUS
  <1>2. q = p
    BY <1>1 DEF CursorInv, NoStaleCursor
  <1> QED
    BY <1>2 DEF CellOf

LEMMA WrittenCell ==
  ASSUME NEW c
  PROVE  /\ c \in DOMAIN console /\ ~ Owed(c) => CellOf(c) = console[c]
         /\ c \in DOMAIN console' /\ ~ Owed(c)' => CellOf(c)' = console'[c]
  BY DEF Owed, CellOf, Cell

(* No step changes what the log holds below the cursor.                    *)
LEMMA LogStays ==
  ASSUME OneMethod, IInv, IInv', NEW p \in Apps, Step(p),
         NEW c \in 0 .. cursorpos - 1
  PROVE  CellOf(c)' = CellOf(c)
  <1>0. /\ \A q \in Apps \ {p} : regs'[q] = regs[q]
        /\ \A q \in Apps : regs[q] \in Registers /\ regs[q].old \in Nat
        /\ \A q \in Apps : regs[q].app = q
        /\ cursorpos \in Nat
        /\ DOMAIN regs = Apps
    BY StepOthers DEF IInv, TypeInv, TypeOK, ControlInv, Controlled, Registers
  <1>1. CursorInv /\ CursorInv'
    BY DEF IInv
  <1> USE DEF OwesCell
  <1>2. CASE StoreCell(p)
    <2>1. /\ OwesCell(p)
          /\ regs'[p].todo = regs[p].todo \ {"cell"}
          /\ regs'[p].old = regs[p].old
          /\ Write(regs[p].old, PRINTCHAR[p])
      BY <1>0, <1>2 DEF StoreCell, Registers
    <2>2. CASE c = regs[p].old
      <3>1. ~ Owed(c)'
        BY <1>0, <1>1, <2>1, <2>2 DEF Owed, CursorInv, NoStaleCursor
      <3>2. c \in DOMAIN console' /\ console'[c] = PRINTCHAR[p]
        BY <2>1, <2>2, WriteCell
      <3>3. CellOf(c) = PRINTCHAR[p]
        BY <1>1, <2>1, <2>2, OwedCell
      <3> QED
        BY <3>1, <3>2, <3>3, WrittenCell
    <2>3. CASE c # regs[p].old /\ Owed(c)
      <3>1. PICK q \in Apps : OwesCell(q) /\ regs[q].old = c
        BY <2>3 DEF Owed
      <3>2. q # p /\ OwesCell(q)' /\ regs'[q].old = c
        BY <1>0, <2>3, <3>1
      <3> QED
        BY <1>1, <3>1, <3>2, OwedCell, OwedCellNext
    <2>4. CASE c # regs[p].old /\ ~ Owed(c)
      <3>1. ~ Owed(c)'
        BY <1>0, <2>1, <2>4 DEF Owed
      <3>2. c \in DOMAIN console
        BY <2>4 DEF Owed, IInv, ConsoleInv
      <3>3. c \in DOMAIN console' /\ console'[c] = console[c]
        BY <2>1, <2>4, <3>2, WriteCell
      <3> QED
        BY <2>4, <3>1, <3>2, <3>3, WrittenCell
    <2> QED
      BY <2>2, <2>3, <2>4
  <1>3. CASE ~ StoreCell(p)
    <2>1. OwesCell(p)' /\ regs'[p].old = c <=> OwesCell(p) /\ regs[p].old = c
      <3>1. CASE LoadCursor(p)
        <4>1. regs'[p].old = cursorpos /\ regs[p].todo = {}
          BY <1>0, <3>1 DEF LoadCursor, Registers, IInv, ControlInv, Controlled
        <4> QED
          BY <1>0, <4>1
      <3>2. CASE SysCall(p) \/ SysAtomicPrint(p)
        <4>1. PICK call \in Traps : AtTrap(p, call)
          BY <3>2 DEF SysCall, SysAtomicPrint, Traps
        <4>2. regs[p].todo = {} /\ regs'[p].todo = {}
          BY <1>0, <3>2, <4>1, ResumeType
             DEF SysCall, SysAtomicPrint, AtTrap, IInv, TypeInv
        <4> QED
          BY <4>2
      <3>3. CASE SwapIn(p) \/ StoreCursor(p) \/ SwapOut(p)
        BY <1>0, <3>3 DEF SwapIn, StoreCursor, SwapOut, Registers, AtomicSwap
      <3> QED
        BY <1>3, <3>1, <3>2, <3>3 DEF Step, Instruction
    <2>2. CASE Owed(c)
      <3>1. PICK q \in Apps : OwesCell(q) /\ regs[q].old = c
        BY <2>2 DEF Owed
      <3>2. OwesCell(q)' /\ regs'[q].old = c
        BY <1>0, <2>1, <3>1
      <3> QED
        BY <1>1, <3>1, <3>2, OwedCell, OwedCellNext
    <2>3. CASE ~ Owed(c)
      <3>1. ~ Owed(c)'
        BY <1>0, <2>1, <2>3 DEF Owed
      <3>2. c \in DOMAIN console
        BY <2>3 DEF Owed, IInv, ConsoleInv
      <3>3. c \in DOMAIN console' /\ console'[c] = console[c]
        <4>1. CASE SysAtomicPrint(p)
          BY <1>0, <3>2, <4>1, WriteCell DEF SysAtomicPrint, KernelPrint
        <4>2. CASE ~ SysAtomicPrint(p)
          BY <1>3, <3>2, <4>2 DEF Step, Instruction, SwapIn, LoadCursor, StoreCursor, SwapOut,
                            SysCall, memory, AtomicSwap
        <4> QED
          BY <4>1, <4>2
      <3> QED
        BY <2>3, <3>1, <3>2, <3>3, WrittenCell
    <2> QED
      BY <2>2, <2>3
  <1> QED
    BY <1>2, <1>3

-----------------------------------------------------------------------------

(* Steps that print nothing leave the log, the others append to it.        *)
LEMMA LogSame ==
  ASSUME OneMethod, IInv, IInv', NEW p \in Apps, Step(p), UNCHANGED cursorpos
  PROVE  log' = log
  <1>1. cursorpos \in Nat
    BY DEF IInv, TypeOK
  <1>2. \A k \in 1 .. cursorpos : k - 1 \in 0 .. cursorpos - 1
    BY <1>1
  <1>3. \A k \in 1 .. cursorpos : CellOf(k - 1)' = CellOf(k - 1)
    BY <1>2, LogStays
  <1> QED
    BY <1>3 DEF log

LEMMA AppendAsFunction ==
  ASSUME NEW n \in Nat, NEW f, DOMAIN f = 1 .. n, f = [k \in 1 .. n |-> f[k]],
         NEW x
  PROVE  Append(f, x) = [k \in 1 .. n + 1 |-> IF k = n + 1 THEN x ELSE f[k]]
  <1> DEFINE S == {f[k] : k \in 1 .. n} \cup {x}
  <1>1. f \in [1 .. n -> S]
    OBVIOUS
  <1>2. f \in Seq(S)
    BY <1>1, SeqDef
  <1>3. Len(f) = n
    BY <1>1, <1>2, LenProperties
  <1>4. /\ Append(f, x) \in Seq(S)
        /\ Len(Append(f, x)) = n + 1
        /\ \A k \in 1 .. n : Append(f, x)[k] = f[k]
        /\ Append(f, x)[n + 1] = x
    BY <1>2, <1>3, AppendProperties
  <1>5. Append(f, x) \in [1 .. n + 1 -> S]
    BY <1>4, LenProperties
  <1> HIDE DEF S
  <1>6. \A k \in 1 .. n + 1 :
          Append(f, x)[k] = IF k = n + 1 THEN x ELSE f[k]
    BY <1>4
  <1> QED
    BY <1>5, <1>6

LEMMA LogAppend ==
  ASSUME OneMethod, IInv, IInv', NEW p \in Apps, Step(p),
         cursorpos' = cursorpos + 1,
         NEW c, c = cursorpos, NEW x, CellOf(c)' = x
  PROVE  log' = Append(log, x)
  <1>1. cursorpos \in Nat
    BY DEF IInv, TypeOK
  <1>2. \A k \in 1 .. cursorpos : k - 1 \in 0 .. cursorpos - 1
    BY <1>1
  <1>3. \A k \in 1 .. cursorpos : CellOf(k - 1)' = CellOf(k - 1)
    BY <1>2, LogStays
  <1>4. Append(log, x) = [k \in 1 .. cursorpos + 1 |->
                            IF k = cursorpos + 1 THEN x ELSE log[k]]
    BY <1>1, AppendAsFunction DEF log
  <1>5. log' = [k \in 1 .. cursorpos + 1 |-> CellOf(k - 1)']
    BY DEF log
  <1>6. \A k \in 1 .. cursorpos + 1 :
          CellOf(k - 1)' = IF k = cursorpos + 1 THEN x ELSE log[k]
    <2> SUFFICES ASSUME NEW k \in 1 .. cursorpos + 1
                 PROVE  CellOf(k - 1)' = IF k = cursorpos + 1 THEN x ELSE log[k]
      OBVIOUS
    <2>1. CASE k = cursorpos + 1
      <3>1. k - 1 = c
        BY <1>1, <2>1
      <3> QED
        BY <2>1, <3>1
    <2>2. CASE k # cursorpos + 1
      <3>1. k \in 1 .. cursorpos
        BY <1>1, <2>2
      <3> QED
        BY <1>3, <2>2, <3>1 DEF log
    <2> QED
      BY <2>1, <2>2
  <1> QED
    BY <1>4, <1>5, <1>6

-----------------------------------------------------------------------------

(* A step of p changes the abstract state of p only.                       *)
LEMMA OthersAbstract ==
  ASSUME TypeInv, NEW p \in Apps, Step(p)
  PROVE  /\ printed' = [printed EXCEPT ![p] = PrintedBy(p)']
         /\ exited' = IF regs'[p].eip = "halted" THEN exited \cup {p}
                      ELSE exited \ {p}
  <1>1. \A q \in Apps \ {p} : regs'[q] = regs[q]
    BY StepOthers
  <1>2. \A q \in Apps \ {p} : PrintedBy(q)' = PrintedBy(q)
    BY <1>1 DEF PrintedBy, Counted, OwesCursor
  <1>3. printed' = [q \in Apps |-> PrintedBy(q)']
    BY DEF printed, PrintedBy
  <1>4. printed = [q \in Apps |-> PrintedBy(q)]
    BY DEF printed, PrintedBy
  <1>5. printed' = [printed EXCEPT ![p] = PrintedBy(p)']
    BY <1>2, <1>3, <1>4
  <1>6. exited' = IF regs'[p].eip = "halted" THEN exited \cup {p}
                  ELSE exited \ {p}
    BY <1>1 DEF exited
  <1> QED
    BY <1>5, <1>6

(* Such a step stutters if p's part stays too ...                          *)
LEMMA AbstractStutter ==
  ASSUME TypeInv, NEW p \in Apps, Step(p),
         log' = log, PrintedBy(p)' = PrintedBy(p),
         regs'[p].eip = "halted" <=> regs[p].eip = "halted"
  PROVE  UNCHANGED <<log, printed, exited>>
  <1>1. printed[p] = PrintedBy(p) /\ DOMAIN printed = Apps
    BY DEF printed, PrintedBy
  <1>2. printed' = printed
    <2>1. \A q \in Apps : printed'[q] = printed[q]
      BY <1>1, OthersAbstract
    <2> QED
      BY <2>1 DEF printed
  <1>3. exited' = exited
    BY OthersAbstract DEF exited
  <1> QED
    BY <1>2, <1>3

(* ... and prints if p's count goes up with the log.                       *)
LEMMA AbstractPrint ==
  ASSUME TypeInv, NEW p \in Apps, Step(p),
         log' = Append(log, Shown(p)),
         PrintedBy(p) < RUNCOUNT,
         PrintedBy(p)' = PrintedBy(p) + 1,
         regs[p].eip # "halted", regs'[p].eip # "halted"
  PROVE  PL!PrintChar(p)
  <1>1. printed[p] = PrintedBy(p)
    BY DEF printed, PrintedBy
  <1>2. printed' = [printed EXCEPT ![p] = @ + 1]
    BY <1>1, OthersAbstract
  <1>3. p \notin exited /\ exited' = exited
    BY OthersAbstract DEF exited
  <1> QED
    BY <1>1, <1>2, <1>3 DEF PL!PrintChar

LEMMA StepImplements ==
  ASSUME OneMethod, IInv, IInv', NEW p \in Apps, Step(p)
  PROVE  PL!Next \/ UNCHANGED <<log, printed, exited>>
  <1>0. /\ TypeInv
        /\ regs[p] \in Registers
        /\ regs[p].app = p
        /\ DOMAIN regs = Apps
        /\ cursorpos \in Nat
        /\ RUNCOUNT \in Nat
        /\ regs[p].i \in Nat
    BY UserCodeAssumption DEF IInv, TypeInv, TypeOK, ControlInv, Controlled, Registers
  <1> USE DEF PrintedBy, Counted, OwesCursor
  <1>1. CASE SwapIn(p) \/ LoadCursor(p) \/ StoreCell(p) \/ SwapOut(p)
    <2>1. log' = log
      BY <1>1, LogSame DEF SwapIn, LoadCursor, StoreCell, SwapOut, memory, AtomicSwap
    <2>2. /\ PrintedBy(p)' = PrintedBy(p)
          /\ regs'[p].eip # "halted"
          /\ regs[p].eip # "halted"
      <3>1. CASE SwapIn(p)
        BY <1>0, <3>1 DEF SwapIn, Registers, AtomicSwap
      <3>2. CASE LoadCursor(p)
        BY <1>0, <3>2 DEF LoadCursor, Registers, Stores
      <3>3. CASE StoreCell(p)
        BY <1>0, <3>3 DEF StoreCell, Registers
      <3>4. CASE SwapOut(p)
        BY <1>0, <3>4 DEF SwapOut, Registers, AtomicSwap
      <3> QED
        BY <1>1, <3>1, <3>2, <3>3, <3>4
    <2> QED
      BY <1>0, <2>1, <2>2, AbstractStutter
  <1>2. CASE StoreCursor(p)
    <2>1. /\ regs[p].eip = "store"
          /\ "cursor" \in regs[p].todo
          /\ regs'[p] = [regs[p] EXCEPT !.todo = @ \ {"cursor"}]
          /\ cursorpos' = regs[p].old + 1
          /\ UNCHANGED console
          /\ p \in LockApps
          /\ regs[p].i < RUNCOUNT
      BY <1>0, <1>2 DEF StoreCursor, Registers, TypeInv, ControlInv, Controlled, LoopLabels
    <2>2. regs[p].old = cursorpos
      BY <2>1 DEF IInv, CursorInv, NoStaleCursor
    <2>3. /\ PrintedBy(p) = regs[p].i
          /\ PrintedBy(p)' = regs[p].i + 1
          /\ regs'[p].eip = "store"
          /\ regs'[p].old = regs[p].old
          /\ OwesCell(p)' <=> OwesCell(p)
      BY <1>0, <2>1 DEF Registers, OwesCell
    <2>4. ASSUME NEW c, c = cursorpos PROVE CellOf(c)' = PRINTCHAR[p]
      <3>1. CASE OwesCell(p)
        BY <2>2, <2>3, <2>4, <3>1, OwedCellNext DEF IInv
      <3>2. CASE ~ OwesCell(p)
        <4>1. c \in DOMAIN console' /\ console'[c] = PRINTCHAR[p]
          BY <2>1, <2>2, <2>4, <3>2 DEF IInv, ConsoleInv
        <4>2. \A q \in Apps \ {p} : regs'[q] = regs[q]
          BY <1>0, StepOthers
        <4>3. \A q \in Apps \ {p} : "cursor" \notin regs[q].todo
          BY <2>1 DEF IInv, MutualExclusion, InLock, ControlInv, Controlled
        <4>4. \A q \in Apps \ {p} : OwesCell(q) => regs[q].old # cursorpos
          BY <1>0, <4>3 DEF IInv, CursorInv, TypeOK, Registers
        <4>5. ~ Owed(c)'
          BY <2>3, <2>4, <3>2, <4>2, <4>4 DEF Owed, OwesCell
        <4> QED
          BY <4>1, <4>5, WrittenCell
      <3> QED
        BY <3>1, <3>2
    <2>5. log' = Append(log, Shown(p))
      BY <1>0, <2>1, <2>2, <2>4, LogAppend DEF Shown
    <2>6. PL!PrintChar(p)
      BY <1>0, <2>1, <2>3, <2>5, AbstractPrint
    <2> QED
      BY <2>6 DEF PL!Next
  <1>3. CASE SysAtomicPrint(p)
    <2>1. /\ regs[p].eip = "sys_atomic_print"
          /\ regs[p].todo = {}
          /\ regs'[p] = [regs[p] EXCEPT !.eip = "sys_yield"]
          /\ cursorpos' = cursorpos + 1
          /\ Write(cursorpos, CharCast(PRINTCHAR[p]))
          /\ p \notin LockApps
          /\ regs[p].i < RUNCOUNT
      BY <1>0, <1>3 DEF SysAtomicPrint, KernelPrint, AtTrap, Resume, Registers,
                        TypeInv, ControlInv, Controlled, LoopLabels
    <2>2. /\ PrintedBy(p) = regs[p].i
          /\ PrintedBy(p)' = regs[p].i + 1
          /\ regs'[p].eip = "sys_yield"
          /\ regs'[p].todo = {}
      BY <1>0, <2>1 DEF Registers
    <2>3. ASSUME NEW c, c = cursorpos PROVE CellOf(c)' = Shown(p)
      <3>1. \A q \in Apps \ {p} : regs'[q] = regs[q]
        BY <1>0, StepOthers
      <3>2. \A q \in Apps : OwesCell(q) => regs[q].old # cursorpos
        BY <1>0, <1>3, SysAtomicPrintAlone
           DEF IInv, CursorInv, TypeInv, ControlInv, Controlled, TypeOK, Registers
      <3>3. ~ Owed(c)'
        BY <2>2, <2>3, <3>1, <3>2 DEF Owed, OwesCell
      <3>4. c \in DOMAIN console' /\ console'[c] = Shown(p)
        BY <2>1, <2>3, WriteCell DEF Shown
      <3> QED
        BY <3>3, <3>4, WrittenCell
    <2>4. log' = Append(log, Shown(p))
      BY <1>0, <2>1, <2>3, LogAppend
    <2>5. PL!PrintChar(p)
      BY <1>0, <2>1, <2>2, <2>4, AbstractPrint
    <2> QED
      BY <2>5 DEF PL!Next
  <1>4. CASE SysCall(p)
    <2>1. PICK call \in Traps \ {"sys_atomic_print"} : AtTrap(p, call)
      BY <1>4 DEF SysCall
    <2>2. /\ regs[p].eip = call
          /\ regs'[p] = Resume(regs[p])
          /\ UNCHANGED cursorpos
      BY <1>0, <1>4, <2>1 DEF SysCall, AtTrap, memory
    <2>3. log' = log
      BY <2>2, LogSame
    <2>4. CASE call = "sys_exit"
      <3>1. /\ regs'[p] = [regs[p] EXCEPT !.eip = "halted"]
            /\ regs[p].i = RUNCOUNT
        BY <2>2, <2>4 DEF Resume, IInv, ControlInv, Controlled
      <3>2. /\ regs'[p].eip = "halted"
            /\ PrintedBy(p) = RUNCOUNT
            /\ PrintedBy(p)' = RUNCOUNT
        BY <1>0, <2>2, <2>4, <3>1 DEF Registers
      <3>3. printed[p] = RUNCOUNT /\ DOMAIN printed = Apps
        BY <3>2 DEF printed
      <3>4. printed' = printed
        <4>1. \A q \in Apps : printed'[q] = printed[q]
          BY <1>0, <3>2, <3>3, OthersAbstract
        <4> QED
          BY <4>1 DEF printed
      <3>5. p \notin exited /\ exited' = exited \cup {p}
        BY <1>0, <2>2, <2>4, <3>2, OthersAbstract DEF exited
      <3>6. PL!Exit(p)
        BY <2>3, <3>3, <3>4, <3>5 DEF PL!Exit
      <3> QED
        BY <3>6 DEF PL!Next
    <2>5. CASE call # "sys_exit"
      <3>1. regs'[p].eip # "halted"
        <4>1. \A n : LoopTop(p, n) # "halted"
          BY DEF LoopTop
        <4> QED
          BY <1>0, <2>1, <2>2, <2>5, <4>1 DEF Resume, Registers, Traps
      <3>2. regs[p].eip # "halted"
        BY <2>2 DEF Traps
      <3>3. PrintedBy(p)' = PrintedBy(p)
        BY <1>0, <2>1, <2>2, StepPrints DEF StoreCursor, SysAtomicPrint, AtTrap, Traps
      <3> QED
        BY <1>0, <2>3, <3>1, <3>2, <3>3, AbstractStutter
    <2> QED
      BY <2>4, <2>5
  <1> QED
    BY <1>1, <1>2, <1>3, <1>4 DEF Step, Instruction

(* Each application's characters all reach the console, whole and once     *)
(* each, before it exits: the lock (schedos-1.c) or the kernel             *)
(* (INT_SYS_ATOMIC_PRINT) makes the racy statement one append.             *)
THEOREM ThreadsImplementPrintLog ==
  ASSUME OneMethod
  PROVE  Spec => ImplementsPrintLog
  <1>1. Init => PL!Init
    <2> SUFFICES ASSUME Init PROVE PL!Init
      OBVIOUS
    <2>1. log = <<>>
      BY DEF Init, log
    <2>2. printed = [p \in Apps |-> 0]
      BY InitRegisters DEF printed, Counted
    <2>3. exited = {}
      BY InitRegisters DEF exited
    <2> QED
      BY <2>1, <2>2, <2>3 DEF PL!Init
  <1>2. IInv /\ IInv' /\ [Next]_vars => [PL!Next]_(PL!vars)
    <2> SUFFICES ASSUME IInv, IInv', [Next]_vars
                 PROVE  PL!Next \/ UNCHANGED <<log, printed, exited>>
      BY DEF PL!vars
    <2>1. CASE \E p \in Apps : Step(p)
      BY OneMethod, <2>1, StepImplements
    <2>2. CASE UNCHANGED vars
      <3>1. log' = log
        BY <2>2 DEF vars, log, CellOf, Cell, OwesCell
      <3>2. printed' = printed /\ exited' = exited
        BY <2>2 DEF vars, printed, exited, Counted, OwesCursor
      <3> QED
        BY <3>1, <3>2
    <2> QED
      BY <2>1, <2>2 DEF Next, Halted
  <1>3. IInv /\ [Next]_vars => IInv'
    BY OneMethod, NextIInv
  <1> QED
    BY InitIInv, <1>1, <1>2, <1>3, PTL DEF Spec, ImplementsPrintLog, PL!Spec

=============================================================================
