--------------------------- MODULE UserCodeProofs ---------------------------
(***************************************************************************)
(* An application's instructions and its returns from system calls keep    *)
(* its registers in order, in whichever context they are.                  *)
(***************************************************************************)
EXTENDS UserCode, TLAPS

LEMMA StartControlled ==
  ASSUME NEW p \in Apps
  PROVE  StartOf(p) \in Registers /\ Controlled(p, StartOf(p))
  BY UserCodeAssumption
     DEF StartOf, Registers, Labels, Traps, Stores, Controlled, LoopLabels

(* The top of the loop, reached with the first or the next i.              *)
LEMMA LoopTopType ==
  ASSUME NEW p \in Apps, NEW n \in 0 .. RUNCOUNT
  PROVE  /\ LoopTop(p, n) \in Labels
         /\ LoopTop(p, n) \in LoopLabels => n < RUNCOUNT
         /\ LoopTop(p, n) = "sys_exit" => n = RUNCOUNT
         /\ LoopTop(p, n) \notin {"load", "store", "sys_yield", "halted"}
         /\ LoopTop(p, n) = "swap_in" => p \in LockApps
         /\ LoopTop(p, n) = "sys_atomic_print" => p \notin LockApps
  BY UserCodeAssumption DEF LoopTop, Labels, Traps, LoopLabels

(* What a system call returns to is the program's next statement, which is *)
(* never one under the lock.                                               *)
LEMMA ResumeControlled ==
  ASSUME NEW p \in Apps, NEW r \in Registers, Controlled(p, r),
         r.eip \in Traps, r.todo = {}
  PROVE  /\ Resume(r) \in Registers
         /\ Controlled(p, Resume(r))
         /\ Resume(r).todo = {}
         /\ Resume(r).eip \notin {"load", "store"}
  <1> USE DEF Controlled
  <1>1. CASE r.eip = "sys_set_priority"
    BY <1>1 DEF Resume, Registers, Labels, Traps, LoopLabels
  <1>2. CASE r.eip = "sys_set_share"
    BY <1>2 DEF Resume, Registers, Labels, Traps, LoopLabels
  <1>3. CASE r.eip = "sys_set_lottery_tickets"
    <2>1. Resume(r) = [r EXCEPT !.eip = LoopTop(p, r.i)]
      BY <1>3 DEF Resume
    <2>2. r.i \in 0 .. RUNCOUNT
      BY DEF Registers
    <2>3. /\ Resume(r) \in Registers
          /\ Resume(r).app = p
          /\ Resume(r).todo = {}
          /\ Resume(r).i = r.i
          /\ Resume(r).eip = LoopTop(p, r.i)
      BY <2>1, <2>2, LoopTopType DEF Registers
    <2> QED
      BY <2>2, <2>3, LoopTopType
  <1>4. CASE r.eip = "sys_atomic_print"
    BY <1>4 DEF Resume, Registers, Labels, Traps, LoopLabels
  <1>5. CASE r.eip = "sys_yield"
    <2>1. Resume(r) = [r EXCEPT !.eip = LoopTop(p, r.i + 1), !.i = @ + 1]
      BY <1>5 DEF Resume
    <2>2. r.i + 1 \in 0 .. RUNCOUNT
      BY <1>5, UserCodeAssumption DEF Registers, LoopLabels
    <2>3. /\ Resume(r) \in Registers
          /\ Resume(r).app = p
          /\ Resume(r).todo = {}
          /\ Resume(r).i = r.i + 1
          /\ Resume(r).eip = LoopTop(p, r.i + 1)
      BY <2>1, <2>2, LoopTopType, ZenonT(30) DEF Registers
    <2> QED
      BY <2>2, <2>3, LoopTopType
  <1>6. CASE r.eip = "sys_exit"
    BY <1>6 DEF Resume, Registers, Labels, Traps, LoopLabels
  <1> QED
    BY <1>1, <1>2, <1>3, <1>4, <1>5, <1>6 DEF Traps

(* Writing one cell leaves the others.                                     *)
LEMMA WriteCell ==
  ASSUME NEW cell, NEW value, Write(cell, value)
  PROVE  /\ cell \in DOMAIN console'
         /\ console'[cell] = value
         /\ \A c \in DOMAIN console :
              /\ c \in DOMAIN console'
              /\ c # cell => console'[c] = console[c]
         /\ DOMAIN console' \subseteq DOMAIN console \cup {cell}
  BY DEF Write

MemoryOK == lock \in Nat /\ cursorpos \in Nat /\ DOMAIN console \subseteq Nat

LEMMA KernelPrintType ==
  ASSUME MemoryOK, NEW app, KernelPrint(app), UNCHANGED lock
  PROVE  MemoryOK'
  <1>1. /\ cursorpos \in Nat
        /\ cursorpos' = cursorpos + 1
        /\ Write(cursorpos, CharCast(PRINTCHAR[app]))
    BY DEF MemoryOK, KernelPrint
  <1>2. DOMAIN console' \subseteq DOMAIN console \cup {cursorpos}
    BY <1>1, WriteCell
  <1> QED
    BY <1>1, <1>2 DEF MemoryOK

(* An instruction of application p in context c changes no other context.  *)
LEMMA InstructionControlled ==
  ASSUME MemoryOK, NEW p \in Apps, NEW c \in DOMAIN regs,
         regs = [x \in DOMAIN regs |-> regs[x]],
         regs[c] \in Registers, Controlled(p, regs[c]), Instruction(c)
  PROVE  /\ MemoryOK'
         /\ regs' = [regs EXCEPT ![c] = regs'[c]]
         /\ regs'[c] \in Registers
         /\ Controlled(p, regs'[c])
  <1>0. regs[c].app = p
    BY DEF Controlled
  <1> USE DEF MemoryOK, Registers
  <1>1. CASE SwapIn(c)
    <2>1. /\ regs[c].eip = "swap_in"
          /\ regs[c].todo = {}
          /\ regs' = [regs EXCEPT ![c].eip = IF lock = 0 THEN "load" ELSE "swap_in"]
      BY <1>1 DEF SwapIn, Controlled, AtomicSwap
    <2> QED
      BY <1>0, <1>1, <2>1 DEF SwapIn, Controlled, Labels, LoopLabels, AtomicSwap
  <1>2. CASE LoadCursor(c)
    BY <1>0, <1>2 DEF LoadCursor, Controlled, Labels, LoopLabels, memory
  <1>3. CASE StoreCursor(c)
    BY <1>0, <1>3 DEF StoreCursor, Controlled
  <1>4. CASE StoreCell(c)
    <2>1. regs[c].old \in Nat /\ Write(regs[c].old, PRINTCHAR[p])
      BY <1>0, <1>4 DEF StoreCell
    <2>2. DOMAIN console' \subseteq DOMAIN console \cup {regs[c].old}
      BY <2>1, WriteCell
    <2>3. MemoryOK'
      BY <1>4, <2>1, <2>2 DEF StoreCell
    <2> QED
      BY <1>0, <1>4, <2>3 DEF StoreCell, Controlled
  <1>5. CASE SwapOut(c)
    BY <1>0, <1>5 DEF SwapOut, Controlled, Labels, Traps, LoopLabels, AtomicSwap
  <1> QED
    BY <1>1, <1>2, <1>3, <1>4, <1>5 DEF Instruction

=============================================================================
