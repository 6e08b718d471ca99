------------------------------ MODULE Threads -------------------------------
(***************************************************************************)
(* SchedOS as its applications see it: each of them a thread with a        *)
(* processor of its own, all running at once over the shared lock, cursor  *)
(* and console.  System calls that print nothing only move the caller on.  *)
(* Kernel implements this specification on one processor; this module      *)
(* says that the applications' printing is right whatever the schedule.    *)
(***************************************************************************)
EXTENDS UserCode

vars == <<regs, lock, cursorpos, console>>

Init ==
  /\ regs = [p \in Apps |-> StartOf(p)]
  /\ lock = LockInit
  /\ cursorpos = 0
  /\ console = <<>>

(* A system call whose only effect the threads can see is its return.      *)
SysCall(p) ==
  /\ \E call \in Traps \ {"sys_atomic_print"} : AtTrap(p, call)
  /\ regs' = [regs EXCEPT ![p] = Resume(@)]
  /\ UNCHANGED memory

(* sys_atomic_print: the kernel prints, nothing comes in between.          *)
SysAtomicPrint(p) ==
  /\ AtTrap(p, "sys_atomic_print")
  /\ KernelPrint(regs[p].app)
  /\ regs' = [regs EXCEPT ![p] = Resume(@)]
  /\ UNCHANGED lock

Step(p) == Instruction(p) \/ SysCall(p) \/ SysAtomicPrint(p)

Done == \A p \in Apps : regs[p].eip = "halted"

(* A halted thread is in a loop of one instruction.                        *)
Halted == Done /\ UNCHANGED vars

Next == (\E p \in Apps : Step(p)) \/ Halted

Spec == Init /\ [][Next]_vars

(* Every thread that can take a step eventually takes one.                 *)
Fairness == \A p \in Apps : WF_vars(Step(p))

FairSpec == Spec /\ Fairness

-----------------------------------------------------------------------------

TypeOK ==
  /\ regs \in [Apps -> Registers]
  /\ lock \in Nat
  /\ cursorpos \in Nat
  /\ DOMAIN console \subseteq Nat

(* Thread p holds the lock: its swap found 0 and it has not swapped 0 back. *)
InLock(p) == regs[p].eip \in {"load", "store"}

(* Thread p owes its cursor store: its copy of cursorpos is the print.     *)
OwesCursor(p) == "cursor" \in regs[p].todo
OwesCell(p) == "cell" \in regs[p].todo

(* The lock excludes: two threads are never both between their swaps, and  *)
(* the word is nonzero as long as one is (schedos-1.c, the #ifdef branch). *)
MutualExclusion ==
  /\ \A p, q \in Apps : InLock(p) /\ InLock(q) => p = q
  /\ (\E p \in Apps : InLock(p)) => lock # 0

(* While a thread owes its store to cursorpos, the position it has read is *)
(* still the current one: no print in between is about to be lost.  The    *)
(* cells owed after the lock's release lie below the cursor and each has   *)
(* one writer, so the late store hits nobody else's print.                 *)
NoStaleCursor ==
  /\ \A p \in Apps : OwesCursor(p) => regs[p].old = cursorpos
  /\ \A p, q \in Apps : OwesCell(p) /\ OwesCell(q) /\ regs[p].old = regs[q].old
                          => p = q

(* Printing stays on the console: RUNCOUNT and the number of applications  *)
(* bound the cursor, which nothing wraps.                                  *)
CursorBound == cursorpos <= RUNCOUNT * (NPROCS - 1)

(* "This tiny application prints red `1's to the console" (schedos-1.c),   *)
(* and so do the others with their character and colour.                   *)
PrintsAppear ==
  \A p \in Apps : <>(\E c \in DOMAIN console : console[c] = PRINTCHAR[p])

(* ---------------- the threads implement the print log ------------------ *)

(* Prints of p the log has: its finished rounds, and the current one once  *)
(* its cursor store has been done.                                         *)
Counted(p) ==
  \/ regs[p].eip = "sys_yield"
  \/ regs[p].eip = "store" /\ ~ OwesCursor(p)

printed == [p \in Apps |-> regs[p].i + IF Counted(p) THEN 1 ELSE 0]

(* The console up to the cursor, as if every outstanding cell store had    *)
(* been done.                                                              *)
CellOf(c) ==
  IF \E p \in Apps : OwesCell(p) /\ regs[p].old = c
  THEN PRINTCHAR[CHOOSE p \in Apps : OwesCell(p) /\ regs[p].old = c]
  ELSE Cell(c)

log == [k \in 1 .. cursorpos |-> CellOf(k - 1)]

exited == {p \in Apps : regs[p].eip = "halted"}

PL == INSTANCE PrintLog WITH
        Writers <- Apps, Limit <- RUNCOUNT, Text <- [p \in Apps |-> Shown(p)],
        log <- log, printed <- printed, exited <- exited

(* Every execution of the threads is one of the log: the racy statement    *)
(* under the lock, or the kernel's print, acts as one append.              *)
ImplementsPrintLog == PL!Spec

(* ... and under fair execution every application prints RUNCOUNT times    *)
(* and exits, which needs the lock word to be 0 at the start.              *)
ImplementsFairPrintLog == PL!FairSpec

-----------------------------------------------------------------------------
(* The inductive invariant behind these properties.                        *)

ControlInv == \A p \in Apps : Controlled(p, regs[p])

(* NoStaleCursor is not inductive: a cell still owed once the cursor has   *)
(* moved on lies below the cursor, which keeps it apart from the next one. *)
CursorInv ==
  /\ NoStaleCursor
  /\ \A p \in Apps : OwesCell(p) /\ ~ OwesCursor(p) => regs[p].old < cursorpos

(* The console below the cursor is written or owed, and a thread that owes *)
(* only the cursor has written its cell.                                   *)
ConsoleInv ==
  /\ \A c \in 0 .. cursorpos - 1 :
       c \in DOMAIN console \/ \E p \in Apps : OwesCell(p) /\ regs[p].old = c
  /\ \A p \in Apps : OwesCursor(p) /\ ~ OwesCell(p) =>
       /\ regs[p].old \in DOMAIN console
       /\ console[regs[p].old] = PRINTCHAR[p]

IInv ==
  /\ TypeOK
  /\ ControlInv
  /\ MutualExclusion
  /\ CursorInv
  /\ ConsoleInv

=============================================================================
