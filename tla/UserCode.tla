------------------------------ MODULE UserCode ------------------------------
(***************************************************************************)
(* What a SchedOS application does with the processor between two          *)
(* interrupts: the program of schedos-1.c, which schedos-2.c, -3.c and     *)
(* -4.c include with other constants, one action per access to the memory  *)
(* it shares with the kernel and the other applications.                   *)
(*                                                                         *)
(* An instruction works on a CONTEXT, a set of processor registers.  What  *)
(* a context is belongs to the modules that extend this one: in Threads    *)
(* every application has a context of its own, in Kernel there is the one  *)
(* processor and the copies saved in the process descriptors.              *)
(***************************************************************************)
EXTENDS SchedOS

CONSTANTS
  RUNCOUNT,     \* characters each application prints
  PRINTCHAR,    \* the application's character and colour, a 16-bit cell
  LockApps,     \* the applications compiled with __PRINT_METHOD_LOCK__
  LockInit      \* what the memory word at 0x198004 holds when they start

ASSUME UserCodeAssumption ==
  /\ RUNCOUNT \in Nat
  /\ PRINTCHAR \in [Apps -> Nat]
  /\ LockApps \subseteq Apps
  /\ LockInit \in Nat

VARIABLES
  regs,         \* regs[c]: the registers of context c
  lock,         \* the spin lock word
  cursorpos,    \* console cells below the cursor
  console       \* the cells written since console_clear, by cell number

memory == <<lock, cursorpos, console>>

(***************************************************************************)
(* Points of the program an interrupt can separate.  A system call's label *)
(* is the `int' instruction itself; "store" lies between the read of       *)
(* cursorpos and the release of the lock; "halted" is the loop that        *)
(* follows `int' in sys_exit.                                              *)
(***************************************************************************)
Traps == {"sys_set_priority", "sys_set_share", "sys_set_lottery_tickets",
          "sys_atomic_print", "sys_yield", "sys_exit"}
Labels == Traps \cup {"swap_in", "load", "store", "halted"}

(***************************************************************************)
(* The registers.  "app" is the part of %eip that tells the program (each  *)
(* is linked at an address of its own), "eip" the rest of it.  "old" is    *)
(* the cursor position the statement *cursorpos++ = PRINTCHAR has read and *)
(* "todo" the stores it still owes.                                        *)
(***************************************************************************)
Stores == {"cursor", "cell"}
Registers == [app : Apps, eip : Labels, i : 0 .. RUNCOUNT, old : Nat,
              todo : SUBSET Stores]

(* Mutant of LoopTop: i <= RUNCOUNT in the for loop.                       *)
LoopTopOnceMore(app, i) ==
  IF i <= RUNCOUNT
  THEN IF app \in LockApps THEN "swap_in" ELSE "sys_atomic_print"
  ELSE "sys_exit"

(* The top of the for loop: print once more, or leave.                     *)
LoopTop(app, i) ==
  IF i < RUNCOUNT
  THEN IF app \in LockApps THEN "swap_in" ELSE "sys_atomic_print"
  ELSE "sys_exit"

StartOf(app) ==
  [app |-> app, eip |-> "sys_set_priority", i |-> 0, old |-> 0, todo |-> {}]

(* Mutant of Resume: the for loop does not increment i.                    *)
ResumeUncounted(r) ==
  [r EXCEPT !.eip =
     CASE r.eip = "sys_set_priority" -> "sys_set_share"
       [] r.eip = "sys_set_share" -> "sys_set_lottery_tickets"
       [] r.eip \in {"sys_set_lottery_tickets", "sys_yield"} -> LoopTop(r.app, r.i)
       [] r.eip = "sys_atomic_print" -> "sys_yield"
       [] OTHER -> "halted"]

(* The registers with which a process resumes after its `int' instruction. *)
Resume(r) ==
  CASE r.eip = "sys_set_priority" -> [r EXCEPT !.eip = "sys_set_share"]
    [] r.eip = "sys_set_share" -> [r EXCEPT !.eip = "sys_set_lottery_tickets"]
    [] r.eip = "sys_set_lottery_tickets" -> [r EXCEPT !.eip = LoopTop(r.app, r.i)]
    [] r.eip = "sys_atomic_print" -> [r EXCEPT !.eip = "sys_yield"]
    [] r.eip = "sys_yield" -> [r EXCEPT !.eip = LoopTop(r.app, r.i + 1), !.i = @ + 1]
    [] OTHER -> [r EXCEPT !.eip = "halted"]

(* (char)reg->reg_eax stored in a 16-bit cell: the low byte, sign-extended. *)
CharCast(cell) ==
  LET byte == cell % 256 IN IF byte < 128 THEN byte ELSE byte + 65280

(* What application p puts on the console, by its print method.            *)
Shown(p) == IF p \in LockApps THEN PRINTCHAR[p] ELSE CharCast(PRINTCHAR[p])

(* console_clear leaves a grey space in the cells not yet written.         *)
Cell(c) == IF c \in DOMAIN console THEN console[c] ELSE 1824

(* Memory is sparse: writing a cell adds it to the cells written.          *)
Write(cell, value) ==
  console' = [c \in DOMAIN console \cup {cell} |->
                IF c = cell THEN value ELSE console[c]]

-----------------------------------------------------------------------------

(* atomic_swap(&lock, val): the word takes val; the caller gets what it    *)
(* held, the lock of the state before the step.                            *)
AtomicSwap(val) == lock' = val

(* Mutant of SwapIn: sets the lock without testing what it held.           *)
SwapInUntested(c) ==
  /\ regs[c].eip = "swap_in"
  /\ AtomicSwap(1)
  /\ regs' = [regs EXCEPT ![c].eip = "load"]
  /\ UNCHANGED <<cursorpos, console>>

(* while (atomic_swap(&lock, 1) != 0) continue;                            *)
SwapIn(c) ==
  /\ regs[c].eip = "swap_in"
  /\ AtomicSwap(1)
  /\ regs' = [regs EXCEPT ![c].eip = IF lock = 0 THEN "load" ELSE "swap_in"]
  /\ UNCHANGED <<cursorpos, console>>

(* *cursorpos++ = PRINTCHAR: the read of cursorpos ...                     *)
LoadCursor(c) ==
  /\ regs[c].eip = "load"
  /\ regs' = [regs EXCEPT ![c].eip = "store", ![c].old = cursorpos,
                          ![c].todo = Stores]
  /\ UNCHANGED memory

(* ... the write of cursorpos, which is volatile ...                       *)
StoreCursor(c) ==
  /\ regs[c].eip = "store"
  /\ "cursor" \in regs[c].todo
  /\ cursorpos' = regs[c].old + 1
  /\ regs' = [regs EXCEPT ![c].todo = @ \ {"cursor"}]
  /\ UNCHANGED <<lock, console>>

(* Mutant of StoreCell: a pre-increment writes the cell after.             *)
StoreCellAfter(c) ==
  /\ regs[c].eip \in {"store", "sys_yield"}
  /\ "cell" \in regs[c].todo
  /\ Write(regs[c].old + 1, PRINTCHAR[regs[c].app])
  /\ regs' = [regs EXCEPT ![c].todo = @ \ {"cell"}]
  /\ UNCHANGED <<lock, cursorpos>>

(* ... and the write of the cell.  The cell is not volatile and            *)
(* atomic_swap has no "memory" clobber, so the compiler may place this     *)
(* store anywhere before the `int' of sys_yield, which has one: before or  *)
(* after the other store, even after the lock's release.                   *)
StoreCell(c) ==
  /\ regs[c].eip \in {"store", "sys_yield"}
  /\ "cell" \in regs[c].todo
  /\ Write(regs[c].old, PRINTCHAR[regs[c].app])
  /\ regs' = [regs EXCEPT ![c].todo = @ \ {"cell"}]
  /\ UNCHANGED <<lock, cursorpos>>

(* Mutants of SwapOut: the compiler moves the store to cursorpos past the  *)
(* release, and the release is forgotten.                                  *)
SwapOutEarly(c) ==
  /\ regs[c].eip = "store"
  /\ AtomicSwap(0)
  /\ regs' = [regs EXCEPT ![c].eip = "sys_yield"]
  /\ UNCHANGED <<cursorpos, console>>

SwapOutForgotten(c) ==
  /\ regs[c].eip = "store"
  /\ "cursor" \notin regs[c].todo
  /\ regs' = [regs EXCEPT ![c].eip = "sys_yield"]
  /\ UNCHANGED memory

(* atomic_swap(&lock, 0)                                                   *)
SwapOut(c) ==
  /\ regs[c].eip = "store"
  /\ "cursor" \notin regs[c].todo
  /\ AtomicSwap(0)
  /\ regs' = [regs EXCEPT ![c].eip = "sys_yield"]
  /\ UNCHANGED <<cursorpos, console>>

Instruction(c) ==
  \/ SwapIn(c)
  \/ LoadCursor(c)
  \/ StoreCursor(c)
  \/ StoreCell(c)
  \/ SwapOut(c)

(* The `int' of a system call is reached with no store outstanding.        *)
AtTrap(c, call) == regs[c].eip = call /\ regs[c].todo = {}

(* Mutants of KernelPrint: the cell after the cursor; two cells a print.   *)
KernelPrintAfter(app) ==
  /\ Write(cursorpos + 1, CharCast(PRINTCHAR[app]))
  /\ cursorpos' = cursorpos + 1

KernelPrintTwice(app) ==
  /\ Write(cursorpos, CharCast(PRINTCHAR[app]))
  /\ cursorpos' = cursorpos + 2

(* Kernel side of sys_atomic_print: *cursorpos++ = (char)reg->reg_eax.     *)
KernelPrint(app) ==
  /\ Write(cursorpos, CharCast(PRINTCHAR[app]))
  /\ cursorpos' = cursorpos + 1

-----------------------------------------------------------------------------
(* What the registers of application p say at every instruction: it runs   *)
(* its own program, is inside the loop only while i says so and exits when *)
(* i says so, prints by its own method, and owes stores only between the   *)
(* read of cursorpos and sys_yield, the one to cursorpos only until the    *)
(* lock's release.                                                         *)

LoopLabels == {"swap_in", "load", "store", "sys_atomic_print", "sys_yield"}

Controlled(p, r) ==
  /\ r.app = p
  /\ r.eip \in LoopLabels => r.i < RUNCOUNT
  /\ r.eip \in {"sys_exit", "halted"} => r.i = RUNCOUNT
  /\ r.eip \in {"swap_in", "load", "store"} \/ r.todo # {} => p \in LockApps
  /\ r.eip = "sys_atomic_print" => p \notin LockApps
  /\ r.todo # {} => r.eip \in {"store", "sys_yield"}
  /\ "cursor" \in r.todo => r.eip = "store"

=============================================================================
