---------------------------- MODULE Descriptors -----------------------------
(***************************************************************************)
(* The layouts the kernel and the processor must agree on: segments, the   *)
(* gates of the interrupt descriptor table, and registers_t.  A word is a  *)
(* number; a set of saved registers is a sequence of words, the one at the *)
(* lowest address first.                                                   *)
(***************************************************************************)
EXTENDS SchedOS, SequencesExt

SEGSEL_KERN_CODE == 8
SEGSEL_KERN_DATA == 16
SEGSEL_APP_CODE == 24
SEGSEL_APP_DATA == 32

STA_X == 8
STA_W == 2
STA_R == 2

(* SEG(type, base, lim, dpl), of segments that span all of memory.         *)
SEG(type, dpl) == [type |-> type, dpl |-> dpl]

(* Mutant of segments: not in the order of the selectors.                  *)
segmentsSwapped ==
  <<SEG(STA_X + STA_R, 0), SEG(STA_W, 0), SEG(STA_W, 3), SEG(STA_X + STA_R, 3)>>

segments ==
  <<SEG(STA_X + STA_R, 0), SEG(STA_W, 0), SEG(STA_X + STA_R, 3), SEG(STA_W, 3)>>

(* A selector is 8 times an index, plus a privilege level.                 *)
SegmentOf(selector) == segments[selector \div 8]
RPL(selector) == selector % 4

(* kernel_task_descriptor: the stack the processor turns to when it leaves *)
(* an application.                                                         *)
ts_esp0 == 1572864              \* KERNEL_STACK_TOP, 0x180000
ts_ss0 == SEGSEL_KERN_DATA

PROC1_START == 2097152          \* 0x200000
PROC_SIZE == 1048576            \* 0x100000

-----------------------------------------------------------------------------

INT_HARDWARE == 32
INT_CLOCK == INT_HARDWARE
INT_SYS_YIELD == 48
INT_SYS_EXIT == 49
INT_SYS_SET_LOTTERY == 53

(* The entry points, by the words they push, the last one first.           *)
clock_int_handler == <<32, 0>>
sys_int_handler(n) == <<n, 0>>
sys_int_handlers == [n \in 0 .. 9 |-> sys_int_handler(48 + n)]

(* Mutant of default_int_handler: pushes nothing.                          *)
default_int_handler_bare == <<>>

default_int_handler == <<0>>

(* Mutant of SETGATE: trap gates for interrupt gates.                      *)
SETGATE_trap(istrap, sel, off, dpl) ==
  [istrap |-> TRUE, sel |-> sel, off |-> off, dpl |-> dpl]

SETGATE(istrap, sel, off, dpl) ==
  [istrap |-> istrap, sel |-> sel, off |-> off, dpl |-> dpl]

(* interrupt_descriptors[v], as segments_init fills it in.                 *)
Gate(v) ==
  IF v = INT_CLOCK THEN SETGATE(FALSE, SEGSEL_KERN_CODE, clock_int_handler, 0)
  ELSE IF v \in INT_SYS_YIELD .. INT_SYS_YIELD + 9
  THEN SETGATE(FALSE, SEGSEL_KERN_CODE, sys_int_handlers[v - INT_SYS_YIELD], 3)
  ELSE SETGATE(FALSE, SEGSEL_KERN_CODE, default_int_handler, 0)

-----------------------------------------------------------------------------

(* What pushal pushes, the last word first: the order popal expects.       *)
GeneralRegisters ==
  <<"edi", "esi", "ebp", "original_esp", "ebx", "edx", "ecx", "eax">>

(* What the processor pushes and iret expects.                             *)
TaskStatus == <<"eip", "cs", "eflags", "esp", "ss">>

registers_t == GeneralRegisters \o <<"es", "ds", "intno", "err">> \o TaskStatus

(* Mutant of Popped: goes on one word too early after the segments.        *)
PoppedOneWordSkipped ==
  GeneralRegisters \o <<"es", "ds", "skipped">> \o TaskStatus

(* Where run() takes the words of a descriptor to.                         *)
Popped == GeneralRegisters \o <<"es", "ds", "skipped", "skipped">> \o TaskStatus

(* The place of a word in a layout, and reg->reg_field.                    *)
Place(layout, name) == CHOOSE n \in DOMAIN layout : layout[n] = name
Reg(words, field) == words[Place(registers_t, field)]

EFLAGS_IF == 512
InterruptFlag(eflags) == (eflags \div EFLAGS_IF) % 2 = 1

(* special_registers_init, and what start() adds for process pid.          *)
special_registers_init(pid, entry) ==
  [n \in DOMAIN registers_t |->
     LET field == registers_t[n]
     IN  CASE field = "cs" -> SEGSEL_APP_CODE + 3
           [] field \in {"ds", "es", "ss"} -> SEGSEL_APP_DATA + 3
           [] field = "eflags" -> EFLAGS_IF
           [] field = "esp" -> PROC1_START + pid * PROC_SIZE
           [] field = "eip" -> entry
           [] OTHER -> 0]

=============================================================================
