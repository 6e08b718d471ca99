------------------------------ MODULE Schedule ------------------------------
(***************************************************************************)
(* All of schedule(): the loops of the five algorithms, and the message it *)
(* prints for any other.                                                   *)
(***************************************************************************)
EXTENDS ScheduleLoop, ConsolePrintf

CONSTANTS
  Unknown,      \* values of scheduling_algorithm that are no algorithm
  OtherFormats  \* what other callers of console_printf may print

ASSUME ScheduleAssumption == Unknown \subseteq Ints \ Algorithms

vars == <<loopVars, consoleVars>>

(* schedule() is called; or, by some other code, console_printf.           *)
Init ==
  /\ ConsoleInit
  /\ \/ LoopInit /\ start = 0
     \/ /\ at \in {"unknown", "other"}
        /\ algorithm \in IF at = "unknown" THEN Unknown ELSE {0}
        /\ proc_array = [p \in Pids |-> EmptyDescriptor]
        /\ entry = [table |-> proc_array, cur |-> 1]
        /\ pid = 1
        /\ i = 0
        /\ most_priority = INT_MAX

(* "\nUnknown scheduling algorithm %d\n"                                   *)
UnknownFormat ==
  <<Plain("c", NEWLINE), Plain("s", Words), Plain("d", algorithm), Plain("c", NEWLINE)>>

At(from, to) ==
  /\ at = from
  /\ at' = to
  /\ UNCHANGED <<algorithm, proc_array, pid, i, most_priority, entry>>

(* After the last branch.  0x100 is the color.                             *)
UnknownAlgorithm == At("unknown", "print") /\ console_printf(256, UnknownFormat)

OtherCall ==
  /\ At("other", "print")
  /\ \E directives \in OtherFormats : console_printf(1792, directives)

PrintNext == at = "print" /\ (Convert \/ Put) /\ UNCHANGED loopVars

(* cursorpos = ..., and then nothing any more.                             *)
Printed ==
  /\ format = <<>> /\ field = <<>>
  /\ At("print", "spin")
  /\ UNCHANGED consoleVars

Spin == at = "spin" /\ UNCHANGED vars

Next ==
  \/ LoopNext /\ UNCHANGED consoleVars
  \/ UnknownAlgorithm
  \/ OtherCall
  \/ PrintNext
  \/ Printed
  \/ Spin

Spec == Init /\ [][Next]_vars

(* The processor goes on, and no pid goes undrawn for ever.                *)
Fairness ==
  /\ WF_vars(Next)
  /\ \A drawn \in Pids : SF_vars(Draw4(drawn) /\ UNCHANGED consoleVars)

FairSpec == Spec /\ Fairness

-----------------------------------------------------------------------------

(* The other callers print only what C gives a meaning.                    *)
LegalFormats ==
  \A directives \in OtherFormats :
    /\ directives \in Seq(Range(directives))
    /\ \A d \in Range(directives) : Legal(d)

=============================================================================
