------------------------------ MODULE PrintLog ------------------------------
(***************************************************************************)
(* What the whole system promises its user: the console is a log to which  *)
(* every application appends its character RUNCOUNT times, whole prints in *)
(* some order, none lost, none overwritten, and then exits.  Nothing is    *)
(* said of processors, locks, interrupts or schedules.                     *)
(***************************************************************************)
EXTENDS Naturals, Sequences

CONSTANTS Writers, Limit, Text    \* Text[p]: what writer p appends, Limit times

VARIABLES log, printed, exited

vars == <<log, printed, exited>>

Init ==
  /\ log = <<>>
  /\ printed = [p \in Writers |-> 0]
  /\ exited = {}

PrintChar(p) ==
  /\ p \notin exited
  /\ printed[p] < Limit
  /\ log' = Append(log, Text[p])
  /\ printed' = [printed EXCEPT ![p] = @ + 1]
  /\ UNCHANGED exited

Exit(p) ==
  /\ p \notin exited
  /\ printed[p] = Limit
  /\ exited' = exited \cup {p}
  /\ UNCHANGED <<log, printed>>

Next == \E p \in Writers : PrintChar(p) \/ Exit(p)

Spec == Init /\ [][Next]_vars

(* Every application gets to print and to exit.                            *)
Fairness == \A p \in Writers : WF_vars(PrintChar(p) \/ Exit(p))

FairSpec == Spec /\ Fairness

=============================================================================
