---------------------------- MODULE KernelQuanta ----------------------------
(***************************************************************************)
(* Kernel with a history variable: how long each process has been kept     *)
(* waiting, counted in the times schedule() has run another one, under the *)
(* algorithms that promise every process a turn.                           *)
(***************************************************************************)
EXTENDS Kernel, Functions

VARIABLE waited     \* waited[p]: run() calls for others since p was last run

TakesTurns == scheduling_algorithm \in {0, 3}

quantaVars == <<vars, waited>>

QuantaInit == Init /\ waited = [p \in Apps |-> 0]

(* A step that enters the kernel; if it is to leave it again, one process  *)
(* has been run and the other runnable ones wait a turn longer.            *)
Dispatch ==
  /\ SystemCall \/ Clock
  /\ waited' = [p \in Apps |->
       IF /\ TakesTurns
          /\ p # current' /\ ~ searching' /\ Runnable(proc_array', p)
       THEN waited[p] + 1 ELSE 0]

QuantaNext == Dispatch \/ ((Execute \/ Search) /\ UNCHANGED waited)

QuantaSpec == QuantaInit /\ [][QuantaNext]_quantaVars

-----------------------------------------------------------------------------

(* The turns the others may take before p's: each of them one under        *)
(* algorithm 0, and its share and one more under algorithm 3, where        *)
(* sys_set_share starts the count again in the middle of a burst and the   *)
(* share is 0 until then.                                                  *)
Turns(q) == IF scheduling_algorithm = 0 THEN 1 ELSE SHARE[q] + 2

(* Nobody starves: round robin and proportional share keep a process that  *)
(* could run waiting for a bounded number of turns of the others.          *)
BoundedWait ==
  LET turns == [q \in Apps |-> Turns(q)]
  IN  TakesTurns =>
        \A p \in Apps : waited[p] <= FoldFunctionOnSet(+, 0, turns, Apps \ {p})

=============================================================================
