------------------------------ MODULE Contexts ------------------------------
(***************************************************************************)
(* What the way into the kernel and out of it promises the applications:   *)
(* each has registers of its own, which nothing but itself changes.        *)
(***************************************************************************)
EXTENDS SchedOS

CONSTANT RegisterSets       \* what an application's registers can hold

VARIABLES
  context,      \* context[p]: the registers of application p
  running,      \* the application run() was last called for, 0 before that
  mode          \* "app" or "kernel"

vars == <<context, running, mode>>

Init ==
  /\ context \in [Apps -> RegisterSets]
  /\ running = 0
  /\ mode = "kernel"

(* start() gives the applications their first registers.                   *)
Create ==
  /\ running = 0
  /\ context' \in [Apps -> RegisterSets]
  /\ UNCHANGED <<running, mode>>

(* The application that runs executes an instruction.                      *)
Work ==
  /\ mode = "app"
  /\ context'[running] \in RegisterSets
  /\ context' = [context EXCEPT ![running] = context'[running]]
  /\ UNCHANGED <<running, mode>>

(* It is interrupted, or calls the kernel.                                 *)
Enter ==
  /\ mode = "app"
  /\ mode' = "kernel"
  /\ UNCHANGED <<context, running>>

(* run()                                                                   *)
Run(p) ==
  /\ mode = "kernel"
  /\ running' = p
  /\ mode' = "app"
  /\ UNCHANGED context

Next ==
  \/ Create
  \/ Work
  \/ Enter
  \/ \E p \in Apps : Run(p)

Spec == Init /\ [][Next]_vars

=============================================================================
