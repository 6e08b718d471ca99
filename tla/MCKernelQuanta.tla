--------------------------- MODULE MCKernelQuanta ---------------------------
(* KernelQuanta with the constants of schedos-1.c .. schedos-4.c.          *)
EXTENDS KernelQuanta

MCPrintChar == [p \in Apps |-> <<3121, 2610, 2355, 3636>>[p]]
MCPriority == [p \in Apps |-> <<1, 2, 1, 4>>[p]]
MCShare == [p \in Apps |-> <<2, 4, 8, 4>>[p]]
MCTickets == [p \in Apps |-> 4]

(* The last application prints by sys_atomic_print, the others by the lock. *)
AllButLast == Apps \ {NPROCS - 1}

(* Every algorithm, with the clock.                                        *)
ClockOn == Algorithms \X {TRUE}
=============================================================================
