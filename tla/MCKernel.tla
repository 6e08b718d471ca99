------------------------------ MODULE MCKernel ------------------------------
(* Kernel with the constants of schedos-1.c .. schedos-4.c, cut to size.   *)
EXTENDS Kernel

(* PRINTCHAR, __PRIORITY__, __SHARE__, __LOTTERY_TICKETS__ of schedos-k.c. *)
MCPrintChar == [p \in Apps |-> <<3121, 2610, 2355, 3636>>[p]]
MCPriority == [p \in Apps |-> <<1, 2, 1, 4>>[p]]
MCShare == [p \in Apps |-> <<2, 4, 8, 4>>[p]]
MCTickets == [p \in Apps |-> 4]

AllApps == Apps

(* The last application prints by sys_atomic_print, the others by the lock. *)
AllButLast == Apps \ {NPROCS - 1}

(* Every algorithm with the clock; those that fix the order of the prints, *)
(* round robin only without the clock; proportional share alone.           *)
ClockOn == Algorithms \X {TRUE}
Ordered == {<<0, FALSE>>, <<1, TRUE>>, <<2, TRUE>>}
Share == {<<3, FALSE>>}
=============================================================================
