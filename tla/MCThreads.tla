----------------------------- MODULE MCThreads ------------------------------
(* Threads with the constants of schedos-1.c .. schedos-4.c, cut to size.  *)
EXTENDS Threads

(* PRINTCHAR of schedos-k.c: the digit k with its colour in the high byte. *)
MCPrintChar == [p \in Apps |-> <<3121, 2610, 2355, 3636>>[p]]

AllApps == Apps
NoApps == {}
=============================================================================
