------------------------------ MODULE SchedOS -------------------------------
(* The size of the process table, which every part of SchedOS knows.       *)
EXTENDS Integers

CONSTANT NPROCS       \* entries of proc_array; entry 0 is never used

ASSUME NPROCSAssumption == NPROCS \in Nat /\ NPROCS > 1

Pids == 0 .. NPROCS - 1
Apps == 1 .. NPROCS - 1

=============================================================================
