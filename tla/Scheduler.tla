----------------------------- MODULE Scheduler ------------------------------
(***************************************************************************)
(* The process descriptors and the choice schedule() makes among them.     *)
(*                                                                         *)
(* schedule() runs with interrupts off and never returns: from the         *)
(* descriptors and the process that was running it reaches either run(pid) *)
(* or an endless search.  Its loops are given here by their outcome, one   *)
(* operator per scheduling algorithm; ScheduleLoop has the loops.          *)
(***************************************************************************)
EXTENDS SchedOS

States == {"P_EMPTY", "P_RUNNABLE", "P_BLOCKED", "P_ZOMBIE"}

(* A process descriptor, its saved registers apart.                        *)
Descriptor == [p_state : States, p_exit_status : Int, p_priority : Int,
               p_share : Int, p_num_times : Int, p_num_tickets : Int]

(* memset to 0                                                             *)
EmptyDescriptor ==
  [p_state |-> "P_EMPTY", p_exit_status |-> 0, p_priority |-> 0,
   p_share |-> 0, p_num_times |-> 0, p_num_tickets |-> 0]

Tables == [Pids -> Descriptor]

Algorithms == 0 .. 4

-----------------------------------------------------------------------------

(* Mutant of Runnable: skips only processes that have exited.              *)
NotExited(table, pid) == table[pid].p_state # "P_ZOMBIE"

Runnable(table, pid) == table[pid].p_state = "P_RUNNABLE"

(* How many times `pid = (pid + 1) % NPROCS' leads from one pid to another, *)
(* counting from pid itself and from its successor.                        *)
StepsFrom(cur, pid) == (pid - cur) % NPROCS
StepsPast(cur, pid) == (pid - cur - 1) % NPROCS

(* Mutant of RoundRobin: tests before it steps, from the current process.  *)
RoundRobinFromCurrent(table, cur, pid) ==
  /\ Runnable(table, pid)
  /\ \A q \in Pids :
       Runnable(table, q) => StepsFrom(cur, pid) <= StepsFrom(cur, q)

(* 0: the next runnable process after the current one, cyclically.         *)
RoundRobin(table, cur, pid) ==
  /\ Runnable(table, pid)
  /\ \A q \in Pids :
       Runnable(table, q) => StepsPast(cur, pid) <= StepsPast(cur, q)

(* Mutant of LowestPid: the last process the for loop finds.               *)
LastPid(table, pid) ==
  /\ Runnable(table, pid)
  /\ \A q \in Pids : Runnable(table, q) => q <= pid

(* 1: the runnable process with the lowest pid.                            *)
LowestPid(table, pid) ==
  /\ Runnable(table, pid)
  /\ \A q \in Pids : Runnable(table, q) => pid <= q

(* Mutant of MostUrgent: takes the highest number for the most urgent.     *)
HighestNumber(table, pid) ==
  /\ Runnable(table, pid)
  /\ \A q \in Pids :
       Runnable(table, q) => table[pid].p_priority >= table[q].p_priority

(* 2: a runnable process whose priority number is lowest, the next one     *)
(* after the current process where several have it.                        *)
MostUrgent(table, pid) ==
  /\ Runnable(table, pid)
  /\ \A q \in Pids :
       Runnable(table, q) => table[pid].p_priority <= table[q].p_priority

HighestPriority(table, cur, pid) ==
  /\ MostUrgent(table, pid)
  /\ \A q \in Pids :
       MostUrgent(table, q) => StepsPast(cur, pid) <= StepsPast(cur, q)

(* Mutant of WithinCount: < for <=.                                        *)
BelowCount(times, share) == times < share

(* The test that increments p_num_times.                                   *)
WithinCount(times, share) == times <= share

(* 3: the first process from the current one on that has not used up its   *)
(* share.  Each runnable one passed over starts counting at 0 again, so    *)
(* that when all are passed over the second round finds them so.           *)
WithinShare(table, pid) ==
  /\ Runnable(table, pid)
  /\ WithinCount(table[pid].p_num_times, table[pid].p_share)

Renewable(table, pid) ==
  Runnable(table, pid) /\ WithinCount(0, table[pid].p_share)

FirstFrom(cur, pid, Candidate(_)) ==
  /\ Candidate(pid)
  /\ \A q \in Pids : Candidate(q) => StepsFrom(cur, pid) <= StepsFrom(cur, q)

ProportionalShare(table, cur, pid) ==
  IF \E q \in Pids : WithinShare(table, q)
  THEN FirstFrom(cur, pid, LAMBDA q : WithinShare(table, q))
  ELSE FirstFrom(cur, pid, LAMBDA q : Renewable(table, q))

(* Mutant of NumTimes: the run is not counted.                             *)
NumTimesUncounted(table, cur, pid, q) == table[q].p_num_times

(* The p_num_times the search for pid leaves behind.                       *)
NumTimes(table, cur, pid, q) ==
  LET passed == \/ ~ WithinShare(table, pid)
                \/ StepsFrom(cur, q) < StepsFrom(cur, pid)
      base   == IF Runnable(table, q) /\ passed THEN 0
                ELSE table[q].p_num_times
  IN  IF q = pid THEN base + 1 ELSE base

-----------------------------------------------------------------------------

(* schedule() can reach run(pid).  Algorithm 4 draws pids from the cycle   *)
(* counter until one is runnable.                                          *)
Picks(algorithm, table, cur, pid) ==
  \/ algorithm = 0 /\ RoundRobin(table, cur, pid)
  \/ algorithm = 1 /\ LowestPid(table, pid)
  \/ algorithm = 2 /\ HighestPriority(table, cur, pid)
  \/ algorithm = 3 /\ ProportionalShare(table, cur, pid)
  \/ algorithm = 4 /\ Runnable(table, pid)

(* The descriptors with which it does.                                     *)
Charged(algorithm, table, cur, pid) ==
  IF algorithm = 3
  THEN [q \in Pids |->
          [table[q] EXCEPT !.p_num_times = NumTimes(table, cur, pid, q)]]
  ELSE table

(* The descriptors an endless search goes round over.                      *)
Exhausted(algorithm, table) ==
  IF algorithm = 3
  THEN [q \in Pids |-> IF Runnable(table, q)
                       THEN [table[q] EXCEPT !.p_num_times = 0] ELSE table[q]]
  ELSE table

=============================================================================
