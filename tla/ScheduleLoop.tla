---------------------------- MODULE ScheduleLoop ----------------------------
(***************************************************************************)
(* The loops of schedule(), one action per iteration, started from any     *)
(* table the kernel can hand them.  Scheduler gives the outcome of each in *)
(* one operator, which is what Kernel uses; this module is where the loops *)
(* are shown to have that outcome, and to have one at all.                 *)
(***************************************************************************)
EXTENDS Scheduler

CONSTANTS
  INT_MAX,
  Priorities,     \* the values of p_priority the entry tables have
  Shares          \* the values of p_share

ASSUME ScheduleLoopAssumption ==
  /\ INT_MAX \in Nat
  /\ Priorities \subseteq Int /\ \A n \in Priorities : n <= INT_MAX
  /\ Shares \subseteq Int /\ \A n \in Shares : n < INT_MAX

VARIABLES
  algorithm,       \* scheduling_algorithm
  proc_array,
  pid,
  i,
  most_priority,
  at,              \* the loop that goes round, or "run"
  entry            \* proc_array and current->p_pid when schedule() is called

loopVars == <<algorithm, proc_array, pid, i, most_priority, at, entry>>

-----------------------------------------------------------------------------

(* The descriptors an application can have when schedule() is called: it   *)
(* runs or has exited; priority and share are what it has set; it has been *)
(* run at most once more than its share allows.  Only the fields the       *)
(* algorithm reads vary.                                                   *)
Entries(a) ==
  UNION {{[EmptyDescriptor EXCEPT !.p_state = state, !.p_priority = priority,
                                  !.p_share = share, !.p_num_times = times] :
            state \in {"P_RUNNABLE", "P_ZOMBIE"},
            priority \in IF a = 2 THEN Priorities ELSE {0},
            times \in IF a = 3 /\ share >= 0 THEN 0 .. share + 1 ELSE {0}} :
         share \in IF a = 3 THEN Shares ELSE {0}}

Loop == <<"next", "lowest", "scan", "share", "draw">>

(* pid = current->p_pid, and the branch for the algorithm.                 *)
LoopInit ==
  /\ algorithm \in Algorithms
  /\ \E table \in [Apps -> Entries(algorithm)] :
       proc_array = [p \in Pids |-> IF p \in Apps THEN table[p]
                                    ELSE EmptyDescriptor]
  /\ entry \in [table : {proc_array}, cur : Apps]
  /\ pid = IF algorithm = 1 THEN 0 ELSE entry.cur
  /\ i = 0
  /\ most_priority = INT_MAX
  /\ at = Loop[algorithm + 1]

Successor(p) == (p + 1) % NPROCS

(* if (...) run(&proc_array[p]), from which schedule() does not return.    *)
RunIf(condition, loop) == at' = IF condition THEN "run" ELSE loop

(* Mutant of Next0: skips only processes that have exited.                 *)
Next0NotExited ==
  /\ at = "next"
  /\ pid' = Successor(pid)
  /\ RunIf(proc_array[pid'].p_state # "P_ZOMBIE", "next")
  /\ UNCHANGED <<algorithm, proc_array, i, most_priority, entry>>

(* 0: step, then test.                                                     *)
Next0 ==
  /\ at = "next"
  /\ pid' = Successor(pid)
  /\ RunIf(Runnable(proc_array, pid'), "next")
  /\ UNCHANGED <<algorithm, proc_array, i, most_priority, entry>>

(* 1: the for loop from pid 0, inside the while loop that starts it again. *)
Lowest1 ==
  /\ at = "lowest"
  /\ IF pid < NPROCS
     THEN /\ RunIf(Runnable(proc_array, pid), "lowest")
          /\ pid' = IF Runnable(proc_array, pid) THEN pid ELSE pid + 1
     ELSE pid' = 0 /\ UNCHANGED at
  /\ UNCHANGED <<algorithm, proc_array, i, most_priority, entry>>

(* 2: the for loop that finds the lowest priority number ...               *)
Scan2 ==
  /\ at = "scan"
  /\ IF i < NPROCS
     THEN /\ most_priority' =
               IF /\ Runnable(proc_array, i)
                  /\ proc_array[i].p_priority < most_priority
               THEN proc_array[i].p_priority ELSE most_priority
          /\ i' = i + 1
          /\ UNCHANGED at
     ELSE at' = "seek" /\ UNCHANGED <<i, most_priority>>
  /\ UNCHANGED <<algorithm, proc_array, pid, entry>>

(* Mutant of Seek2: looks for a process more urgent than the most urgent.  *)
Seek2More ==
  /\ at = "seek"
  /\ pid' = Successor(pid)
  /\ RunIf(/\ Runnable(proc_array, pid')
           /\ proc_array[pid'].p_priority < most_priority, "seek")
  /\ UNCHANGED <<algorithm, proc_array, i, most_priority, entry>>

(* ... and the inner while loop, which looks for a process that has it.    *)
Seek2 ==
  /\ at = "seek"
  /\ pid' = Successor(pid)
  /\ RunIf(/\ Runnable(proc_array, pid')
           /\ proc_array[pid'].p_priority = most_priority, "seek")
  /\ UNCHANGED <<algorithm, proc_array, i, most_priority, entry>>

(* Mutant of Share3: pre-increments p_num_times.                           *)
Share3PreIncrement ==
  /\ at = "share"
  /\ LET times == proc_array[pid].p_num_times + 1
         within == times <= proc_array[pid].p_share
     IN  IF Runnable(proc_array, pid)
         THEN /\ proc_array' = [proc_array EXCEPT ![pid].p_num_times =
                                  IF within THEN times ELSE 0]
              /\ RunIf(within, "share")
              /\ pid' = IF within THEN pid ELSE Successor(pid)
         ELSE pid' = Successor(pid) /\ UNCHANGED <<proc_array, at>>
  /\ UNCHANGED <<algorithm, i, most_priority, entry>>

(* 3: test p_num_times++ against the share, then run, or reset and step.   *)
Share3 ==
  /\ at = "share"
  /\ LET times == proc_array[pid].p_num_times
         within == times <= proc_array[pid].p_share
     IN  IF Runnable(proc_array, pid)
         THEN /\ proc_array' = [proc_array EXCEPT ![pid].p_num_times =
                                  IF within THEN times + 1 ELSE 0]
              /\ RunIf(within, "share")
              /\ pid' = IF within THEN pid ELSE Successor(pid)
         ELSE pid' = Successor(pid) /\ UNCHANGED <<proc_array, at>>
  /\ UNCHANGED <<algorithm, i, most_priority, entry>>

(* 4: the cycle counter, modulo NPROCS, is a draw.                         *)
Draw4(drawn) ==
  /\ at = "draw"
  /\ pid' = drawn
  /\ RunIf(Runnable(proc_array, drawn), "draw")
  /\ UNCHANGED <<algorithm, proc_array, i, most_priority, entry>>

(* The process that has been chosen runs.                                  *)
Chosen == at = "run" /\ UNCHANGED loopVars

LoopNext ==
  \/ Next0
  \/ Lowest1
  \/ Scan2
  \/ Seek2
  \/ Share3
  \/ \E drawn \in Pids : Draw4(drawn)
  \/ Chosen

-----------------------------------------------------------------------------

(* Where a loop stops, it stops as Scheduler says: at a process the        *)
(* algorithm may pick, leaving the counters Kernel goes on with.           *)
LoopsPick ==
  at = "run" =>
    /\ Picks(algorithm, entry.table, entry.cur, pid)
    /\ proc_array = Charged(algorithm, entry.table, entry.cur, pid)

(* A choice is reached if there is one to reach ...                        *)
Pickable == \E p \in Pids : Picks(algorithm, entry.table, entry.cur, p)

LoopsEnd == Pickable ~> at = "run"

(* ... and if not the search goes on for ever over the descriptors with    *)
(* which Kernel's does.                                                    *)
LoopsSearch ==
  ~ Pickable ~> [](at # "run" /\ proc_array = Exhausted(algorithm, entry.table))

=============================================================================
