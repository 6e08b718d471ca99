--------------------------- MODULE ScheduleProofs ---------------------------
(***************************************************************************)
(* What TLAPS proves of Schedule: for every number of processes, every     *)
(* table of priorities and shares, and every size of the console.          *)
(***************************************************************************)
EXTENDS Schedule, SchedulerProofs, SequenceTheorems

-----------------------------------------------------------------------------
(* The loops.                                                              *)

(* The descriptors with the counters of the runnable processes among some  *)
(* set it to 0.                                                            *)
Reset(table, pids) ==
  [q \in Pids |-> IF Runnable(table, q) /\ q \in pids
                  THEN [table[q] EXCEPT !.p_num_times = 0] ELSE table[q]]

(* The processes a round from one pid has tested before it comes to        *)
(* another, and the ones a round from its successor has when it has tested *)
(* that one.                                                               *)
Before(cur, p) == {q \in Pids : StepsFrom(cur, q) < StepsFrom(cur, p)}
UpTo(cur, p) ==
  IF p = cur THEN {} ELSE {q \in Pids : StepsPast(cur, q) <= StepsPast(cur, p)}

NextInv(table, cur) ==
  /\ algorithm = 0 /\ pid \in Pids /\ proc_array = table
  /\ \A q \in UpTo(cur, pid) : ~ Runnable(table, q)

LowestInv(table) ==
  /\ algorithm = 1 /\ pid \in 0 .. NPROCS /\ proc_array = table
  /\ \A q \in Pids : q < pid => ~ Runnable(table, q)

(* most_priority is a bound of the priority numbers seen so far.           *)
ScanInv(table, cur) ==
  /\ algorithm = 2 /\ pid = cur /\ proc_array = table
  /\ i \in 0 .. NPROCS /\ most_priority \in Int
  /\ \A q \in Pids :
       q < i /\ Runnable(table, q) => most_priority <= table[q].p_priority

SeekInv(table, cur) ==
  /\ algorithm = 2 /\ pid \in Pids /\ proc_array = table
  /\ most_priority \in Int
  /\ \A q \in Pids : Runnable(table, q) => most_priority <= table[q].p_priority
  /\ \A q \in UpTo(cur, pid) :
       ~ (Runnable(table, q) /\ table[q].p_priority = most_priority)

(* In the first round no process before pid is within its share; in later  *)
(* ones none is at all, and before pid none has a share to renew.          *)
ShareInv(table, cur) ==
  /\ algorithm = 3 /\ pid \in Pids
  /\ \E pids \in {Before(cur, pid), Pids} :
       /\ proc_array = Reset(table, pids)
       /\ \A q \in pids : ~ WithinShare(table, q)
       /\ pids = Pids => \A q \in Before(cur, pid) : ~ Renewable(table, q)

DrawInv(table) == algorithm = 4 /\ proc_array = table

LoopInv ==
  LET table == entry.table
      cur   == entry.cur
  IN  /\ at \in {"next", "lowest", "scan", "seek", "share", "draw", "run"} =>
           table \in Tables /\ cur \in Pids
      /\ at = "next" => NextInv(table, cur)
      /\ at = "lowest" => LowestInv(table)
      /\ at = "scan" => ScanInv(table, cur)
      /\ at = "seek" => SeekInv(table, cur)
      /\ at = "share" => ShareInv(table, cur)
      /\ at = "draw" => DrawInv(table)
      /\ LoopsPick

-----------------------------------------------------------------------------
(* Going round.                                                            *)

(* One step of the loops brings the next pid under test.                   *)
LEMMA OneOn ==
  ASSUME NEW cur \in Pids, NEW p \in Pids
  PROVE  /\ Successor(p) \in Pids
         /\ StepsPast(cur, Successor(p)) =
              IF p = cur THEN 0 ELSE StepsPast(cur, p) + 1
         /\ StepsFrom(cur, p) = IF Successor(p) = cur THEN NPROCS - 1
                                ELSE StepsFrom(cur, Successor(p)) - 1
         /\ StepsFrom(cur, cur) = 0
<1>1. /\ p \in Int /\ cur \in Int /\ NPROCS \in Nat /\ NPROCS > 1
      /\ 0 <= p /\ p <= NPROCS - 1 /\ 0 <= cur /\ cur <= NPROCS - 1
  BY NPROCSAssumption DEF Pids
<1>2. Successor(p) = IF p = NPROCS - 1 THEN 0 ELSE p + 1
  <2>1. CASE p = NPROCS - 1
    BY <1>1, <2>1 DEF Successor
  <2>2. CASE p # NPROCS - 1
    BY <1>1, <2>2 DEF Successor
  <2> QED
    BY <2>1, <2>2
<1>3. Successor(p) \in Pids
  BY <1>1, <1>2 DEF Pids
<1> DEFINE s == Successor(p)
<1>4. s \in Pids /\ s = IF p = NPROCS - 1 THEN 0 ELSE p + 1
  BY <1>2, <1>3
<1> HIDE DEF s
<1>5. /\ StepsPast(cur, s) = IF s > cur THEN s - cur - 1 ELSE s - cur - 1 + NPROCS
      /\ StepsPast(cur, p) = IF p > cur THEN p - cur - 1 ELSE p - cur - 1 + NPROCS
      /\ StepsFrom(cur, s) = IF s >= cur THEN s - cur ELSE s - cur + NPROCS
      /\ StepsFrom(cur, p) = IF p >= cur THEN p - cur ELSE p - cur + NPROCS
      /\ StepsFrom(cur, cur) = cur - cur
  BY <1>1, <1>4, Rounds
<1>6. /\ StepsPast(cur, s) = IF p = cur THEN 0 ELSE StepsPast(cur, p) + 1
      /\ StepsFrom(cur, p) = IF s = cur THEN NPROCS - 1 ELSE StepsFrom(cur, s) - 1
      /\ StepsFrom(cur, cur) = 0
  BY <1>1, <1>4, <1>5
<1> QED
  BY <1>4, <1>6 DEF s

(* What has been tested before the successor: what had been before, and    *)
(* the pid itself; when it is the first of a round, everything had been.   *)
LEMMA BeforeNext ==
  ASSUME NEW cur \in Pids, NEW p \in Pids
  PROVE  /\ Before(cur, cur) = {}
         /\ p \notin Before(cur, p)
         /\ Before(cur, p) \cup {p} =
              IF Successor(p) = cur THEN Pids ELSE Before(cur, Successor(p))
<1> DEFINE s == Successor(p)
<1>1. s \in Pids
  BY OneOn
<1>2. /\ StepsFrom(cur, p) = IF s = cur THEN NPROCS - 1
                             ELSE StepsFrom(cur, s) - 1
      /\ StepsFrom(cur, cur) = 0
  BY OneOn
<1> HIDE DEF s
<1>3. \A q \in Pids : /\ StepsFrom(cur, q) \in 0 .. NPROCS - 1
                      /\ StepsFrom(cur, q) = StepsFrom(cur, p) => q = p
  BY RoundsApart
<1>4. NPROCS \in Int
  BY NPROCSAssumption
<1>5. Before(cur, cur) = {} /\ p \notin Before(cur, p)
  BY <1>2, <1>3, <1>4 DEF Before
<1>6. ASSUME NEW q \in Pids
      PROVE  q \in Before(cur, p) \cup {p} <=>
               s = cur \/ q \in Before(cur, s)
  BY <1>1, <1>2, <1>3, <1>4 DEF Before
<1>7. Before(cur, p) \subseteq Pids /\ Before(cur, s) \subseteq Pids
  BY DEF Before
<1>8. Before(cur, p) \cup {p} = IF s = cur THEN Pids ELSE Before(cur, s)
  BY <1>6, <1>7
<1> QED
  BY <1>5, <1>8 DEF s

LEMMA UpToNext ==
  ASSUME NEW cur \in Pids, NEW p \in Pids, NEW q \in UpTo(cur, Successor(p))
  PROVE  q \in Pids /\ (q = Successor(p) \/ q \in UpTo(cur, p))
<1> DEFINE s == Successor(p)
<1>1. s \in Pids
  BY OneOn
<1>2. StepsPast(cur, s) = IF p = cur THEN 0 ELSE StepsPast(cur, p) + 1
  BY OneOn
<1>3. q \in Pids /\ StepsPast(cur, q) <= StepsPast(cur, s)
  BY DEF UpTo
<1> HIDE DEF s
<1>4. /\ StepsPast(cur, q) \in Int /\ StepsPast(cur, q) >= 0
      /\ StepsPast(cur, p) \in Int /\ StepsPast(cur, s) \in Int
      /\ StepsPast(cur, q) = StepsPast(cur, s) => q = s
  BY <1>1, <1>3, RoundsApart, NPROCSAssumption
<1>5. CASE p = cur
  BY <1>2, <1>3, <1>4, <1>5 DEF s
<1>6. CASE p # cur
  BY <1>2, <1>3, <1>4, <1>6 DEF s, UpTo
<1> QED
  BY <1>5, <1>6

(* And what remains to be tested from the successor on.                    *)
LEMMA NotUpTo ==
  ASSUME NEW cur \in Pids, NEW p \in Pids, NEW q \in Pids, q \notin UpTo(cur, p)
  PROVE  StepsPast(cur, Successor(p)) <= StepsPast(cur, q)
<1> DEFINE s == Successor(p)
<1>1. s \in Pids
  BY OneOn
<1>2. StepsPast(cur, s) = IF p = cur THEN 0 ELSE StepsPast(cur, p) + 1
  BY OneOn
<1> HIDE DEF s
<1>3. /\ StepsPast(cur, q) \in Int /\ StepsPast(cur, q) >= 0
      /\ StepsPast(cur, p) \in Int
  BY RoundsApart, NPROCSAssumption
<1>4. StepsPast(cur, s) <= StepsPast(cur, q)
  BY <1>2, <1>3 DEF UpTo
<1> QED
  BY <1>4 DEF s

-----------------------------------------------------------------------------
(* The steps.                                                              *)

(* The descriptors of one share among those schedule() may find.           *)
WithFields(state, priority, share, times) ==
  [EmptyDescriptor EXCEPT !.p_state = state, !.p_priority = priority,
                          !.p_share = share, !.p_num_times = times]

EntriesOf(a, share) ==
  {WithFields(state, priority, share, times) :
     state \in {"P_RUNNABLE", "P_ZOMBIE"},
     priority \in IF a = 2 THEN Priorities ELSE {0},
     times \in IF a = 3 /\ share >= 0 THEN 0 .. share + 1 ELSE {0}}

LEMMA EntriesType ==
  ASSUME NEW a
  PROVE  Entries(a) \subseteq Descriptor
<1> DEFINE S == IF a = 3 THEN Shares ELSE {0}
<1>1. Entries(a) = UNION {EntriesOf(a, share) : share \in S}
  BY DEF Entries, EntriesOf, WithFields
<1>2. S \subseteq Int
  BY ScheduleLoopAssumption
<1>3. ASSUME NEW share \in Int PROVE EntriesOf(a, share) \subseteq Descriptor
  <2>1. ASSUME NEW state \in {"P_RUNNABLE", "P_ZOMBIE"},
               NEW priority \in IF a = 2 THEN Priorities ELSE {0},
               NEW times \in IF a = 3 /\ share >= 0 THEN 0 .. share + 1 ELSE {0}
        PROVE  WithFields(state, priority, share, times) \in Descriptor
    <3>1. EmptyDescriptor \in Descriptor /\ state \in States
      BY DEF EmptyDescriptor, Descriptor, States
    <3>2. priority \in Int /\ times \in Int
      BY ScheduleLoopAssumption
    <3> QED
      BY <3>1, <3>2 DEF Descriptor, WithFields
  <2> QED
    BY <2>1 DEF EntriesOf
<1> HIDE DEF S
<1> QED
  BY <1>1, <1>2, <1>3

(* schedule() begins its loop.                                             *)
LEMMA LoopStarts == LoopInit => LoopInv
<1> SUFFICES ASSUME LoopInit PROVE LoopInv
  OBVIOUS
<1>1. PICK table \in [Apps -> Entries(algorithm)] :
        proc_array = [p \in Pids |-> IF p \in Apps THEN table[p]
                                     ELSE EmptyDescriptor]
  BY DEF LoopInit
<1>2. /\ algorithm \in 0 .. 4
      /\ entry.table = proc_array /\ entry.cur \in Apps
      /\ pid = IF algorithm = 1 THEN 0 ELSE entry.cur
      /\ i = 0 /\ most_priority = INT_MAX
      /\ at = Loop[algorithm + 1]
  BY DEF LoopInit, Algorithms
<1>3. entry.cur \in Pids /\ 0 \in Pids
  BY <1>2, NPROCSAssumption DEF Apps, Pids
<1>4. Entries(algorithm) \subseteq Descriptor
  BY EntriesType
<1>5. proc_array \in Tables
  <2>1. EmptyDescriptor \in Descriptor
    BY DEF EmptyDescriptor, Descriptor, States
  <2> QED
    BY <1>1, <1>4, <2>1 DEF Tables
<1>6. at = "next" => NextInv(entry.table, entry.cur)
  BY <1>2, <1>3 DEF NextInv, UpTo, Loop
<1>7. at = "lowest" => LowestInv(entry.table)
  BY <1>2, NPROCSAssumption DEF LowestInv, Loop, Pids
<1>8. at = "scan" => ScanInv(entry.table, entry.cur)
  BY <1>2, NPROCSAssumption, ScheduleLoopAssumption DEF ScanInv, Loop, Pids
<1>9. at = "share" => ShareInv(entry.table, entry.cur)
  <2> SUFFICES ASSUME at = "share" PROVE ShareInv(entry.table, entry.cur)
    OBVIOUS
  <2>1. algorithm = 3 /\ pid = entry.cur
    BY <1>2 DEF Loop
  <2>2. Before(entry.cur, pid) = {}
    BY <1>3, <2>1, BeforeNext
  <2>3. proc_array = Reset(entry.table, {})
    BY <1>1, <1>2, <1>5 DEF Reset, Tables
  <2>4. {} # Pids
    BY <1>3
  <2> QED
    BY <1>3, <2>1, <2>2, <2>3, <2>4 DEF ShareInv
<1>10. at = "draw" => DrawInv(entry.table)
  BY <1>2 DEF DrawInv, Loop
<1>11. at \notin {"run", "seek"}
  BY <1>2 DEF Loop
<1> QED
  BY <1>2, <1>3, <1>5, <1>6, <1>7, <1>8, <1>9, <1>10, <1>11 DEF LoopInv, LoopsPick

LEMMA NextLoopKeeps ==
  ASSUME LoopInv, Next0
  PROVE  LoopInv'
<1> DEFINE table == entry.table
           cur == entry.cur
<1>1. /\ at = "next" /\ pid' = Successor(pid)
      /\ at' = IF Runnable(proc_array, pid') THEN "run" ELSE "next"
      /\ entry' = entry /\ algorithm' = algorithm /\ proc_array' = proc_array
  BY DEF Next0, RunIf
<1>2. /\ table \in Tables /\ cur \in Pids
      /\ algorithm = 0 /\ pid \in Pids /\ proc_array = table
      /\ \A q \in UpTo(cur, pid) : ~ Runnable(table, q)
  BY <1>1 DEF LoopInv, NextInv
<1> DEFINE s == Successor(pid)
<1>3. s \in Pids
  BY <1>2, OneOn
<1>4. CASE Runnable(table, s)
  <2>1. \A q \in Pids : Runnable(table, q) => StepsPast(cur, s) <= StepsPast(cur, q)
    BY <1>2, NotUpTo
  <2>2. Picks(0, table, cur, s)
    BY <1>4, <2>1 DEF Picks, RoundRobin
  <2>3. proc_array = Charged(0, table, cur, s)
    BY <1>2 DEF Charged
  <2> QED
    BY <1>1, <1>2, <1>4, <2>2, <2>3 DEF LoopInv, LoopsPick
<1>5. CASE ~ Runnable(table, s)
  <2>1. \A q \in UpTo(cur, s) : ~ Runnable(table, q)
    BY <1>2, <1>5, UpToNext
  <2>2. NextInv(table, cur)'
    BY <1>1, <1>2, <1>3, <2>1 DEF NextInv
  <2> QED
    BY <1>1, <1>2, <1>5, <2>2 DEF LoopInv, LoopsPick
<1> QED
  BY <1>4, <1>5

LEMMA LowestLoopKeeps ==
  ASSUME LoopInv, Lowest1
  PROVE  LoopInv'
<1> DEFINE table == entry.table
           cur == entry.cur
<1>1. /\ at = "lowest"
      /\ entry' = entry /\ algorithm' = algorithm /\ proc_array' = proc_array
  BY DEF Lowest1
<1>2. /\ table \in Tables /\ cur \in Pids
      /\ algorithm = 1 /\ pid \in 0 .. NPROCS /\ proc_array = table
      /\ \A q \in Pids : q < pid => ~ Runnable(table, q)
  BY <1>1 DEF LoopInv, LowestInv
<1>3. NPROCS \in Nat /\ \A q \in Pids : q \in Int /\ q >= 0
  BY NPROCSAssumption DEF Pids
<1>4. CASE pid < NPROCS /\ Runnable(proc_array, pid)
  <2>1. at' = "run" /\ pid' = pid
    BY <1>4 DEF Lowest1, RunIf
  <2>2. \A q \in Pids : Runnable(table, q) => pid <= q
    BY <1>2, <1>3
  <2>3. Picks(1, table, cur, pid)
    BY <1>2, <1>4, <2>2 DEF Picks, LowestPid
  <2>4. proc_array = Charged(1, table, cur, pid)
    BY <1>2 DEF Charged
  <2> QED
    BY <1>1, <1>2, <2>1, <2>3, <2>4 DEF LoopInv, LoopsPick
<1>5. CASE pid < NPROCS /\ ~ Runnable(proc_array, pid)
  <2>1. at' = "lowest" /\ pid' = pid + 1
    BY <1>5 DEF Lowest1, RunIf
  <2>2. pid + 1 \in 0 .. NPROCS /\ \A q \in Pids : q < pid + 1 => q < pid \/ q = pid
    BY <1>2, <1>3, <1>5
  <2>3. LowestInv(table)'
    BY <1>1, <1>2, <1>5, <2>1, <2>2 DEF LowestInv
  <2> QED
    BY <1>1, <1>2, <2>1, <2>3 DEF LoopInv, LoopsPick
<1>6. CASE ~ (pid < NPROCS)
  <2>1. at' = "lowest" /\ pid' = 0
    BY <1>1, <1>6 DEF Lowest1
  <2>2. 0 \in 0 .. NPROCS /\ \A q \in Pids : ~ (q < 0)
    BY <1>3
  <2>3. LowestInv(table)'
    BY <1>1, <1>2, <2>1, <2>2 DEF LowestInv
  <2> QED
    BY <1>1, <1>2, <2>1, <2>3 DEF LoopInv, LoopsPick
<1> QED
  BY <1>4, <1>5, <1>6

LEMMA ScanLoopKeeps ==
  ASSUME LoopInv, Scan2
  PROVE  LoopInv'
<1> DEFINE table == entry.table
           cur == entry.cur
<1>1. /\ at = "scan" /\ entry' = entry /\ algorithm' = algorithm
      /\ proc_array' = proc_array /\ pid' = pid
  BY DEF Scan2
<1>2. /\ table \in Tables /\ cur \in Pids
      /\ algorithm = 2 /\ pid = cur /\ proc_array = table
      /\ i \in 0 .. NPROCS /\ most_priority \in Int
      /\ \A q \in Pids :
           q < i /\ Runnable(table, q) => most_priority <= table[q].p_priority
  BY <1>1 DEF LoopInv, ScanInv
<1>3. NPROCS \in Nat /\ \A q \in Pids : q \in Int /\ q >= 0 /\ q < NPROCS
  BY NPROCSAssumption DEF Pids
<1>4. CASE i < NPROCS
  <2>1. /\ at' = "scan" /\ i' = i + 1
        /\ most_priority' =
             IF Runnable(table, i) /\ table[i].p_priority < most_priority
             THEN table[i].p_priority ELSE most_priority
    BY <1>1, <1>2, <1>4 DEF Scan2
  <2>2. i \in Pids /\ table[i].p_priority \in Int
    BY <1>2, <1>4, NPROCSAssumption DEF Pids, Tables, Descriptor
  <2>3. most_priority' \in Int /\ most_priority' <= most_priority
        /\ (Runnable(table, i) => most_priority' <= table[i].p_priority)
    BY <1>2, <2>1, <2>2
  <2>4. \A q \in Pids : table[q].p_priority \in Int
    BY <1>2 DEF Tables, Descriptor
  <2>5. ASSUME NEW q \in Pids, q < i', Runnable(table, q)
        PROVE  most_priority' <= table[q].p_priority
    <3>1. q < i \/ q = i
      BY <1>2, <1>3, <2>1, <2>5
    <3> QED
      BY <1>2, <2>3, <2>4, <2>5, <3>1
  <2>6. i' \in 0 .. NPROCS
    BY <1>2, <1>3, <1>4, <2>1
  <2>7. ScanInv(table, cur)'
    BY <1>1, <1>2, <2>3, <2>5, <2>6 DEF ScanInv
  <2> QED
    BY <1>1, <1>2, <2>1, <2>7 DEF LoopInv, LoopsPick
<1>5. CASE ~ (i < NPROCS)
  <2>1. at' = "seek" /\ most_priority' = most_priority
    BY <1>1, <1>5 DEF Scan2
  <2>2. \A q \in Pids : Runnable(table, q) => most_priority <= table[q].p_priority
    BY <1>2, <1>3, <1>5
  <2>3. UpTo(cur, cur) = {}
    BY DEF UpTo
  <2>4. SeekInv(table, cur)'
    BY <1>1, <1>2, <2>1, <2>2, <2>3 DEF SeekInv
  <2> QED
    BY <1>1, <1>2, <2>1, <2>4 DEF LoopInv, LoopsPick
<1> QED
  BY <1>4, <1>5

LEMMA SeekLoopKeeps ==
  ASSUME LoopInv, Seek2
  PROVE  LoopInv'
<1> DEFINE table == entry.table
           cur == entry.cur
           s == Successor(pid)
           Wanted(q) == Runnable(table, q) /\ table[q].p_priority = most_priority
<1>1. /\ at = "seek" /\ entry' = entry /\ algorithm' = algorithm
      /\ proc_array' = proc_array /\ most_priority' = most_priority /\ pid' = s
  BY DEF Seek2
<1>2. /\ table \in Tables /\ cur \in Pids
      /\ algorithm = 2 /\ pid \in Pids /\ proc_array = table
      /\ most_priority \in Int
      /\ \A q \in Pids : Runnable(table, q) => most_priority <= table[q].p_priority
      /\ \A q \in UpTo(cur, pid) : ~ Wanted(q)
  BY <1>1 DEF LoopInv, SeekInv
<1>3. s \in Pids
  BY <1>2, OneOn
<1>4. at' = IF Wanted(s) THEN "run" ELSE "seek"
  BY <1>1, <1>2 DEF Seek2, RunIf
<1>5. CASE Wanted(s)
  <2>1. MostUrgent(table, s)
    BY <1>2, <1>5 DEF MostUrgent
  <2>2. ASSUME NEW q \in Pids, MostUrgent(table, q)
        PROVE  StepsPast(cur, s) <= StepsPast(cur, q)
    <3>1. Runnable(table, q) /\ table[q].p_priority <= table[s].p_priority
      BY <1>3, <1>5, <2>2 DEF MostUrgent
    <3>2. table[q].p_priority \in Int
      BY <1>2 DEF Tables, Descriptor
    <3>3. Wanted(q)
      BY <1>2, <1>5, <3>1, <3>2
    <3> QED
      BY <1>2, <3>3, NotUpTo
  <2>3. Picks(2, table, cur, s)
    BY <2>1, <2>2 DEF Picks, HighestPriority
  <2>4. proc_array = Charged(2, table, cur, s)
    BY <1>2 DEF Charged
  <2> QED
    BY <1>1, <1>2, <1>4, <1>5, <2>3, <2>4 DEF LoopInv, LoopsPick
<1>6. CASE ~ Wanted(s)
  <2>1. \A q \in UpTo(cur, s) : ~ Wanted(q)
    BY <1>2, <1>6, UpToNext
  <2>2. SeekInv(table, cur)'
    BY <1>1, <1>2, <1>3, <2>1 DEF SeekInv
  <2> QED
    BY <1>1, <1>2, <1>4, <1>6, <2>2 DEF LoopInv, LoopsPick
<1> QED
  BY <1>5, <1>6

LEMMA DrawLoopKeeps ==
  ASSUME LoopInv, NEW drawn \in Pids, Draw4(drawn)
  PROVE  LoopInv'
<1> DEFINE table == entry.table
           cur == entry.cur
<1>1. /\ at = "draw" /\ pid' = drawn
      /\ at' = IF Runnable(proc_array, drawn) THEN "run" ELSE "draw"
      /\ entry' = entry /\ algorithm' = algorithm /\ proc_array' = proc_array
  BY DEF Draw4, RunIf
<1>2. /\ table \in Tables /\ cur \in Pids
      /\ algorithm = 4 /\ proc_array = table
  BY <1>1 DEF LoopInv, DrawInv
<1>3. Runnable(table, drawn) => Picks(4, table, cur, drawn)
  BY DEF Picks
<1>4. proc_array = Charged(4, table, cur, drawn)
  BY <1>2 DEF Charged
<1> QED
  BY <1>1, <1>2, <1>3, <1>4 DEF LoopInv, LoopsPick, DrawInv

(* The counters of algorithm 3: what a pass resets, and what the process   *)
(* that is chosen is charged.                                              *)
LEMMA ResetFields ==
  ASSUME NEW table \in Tables, NEW pids, NEW p \in Pids
  PROVE  LET new == Reset(table, pids)
         IN  /\ Runnable(new, p) <=> Runnable(table, p)
             /\ new[p].p_share = table[p].p_share
             /\ new[p].p_num_times = IF Runnable(table, p) /\ p \in pids THEN 0
                                     ELSE table[p].p_num_times
<1>1. table[p] \in Descriptor
  BY DEF Tables
<1>2. Reset(table, pids)[p] = IF Runnable(table, p) /\ p \in pids
                              THEN [table[p] EXCEPT !.p_num_times = 0] ELSE table[p]
  BY DEF Reset
<1> QED
  BY <1>1, <1>2 DEF Descriptor, Runnable

LEMMA ResetMore ==
  ASSUME NEW table \in Tables, NEW pids, NEW p \in Pids
  PROVE  Reset(table, pids \cup {p}) =
           IF Runnable(table, p)
           THEN [Reset(table, pids) EXCEPT ![p].p_num_times = 0]
           ELSE Reset(table, pids)
<1> DEFINE old == Reset(table, pids)
           new == [old EXCEPT ![p].p_num_times = 0]
<1>1. \A q \in Pids :
        old[q] = IF Runnable(table, q) /\ q \in pids
                 THEN [table[q] EXCEPT !.p_num_times = 0] ELSE table[q]
  BY DEF Reset
<1>2. DOMAIN old = Pids
  BY DEF Reset
<1>3. new = [q \in Pids |-> IF q = p THEN [old[p] EXCEPT !.p_num_times = 0] ELSE old[q]]
  BY <1>2
<1>4. [[table[p] EXCEPT !.p_num_times = 0] EXCEPT !.p_num_times = 0] =
        [table[p] EXCEPT !.p_num_times = 0]
  <2>1. table[p] \in Descriptor
    BY DEF Tables
  <2> QED
    BY <2>1 DEF Descriptor
<1>5. old = [q \in Pids |-> old[q]]
  BY DEF Reset
<1> HIDE DEF old, new
<1>6. CASE Runnable(table, p)
  <2>1. \A q \in Pids : new[q] = IF Runnable(table, q) /\ q \in pids \cup {p}
                                 THEN [table[q] EXCEPT !.p_num_times = 0] ELSE table[q]
    BY <1>1, <1>3, <1>4, <1>6
  <2>2. new = [q \in Pids |-> new[q]]
    BY <1>3
  <2>3. new = Reset(table, pids \cup {p})
    BY <2>1, <2>2 DEF Reset
  <2> QED
    BY <1>6, <2>3 DEF old, new
<1>7. CASE ~ Runnable(table, p)
  <2>1. \A q \in Pids : old[q] = IF Runnable(table, q) /\ q \in pids \cup {p}
                                 THEN [table[q] EXCEPT !.p_num_times = 0] ELSE table[q]
    BY <1>1, <1>7
  <2>2. old = Reset(table, pids \cup {p})
    BY <1>5, <2>1 DEF Reset
  <2> QED
    BY <1>7, <2>2 DEF old
<1> QED
  BY <1>6, <1>7

LEMMA ChargedThen ==
  ASSUME NEW table \in Tables, NEW cur, NEW p \in Pids, Runnable(table, p),
         NEW pids \in SUBSET Pids,
         pids = IF WithinShare(table, p) THEN Before(cur, p) ELSE Pids,
         WithinShare(table, p) => p \notin pids
  PROVE  Charged(3, table, cur, p) =
           [Reset(table, pids) EXCEPT
              ![p].p_num_times = Reset(table, pids)[p].p_num_times + 1]
<1> DEFINE old == Reset(table, pids)
           new == [old EXCEPT ![p].p_num_times = old[p].p_num_times + 1]
           Count(q) == IF Runnable(table, q) /\ q \in pids THEN 0
                       ELSE table[q].p_num_times
<1>1. \A q \in Pids :
        old[q] = IF Runnable(table, q) /\ q \in pids
                 THEN [table[q] EXCEPT !.p_num_times = 0] ELSE table[q]
  BY DEF Reset
<1>2. DOMAIN old = Pids
  BY DEF Reset
<1>3. \A q \in Pids : table[q] \in Descriptor
  BY DEF Tables
<1>4. ASSUME NEW q \in Pids
      PROVE  /\ table[q] = [table[q] EXCEPT !.p_num_times = table[q].p_num_times]
             /\ [table[q] EXCEPT !.p_num_times = 0].p_num_times = 0
             /\ \A n, m : [[table[q] EXCEPT !.p_num_times = n] EXCEPT !.p_num_times = m]
                            = [table[q] EXCEPT !.p_num_times = m]
  BY <1>3 DEF Descriptor
<1>5. \A q \in Pids : /\ old[q] = [table[q] EXCEPT !.p_num_times = Count(q)]
                      /\ old[q].p_num_times = Count(q)
  BY <1>1, <1>4
<1>6. ASSUME NEW q \in Pids
      PROVE  NumTimes(table, cur, p, q) = IF q = p THEN Count(q) + 1 ELSE Count(q)
  <2>1. q \in pids <=> ~ WithinShare(table, p) \/ StepsFrom(cur, q) < StepsFrom(cur, p)
    BY DEF Before
  <2> QED
    BY <2>1 DEF NumTimes
<1>7. new = [q \in Pids |-> IF q = p THEN [old[p] EXCEPT !.p_num_times = Count(p) + 1]
                            ELSE old[q]]
  BY <1>2, <1>5
<1> HIDE DEF old, new, Count
<1>8. \A q \in Pids :
        new[q] = [table[q] EXCEPT !.p_num_times = NumTimes(table, cur, p, q)]
  <2> TAKE q \in Pids
  <2>1. CASE q = p
    <3>1. new[q] = [[table[p] EXCEPT !.p_num_times = Count(p)]
                      EXCEPT !.p_num_times = Count(p) + 1]
      BY <1>5, <1>7, <2>1
    <3> QED
      BY <1>4, <1>6, <2>1, <3>1
  <2>2. CASE q # p
    BY <1>5, <1>6, <1>7, <2>2
  <2> QED
    BY <2>1, <2>2
<1>9. new = [q \in Pids |-> new[q]]
  BY <1>7
<1>10. new = Charged(3, table, cur, p)
  BY <1>8, <1>9 DEF Charged
<1> QED
  BY <1>10 DEF new, old

(* A pass over a process that is not run: one more has been tested, or the *)
(* first of the next round comes up.                                       *)
LEMMA ShareGoesOn ==
  ASSUME NEW table \in Tables, NEW cur \in Pids, NEW p \in Pids,
         NEW pids \in {Before(cur, p), Pids},
         \A q \in pids : ~ WithinShare(table, q),
         pids = Pids => \A q \in Before(cur, p) : ~ Renewable(table, q),
         p \notin pids => ~ WithinShare(table, p),
         p \in pids => ~ Renewable(table, p)
  PROVE  LET s == Successor(p)
             more == pids \cup {p}
         IN  /\ more \in {Before(cur, s), Pids}
             /\ \A q \in more : ~ WithinShare(table, q)
             /\ more = Pids => \A q \in Before(cur, s) : ~ Renewable(table, q)
<1> DEFINE s == Successor(p)
           more == pids \cup {p}
<1>1. /\ Before(cur, cur) = {} /\ p \notin Before(cur, p)
      /\ Before(cur, p) \cup {p} = IF s = cur THEN Pids ELSE Before(cur, s)
  BY BeforeNext
<1>2. \A q \in more : ~ WithinShare(table, q)
  OBVIOUS
<1>3. s \in Pids /\ s \notin Before(cur, s)
  BY OneOn, BeforeNext
<1>4. CASE pids = Pids
  BY <1>1, <1>2, <1>4
<1>5. CASE pids # Pids
  BY <1>1, <1>2, <1>3, <1>5
<1> QED
  BY <1>4, <1>5

LEMMA ShareLoopKeeps ==
  ASSUME LoopInv, Share3
  PROVE  LoopInv'
<1> DEFINE table == entry.table
           cur == entry.cur
           s == Successor(pid)
           times == proc_array[pid].p_num_times
           within == times <= proc_array[pid].p_share
<1>1. at = "share" /\ entry' = entry /\ algorithm' = algorithm
  BY DEF Share3
<1>2. /\ table \in Tables /\ cur \in Pids /\ ShareInv(table, cur)
  BY <1>1 DEF LoopInv
<1>3. algorithm = 3 /\ pid \in Pids
  BY <1>2 DEF ShareInv
<1>4. PICK pids \in {Before(cur, pid), Pids} :
        /\ proc_array = Reset(table, pids)
        /\ \A q \in pids : ~ WithinShare(table, q)
        /\ pids = Pids => \A q \in Before(cur, pid) : ~ Renewable(table, q)
  BY <1>2 DEF ShareInv
<1>5. pids \in SUBSET Pids
  BY <1>4 DEF Before
<1>6. /\ Runnable(proc_array, pid) <=> Runnable(table, pid)
      /\ proc_array[pid].p_share = table[pid].p_share
      /\ times = IF Runnable(table, pid) /\ pid \in pids THEN 0
                 ELSE table[pid].p_num_times
  BY <1>2, <1>3, <1>4, ResetFields
<1>7. pid \notin pids => pids = Before(cur, pid)
  BY <1>3, <1>4
<1>8. pid \in pids => pids = Pids
  BY <1>2, <1>3, <1>4, BeforeNext
<1>9. /\ pid \notin pids => (WithinShare(table, pid) <=> Runnable(table, pid) /\ within)
      /\ pid \in pids => (Renewable(table, pid) <=> Runnable(table, pid) /\ within)
  BY <1>6 DEF WithinShare, Renewable, WithinCount
<1>10. CASE Runnable(table, pid) /\ within
  <2>1. /\ at' = "run" /\ pid' = pid
        /\ proc_array' = [proc_array EXCEPT ![pid].p_num_times = times + 1]
    BY <1>1, <1>6, <1>10 DEF Share3, RunIf
  <2>2. /\ pids = IF WithinShare(table, pid) THEN Before(cur, pid) ELSE Pids
        /\ WithinShare(table, pid) => pid \notin pids
    BY <1>4, <1>7, <1>8, <1>9, <1>10
  <2>3. proc_array' = Charged(3, table, cur, pid)
    BY <1>2, <1>3, <1>4, <1>5, <1>10, <2>1, <2>2, ChargedThen
  <2>4. \A q \in Pids : StepsFrom(cur, q) \in Int
    BY <1>2, RoundsApart, NPROCSAssumption
  <2>5. ProportionalShare(table, cur, pid)
    <3>1. CASE pid \notin pids
      <4>1. WithinShare(table, pid)
        BY <1>9, <1>10, <3>1
      <4>2. \A q \in Pids : WithinShare(table, q) =>
                              StepsFrom(cur, pid) <= StepsFrom(cur, q)
        BY <1>3, <1>4, <1>7, <2>4, <3>1 DEF Before
      <4> QED
        BY <1>3, <4>1, <4>2 DEF ProportionalShare, FirstFrom
    <3>2. CASE pid \in pids
      <4>1. Renewable(table, pid) /\ ~ \E q \in Pids : WithinShare(table, q)
        BY <1>4, <1>8, <1>9, <1>10, <3>2
      <4>2. \A q \in Pids : Renewable(table, q) =>
                              StepsFrom(cur, pid) <= StepsFrom(cur, q)
        BY <1>3, <1>4, <1>8, <2>4, <3>2 DEF Before
      <4> QED
        BY <4>1, <4>2 DEF ProportionalShare, FirstFrom
    <3> QED
      BY <3>1, <3>2
  <2>6. Picks(3, table, cur, pid)
    BY <2>5 DEF Picks
  <2> QED
    BY <1>1, <1>2, <1>3, <2>1, <2>3, <2>6 DEF LoopInv, LoopsPick
<1>11. CASE ~ (Runnable(table, pid) /\ within)
  <2> DEFINE more == pids \cup {pid}
  <2>1. at' = "share" /\ pid' = s
    BY <1>1, <1>6, <1>11 DEF Share3, RunIf
  <2>2. proc_array' = IF Runnable(table, pid)
                      THEN [proc_array EXCEPT ![pid].p_num_times = 0]
                      ELSE proc_array
    BY <1>6, <1>11 DEF Share3
  <2>3. proc_array' = Reset(table, more)
    BY <1>2, <1>3, <1>4, <2>2, ResetMore
  <2>4. /\ more \in {Before(cur, s), Pids}
        /\ \A q \in more : ~ WithinShare(table, q)
        /\ more = Pids => \A q \in Before(cur, s) : ~ Renewable(table, q)
    BY <1>2, <1>3, <1>4, <1>9, <1>11, ShareGoesOn
  <2>5. s \in Pids
    BY <1>2, <1>3, OneOn
  <2> HIDE DEF more
  <2>6. ShareInv(table, cur)'
    BY <1>1, <1>3, <2>1, <2>3, <2>4, <2>5 DEF ShareInv
  <2> QED
    BY <1>1, <1>2, <2>1, <2>6 DEF LoopInv, LoopsPick
<1> QED
  BY <1>10, <1>11

(* Any step of schedule() that is not one of a loop leaves all of them.    *)
LEMMA LoopsKeep ==
  ASSUME LoopInv, [Next]_vars
  PROVE  LoopInv'
<1>1. CASE Next0
  BY <1>1, NextLoopKeeps
<1>2. CASE Lowest1
  BY <1>2, LowestLoopKeeps
<1>3. CASE Scan2
  BY <1>3, ScanLoopKeeps
<1>4. CASE Seek2
  BY <1>4, SeekLoopKeeps
<1>5. CASE Share3
  BY <1>5, ShareLoopKeeps
<1>6. ASSUME NEW drawn \in Pids, Draw4(drawn) PROVE LoopInv'
  BY <1>6, DrawLoopKeeps
<1>7. CASE UNCHANGED loopVars
  BY <1>7 DEF loopVars, LoopInv, LoopsPick, NextInv, LowestInv, ScanInv, SeekInv,
              ShareInv, DrawInv
<1>8. CASE \E from \in {"unknown", "other", "print"}, to \in {"print", "spin"} :
             At(from, to)
  BY <1>8 DEF At, LoopInv, LoopsPick
<1>9. UNCHANGED vars => UNCHANGED loopVars
  BY DEF vars, loopVars
<1>10. Next \/ UNCHANGED vars
  OBVIOUS
<1> QED
  BY <1>1, <1>2, <1>3, <1>4, <1>5, <1>6, <1>7, <1>8, <1>9, <1>10
     DEF Next, LoopNext, Chosen, UnknownAlgorithm, OtherCall, PrintNext, Printed, Spin

(* Whatever the table, a loop that reaches run() does so at a process the  *)
(* algorithm may pick, and leaves the counters of Charged: the operators   *)
(* by which Kernel schedules are what the loops of schedule() compute.     *)
THEOREM LoopsPickRight == Spec => []LoopsPick
<1>1. Init => LoopInv
  <2>1. CASE at \in {"unknown", "other"}
    BY <2>1 DEF LoopInv, LoopsPick
  <2> QED
    BY <2>1, LoopStarts DEF Init
<1>2. LoopInv /\ [Next]_vars => LoopInv'
  BY LoopsKeep
<1>3. LoopInv => LoopsPick
  BY DEF LoopInv
<1> QED
  BY <1>1, <1>2, <1>3, PTL DEF Spec

-----------------------------------------------------------------------------
(* The console.                                                            *)

(* From a cell of the console, a character or the rest of its row ends on  *)
(* the console or just behind it.                                          *)
LEMMA RowEnds ==
  ASSUME NEW from \in 0 .. CONSOLE_END - 1
  PROVE  LET next == from + COLS - (from % COLS)
         IN  next \in Int /\ from < next /\ next <= CONSOLE_END
<1>1. COLS \in Nat /\ COLS > 0 /\ ROWS \in Nat /\ from \in Nat
  BY ConsolePrintfAssumption DEF CONSOLE_END
<1> DEFINE q == from \div COLS
           r == from % COLS
<1>2. q \in Nat /\ r \in 0 .. COLS - 1 /\ from = COLS * q + r
  BY <1>1
<1> HIDE DEF q, r
<1>3. q < ROWS
  <2>1. COLS * q < COLS * ROWS
    BY <1>1, <1>2 DEF CONSOLE_END
  <2> QED
    BY <1>1, <1>2, <2>1
<1>4. COLS * (q + 1) <= COLS * ROWS
  BY <1>1, <1>2, <1>3
<1>5. from + COLS - r = COLS * (q + 1) /\ COLS * (q + 1) \in Int
  BY <1>1, <1>2
<1> QED
  BY <1>1, <1>2, <1>4, <1>5 DEF CONSOLE_END, r

LEMMA PutInConsole ==
  ASSUME NEW place \in 0 .. CONSOLE_END, NEW shown, NEW c, NEW attribute,
         DOMAIN shown \subseteq 0 .. CONSOLE_END - 1
  PROVE  LET console == console_putc([cursor |-> place, cells |-> shown], c, attribute)
         IN  /\ console.cursor \in 0 .. CONSOLE_END
             /\ DOMAIN console.cells \subseteq 0 .. CONSOLE_END - 1
<1> DEFINE from == IF place >= CONSOLE_END THEN 0 ELSE place
           to == IF c = NEWLINE THEN from + COLS - (from % COLS) ELSE from + 1
           cell == <<IF c = NEWLINE THEN SPACE ELSE c, attribute>>
           screen == Written(shown, from .. to - 1, cell)
<1>1. CONSOLE_END \in Int /\ CONSOLE_END > 0
  BY ConsolePrintfAssumption DEF CONSOLE_END
<1>2. from \in 0 .. CONSOLE_END - 1
  BY <1>1
<1>3. to \in Int /\ from < to /\ to <= CONSOLE_END
  BY <1>1, <1>2, RowEnds
<1>4. console_putc([cursor |-> place, cells |-> shown], c, attribute)
        = [cursor |-> to, cells |-> screen]
  BY DEF console_putc
<1>5. DOMAIN screen = (from .. to - 1) \cup DOMAIN shown
  BY DEF Written
<1> HIDE DEF from, to, screen
<1> QED
  BY <1>1, <1>2, <1>3, <1>4, <1>5

(* The cursor stays on the console or just behind it, and no cell is       *)
(* written outside: for every size of the console, whatever is printed.    *)
THEOREM CursorStaysInConsole == Spec => []CursorInConsole
<1>1. Init => CursorInConsole
  BY DEF Init, ConsoleInit, CursorInConsole
<1>2. CursorInConsole /\ [Next]_vars => CursorInConsole'
  <2> SUFFICES ASSUME CursorInConsole, [Next]_vars PROVE CursorInConsole'
    OBVIOUS
  <2>1. CASE Put
    BY <2>1, PutInConsole DEF Put, CursorInConsole
  <2>2. CASE UNCHANGED <<cursor, cells>>
    BY <2>2 DEF CursorInConsole
  <2> QED
    BY <2>1, <2>2 DEF Next, UnknownAlgorithm, OtherCall, PrintNext, Printed, Spin,
                      Convert, console_printf, vars, consoleVars
<1> QED
  BY <1>1, <1>2, PTL DEF Spec

-----------------------------------------------------------------------------
(* What the console shows.                                                 *)

(* Induction over a set of numbers.                                        *)
LEMMA AllNat ==
  ASSUME NEW T, 0 \in T, \A k \in Nat : k \in T => k + 1 \in T
  PROVE  Nat \subseteq T
<1> SUFFICES ASSUME Nat \ T # {} PROVE FALSE
  OBVIOUS
<1>1. PICK least \in Nat \ T : \A k \in Nat \ T : least <= k
  <2> DEFINE Rest == Nat \ T
  <2>1. Rest \subseteq Nat /\ Rest # {}
    OBVIOUS
  <2> HIDE DEF Rest
  <2>2. \E least \in Rest : \A k \in Rest : least <= k
    BY <2>1, LeastNat
  <2> QED
    BY <2>2 DEF Rest
<1>2. least - 1 \in Nat /\ least - 1 \in T
  BY <1>1
<1>3. (least - 1) + 1 \in T
  BY <1>2
<1> QED
  BY <1>1, <1>3

(* Numbers and remainders.                                                 *)
LEMMA DivideBy ==
  ASSUME NEW d \in Nat \ {0}, NEW x \in Nat
  PROVE  /\ x \div d \in Nat /\ x % d \in 0 .. d - 1
         /\ x = (x \div d) * d + (x % d)
  OBVIOUS

LEMMA RestOf ==
  ASSUME NEW d \in Nat \ {0}, NEW k \in Nat, NEW r \in 0 .. d - 1
  PROVE  (k * d + r) % d = r
<1> DEFINE x == k * d + r
           j == x \div d
           m == x % d
<1>1. x \in Nat /\ k * d \in Nat
  OBVIOUS
<1>2. j \in Nat /\ m \in 0 .. d - 1 /\ x = j * d + m
  BY <1>1, DivideBy
<1>3. k * d + r = j * d + m
  BY <1>2
<1> HIDE DEF j, m, x
<1>4. j = k
  <2>1. CASE j < k
    <3>1. PICK w \in Nat : k = j + 1 + w
      <4>1. k - (j + 1) \in Nat /\ k = j + 1 + (k - (j + 1))
        BY <1>2, <2>1
      <4> QED
        BY <4>1
    <3>2. k * d = j * d + d + w * d /\ w * d \in Nat /\ j * d \in Nat
      BY <1>2, <3>1
    <3> QED
      BY <1>2, <1>3, <3>2
  <2>2. CASE k < j
    <3>1. PICK w \in Nat : j = k + 1 + w
      <4>1. j - (k + 1) \in Nat /\ j = k + 1 + (j - (k + 1))
        BY <1>2, <2>2
      <4> QED
        BY <4>1
    <3>2. j * d = k * d + d + w * d /\ w * d \in Nat /\ k * d \in Nat
      BY <1>2, <3>1
    <3> QED
      BY <1>2, <1>3, <3>2
  <2> QED
    BY <1>2, <2>1, <2>2
<1>5. m = r
  BY <1>1, <1>2, <1>3, <1>4
<1> QED
  BY <1>5 DEF m, x

LEMMA SameRest ==
  ASSUME NEW d \in Nat \ {0}, NEW q \in Nat, NEW p \in Nat
  PROVE  (q * d + p) % d = p % d
<1> DEFINE j == p \div d
           r == p % d
<1>1. j \in Nat /\ r \in 0 .. d - 1 /\ p = j * d + r
  BY DivideBy
<1> HIDE DEF j, r
<1>2. q + j \in Nat /\ (q + j) * d = q * d + j * d /\ q * d \in Nat /\ j * d \in Nat
  BY <1>1
<1>3. q * d + p = (q + j) * d + r
  BY <1>1, <1>2
<1>4. ((q + j) * d + r) % d = r
  BY <1>1, <1>2, RestOf
<1> QED
  BY <1>3, <1>4 DEF r

(* The places of characters on a console without an end.                   *)
After(place, c) ==
  IF c = NEWLINE THEN (place \div COLS + 1) * COLS ELSE place + 1

PositionOf(first, text) ==
  LET position[n \in 0 .. Len(text)] ==
        IF n = 0 THEN first
        ELSE IF text[n][1] = NEWLINE THEN (position[n - 1] \div COLS + 1) * COLS
        ELSE position[n - 1] + 1
  IN  position

Places(f, first, text, k) ==
  f = [n \in 0 .. k |-> IF n = 0 THEN first
                        ELSE IF text[n][1] = NEWLINE THEN (f[n - 1] \div COLS + 1) * COLS
                        ELSE f[n - 1] + 1]

LEMMA PlacesExist ==
  ASSUME NEW first, NEW text, NEW n \in Nat
  PROVE  \E f : Places(f, first, text, n)
<1> DEFINE Good == {k \in Nat : \E f : Places(f, first, text, k)}
<1>1. 0 \in Good
  <2> DEFINE f == [m \in 0 .. 0 |-> first]
  <2>1. Places(f, first, text, 0)
    BY DEF Places
  <2> QED
    BY <2>1
<1>2. ASSUME NEW k \in Nat, k \in Good
      PROVE  k + 1 \in Good
  <2>1. PICK g : Places(g, first, text, k)
    BY <1>2
  <2> DEFINE f == [m \in 0 .. k + 1 |-> IF m = k + 1 THEN After(g[k], text[m][1]) ELSE g[m]]
  <2>2. \A m \in 0 .. k : f[m] = g[m]
    OBVIOUS
  <2>3. f[k + 1] = After(g[k], text[k + 1][1])
    OBVIOUS
  <2>4. f = [m \in 0 .. k + 1 |-> f[m]]
    OBVIOUS
  <2> HIDE DEF f
  <2>5. \A m \in 0 .. k : g[m] = IF m = 0 THEN first ELSE After(g[m - 1], text[m][1])
    BY <2>1 DEF Places, After
  <2>6. ASSUME NEW m \in 0 .. k + 1
        PROVE  f[m] = IF m = 0 THEN first ELSE After(f[m - 1], text[m][1])
    <3>1. CASE m = k + 1
      <4>1. m # 0 /\ m - 1 = k /\ k \in 0 .. k
        BY <3>1
      <4> QED
        BY <2>2, <2>3, <3>1, <4>1
    <3>2. CASE m # k + 1
      <4>1. m \in 0 .. k /\ (m # 0 => m - 1 \in 0 .. k)
        BY <3>2
      <4> QED
        BY <2>2, <2>5, <4>1
    <3> QED
      BY <3>1, <3>2
  <2>7. Places(f, first, text, k + 1)
    BY <2>4, <2>6 DEF Places, After
  <2> QED
    BY <2>7
<1> HIDE DEF Good
<1>3. Nat \subseteq Good
  BY <1>1, <1>2, AllNat
<1> QED
  BY <1>3 DEF Good

LEMMA PositionOfIs ==
  ASSUME NEW first, NEW text, Len(text) \in Nat
  PROVE  /\ PositionOf(first, text)[0] = first
         /\ \A n \in 1 .. Len(text) :
              PositionOf(first, text)[n] =
                After(PositionOf(first, text)[n - 1], text[n][1])
<1> DEFINE f == CHOOSE g : Places(g, first, text, Len(text))
<1>1. Places(f, first, text, Len(text))
  BY PlacesExist
<1>2. PositionOf(first, text) = f
  BY DEF PositionOf, Places
<1> HIDE DEF f
<1>3. \A n \in 0 .. Len(text) :
        f[n] = IF n = 0 THEN first ELSE After(f[n - 1], text[n][1])
  BY <1>1 DEF Places, After
<1>4. 0 \in 0 .. Len(text) /\ \A n \in 1 .. Len(text) : n \in 0 .. Len(text) /\ n # 0
  OBVIOUS
<1> QED
  BY <1>2, <1>3, <1>4

LEMMA PositionsNat ==
  ASSUME NEW first \in Nat, NEW text, Len(text) \in Nat
  PROVE  \A n \in 0 .. Len(text) : PositionOf(first, text)[n] \in Nat
<1> DEFINE f == PositionOf(first, text)
           Good == {n \in Nat : n <= Len(text) => f[n] \in Nat}
<1>1. f[0] = first /\ \A n \in 1 .. Len(text) : f[n] = After(f[n - 1], text[n][1])
  BY PositionOfIs
<1> HIDE DEF f
<1>2. \A p \in Nat : \A c : After(p, c) \in Nat
  BY ConsolePrintfAssumption DEF After
<1>3. 0 \in Good
  BY <1>1
<1>4. ASSUME NEW n \in Nat, n \in Good
      PROVE  n + 1 \in Good
  <2>1. SUFFICES ASSUME n + 1 <= Len(text) PROVE f[n + 1] \in Nat
    OBVIOUS
  <2>2. n + 1 \in 1 .. Len(text) /\ (n + 1) - 1 = n /\ n <= Len(text)
    BY <2>1
  <2>3. f[n + 1] = After(f[n], text[n + 1][1])
    BY <1>1, <2>2
  <2> QED
    BY <1>2, <1>4, <2>2, <2>3
<1> HIDE DEF Good
<1>5. Nat \subseteq Good
  BY <1>3, <1>4, AllNat
<1> QED
  BY <1>5 DEF Good, f

(* What is put later changes no place.                                     *)
LEMMA PositionsKept ==
  ASSUME NEW first, NEW text, NEW longer, Len(text) \in Nat,
         Len(longer) = Len(text) + 1,
         \A k \in 1 .. Len(text) : longer[k] = text[k]
  PROVE  \A n \in 0 .. Len(text) :
           PositionOf(first, longer)[n] = PositionOf(first, text)[n]
<1> DEFINE f == PositionOf(first, text)
           g == PositionOf(first, longer)
           Same == {n \in Nat : n <= Len(text) => g[n] = f[n]}
<1>1. f[0] = first /\ \A n \in 1 .. Len(text) : f[n] = After(f[n - 1], text[n][1])
  BY PositionOfIs
<1>2. g[0] = first /\ \A n \in 1 .. Len(longer) : g[n] = After(g[n - 1], longer[n][1])
  BY PositionOfIs
<1> HIDE DEF f, g
<1>3. 0 \in Same
  BY <1>1, <1>2
<1>4. ASSUME NEW n \in Nat, n \in Same
      PROVE  n + 1 \in Same
  <2>1. SUFFICES ASSUME n + 1 <= Len(text) PROVE g[n + 1] = f[n + 1]
    OBVIOUS
  <2>2. /\ n + 1 \in 1 .. Len(text) /\ n + 1 \in 1 .. Len(longer)
        /\ (n + 1) - 1 = n /\ n <= Len(text)
    BY <2>1
  <2>3. f[n + 1] = After(f[n], text[n + 1][1])
    BY <1>1, <2>2
  <2>4. g[n + 1] = After(g[n], longer[n + 1][1])
    BY <1>2, <2>2
  <2> QED
    BY <1>4, <2>2, <2>3, <2>4
<1> HIDE DEF Same
<1>5. Nat \subseteq Same
  BY <1>3, <1>4, AllNat
<1> QED
  BY <1>5 DEF Same, f, g

(* Where console_putc writes.                                              *)
From(place) == IF place >= CONSOLE_END THEN 0 ELSE place
To(place, c) ==
  IF c = NEWLINE THEN From(place) + COLS - (From(place) % COLS) ELSE From(place) + 1

LEMMA EndIs ==
  /\ CONSOLE_END \in Nat \ {0} /\ CONSOLE_END = ROWS * COLS
  /\ COLS \in Nat \ {0} /\ ROWS \in Nat \ {0}
<1>1. COLS \in Nat /\ ROWS \in Nat /\ COLS > 0 /\ ROWS > 0
  BY ConsolePrintfAssumption
<1>2. COLS * ROWS \in Nat /\ COLS * ROWS > 0 /\ COLS * ROWS = ROWS * COLS
  BY <1>1
<1> QED
  BY <1>1, <1>2 DEF CONSOLE_END

LEMMA FromTo ==
  ASSUME NEW place \in 0 .. CONSOLE_END, NEW c
  PROVE  /\ From(place) \in 0 .. CONSOLE_END - 1
         /\ To(place, c) \in Nat /\ From(place) < To(place, c)
         /\ To(place, c) <= CONSOLE_END
         /\ From(place) = place % CONSOLE_END
<1>1. CONSOLE_END \in Nat \ {0} /\ COLS \in Nat \ {0}
  BY EndIs
<1> DEFINE from == From(place)
<1>2. from \in 0 .. CONSOLE_END - 1
  BY <1>1 DEF From
<1>3. from = place % CONSOLE_END
  <2>1. CASE place = CONSOLE_END
    <3>1. (1 * CONSOLE_END + 0) % CONSOLE_END = 0
      BY <1>1, RestOf
    <3> QED
      BY <1>1, <2>1, <3>1 DEF From
  <2>2. CASE place # CONSOLE_END
    <3>1. place \in 0 .. CONSOLE_END - 1 /\ from = place
      BY <1>1, <2>2 DEF From
    <3> QED
      BY <1>1, <3>1
  <2> QED
    BY <2>1, <2>2
<1> HIDE DEF from
<1>4. CASE c = NEWLINE
  <2>1. To(place, c) = from + COLS - (from % COLS)
    BY <1>4 DEF To, from
  <2>2. /\ from + COLS - (from % COLS) \in Int
        /\ from < from + COLS - (from % COLS)
        /\ from + COLS - (from % COLS) <= CONSOLE_END
    BY <1>2, RowEnds
  <2> DEFINE to == To(place, c)
  <2>3. to \in Int /\ from < to /\ to <= CONSOLE_END
    BY <2>1, <2>2
  <2> HIDE DEF to
  <2>4. to \in Nat /\ from < to /\ to <= CONSOLE_END
    BY <1>2, <2>3
  <2> QED
    BY <1>2, <1>3, <2>4 DEF to, from
<1>5. CASE c # NEWLINE
  <2>1. To(place, c) = from + 1
    BY <1>5 DEF To, from
  <2> DEFINE to == To(place, c)
  <2>2. to \in Nat /\ from < to /\ to <= CONSOLE_END
    BY <1>1, <1>2, <2>1
  <2> HIDE DEF to
  <2> QED
    BY <1>2, <1>3, <2>2 DEF to, from
<1> QED
  BY <1>4, <1>5

LEMMA SameAhead ==
  ASSUME NEW base \in Nat, NEW from \in Nat, NEW row \in Nat, NEW r \in Nat,
         NEW more \in Nat, base + from = row + r
  PROVE  /\ row + more = base + (from + more - r)
         /\ (base + from) + 1 = base + (from + 1)
  OBVIOUS

(* The console without an end, wound round the console, goes on where      *)
(* console_putc writes.                                                    *)
LEMMA AfterWound ==
  ASSUME NEW place \in 0 .. CONSOLE_END, NEW c, NEW p \in Nat,
         place % CONSOLE_END = p % CONSOLE_END
  PROVE  \E q \in Nat : /\ p = q * CONSOLE_END + From(place)
                        /\ After(p, c) = q * CONSOLE_END + To(place, c)
<1> DEFINE from == From(place)
           q == p \div CONSOLE_END
           base == q * CONSOLE_END
<1>1. CONSOLE_END \in Nat \ {0} /\ COLS \in Nat \ {0} /\ ROWS \in Nat \ {0}
  BY EndIs
<1>2. from \in Nat /\ from = p % CONSOLE_END
  BY FromTo
<1>3. q \in Nat /\ p = base + from
  BY <1>1, <1>2, DivideBy
<1> HIDE DEF q
<1>4. base \in Nat /\ base = (q * ROWS) * COLS /\ q * ROWS \in Nat
  BY <1>1, <1>3, EndIs
<1> HIDE DEF from
<1>5. p % COLS = from % COLS
  <2>1. ((q * ROWS) * COLS + from) % COLS = from % COLS
    BY <1>1, <1>2, <1>4, SameRest
  <2> QED
    BY <1>3, <1>4, <2>1
<1> HIDE DEF base
<1>6. base \in Nat /\ p = base + from
  BY <1>3, <1>4
<1>7. After(p, c) = base + To(place, c)
  <2>1. CASE c = NEWLINE
    <3>1. After(p, c) = (p \div COLS + 1) * COLS
      BY <2>1 DEF After
    <3>2. To(place, c) = from + COLS - (from % COLS)
      BY <2>1 DEF To, from
    <3> DEFINE j == p \div COLS
               r == p % COLS
    <3>3. j \in Nat /\ r \in 0 .. COLS - 1 /\ p = j * COLS + r
      BY <1>1, DivideBy
    <3> HIDE DEF j, r
    <3>4. (j + 1) * COLS = j * COLS + COLS /\ j * COLS \in Nat
      BY <1>1, <3>3
    <3>5. from % COLS = r
      BY <1>5 DEF r
    <3>6. After(p, c) = j * COLS + COLS
      BY <3>1, <3>4 DEF j
    <3> DEFINE row == j * COLS
    <3>7. row \in Nat /\ p = row + r /\ After(p, c) = row + COLS
      BY <3>3, <3>4, <3>6
    <3> HIDE DEF row
    <3>8. r \in Nat /\ COLS \in Nat
      BY <1>1, <3>3
    <3>9. To(place, c) = from + COLS - r
      BY <3>2, <3>5
    <3>10. base + from = row + r
      BY <1>6, <3>7, Zenon
    <3>11. row + COLS = base + (from + COLS - r)
      BY <1>2, <1>6, <3>7, <3>8, <3>10, SameAhead
    <3> QED
      BY <3>7, <3>9, <3>11, Zenon
  <2>2. CASE c # NEWLINE
    <3>1. After(p, c) = p + 1 /\ To(place, c) = from + 1
      BY <2>2 DEF After, To, from
    <3>2. (base + from) + 1 = base + (from + 1)
      BY <1>2, <1>6, SameAhead
    <3> QED
      BY <1>6, <3>1, <3>2
  <2> QED
    BY <2>1, <2>2
<1> QED
  BY <1>3, <1>7 DEF base, from

Hits(low, high, d, cell) == \E p \in low .. high - 1 : p % d = cell

LEMMA Wound ==
  ASSUME NEW d \in Nat \ {0}, NEW q \in Nat, NEW from \in Nat, NEW to \in Nat,
         from < to, to <= d, NEW cell
  PROVE  Hits(q * d + from, q * d + to, d, cell) <=> cell \in from .. to - 1
<1> DEFINE base == q * d
<1>1. base \in Nat
  OBVIOUS
<1>2. \A r \in 0 .. d - 1 : (base + r) % d = r
  BY RestOf
<1> HIDE DEF base
<1>3. ASSUME NEW p \in base + from .. (base + to) - 1, p % d = cell
      PROVE  cell \in from .. to - 1
  <2>1. p - base \in 0 .. d - 1 /\ p = base + (p - base) /\ p - base \in from .. to - 1
    BY <1>1
  <2>2. p % d = p - base
    BY <1>2, <2>1
  <2> QED
    BY <1>3, <2>1, <2>2
<1>4. ASSUME cell \in from .. to - 1
      PROVE  \E p \in base + from .. (base + to) - 1 : p % d = cell
  <2>1. base + cell \in base + from .. (base + to) - 1 /\ cell \in 0 .. d - 1
    BY <1>1, <1>4
  <2>2. (base + cell) % d = cell
    BY <1>2, <2>1
  <2> QED
    BY <2>1, <2>2
<1> HIDE DEF base
<1>5. Hits(base + from, base + to, d, cell) => cell \in from .. to - 1
  BY <1>3 DEF Hits
<1>6. cell \in from .. to - 1 => Hits(base + from, base + to, d, cell)
  BY <1>4 DEF Hits
<1> QED
  BY <1>5, <1>6, Zenon DEF base

(* PrintedRight, of any console.                                           *)
Covering(f, n, cell) == \E p \in f[n - 1] .. f[n] - 1 : p % CONSOLE_END = cell

Latest(f, text, cell) == Max({0} \cup {m \in DOMAIN text : Covering(f, m, cell)})

Shows(screen, text, n, cell) ==
  IF n = 0 THEN cell \notin DOMAIN screen
  ELSE /\ cell \in DOMAIN screen
       /\ screen[cell] = <<IF text[n][1] = NEWLINE THEN SPACE ELSE text[n][1], text[n][2]>>

RightlyPrinted(place, screen, f, text) ==
  /\ place % CONSOLE_END = f[Len(text)] % CONSOLE_END
  /\ \A cell \in 0 .. CONSOLE_END - 1 :
       Shows(screen, text, Latest(f, text, cell), cell)

SameUpTo(f, g, n) == \A w \in 0 .. n : g[w] = f[w]

LEMMA LatestIs ==
  ASSUME NEW f, NEW g, NEW text, NEW longer, NEW cell, Len(text) \in Nat,
         DOMAIN text = 1 .. Len(text), DOMAIN longer = 1 .. Len(text) + 1,
         SameUpTo(f, g, Len(text))
  PROVE  /\ Latest(g, longer, cell) =
              IF Covering(g, Len(text) + 1, cell) THEN Len(text) + 1
              ELSE Latest(f, text, cell)
         /\ Latest(f, text, cell) \in 0 .. Len(text)
<1> DEFINE k == Len(text)
           S == {0} \cup {m \in DOMAIN text : Covering(f, m, cell)}
           T == {0} \cup {m \in DOMAIN longer : Covering(g, m, cell)}
<1>1. \A m \in 1 .. k : Covering(g, m, cell) <=> Covering(f, m, cell)
  <2>1. \A m \in 1 .. k : m - 1 \in 0 .. k /\ m \in 0 .. k
    OBVIOUS
  <2> QED
    BY <2>1 DEF Covering, SameUpTo
<1>2. ASSUME Covering(g, k + 1, cell)
      PROVE  Latest(g, longer, cell) = k + 1
  <2>1. T \subseteq 0 .. k + 1 /\ k + 1 \in T
    BY <1>2
  <2> HIDE DEF T
  <2>2. \E x \in T : \A y \in T : x >= y
    <3>1. \A y \in T : k + 1 >= y
      BY <2>1
    <3> QED
      BY <2>1, <3>1
  <2>3. Max(T) \in T /\ \A y \in T : Max(T) >= y
    BY <2>2 DEF Max
  <2> DEFINE max == Max(T)
  <2>4. max \in 0 .. k + 1 /\ max >= k + 1
    BY <2>1, <2>3
  <2> HIDE DEF max
  <2>5. max = k + 1
    BY <2>4
  <2> QED
    BY <2>5 DEF Latest, T, max
<1>3. ASSUME ~ Covering(g, k + 1, cell)
      PROVE  Latest(g, longer, cell) = Latest(f, text, cell)
  <2>1. \A m \in 1 .. k + 1 : m \in 1 .. k \/ m = k + 1
    OBVIOUS
  <2>2. T = S
    BY <1>1, <1>3, <2>1
  <2> QED
    BY <2>2 DEF Latest
<1>4. Latest(f, text, cell) \in 0 .. k
  <2>1. S \subseteq 0 .. k /\ 0 \in S
    OBVIOUS
  <2> HIDE DEF S
  <2>2. \E x \in S : \A y \in S : x >= y
    <3> DEFINE High == {n \in Nat : \A y \in S : y <= n}
    <3>1. k \in High
      BY <2>1
    <3>2. PICK n \in High : \A m \in High : n <= m
      <4>1. High \subseteq Nat /\ High # {}
        BY <3>1
      <4> HIDE DEF High
      <4> QED
        BY <4>1, LeastNat
    <3>3. n \in S
      <4>1. SUFFICES ASSUME n \notin S PROVE FALSE
        OBVIOUS
      <4>2. n # 0 /\ n - 1 \in Nat /\ \A y \in S : y <= n - 1
        BY <2>1, <3>2, <4>1
      <4>3. n - 1 \in High
        BY <4>2
      <4> QED
        BY <3>2, <4>3
    <3> QED
      BY <2>1, <3>2, <3>3
  <2>3. Max(S) \in S
    BY <2>2 DEF Max
  <2> QED
    BY <2>1, <2>3 DEF Latest, S
<1> QED
  BY <1>2, <1>3, <1>4

(* One character more.                                                     *)
LEMMA PutRight ==
  ASSUME NEW place \in 0 .. CONSOLE_END, NEW screen,
         NEW first \in Nat, NEW text, NEW longer, NEW c, NEW attribute,
         Len(text) \in Nat, DOMAIN text = 1 .. Len(text),
         Len(longer) = Len(text) + 1, DOMAIN longer = 1 .. Len(text) + 1,
         \A k \in 1 .. Len(text) : longer[k] = text[k],
         longer[Len(text) + 1] = <<c, attribute>>,
         RightlyPrinted(place, screen, PositionOf(first, text), text)
  PROVE  LET console == console_putc([cursor |-> place, cells |-> screen], c, attribute)
         IN  RightlyPrinted(console.cursor, console.cells,
                            PositionOf(first, longer), longer)
<1> DEFINE k == Len(text)
           f == PositionOf(first, text)
           g == PositionOf(first, longer)
           from == From(place)
           to == To(place, c)
           cell == <<IF c = NEWLINE THEN SPACE ELSE c, attribute>>
           new == Written(screen, from .. to - 1, cell)
<1>1. console_putc([cursor |-> place, cells |-> screen], c, attribute)
        = [cursor |-> to, cells |-> new]
  BY DEF console_putc, From, To
<1>2. \A n \in 0 .. k : g[n] = f[n]
  BY PositionsKept
<1>3. g[k + 1] = After(g[k], c)
  <2>1. Len(longer) \in Nat /\ k + 1 \in 1 .. Len(longer) /\ (k + 1) - 1 = k
    OBVIOUS
  <2>2. \A n \in 1 .. Len(longer) : g[n] = After(g[n - 1], longer[n][1])
    BY <2>1, PositionOfIs
  <2>3. longer[k + 1][1] = c
    OBVIOUS
  <2> HIDE DEF g
  <2> QED
    BY <2>1, <2>2, <2>3
<1>4. f[k] \in Nat /\ g[k] = f[k]
  <2>1. k \in 0 .. k
    OBVIOUS
  <2> QED
    BY <1>2, <2>1, PositionsNat
<1>5. place % CONSOLE_END = f[k] % CONSOLE_END
  BY DEF RightlyPrinted
<1>6. \A n \in 0 .. CONSOLE_END - 1 : Shows(screen, text, Latest(f, text, n), n)
  BY DEF RightlyPrinted
<1> HIDE DEF f, g
<1>7. PICK q \in Nat : f[k] = q * CONSOLE_END + from
                       /\ After(f[k], c) = q * CONSOLE_END + to
  BY <1>4, <1>5, AfterWound
<1>8. CONSOLE_END \in Nat \ {0}
  BY EndIs
<1>9. from \in Nat /\ to \in Nat /\ from < to /\ to <= CONSOLE_END
  BY <1>8, FromTo
<1> HIDE DEF from, to
<1>10. to % CONSOLE_END = g[k + 1] % CONSOLE_END
  <2>1. g[k + 1] = q * CONSOLE_END + to
    BY <1>3, <1>4, <1>7, Zenon
  <2> DEFINE later == q * CONSOLE_END + to
  <2>2. to % CONSOLE_END = later % CONSOLE_END
    BY <1>8, <1>9, SameRest
  <2> HIDE DEF later
  <2> QED
    BY <2>1, <2>2, Zenon DEF later
<1>11. \A n : Covering(g, k + 1, n) <=> n \in from .. to - 1
  <2>1. (k + 1) - 1 = k
    OBVIOUS
  <2>2. \A n : Covering(g, k + 1, n) <=>
                 Hits(q * CONSOLE_END + from, q * CONSOLE_END + to, CONSOLE_END, n)
    <3>1. g[(k + 1) - 1] = q * CONSOLE_END + from
      BY <1>4, <1>7, <2>1, Zenon
    <3>2. g[k + 1] = q * CONSOLE_END + to
      BY <1>3, <1>4, <1>7, Zenon
    <3>3. \A n : Covering(g, k + 1, n) <=> Hits(g[(k + 1) - 1], g[k + 1], CONSOLE_END, n)
      BY Zenon DEF Covering, Hits
    <3> QED
      BY <3>1, <3>2, <3>3, Zenon
  <2>3. \A n : Hits(q * CONSOLE_END + from, q * CONSOLE_END + to, CONSOLE_END, n)
                 <=> n \in from .. to - 1
    BY <1>8, <1>9, Wound
  <2> QED
    BY <2>2, <2>3
<1>12. /\ DOMAIN new = (from .. to - 1) \cup DOMAIN screen
       /\ \A n \in from .. to - 1 : new[n] = cell
       /\ \A n \in DOMAIN screen \ (from .. to - 1) : new[n] = screen[n]
  BY DEF Written
<1> HIDE DEF new
<1>13. ASSUME NEW n \in 0 .. CONSOLE_END - 1
       PROVE  Shows(new, longer, Latest(g, longer, n), n)
  <2>1. /\ Latest(g, longer, n) = IF Covering(g, k + 1, n) THEN k + 1
                                  ELSE Latest(f, text, n)
        /\ Latest(f, text, n) \in 0 .. k
    <3>1. SameUpTo(f, g, Len(text))
      BY <1>2 DEF SameUpTo
    <3> QED
      BY <3>1, LatestIs, ZenonT(30)
  <2>2. CASE n \in from .. to - 1
    <3>1. Latest(g, longer, n) = k + 1 /\ k + 1 # 0
      BY <1>11, <2>1, <2>2
    <3>2. n \in DOMAIN new /\ new[n] = cell
      BY <1>12, <2>2
    <3>3. longer[k + 1][1] = c /\ longer[k + 1][2] = attribute
      OBVIOUS
    <3> QED
      BY <3>1, <3>2, <3>3 DEF Shows
  <2>3. CASE n \notin from .. to - 1
    <3> DEFINE m == Latest(f, text, n)
    <3>1. Latest(g, longer, n) = m /\ m \in 0 .. k
      BY <1>11, <2>1, <2>3
    <3>2. Shows(screen, text, m, n)
      BY <1>6
    <3> HIDE DEF m
    <3>3. m # 0 => longer[m] = text[m]
      BY <3>1
    <3>4. /\ n \in DOMAIN new <=> n \in DOMAIN screen
          /\ n \in DOMAIN screen => new[n] = screen[n]
      BY <1>12, <2>3
    <3>5. Shows(new, longer, m, n)
      BY <3>2, <3>3, <3>4 DEF Shows
    <3> QED
      BY <3>1, <3>5
  <2> QED
    BY <2>2, <2>3
<1>14. RightlyPrinted(to, new, g, longer)
  BY <1>10, <1>13 DEF RightlyPrinted
<1> QED
  BY <1>1, <1>14 DEF g

(* What has been put is a sequence of anything.                            *)
Listed(text) == \E S : text \in Seq(S)

LEMMA ListedLonger ==
  ASSUME NEW text, Listed(text), NEW x
  PROVE  /\ Len(text) \in Nat /\ DOMAIN text = 1 .. Len(text)
         /\ Listed(Append(text, x)) /\ Len(Append(text, x)) = Len(text) + 1
         /\ DOMAIN Append(text, x) = 1 .. Len(text) + 1
         /\ \A k \in 1 .. Len(text) : Append(text, x)[k] = text[k]
         /\ Append(text, x)[Len(text) + 1] = x
<1>1. PICK S : text \in Seq(S)
  BY DEF Listed
<1> DEFINE T == S \cup {x}
<1>2. text \in Seq(T) /\ x \in T
  BY <1>1
<1> HIDE DEF T
<1>3. Append(text, x) \in Seq(T)
  BY <1>2
<1> QED
  BY <1>2, <1>3 DEF Listed

LEMMA PrintedRightIs ==
  PrintedRight <=> RightlyPrinted(cursor, cells, PositionOf(start, put), put)
  BY DEF PrintedRight, RightlyPrinted, Position, PositionOf, Latest, Covering, Shows

PrintInv ==
  /\ CursorInConsole
  /\ start \in 0 .. CONSOLE_END
  /\ Listed(put)
  /\ RightlyPrinted(cursor, cells, PositionOf(start, put), put)

LEMMA PrintInitially ==
  Init => PrintInv
<1> SUFFICES ASSUME Init PROVE PrintInv
  OBVIOUS
<1>1. start \in 0 .. CONSOLE_END /\ cursor = start /\ cells = <<>> /\ put = <<>>
  BY DEF Init, ConsoleInit
<1>2. CursorInConsole
  BY <1>1 DEF CursorInConsole
<1>3. put \in Seq(Int) /\ Len(put) = 0 /\ DOMAIN put = {}
  BY <1>1
<1>4. PositionOf(start, put)[0] = start
  BY <1>3, PositionOfIs
<1>5. ASSUME NEW cell \in 0 .. CONSOLE_END - 1
      PROVE  Shows(cells, put, Latest(PositionOf(start, put), put, cell), cell)
  <2> DEFINE S == {0} \cup {m \in DOMAIN put : Covering(PositionOf(start, put), m, cell)}
  <2>1. S = {0}
    BY <1>3
  <2> HIDE DEF S
  <2>2. \E x \in S : \A y \in S : x >= y
    BY <2>1
  <2>3. Max(S) = 0
    BY <2>1, <2>2 DEF Max
  <2>4. Latest(PositionOf(start, put), put, cell) = 0
    BY <2>3 DEF Latest, S
  <2> QED
    BY <1>1, <2>4 DEF Shows
<1>6. RightlyPrinted(cursor, cells, PositionOf(start, put), put)
  BY <1>1, <1>3, <1>4, <1>5 DEF RightlyPrinted
<1> QED
  BY <1>1, <1>2, <1>3, <1>6 DEF PrintInv, Listed

(* The console shows what has been put on it, wound round, the later over  *)
(* the earlier: for every size of it and whatever is printed from wherever. *)
THEOREM PrintsRight == Spec => []PrintedRight
<1>1. Init => PrintInv
  BY PrintInitially
<1>2. PrintInv /\ [Next]_vars => PrintInv'
  <2> SUFFICES ASSUME PrintInv, [Next]_vars PROVE PrintInv'
    OBVIOUS
  <2>1. CASE Put
    <3> DEFINE x == <<Head(field), color>>
               console == console_putc([cursor |-> cursor, cells |-> cells],
                                       Head(field), color)
    <3>1. /\ cursor' = console.cursor /\ cells' = console.cells
          /\ put' = Append(put, x) /\ start' = start
      BY <2>1 DEF Put
    <3>2. CursorInConsole'
      BY <2>1, PutInConsole DEF Put, CursorInConsole, PrintInv
    <3>3. /\ Len(put) \in Nat /\ DOMAIN put = 1 .. Len(put)
          /\ Listed(Append(put, x)) /\ Len(Append(put, x)) = Len(put) + 1
          /\ DOMAIN Append(put, x) = 1 .. Len(put) + 1
          /\ \A k \in 1 .. Len(put) : Append(put, x)[k] = put[k]
          /\ Append(put, x)[Len(put) + 1] = x
      BY ListedLonger DEF PrintInv
    <3>4. start \in Nat /\ cursor \in 0 .. CONSOLE_END
      BY EndIs DEF PrintInv, CursorInConsole
    <3>5. RightlyPrinted(console.cursor, console.cells,
                         PositionOf(start, Append(put, x)), Append(put, x))
      BY <3>3, <3>4, PutRight DEF PrintInv
    <3> QED
      BY <3>1, <3>2, <3>3, <3>5 DEF PrintInv
  <2>2. CASE UNCHANGED <<cursor, cells, start, put>>
    BY <2>2 DEF PrintInv, CursorInConsole
  <2> QED
    BY <2>1, <2>2 DEF Next, UnknownAlgorithm, OtherCall, PrintNext, Printed, Spin,
                      Convert, console_printf, vars, consoleVars
<1>3. PrintInv => PrintedRight
  BY PrintedRightIs DEF PrintInv
<1> QED
  BY <1>1, <1>2, <1>3, PTL DEF Spec

-----------------------------------------------------------------------------
(* Numerals.                                                               *)

(* Digits for a base.                                                      *)
DigitTable(digits, base) ==
  /\ base \in Nat /\ base > 1
  /\ \A m, n \in 1 .. base : digits[m] = digits[n] => m = n
  /\ digits[1] = "0"

LEMMA DigitTables ==
  /\ DigitTable(upper_digits, 10)
  /\ DigitTable(upper_digits, 16)
  /\ DigitTable(lower_digits, 16)
<1>1. ASSUME NEW n \in 1 .. 16
      PROVE  n = 1 \/ n = 2 \/ n = 3 \/ n = 4 \/ n = 5 \/ n = 6 \/ n = 7 \/ n = 8
             \/ n = 9 \/ n = 10 \/ n = 11 \/ n = 12 \/ n = 13 \/ n = 14 \/ n = 15 \/ n = 16
  OBVIOUS
<1>2. /\ upper_digits[1] = "0" /\ upper_digits[2] = "1" /\ upper_digits[3] = "2"
      /\ upper_digits[4] = "3" /\ upper_digits[5] = "4" /\ upper_digits[6] = "5"
      /\ upper_digits[7] = "6" /\ upper_digits[8] = "7" /\ upper_digits[9] = "8"
      /\ upper_digits[10] = "9" /\ upper_digits[11] = "A" /\ upper_digits[12] = "B"
      /\ upper_digits[13] = "C" /\ upper_digits[14] = "D" /\ upper_digits[15] = "E"
      /\ upper_digits[16] = "F"
  BY DEF upper_digits
<1>3. /\ lower_digits[1] = "0" /\ lower_digits[2] = "1" /\ lower_digits[3] = "2"
      /\ lower_digits[4] = "3" /\ lower_digits[5] = "4" /\ lower_digits[6] = "5"
      /\ lower_digits[7] = "6" /\ lower_digits[8] = "7" /\ lower_digits[9] = "8"
      /\ lower_digits[10] = "9" /\ lower_digits[11] = "a" /\ lower_digits[12] = "b"
      /\ lower_digits[13] = "c" /\ lower_digits[14] = "d" /\ lower_digits[15] = "e"
      /\ lower_digits[16] = "f"
  BY DEF lower_digits
<1>5. \A m, n \in 1 .. 16 : upper_digits[m] = upper_digits[n] => m = n
  BY <1>1, <1>2
<1>6. \A m, n \in 1 .. 16 : lower_digits[m] = lower_digits[n] => m = n
  BY <1>1, <1>3
<1>7. 1 .. 10 \subseteq 1 .. 16
  OBVIOUS
<1>8. DigitTable(upper_digits, 16) /\ DigitTable(lower_digits, 16)
  BY <1>2, <1>3, <1>5, <1>6 DEF DigitTable
<1>9. DigitTable(upper_digits, 10)
  BY <1>2, <1>5, <1>7 DEF DigitTable
<1> QED
  BY <1>8, <1>9

LEMMA Smaller ==
  ASSUME NEW base \in Nat, base > 1, NEW v \in Nat, v >= base
  PROVE  /\ v \div base \in 1 .. v - 1
         /\ v % base \in 0 .. base - 1
         /\ v = base * (v \div base) + (v % base)
<1> DEFINE q == v \div base
           r == v % base
<1>1. q \in Nat /\ r \in 0 .. base - 1 /\ v = q * base + r
  <2>1. base \in Nat \ {0}
    OBVIOUS
  <2> QED
    BY <2>1, DivideBy
<1> HIDE DEF q, r
<1>2. q # 0
  BY <1>1
<1>3. q * base = base * q
  BY <1>1
<1>4. base * q >= q + q
  <2>1. PICK m \in Nat : base = 2 + m
    <3>1. base - 2 \in Nat /\ base = 2 + (base - 2)
      OBVIOUS
    <3> QED
      BY <3>1
  <2>2. base * q = q + q + m * q /\ m * q \in Nat
    BY <1>1, <2>1
  <2> QED
    BY <1>1, <2>2
<1>5. v >= q + q
  <2> DEFINE prod == base * q
  <2>1. v = prod + r /\ prod >= q + q /\ prod \in Int
    BY <1>1, <1>3, <1>4
  <2> HIDE DEF prod
  <2> QED
    BY <1>1, <2>1
<1>6. q \in 1 .. v - 1
  BY <1>1, <1>2, <1>5
<1> QED
  BY <1>1, <1>3, <1>6 DEF q, r

(* Induction over all smaller numbers.                                     *)
LEMMA AllBelow ==
  ASSUME NEW T, \A k \in Nat : (\A m \in 0 .. k - 1 : m \in T) => k \in T
  PROVE  Nat \subseteq T
<1> DEFINE Good == {k \in Nat : \A m \in 0 .. k - 1 : m \in T}
<1>1. 0 \in Good
  OBVIOUS
<1>2. ASSUME NEW k \in Nat, k \in Good
      PROVE  k + 1 \in Good
  <2>1. k \in T
    BY <1>2
  <2>2. \A m \in 0 .. (k + 1) - 1 : m = k \/ m \in 0 .. k - 1
    OBVIOUS
  <2> QED
    BY <1>2, <2>1, <2>2
<1> HIDE DEF Good
<1>3. Nat \subseteq Good
  BY <1>1, <1>2, AllNat
<1>4. ASSUME NEW k \in Nat
      PROVE  k \in T
  <2>1. k \in Good
    BY <1>3
  <2> QED
    BY <2>1 DEF Good
<1> QED
  BY <1>4

(* fill_numbuf's recursion.                                                *)
NextNumeral(f, base, digits, v) ==
  IF v < base THEN <<digits[v + 1]>>
  ELSE Append(f[v \div base], digits[(v % base) + 1])

Numerals(f, base, digits, k) == \A v \in 0 .. k : f[v] = NextNumeral(f, base, digits, v)

LEMMA NumeralsSame ==
  ASSUME NEW base \in Nat, base > 1, NEW digits, NEW f, NEW g,
         NEW j \in Nat, NEW k \in Nat,
         Numerals(f, base, digits, j), Numerals(g, base, digits, k)
  PROVE  \A v \in 0 .. j \cap 0 .. k : f[v] = g[v]
<1> DEFINE Good == {v \in Nat : v <= j /\ v <= k => f[v] = g[v]}
<1>1. ASSUME NEW v \in Nat, \A m \in 0 .. v - 1 : m \in Good
      PROVE  v \in Good
  <2>1. SUFFICES ASSUME v <= j, v <= k PROVE f[v] = g[v]
    OBVIOUS
  <2>2. /\ f[v] = NextNumeral(f, base, digits, v)
        /\ g[v] = NextNumeral(g, base, digits, v)
    BY <2>1 DEF Numerals
  <2>3. CASE v < base
    BY <2>2, <2>3 DEF NextNumeral
  <2>4. CASE v >= base
    <3>1. v \div base \in 1 .. v - 1
      BY <2>4, Smaller
    <3> DEFINE q == v \div base
    <3>2. q \in 0 .. v - 1 /\ q <= j /\ q <= k
      BY <2>1, <3>1
    <3>3. f[q] = g[q]
      BY <1>1, <3>2
    <3>4. ~ (v < base)
      BY <2>4
    <3> QED
      BY <2>2, <3>3, <3>4 DEF NextNumeral
  <2> QED
    BY <2>3, <2>4
<1> HIDE DEF Good
<1>2. Nat \subseteq Good
  BY <1>1, AllBelow
<1>3. ASSUME NEW v \in 0 .. j \cap 0 .. k
      PROVE  f[v] = g[v]
  <2>1. v \in Nat /\ v <= j /\ v <= k
    OBVIOUS
  <2> QED
    BY <1>2, <2>1 DEF Good
<1> QED
  BY <1>3

LEMMA NumeralsMore ==
  ASSUME NEW base \in Nat, base > 1, NEW digits, NEW k \in Nat
  PROVE  \E f : Numerals(f, base, digits, k)
<1> DEFINE Good == {n \in Nat : \E f : Numerals(f, base, digits, n)}
<1>1. 0 \in Good
  <2> DEFINE f == [v \in {0} |-> <<digits[1]>>]
  <2>1. Numerals(f, base, digits, 0)
    BY DEF Numerals, NextNumeral
  <2> QED
    BY <2>1
<1>2. ASSUME NEW n \in Nat, n \in Good
      PROVE  n + 1 \in Good
  <2>1. PICK f : Numerals(f, base, digits, n)
    BY <1>2
  <2> DEFINE g == [v \in 0 .. n + 1 |-> IF v = n + 1 THEN NextNumeral(f, base, digits, v)
                                        ELSE f[v]]
  <2>2. \A v \in 0 .. n : g[v] = f[v]
    OBVIOUS
  <2>3. g[n + 1] = NextNumeral(f, base, digits, n + 1)
    OBVIOUS
  <2> HIDE DEF g
  <2>4. ASSUME NEW v \in 0 .. n + 1
        PROVE  g[v] = NextNumeral(f, base, digits, v)
    <3>1. v \in 0 .. n \/ v = n + 1
      OBVIOUS
    <3>2. CASE v \in 0 .. n
      BY <2>1, <2>2, <3>2 DEF Numerals
    <3> QED
      BY <2>3, <3>1, <3>2
  <2>5. ASSUME NEW v \in 0 .. n + 1
        PROVE  NextNumeral(f, base, digits, v) = NextNumeral(g, base, digits, v)
    <3>1. CASE v < base
      BY <3>1 DEF NextNumeral
    <3>2. CASE v >= base
      <4>1. v \div base \in 0 .. n
        <5> v \in Nat
          OBVIOUS
        <5>1. v \div base \in 1 .. v - 1
          BY <3>2, Smaller
        <5> QED
          BY <5>1
      <4>2. ~ (v < base)
        BY <3>2
      <4> QED
        BY <2>2, <4>1, <4>2 DEF NextNumeral
    <3> QED
      BY <3>1, <3>2
  <2>6. Numerals(g, base, digits, n + 1)
    BY <2>4, <2>5 DEF Numerals
  <2> QED
    BY <2>6
<1> HIDE DEF Good
<1>3. Nat \subseteq Good
  BY <1>1, <1>2, AllNat
<1> QED
  BY <1>3 DEF Good

Numeral(base, digits) ==
  CHOOSE f : f = [v \in Nat |-> NextNumeral(f, base, digits, v)]

LEMMA NumeralIs ==
  ASSUME NEW base \in Nat, base > 1, NEW digits
  PROVE  \A v \in Nat : Numeral(base, digits)[v]
                          = NextNumeral(Numeral(base, digits), base, digits, v)
<1> DEFINE part(k) == CHOOSE f : Numerals(f, base, digits, k)
           g == [v \in Nat |-> part(v)[v]]
<1>1. \A k \in Nat : Numerals(part(k), base, digits, k)
  BY NumeralsMore
<1> HIDE DEF part
<1>2. \A v \in Nat : g[v] = part(v)[v]
  OBVIOUS
<1>3. ASSUME NEW v \in Nat
      PROVE  g[v] = NextNumeral(g, base, digits, v)
  <2>1. part(v)[v] = NextNumeral(part(v), base, digits, v)
    <3>1. v \in 0 .. v
      OBVIOUS
    <3> QED
      BY <1>1, <3>1 DEF Numerals
  <2>2. CASE v < base
    BY <1>2, <2>1, <2>2 DEF NextNumeral
  <2>3. CASE v >= base
    <3> DEFINE q == v \div base
    <3>1. q \in Nat /\ q \in 0 .. v \cap 0 .. q /\ ~ (v < base)
      <4>1. v \div base \in 1 .. v - 1
        BY <2>3, Smaller
      <4> QED
        BY <2>3, <4>1
    <3> HIDE DEF q
    <3>2. part(v)[q] = part(q)[q]
      BY <1>1, <3>1, NumeralsSame
    <3>3. part(v)[q] = g[q]
      BY <1>2, <3>1, <3>2
    <3> HIDE DEF g
    <3> QED
      BY <1>2, <2>1, <3>1, <3>3 DEF NextNumeral, q
  <2> QED
    BY <2>2, <2>3
<1>4. g = [v \in Nat |-> g[v]]
  OBVIOUS
<1> HIDE DEF g
<1>5. g = [v \in Nat |-> NextNumeral(g, base, digits, v)]
  BY <1>3, <1>4
<1> DEFINE numeral == Numeral(base, digits)
<1>6. numeral = [v \in Nat |-> NextNumeral(numeral, base, digits, v)]
  BY <1>5 DEF Numeral
<1> HIDE DEF numeral
<1>7. \A v \in Nat : numeral[v] = NextNumeral(numeral, base, digits, v)
  BY <1>6
<1> QED
  BY <1>7 DEF numeral

(* What a numeral says.                                                    *)
DigitOf(digits, base, c) == CHOOSE k \in 0 .. base - 1 : digits[k + 1] = c

LEMMA DigitOfIs ==
  ASSUME NEW digits, NEW base, DigitTable(digits, base), NEW k \in 0 .. base - 1
  PROVE  DigitOf(digits, base, digits[k + 1]) = k
<1>1. base \in Nat /\ \A m, n \in 1 .. base : digits[m] = digits[n] => m = n
  BY DEF DigitTable
<1>2. ASSUME NEW n \in 0 .. base - 1, digits[n + 1] = digits[k + 1]
      PROVE  n = k
  <2>1. n + 1 \in 1 .. base /\ k + 1 \in 1 .. base
    BY <1>1
  <2>2. n + 1 = k + 1
    BY <1>1, <1>2, <2>1
  <2> QED
    BY <1>1, <2>2
<1> QED
  BY <1>2 DEF DigitOf

Worth(h, text, base, digits, v) ==
  /\ h[0] = 0
  /\ \A m \in 1 .. Len(text) : h[m] = base * h[m - 1] + DigitOf(digits, base, text[m])
  /\ h[Len(text)] = v

WrittenOut(text, base, digits, v) ==
  /\ Listed(text) /\ Len(text) >= 1
  /\ \A m \in 1 .. Len(text) : \E n \in 1 .. base : text[m] = digits[n]
  /\ \E h : Worth(h, text, base, digits, v)
  /\ v # 0 => text[1] # "0"
  /\ v = 0 => Len(text) = 1

LEMMA OneDigit ==
  ASSUME NEW digits, NEW base, DigitTable(digits, base), NEW v \in 0 .. base - 1
  PROVE  WrittenOut(<<digits[v + 1]>>, base, digits, v)
<1> DEFINE text == <<digits[v + 1]>>
           h == [m \in 0 .. 1 |-> IF m = 0 THEN 0 ELSE v]
<1>1. Listed(text) /\ Len(text) = 1 /\ text[1] = digits[v + 1]
  <2> DEFINE S == {digits[v + 1]}
  <2>1. text \in Seq(S)
    OBVIOUS
  <2> QED
    BY <2>1, Zenon DEF Listed
<1>2. base \in Nat /\ v + 1 \in 1 .. base /\ 1 \in 1 .. base
  BY DEF DigitTable
<1>3. v # 0 => digits[v + 1] # "0"
  BY <1>2 DEF DigitTable
<1>4. Worth(h, text, base, digits, v)
  <2>1. DigitOf(digits, base, text[1]) = v
    BY <1>1, DigitOfIs
  <2>2. h[0] = 0 /\ h[1] = v
    OBVIOUS
  <2> HIDE DEF h, text
  <2>3. h[1] = base * h[0] + DigitOf(digits, base, text[1])
    BY <1>2, <2>1, <2>2
  <2>4. \A m \in 1 .. Len(text) : m = 1 /\ m - 1 = 0
    BY <1>1
  <2> QED
    BY <1>1, <2>2, <2>3, <2>4 DEF Worth
<1> HIDE DEF h, text
<1>5. \A m \in 1 .. Len(text) : \E n \in 1 .. base : text[m] = digits[n]
  <2>1. \A m \in 1 .. Len(text) : m = 1
    BY <1>1
  <2> QED
    BY <1>1, <1>2, <2>1
<1>6. WrittenOut(text, base, digits, v)
  BY <1>1, <1>3, <1>4, <1>5 DEF WrittenOut
<1> QED
  BY <1>6 DEF text

LEMMA DigitMore ==
  ASSUME NEW digits, NEW base, DigitTable(digits, base), NEW q \in Nat, q # 0,
         NEW r \in 0 .. base - 1, NEW text, WrittenOut(text, base, digits, q)
  PROVE  WrittenOut(Append(text, digits[r + 1]), base, digits, base * q + r)
<1> DEFINE x == digits[r + 1]
           more == Append(text, x)
           k == Len(text)
           v == base * q + r
<1>0. base \in Nat /\ base > 1 /\ r + 1 \in 1 .. base
  BY DEF DigitTable
<1>1. Listed(text) /\ Len(text) >= 1
  BY DEF WrittenOut
<1>2. /\ k \in Nat /\ Listed(more) /\ Len(more) = k + 1
      /\ \A m \in 1 .. k : more[m] = text[m]
      /\ more[k + 1] = x
  BY <1>1, ListedLonger
<1>3. v # 0
  <2>1. base * q \in Nat /\ (base * q = 0 => base = 0 \/ q = 0)
    BY <1>0
  <2> QED
    BY <1>0, <2>1
<1>4. PICK h : Worth(h, text, base, digits, q)
  BY DEF WrittenOut
<1> DEFINE g == [m \in 0 .. k + 1 |-> IF m = k + 1 THEN v ELSE h[m]]
<1>5. \A m \in 0 .. k : g[m] = h[m]
  BY <1>2
<1>6. g[k + 1] = v
  BY <1>2
<1>7. DigitOf(digits, base, x) = r
  BY DigitOfIs
<1> HIDE DEF more, g, x
<1>8. ASSUME NEW m \in 1 .. k + 1
      PROVE  /\ g[m] = base * g[m - 1] + DigitOf(digits, base, more[m])
             /\ \E n \in 1 .. base : more[m] = digits[n]
  <2>1. CASE m \in 1 .. k
    <3>1. m \in 0 .. k /\ m - 1 \in 0 .. k
      BY <2>1
    <3>2. more[m] = text[m] /\ g[m] = h[m] /\ g[m - 1] = h[m - 1]
      BY <1>2, <1>5, <2>1, <3>1
    <3>3. h[m] = base * h[m - 1] + DigitOf(digits, base, text[m])
      BY <1>4, <2>1 DEF Worth
    <3>4. \E n \in 1 .. base : text[m] = digits[n]
      BY <2>1 DEF WrittenOut
    <3> QED
      BY <3>2, <3>3, <3>4
  <2>2. CASE m = k + 1
    <3>1. m - 1 = k /\ k \in 0 .. k
      BY <1>2, <2>2
    <3>2. g[m - 1] = q
      BY <1>4, <1>5, <3>1 DEF Worth
    <3>3. more[m] = digits[r + 1] /\ DigitOf(digits, base, more[m]) = r
      BY <1>2, <1>7, <2>2 DEF x
    <3> QED
      BY <1>0, <1>6, <2>2, <3>2, <3>3
  <2> QED
    BY <1>2, <2>1, <2>2
<1>9. Worth(g, more, base, digits, v)
  <2>1. 0 \in 0 .. k /\ k + 1 \in 1 .. k + 1
    BY <1>2
  <2>2. g[0] = 0
    BY <1>4, <1>5, <2>1 DEF Worth
  <2> HIDE DEF v
  <2> QED
    BY <1>2, <1>6, <1>8, <2>2 DEF Worth
<1>10. more[1] # "0"
  <2>1. 1 \in 1 .. k
    BY <1>1, <1>2
  <2> QED
    BY <1>2, <2>1 DEF WrittenOut
<1> HIDE DEF v
<1>11. \A m \in 1 .. Len(more) : \E n \in 1 .. base : more[m] = digits[n]
  BY <1>2, <1>8
<1>12. WrittenOut(more, base, digits, v)
  BY <1>2, <1>3, <1>9, <1>10, <1>11 DEF WrittenOut
<1> QED
  BY <1>12 DEF more, v, x

LEMMA NumeralWritten ==
  ASSUME NEW digits, NEW base, DigitTable(digits, base), NEW number \in Nat
  PROVE  WrittenOut(Numeral(base, digits)[number], base, digits, number)
<1> DEFINE f == Numeral(base, digits)
           Good == {v \in Nat : WrittenOut(f[v], base, digits, v)}
<1>0. base \in Nat /\ base > 1
  BY DEF DigitTable
<1>1. \A v \in Nat : f[v] = NextNumeral(f, base, digits, v)
  BY <1>0, NumeralIs
<1> HIDE DEF f
<1>2. ASSUME NEW v \in Nat, \A m \in 0 .. v - 1 : m \in Good
      PROVE  v \in Good
  <2>1. CASE v < base
    <3>1. v \in 0 .. base - 1
      BY <1>0, <2>1
    <3>2. f[v] = <<digits[v + 1]>>
      BY <1>1, <2>1, Zenon DEF NextNumeral
    <3> QED
      BY <3>1, <3>2, OneDigit
  <2>2. CASE v >= base
    <3> DEFINE q == v \div base
               r == v % base
    <3>1. q \in 1 .. v - 1 /\ r \in 0 .. base - 1 /\ v = base * q + r
      BY <1>0, <2>2, Smaller
    <3>2. ~ (v < base)
      BY <1>0, <2>2
    <3>3. f[v] = Append(f[q], digits[r + 1])
      BY <1>1, <3>2 DEF NextNumeral
    <3> HIDE DEF q, r
    <3>4. q \in Nat /\ q # 0 /\ q \in 0 .. v - 1
      BY <3>1
    <3>5. WrittenOut(f[q], base, digits, q)
      BY <1>2, <3>4
    <3>6. WrittenOut(Append(f[q], digits[r + 1]), base, digits, base * q + r)
      BY <3>1, <3>4, <3>5, DigitMore
    <3> DEFINE w == base * q + r
    <3>7. v = w /\ WrittenOut(f[v], base, digits, w)
      BY <3>1, <3>3, <3>6
    <3> HIDE DEF w
    <3> QED
      BY <3>7
  <2> QED
    BY <1>0, <2>1, <2>2
<1> HIDE DEF Good
<1>3. Nat \subseteq Good
  BY <1>2, AllBelow
<1> QED
  BY <1>3 DEF Good, f

LEMMA MaxIs ==
  ASSUME NEW k \in Nat, NEW s \in SUBSET (1 .. k + 1), k + 1 \in s
  PROVE  Max(s) = k + 1
<1>1. \E x \in s : \A y \in s : x >= y
  <2>1. \A y \in s : k + 1 >= y
    OBVIOUS
  <2> QED
    BY <2>1
<1>2. Max(s) \in s /\ \A y \in s : Max(s) >= y
  BY <1>1 DEF Max
<1> DEFINE max == Max(s)
<1>3. max \in 1 .. k + 1 /\ max >= k + 1
  BY <1>2
<1> HIDE DEF max
<1>4. max = k + 1
  BY <1>3
<1> QED
  BY <1>4 DEF max

(* The sum in IsNumeral.                                                   *)
Summed(digits, base, sum, c) == base * sum + DigitOf(digits, base, c)

SumOf(digits, base, text) ==
  FoldLeft(LAMBDA sum, c : base * sum + DigitOf(digits, base, c), 0, text)

(* FoldLeft goes over all subsets of the positions, greatest last.         *)
Folding(g, digits, base, a, k) ==
  g = [s \in SUBSET (1 .. k) |-> IF s = {} THEN 0
                                 ELSE Summed(digits, base, g[s \ {Max(s)}], a[Max(s)])]

LEMMA FoldExists ==
  ASSUME NEW digits, NEW base, NEW a, NEW n \in Nat
  PROVE  \E g : Folding(g, digits, base, a, n)
<1> DEFINE Good == {k \in Nat : \E g : Folding(g, digits, base, a, k)}
<1>1. 0 \in Good
  <2> DEFINE g == [s \in SUBSET (1 .. 0) |-> 0]
  <2>1. \A s \in SUBSET (1 .. 0) : s = {}
    OBVIOUS
  <2>2. Folding(g, digits, base, a, 0)
    BY <2>1 DEF Folding
  <2> QED
    BY <2>2
<1>2. ASSUME NEW k \in Nat, k \in Good
      PROVE  k + 1 \in Good
  <2>1. PICK h : Folding(h, digits, base, a, k)
    BY <1>2
  <2> DEFINE g == [s \in SUBSET (1 .. k + 1) |->
                     IF k + 1 \in s THEN Summed(digits, base, h[s \ {k + 1}], a[k + 1]) ELSE h[s]]
  <2>2. ASSUME NEW s \in SUBSET (1 .. k)
        PROVE  /\ s \in SUBSET (1 .. k + 1) /\ k + 1 \notin s
               /\ g[s] = h[s]
               /\ h[s] = IF s = {} THEN 0 ELSE Summed(digits, base, h[s \ {Max(s)}], a[Max(s)])
    <3>1. s \in SUBSET (1 .. k + 1) /\ k + 1 \notin s
      OBVIOUS
    <3>2. h[s] = IF s = {} THEN 0 ELSE Summed(digits, base, h[s \ {Max(s)}], a[Max(s)])
      <4> HIDE DEF g
      <4> QED
        BY <2>1 DEF Folding
    <3> QED
      BY <3>1, <3>2
  <2> HIDE DEF g
  <2>3. ASSUME NEW s \in SUBSET (1 .. k + 1)
        PROVE  g[s] = IF s = {} THEN 0 ELSE Summed(digits, base, g[s \ {Max(s)}], a[Max(s)])
    <3>1. CASE k + 1 \in s
      <4>1. Max(s) = k + 1
        BY <3>1, MaxIs
      <4>2. s \ {k + 1} \in SUBSET (1 .. k)
        OBVIOUS
      <4>3. g[s \ {k + 1}] = h[s \ {k + 1}]
        BY <2>2, <4>2
      <4>4. g[s] = Summed(digits, base, h[s \ {k + 1}], a[k + 1])
        BY <3>1 DEF g
      <4> QED
        BY <3>1, <4>1, <4>3, <4>4
    <3>2. CASE k + 1 \notin s
      <4>1. s \in SUBSET (1 .. k)
        BY <3>2
      <4>2. CASE s = {}
        BY <2>2, <4>1, <4>2
      <4>3. CASE s # {}
        <5>1. s \ {Max(s)} \in SUBSET (1 .. k)
          BY <4>1
        <5> QED
          BY <2>2, <4>1, <4>3, <5>1
      <4> QED
        BY <4>2, <4>3
    <3> QED
      BY <3>1, <3>2
  <2>4. g = [s \in SUBSET (1 .. k + 1) |-> g[s]]
    BY DEF g
  <2>5. Folding(g, digits, base, a, k + 1)
    BY <2>3, <2>4 DEF Folding
  <2> QED
    BY <2>5
<1> HIDE DEF Good
<1>3. Nat \subseteq Good
  BY <1>1, <1>2, AllNat
<1> QED
  BY <1>3 DEF Good

LEMMA FoldIs ==
  ASSUME NEW digits, NEW base, NEW a, NEW n \in Nat, DOMAIN a = 1 .. n
  PROVE  \E h : /\ h[0] = 0
                /\ \A m \in 1 .. n : h[m] = Summed(digits, base, h[m - 1], a[m])
                /\ h[n] = SumOf(digits, base, a)
<1> DEFINE g == CHOOSE f : Folding(f, digits, base, a, n)
           h == [m \in 0 .. n |-> g[1 .. m]]
<1>1. Folding(g, digits, base, a, n)
  BY FoldExists
<1>2. SumOf(digits, base, a) = g[1 .. n]
  BY DEF SumOf, FoldLeft, MapThenFoldSet, Folding, Summed, DigitOf
<1> HIDE DEF g
<1>3. h[0] = 0
  BY <1>1 DEF Folding
<1>4. ASSUME NEW m \in 1 .. n
      PROVE  h[m] = Summed(digits, base, h[m - 1], a[m])
  <2>1. /\ (m - 1) \in Nat /\ (m - 1) + 1 = m
        /\ 1 .. m \in SUBSET (1 .. n) /\ 1 .. m # {} /\ m \in 1 .. m
    <3>1. m \in Nat /\ m >= 1 /\ m <= n
      OBVIOUS
    <3>2. m \in 1 .. m
      BY <3>1
    <3>3. 1 .. m \in SUBSET (1 .. n)
      BY <3>1
    <3>4. m - 1 \in Nat /\ (m - 1) + 1 = m
      BY <3>1
    <3>5. 1 .. m # {}
      BY <3>2
    <3> QED
      BY <3>2, <3>3, <3>4, <3>5, Zenon
  <2>2. Max(1 .. m) = m
    BY <2>1, MaxIs
  <2>3. (1 .. m) \ {m} = 1 .. m - 1
    OBVIOUS
  <2>4. g[1 .. m] = Summed(digits, base, g[(1 .. m) \ {m}], a[m])
    <3>1. g[1 .. m] = IF 1 .. m = {} THEN 0
                      ELSE Summed(digits, base, g[(1 .. m) \ {Max(1 .. m)}], a[Max(1 .. m)])
      BY <1>1, <2>1 DEF Folding
    <3> QED
      BY <2>1, <2>2, <3>1
  <2>5. m \in 0 .. n /\ m - 1 \in 0 .. n
    OBVIOUS
  <2>6. h[m] = g[1 .. m] /\ h[m - 1] = g[1 .. m - 1]
    BY <2>5
  <2> HIDE DEF h
  <2> QED
    BY <2>3, <2>4, <2>6
<1>5. h[n] = g[1 .. n]
  OBVIOUS
<1> HIDE DEF h
<1> QED
  BY <1>2, <1>3, <1>4, <1>5

LEMMA WorthOnce ==
  ASSUME NEW digits, NEW base, NEW text, NEW v, NEW h, Worth(h, text, base, digits, v),
         Len(text) \in Nat, DOMAIN text = 1 .. Len(text)
  PROVE  SumOf(digits, base, text) = v
<1> DEFINE k == Len(text)
<1>1. PICK g : /\ g[0] = 0
               /\ \A m \in 1 .. k : g[m] = Summed(digits, base, g[m - 1], text[m])
               /\ g[k] = SumOf(digits, base, text)
  BY FoldIs, ZenonT(30)
<1> DEFINE Same == {m \in Nat : m <= k => g[m] = h[m]}
<1>2. 0 \in Same
  BY <1>1 DEF Worth
<1>3. ASSUME NEW m \in Nat, m \in Same
      PROVE  m + 1 \in Same
  <2>1. SUFFICES ASSUME m + 1 <= k PROVE g[m + 1] = h[m + 1]
    OBVIOUS
  <2>2. m + 1 \in 1 .. k /\ (m + 1) - 1 = m /\ m <= k
    BY <2>1
  <2>3. g[m + 1] = Summed(digits, base, g[m], text[m + 1])
    BY <1>1, <2>2
  <2>4. h[m + 1] = Summed(digits, base, h[m], text[m + 1])
    BY <2>2 DEF Worth, Summed
  <2>5. g[m] = h[m]
    BY <1>3, <2>2
  <2> QED
    BY <2>3, <2>4, <2>5
<1> HIDE DEF Same
<1>4. Nat \subseteq Same
  BY <1>2, <1>3, AllNat
<1>5. k \in Same
  BY <1>4
<1> QED
  BY <1>1, <1>5 DEF Same, Worth

LEMMA NumeralRight ==
  ASSUME NEW digits, NEW base, DigitTable(digits, base), NEW text, NEW v \in Nat,
         WrittenOut(text, base, digits, v)
  PROVE  IsNumeral(text, v, digits, base)
<1>1. Listed(text) /\ Len(text) >= 1
  BY DEF WrittenOut
<1>2. Len(text) \in Nat /\ DOMAIN text = 1 .. Len(text)
  BY <1>1, ListedLonger
<1>3. SumOf(digits, base, text) = v
  BY <1>2, WorthOnce DEF WrittenOut
<1>4. \A k \in DOMAIN text : \E n \in 1 .. base : text[k] = digits[n]
  BY <1>2 DEF WrittenOut
<1>5. Len(text) > 1 => text[1] # "0"
  BY <1>2 DEF WrittenOut
<1> QED
  BY <1>3, <1>4, <1>5 DEF IsNumeral, SumOf, DigitOf

(* What fill_numbuf returns, and each conversion's text.                   *)
NumeralFor(d, text) ==
  IF d.conv \in {"d", "u"}
  THEN IsNumeral(text, IF d.arg < 0 THEN -d.arg ELSE d.arg, upper_digits, 10)
  ELSE IsNumeral(text, d.arg, IF d.conv = "x" THEN lower_digits ELSE upper_digits, 16)

LEMMA EmptyNumeral ==
  ASSUME NEW digits, NEW base
  PROVE  IsNumeral(<<>>, 0, digits, base)
<1> DEFINE text == <<>>
           h == [m \in {0} |-> 0]
<1>1. Len(text) = 0 /\ DOMAIN text = {}
  OBVIOUS
<1>2. Worth(h, text, base, digits, 0)
  BY <1>1 DEF Worth
<1> HIDE DEF text
<1>3. DOMAIN text = 1 .. Len(text) /\ Len(text) \in Nat /\ ~ (Len(text) > 1)
  BY <1>1
<1>4. SumOf(digits, base, text) = 0
  BY <1>2, <1>3, WorthOnce
<1>5. IsNumeral(text, 0, digits, base)
  BY <1>1, <1>3, <1>4 DEF IsNumeral, SumOf, DigitOf
<1> QED
  BY <1>5 DEF text

LEMMA FillRight ==
  ASSUME NEW digits, NEW base, DigitTable(digits, base), NEW v \in Nat, NEW precision
  PROVE  LET text == fill_numbuf(v, base, digits, precision)
         IN  /\ Listed(text) /\ IsNumeral(text, v, digits, base)
             /\ text = <<>> <=> v = 0 /\ precision = 0
<1> DEFINE text == fill_numbuf(v, base, digits, precision)
<1>1. text = IF precision # 0 \/ v # 0 THEN Numeral(base, digits)[v] ELSE <<>>
  BY DEF fill_numbuf, Numeral, NextNumeral
<1> HIDE DEF text
<1>2. CASE precision # 0 \/ v # 0
  <2>1. WrittenOut(text, base, digits, v)
    BY <1>1, <1>2, NumeralWritten
  <2>2. Listed(text) /\ Len(text) >= 1
    BY <2>1 DEF WrittenOut
  <2>3. text # <<>>
    <3>1. Len(<<>>) = 0
      OBVIOUS
    <3> QED
      BY <2>2, <3>1
  <2> QED
    BY <1>2, <2>1, <2>2, <2>3, NumeralRight DEF text
<1>3. CASE ~ (precision # 0 \/ v # 0)
  <2>1. text = <<>>
    BY <1>1, <1>3
  <2>2. Listed(text)
    <3>1. <<>> \in Seq({})
      OBVIOUS
    <3> QED
      BY <2>1, <3>1, Zenon DEF Listed
  <2> QED
    BY <1>3, <2>1, <2>2, EmptyNumeral DEF text
<1> QED
  BY <1>2, <1>3

LEMMA MagnitudeIs ==
  ASSUME NEW x \in Ints
  PROVE  Magnitude(x) \in Nat /\ Magnitude(x) = IF x < 0 THEN -x ELSE x
<1> DEFINE half == WORD \div 2
<1>1. WORD \in Nat /\ half \in Nat /\ WORD = half * 2 + (WORD % 2) /\ WORD % 2 = 0
  <2>1. WORD \in Nat /\ WORD % 2 = 0
    BY ConsolePrintfAssumption
  <2>2. 2 \in Nat \ {0}
    OBVIOUS
  <2> QED
    BY <2>1, <2>2, DivideBy
<1>2. x \in -half .. half - 1
  BY DEF Ints
<1> HIDE DEF half
<1>3. CASE x > 0
  BY <1>1, <1>2, <1>3 DEF Magnitude
<1>4. CASE ~ (x > 0)
  <2>1. -x \in 0 .. WORD - 1 /\ WORD \in Nat \ {0}
    BY <1>1, <1>2, <1>4
  <2>2. (-x) % WORD = -x
    <3> DEFINE y == -x
    <3>1. (0 * WORD + y) % WORD = y
      BY <2>1, RestOf
    <3>2. 0 * WORD + y = y
      BY <2>1
    <3> HIDE DEF y
    <3>3. y % WORD = y
      BY <3>1, <3>2
    <3> QED
      BY <3>3 DEF y
  <2> QED
    BY <1>1, <1>2, <1>4, <2>1, <2>2 DEF Magnitude
<1> QED
  BY <1>2, <1>3, <1>4

LEMMA DataRight ==
  ASSUME NEW d, Legal(d), d.conv # "C"
  PROVE  /\ Listed(Data(d))
         /\ Numeric(d) => /\ NumeralFor(d, Data(d))
                          /\ Data(d) = <<>> <=> d.arg = 0 /\ d.precision = 0
<1>1. CASE d.conv = "d"
  <2>1. d.arg \in Ints
    BY <1>1 DEF Legal
  <2>2. /\ Magnitude(d.arg) \in Nat
        /\ Magnitude(d.arg) = IF d.arg < 0 THEN -d.arg ELSE d.arg
        /\ Magnitude(d.arg) = 0 <=> d.arg = 0
    <3>1. d.arg \in Int
      BY <2>1, ConsolePrintfAssumption DEF Ints
    <3> QED
      BY <2>1, <3>1, MagnitudeIs
  <2>3. Data(d) = fill_numbuf(Magnitude(d.arg), 10, upper_digits, d.precision)
    BY <1>1 DEF Data
  <2>4. /\ Listed(Data(d)) /\ IsNumeral(Data(d), Magnitude(d.arg), upper_digits, 10)
        /\ Data(d) = <<>> <=> Magnitude(d.arg) = 0 /\ d.precision = 0
    BY <2>2, <2>3, DigitTables, FillRight
  <2>5. NumeralFor(d, Data(d))
    BY <1>1, <2>2, <2>4, Zenon DEF NumeralFor
  <2> QED
    BY <2>2, <2>4, <2>5
<1>2. CASE d.conv \in {"u", "x", "X"}
  <2> DEFINE base == IF d.conv = "u" THEN 10 ELSE 16
             digits == IF d.conv = "x" THEN lower_digits ELSE upper_digits
  <2>1. d.arg \in Nat
    <3>1. d.arg \in 0 .. WORD - 1
      BY <1>2 DEF Legal
    <3> QED
      BY <3>1, ConsolePrintfAssumption
  <2>2. DigitTable(digits, base)
    BY <1>2, DigitTables
  <2>3. Data(d) = fill_numbuf(d.arg, base, digits, d.precision)
    BY <1>2 DEF Data
  <2> HIDE DEF base, digits
  <2>4. /\ Listed(Data(d)) /\ IsNumeral(Data(d), d.arg, digits, base)
        /\ Data(d) = <<>> <=> d.arg = 0 /\ d.precision = 0
    BY <2>1, <2>2, <2>3, FillRight
  <2>5. ~ (d.arg < 0)
    BY <2>1
  <2>6. NumeralFor(d, Data(d))
    BY <1>2, <2>4, <2>5 DEF NumeralFor, base, digits
  <2> QED
    BY <2>4, <2>6
<1>3. CASE d.conv = "s"
  <2>1. d.arg \in Seq(STRING) /\ Data(d) = d.arg /\ ~ Numeric(d)
    BY <1>3 DEF Legal, Data, Numeric
  <2> QED
    BY <2>1, Zenon DEF Listed
<1>4. CASE d.conv = "c"
  <2>1. Data(d) = <<d.arg>> /\ ~ Numeric(d)
    BY <1>4 DEF Data, Numeric
  <2>2. <<d.arg>> \in Seq({d.arg})
    OBVIOUS
  <2> QED
    BY <2>1, <2>2, Zenon DEF Listed
<1> QED
  BY <1>1, <1>2, <1>3, <1>4 DEF Legal

-----------------------------------------------------------------------------
(* How a field is put together.                                            *)

Joins(u, s, t) ==
  /\ Listed(u) /\ Len(s) \in Nat /\ Len(t) \in Nat
  /\ Len(u) = Len(s) + Len(t)
  /\ \A k \in 1 .. Len(s) : u[k] = s[k]
  /\ \A k \in 1 .. Len(t) : u[Len(s) + k] = t[k]

LEMMA Joined ==
  ASSUME NEW s, Listed(s), NEW t, Listed(t)
  PROVE  Joins(s \o t, s, t)
<1>1. PICK S : s \in Seq(S)
  BY DEF Listed
<1>2. PICK T : t \in Seq(T)
  BY DEF Listed
<1> DEFINE U == S \cup T
<1>3. s \in Seq(U) /\ t \in Seq(U)
  BY <1>1, <1>2
<1> HIDE DEF U
<1>4. s \o t \in Seq(U)
  BY <1>3
<1>5. /\ Len(s) \in Nat /\ Len(t) \in Nat /\ Len(s \o t) = Len(s) + Len(t)
      /\ \A k \in 1 .. Len(s) + Len(t) :
           (s \o t)[k] = IF k <= Len(s) THEN s[k] ELSE t[k - Len(s)]
  BY <1>3, ConcatProperties
<1>6. ASSUME NEW k \in 1 .. Len(s)
      PROVE  (s \o t)[k] = s[k]
  BY <1>5
<1>7. ASSUME NEW k \in 1 .. Len(t)
      PROVE  (s \o t)[Len(s) + k] = t[k]
  <2>1. /\ Len(s) + k \in 1 .. Len(s) + Len(t) /\ ~ (Len(s) + k <= Len(s))
        /\ (Len(s) + k) - Len(s) = k
    BY <1>5
  <2> QED
    BY <1>5, <2>1
<1> QED
  <2>1. Listed(s \o t)
    BY <1>4, Zenon DEF Listed
  <2> QED
    BY <1>5, <1>6, <1>7, <2>1, Zenon DEF Joins

LEMMA Cut ==
  ASSUME NEW s, Listed(s), NEW t, Listed(t), NEW n \in Nat,
         n + Len(t) <= Len(s), \A k \in 1 .. Len(t) : s[n + k] = t[k]
  PROVE  SubSeq(s, n + 1, n + Len(t)) = t
<1>1. PICK S : s \in Seq(S)
  BY DEF Listed
<1>2. PICK T : t \in Seq(T)
  BY DEF Listed
<1> DEFINE U == S \cup T
           w == Len(t)
           part == SubSeq(s, n + 1, n + w)
<1>3. s \in Seq(U) /\ t \in Seq(U) /\ w \in Nat
  BY <1>1, <1>2
<1> HIDE DEF U
<1>4. \A k \in n + 1 .. n + w : s[k] \in U
  BY <1>3
<1> HIDE DEF w
<1>5. /\ n + 1 \in Int /\ n + w \in Int
      /\ ((n + w) - (n + 1)) + 1 = w
      /\ \A k \in 1 .. w : (n + 1 + k) - 1 = n + k
  BY <1>3
<1>6. /\ part \in Seq(U)
      /\ Len(part) = IF n + 1 <= n + w THEN ((n + w) - (n + 1)) + 1 ELSE 0
      /\ \A k \in 1 .. ((n + w) - (n + 1)) + 1 : part[k] = s[(n + 1 + k) - 1]
  BY <1>4, <1>5, SubSeqProperties
<1> HIDE DEF part
<1>7. Len(part) = w
  BY <1>3, <1>5, <1>6
<1>8. \A k \in 1 .. w : part[k] = t[k]
  BY <1>5, <1>6 DEF w
<1>9. part = t
  BY <1>3, <1>6, <1>7, <1>8, SeqEqual DEF w
<1> QED
  BY <1>9 DEF part, w

LEMMA TimesIs ==
  ASSUME NEW n \in Int, NEW c
  PROVE  /\ Listed(Times(n, c))
         /\ Len(Times(n, c)) = IF n > 0 THEN n ELSE 0
         /\ \A k \in 1 .. Len(Times(n, c)) : Times(n, c)[k] = c
<1> DEFINE w == Max({0, n})
<1>1. w = IF n > 0 THEN n ELSE 0
  <2> DEFINE S == {0, n}
  <2>1. \E x \in S : \A y \in S : x >= y
    OBVIOUS
  <2>2. Max(S) \in S /\ \A y \in S : Max(S) >= y
    <3> HIDE DEF S
    <3> QED
      BY <2>1 DEF Max
  <2> DEFINE max == Max(S)
  <2>3. max \in {0, n} /\ max >= 0 /\ max >= n
    BY <2>2
  <2> HIDE DEF max
  <2>4. max = IF n > 0 THEN n ELSE 0
    BY <2>3
  <2> QED
    BY <2>4 DEF max
<1>2. Times(n, c) = [k \in 1 .. w |-> c]
  BY DEF Times
<1> HIDE DEF w
<1>3. w \in Nat
  BY <1>1
<1>4. [k \in 1 .. w |-> c] \in Seq({c}) /\ Len([k \in 1 .. w |-> c]) = w
  BY <1>3
<1> QED
  BY <1>1, <1>2, <1>3, <1>4 DEF Listed

SignOf(d) ==
  IF Negative(d) THEN "-"
  ELSE IF "+" \in d.flags THEN "+"
  ELSE IF " " \in d.flags THEN " " ELSE ""

SignWidth(d) == IF SignOf(d) = "" THEN 0 ELSE 1

LEMMA SignIs ==
  ASSUME NEW d
  PROVE  /\ Listed(Sign(d)) /\ Len(Sign(d)) = SignWidth(d)
         /\ SignOf(d) # "" => Sign(d)[1] = SignOf(d)
<1>1. CASE SignOf(d) = ""
  <2>1. Sign(d) = <<>>
    BY <1>1 DEF SignOf, Sign
  <2>2. <<>> \in Seq({}) /\ Len(<<>>) = 0
    OBVIOUS
  <2>3. Listed(Sign(d)) /\ Len(Sign(d)) = 0
    BY <2>1, <2>2, Zenon DEF Listed
  <2> QED
    BY <1>1, <2>3, Zenon DEF SignWidth
<1>2. CASE SignOf(d) # ""
  <2> DEFINE c == SignOf(d)
  <2>1. Sign(d) = <<c>>
    BY <1>2 DEF SignOf, Sign
  <2> HIDE DEF c
  <2>2. <<c>> \in Seq({c}) /\ Len(<<c>>) = 1 /\ <<c>>[1] = c
    OBVIOUS
  <2>3. Listed(Sign(d)) /\ Len(Sign(d)) = 1 /\ Sign(d)[1] = c
    BY <2>1, <2>2, Zenon DEF Listed
  <2>4. SignWidth(d) = 1
    BY <1>2 DEF SignWidth
  <2> QED
    BY <2>3, <2>4, Zenon DEF c
<1> QED
  BY <1>1, <1>2

LEMMA LegalIs ==
  ASSUME NEW d, Legal(d), d.conv # "C"
  PROVE  /\ d.width \in Int /\ d.precision \in Int
         /\ d.precision < 0 \/ Len(Data(d)) <= d.precision
<1>1. d.width \in Nat \cup {-1} /\ d.precision \in Nat \cup {-1}
  BY DEF Legal
<1>2. d.precision < 0 \/ Len(Data(d)) <= d.precision
  BY DEF Legal
<1> QED
  BY <1>1, <1>2

(* What a directive's zeros fill.                                          *)
LEMMA ZerosFill ==
  ASSUME NEW d, Legal(d), d.conv # "C", NEW len \in Nat
  PROVE  LET signed == len + SignWidth(d)
         IN  /\ Zeros(d, len) \in Nat
             /\ ~ Numeric(d) => Zeros(d, len) = 0
             /\ Numeric(d) /\ d.precision >= 0 =>
                  Zeros(d, len) = IF d.precision > len THEN d.precision - len ELSE 0
             /\ d.precision < 0 /\ Zeros(d, len) > 0 =>
                  /\ "0" \in d.flags /\ "-" \notin d.flags
                  /\ signed + Zeros(d, len) = d.width
             /\ Numeric(d) /\ d.precision < 0 /\ "0" \in d.flags /\ "-" \notin d.flags =>
                  signed + Zeros(d, len) >= d.width
<1> DEFINE signed == len + Len(Sign(d))
           padded == /\ "0" \in d.flags /\ "-" \notin d.flags
                     /\ Numeric(d) /\ d.precision < 0 /\ signed < d.width
<1>1. d.precision \in Int /\ d.width \in Int
  BY LegalIs
<1>2. Len(Sign(d)) = SignWidth(d) /\ SignWidth(d) \in Nat
  BY SignIs DEF SignWidth
<1>3. Zeros(d, len) = IF Numeric(d) /\ d.precision > len THEN d.precision - len
                      ELSE IF padded THEN d.width - signed ELSE 0
  BY DEF Zeros
<1>4. CASE Numeric(d) /\ d.precision > len
  BY <1>1, <1>2, <1>3, <1>4
<1>5. CASE ~ (Numeric(d) /\ d.precision > len) /\ padded
  BY <1>1, <1>2, <1>3, <1>5
<1>6. CASE ~ (Numeric(d) /\ d.precision > len) /\ ~ padded
  BY <1>1, <1>2, <1>3, <1>6
<1> QED
  BY <1>4, <1>5, <1>6

Body(d) == Sign(d) \o Times(Zeros(d, Len(Data(d))), "0") \o Data(d)

LEMMA BodyIs ==
  ASSUME NEW d, Legal(d), d.conv # "C"
  PROVE  LET n == SignWidth(d)
             z == Zeros(d, Len(Data(d)))
         IN  /\ Listed(Body(d)) /\ Len(Data(d)) \in Nat
             /\ Len(Body(d)) = n + z + Len(Data(d))
             /\ SignOf(d) # "" => Body(d)[1] = SignOf(d)
             /\ \A k \in 1 .. z : Body(d)[n + k] = "0"
             /\ \A k \in 1 .. Len(Data(d)) : Body(d)[n + z + k] = Data(d)[k]
<1> DEFINE data == Data(d)
           n == SignWidth(d)
           z == Zeros(d, Len(data))
           zeros == Times(z, "0")
           sign == Sign(d)
           front == sign \o zeros
           body == front \o data
<1>1. Listed(data)
  BY DataRight
<1>2. Listed(sign) /\ Len(sign) = n /\ (SignOf(d) # "" => sign[1] = SignOf(d))
  BY SignIs
<1>3. n \in Nat
  BY DEF SignWidth
<1>12. SignOf(d) # "" => n = 1
  BY DEF SignWidth
<1> DEFINE signed == SignOf(d) # ""
<1> HIDE DEF data, n, sign, signed
<1>4. Len(data) \in Nat
  BY <1>1, Joined DEF Joins
<1>5. z \in Nat
  BY <1>4, ZerosFill
<1> HIDE DEF z
<1>6. Listed(zeros) /\ Len(zeros) = z /\ \A k \in 1 .. z : zeros[k] = "0"
  BY <1>5, TimesIs
<1> HIDE DEF zeros
<1>7. /\ Listed(front) /\ Len(front) = n + z
      /\ \A k \in 1 .. n : front[k] = sign[k]
      /\ \A k \in 1 .. z : front[n + k] = zeros[k]
  <2>1. /\ Listed(front) /\ Len(front) = Len(sign) + Len(zeros)
        /\ \A k \in 1 .. Len(sign) : front[k] = sign[k]
        /\ \A k \in 1 .. Len(zeros) : front[Len(sign) + k] = zeros[k]
    <3>1. Listed(sign) /\ Listed(zeros)
      BY <1>2, <1>6
    <3> QED
      BY <3>1, Joined DEF Joins
  <2> HIDE DEF front
  <2> QED
    BY <1>2, <1>6, <2>1, Zenon
<1> HIDE DEF front
<1>8. /\ Listed(body) /\ Len(body) = (n + z) + Len(data)
      /\ \A k \in 1 .. n + z : body[k] = front[k]
      /\ \A k \in 1 .. Len(data) : body[(n + z) + k] = data[k]
  <2>1. /\ Listed(body) /\ Len(body) = Len(front) + Len(data)
        /\ \A k \in 1 .. Len(front) : body[k] = front[k]
        /\ \A k \in 1 .. Len(data) : body[Len(front) + k] = data[k]
    <3>1. Listed(front) /\ Listed(data)
      BY <1>1, <1>7
    <3> QED
      BY <3>1, Joined DEF Joins
  <2> HIDE DEF body
  <2> QED
    BY <1>7, <2>1, Zenon
<1>9. body = Body(d)
  BY DEF body, front, zeros, data, sign, z, Body
<1> HIDE DEF body
<1>10. SignOf(d) # "" => body[1] = SignOf(d)
  <2>1. SUFFICES ASSUME signed PROVE body[1] = SignOf(d)
    BY DEF signed
  <2>2. n = 1 /\ sign[1] = SignOf(d)
    BY <1>2, <1>12, <2>1 DEF signed
  <2>3. 1 \in 1 .. n /\ 1 \in 1 .. n + z
    BY <1>5, <2>2
  <2> QED
    BY <1>7, <1>8, <2>2, <2>3
<1>11. ASSUME NEW k \in 1 .. z
       PROVE  body[n + k] = "0"
  <2>1. n + k \in 1 .. n + z
    BY <1>3, <1>5
  <2> QED
    BY <1>6, <1>7, <1>8, <2>1
<1> QED
  BY <1>4, <1>8, <1>9, <1>10, <1>11 DEF n, z, data

LEMMA FieldIs ==
  ASSUME NEW d, Legal(d), d.conv # "C"
  PROVE  LET blanks == Times(d.width - Len(Body(d)), SPACE)
         IN  Field(d) = IF "-" \in d.flags THEN Body(d) \o blanks ELSE blanks \o Body(d)
<1> DEFINE data == Data(d)
           len == IF d.precision >= 0 THEN strnlen(data, d.precision) ELSE Len(data)
<1>1. PICK S : data \in Seq(S)
  BY DataRight DEF Listed
<1>2. d.precision \in Int /\ (d.precision < 0 \/ Len(data) <= d.precision)
  BY LegalIs
<1> HIDE DEF data
<1>3. len = Len(data)
  BY <1>1, <1>2 DEF strnlen
<1>4. SubSeq(data, 1, Len(data)) = data
  BY <1>1, SubSeqFull
<1> DEFINE body == Sign(d) \o Times(Zeros(d, len), "0") \o SubSeq(data, 1, len)
           blanks == Times(d.width - Len(body), SPACE)
<1>5. Field(d) = IF "-" \in d.flags THEN body \o blanks ELSE blanks \o body
  BY DEF Field, data
<1>6. body = Body(d)
  <2> HIDE DEF len
  <2> QED
    BY <1>3, <1>4, Zenon DEF Body, data
<1> HIDE DEF body
<1> QED
  BY <1>5, <1>6, Zenon

(* A field is its body between blanks.                                     *)
Blanks(d) ==
  IF d.width - Len(Body(d)) > 0 THEN d.width - Len(Body(d)) ELSE 0
Left(d) == IF "-" \in d.flags THEN 0 ELSE Blanks(d)

Around(s, body, left, blanks) ==
  /\ Listed(s) /\ Len(body) \in Nat /\ Len(s) = blanks + Len(body)
  /\ \A k \in 1 .. Len(body) : s[left + k] = body[k]
  /\ \A k \in 1 .. left : s[k] = SPACE
  /\ \A k \in left + Len(body) + 1 .. Len(s) : s[k] = SPACE

LEMMA BlanksBefore ==
  ASSUME NEW s, NEW t, NEW blanks, NEW n \in Nat, Joins(s, blanks, t),
         Len(blanks) = n, \A k \in 1 .. Len(blanks) : blanks[k] = SPACE
  PROVE  Around(s, t, n, n)
<1>1. /\ Listed(s) /\ Len(t) \in Nat /\ Len(s) = n + Len(t)
      /\ \A k \in 1 .. n : s[k] = SPACE
      /\ \A k \in 1 .. Len(t) : s[n + k] = t[k]
  BY DEF Joins
<1>2. \A k \in n + Len(t) + 1 .. Len(s) : FALSE
  BY <1>1
<1> QED
  BY <1>1, <1>2 DEF Around

LEMMA BlanksBehind ==
  ASSUME NEW s, NEW t, NEW blanks, NEW n \in Nat, Joins(s, t, blanks),
         Len(blanks) = n, \A k \in 1 .. Len(blanks) : blanks[k] = SPACE
  PROVE  Around(s, t, 0, n)
<1> DEFINE len == Len(t)
<1>1. /\ Listed(s) /\ len \in Nat /\ Len(s) = len + n
      /\ \A k \in 1 .. len : s[k] = t[k]
      /\ \A k \in 1 .. n : s[len + k] = SPACE
  BY DEF Joins
<1>2. \A k \in 1 .. len : 0 + k = k
  OBVIOUS
<1>3. ASSUME NEW k \in 0 + len + 1 .. Len(s)
      PROVE  s[k] = SPACE
  <2>1. k - len \in 1 .. n /\ len + (k - len) = k
    BY <1>1
  <2> QED
    BY <1>1, <2>1
<1>4. Len(s) = n + len
  BY <1>1
<1> QED
  BY <1>1, <1>2, <1>3, <1>4 DEF Around

LEMMA FieldAround ==
  ASSUME NEW d, Legal(d), d.conv # "C"
  PROVE  /\ Around(Field(d), Body(d), Left(d), Blanks(d))
         /\ Blanks(d) \in Nat /\ d.width <= Len(Field(d))
         /\ Blanks(d) > 0 => Len(Field(d)) = d.width
<1> DEFINE body == Body(d)
           w == d.width - Len(body)
           blanks == Times(w, SPACE)
           n == Blanks(d)
<1>1. Listed(body)
  BY BodyIs
<1>2. Len(body) \in Nat /\ d.width \in Int
  BY <1>1, Joined, LegalIs DEF Joins
<1>3. w \in Int
  BY <1>2
<1>4. n = IF w > 0 THEN w ELSE 0
  BY DEF Blanks
<1> HIDE DEF w, n
<1>5. Listed(blanks) /\ Len(blanks) = n /\ \A k \in 1 .. Len(blanks) : blanks[k] = SPACE
  BY <1>3, <1>4, TimesIs
<1>6. n \in Nat
  BY <1>3, <1>4
<1>7. Field(d) = IF "-" \in d.flags THEN body \o blanks ELSE blanks \o body
  BY FieldIs DEF w
<1> HIDE DEF body, blanks
<1>8. Around(Field(d), body, IF "-" \in d.flags THEN 0 ELSE n, n)
  <2>1. CASE "-" \in d.flags
    <3>1. Joins(body \o blanks, body, blanks)
      BY <1>1, <1>5, Joined
    <3>2. Around(body \o blanks, body, 0, n)
      BY <1>5, <1>6, <3>1, BlanksBehind
    <3> QED
      BY <1>7, <2>1, <3>2, Zenon
  <2>2. CASE "-" \notin d.flags
    <3>1. Joins(blanks \o body, blanks, body)
      BY <1>1, <1>5, Joined
    <3>2. Around(blanks \o body, body, n, n)
      BY <1>5, <1>6, <3>1, BlanksBefore
    <3> QED
      BY <1>7, <2>2, <3>2, Zenon
  <2> QED
    BY <2>1, <2>2
<1>9. Len(Field(d)) = n + Len(body)
  BY <1>8 DEF Around
<1>10. d.width <= Len(Field(d)) /\ (n > 0 => Len(Field(d)) = d.width)
  BY <1>2, <1>4, <1>6, <1>9 DEF w
<1> QED
  BY <1>6, <1>8, <1>10, Zenon DEF n, body, Left

(* What IsField asks of the parts of a field.                              *)
Parts(d, s, blanks, zeros, left, head, tail) ==
  /\ \A k \in (1 .. left) \cup (tail + 1 .. Len(s)) : s[k] = SPACE
  /\ SignOf(d) # "" => left < Len(s) /\ s[left + 1] = SignOf(d)
  /\ head <= tail
  /\ \A k \in head - zeros + 1 .. head : s[k] = "0"
  /\ d.width <= Len(s)
  /\ blanks > 0 => Len(s) = d.width

Padded(d, s, blanks, zeros, text) ==
  /\ d.precision >= 0 => zeros + Len(text) = Max({d.precision, Len(text)})
  /\ d.precision < 0 /\ zeros > 0 => "0" \in d.flags /\ blanks = 0 /\ Len(s) = d.width
  /\ d.precision < 0 /\ {"0", "-"} \cap d.flags = {"0"} => blanks = 0

LEMMA PartsRight ==
  ASSUME NEW d, Legal(d), d.conv # "C"
  PROVE  LET s == Field(d)
             zeros == Zeros(d, Len(Data(d)))
             blanks == Blanks(d)
             left == IF "-" \in d.flags THEN 0 ELSE blanks
             head == left + SignWidth(d) + zeros
             tail == Len(s) - (blanks - left)
         IN  /\ blanks \in 0 .. Len(s) /\ zeros \in 0 .. Len(s)
             /\ Parts(d, s, blanks, zeros, left, head, tail)
             /\ SubSeq(s, head + 1, tail) = Data(d)
<1> DEFINE s == Field(d)
           data == Data(d)
           zeros == Zeros(d, Len(data))
           blanks == Blanks(d)
           left == IF "-" \in d.flags THEN 0 ELSE blanks
           n == SignWidth(d)
           head == left + n + zeros
           tail == Len(s) - (blanks - left)
           body == Body(d)
<1>1. Around(s, body, left, blanks)
  BY FieldAround, Zenon DEF Left
<1>2. blanks \in Nat /\ d.width <= Len(s) /\ (blanks > 0 => Len(s) = d.width)
  BY FieldAround
<1>3. /\ Listed(body) /\ Len(body) = n + zeros + Len(data)
      /\ \A k \in 1 .. zeros : body[n + k] = "0"
      /\ \A k \in 1 .. Len(data) : body[n + zeros + k] = data[k]
  BY BodyIs
<1>4. SignOf(d) # "" => body[1] = SignOf(d)
  BY BodyIs
<1>5. Len(data) \in Nat
  BY BodyIs
<1>6. zeros \in Nat
  BY <1>5, ZerosFill
<1>7. n \in Nat
  BY DEF SignWidth
<1>8. SignOf(d) # "" => n = 1
  BY DEF SignWidth
<1>9. Listed(data)
  BY DataRight
<1> HIDE DEF s, data, zeros, blanks, n, body
<1>10. left \in Nat
  BY <1>2
<1>11. left <= blanks
  BY <1>2
<1> HIDE DEF left
<1> DEFINE len == Len(body)
<1>12. /\ Listed(s) /\ Len(s) = blanks + len
       /\ \A k \in 1 .. len : s[left + k] = body[k]
       /\ \A k \in 1 .. left : s[k] = SPACE
       /\ \A k \in left + len + 1 .. Len(s) : s[k] = SPACE
  BY <1>1 DEF Around
<1>13. len = n + zeros + Len(data) /\ len \in Nat
  BY <1>3, <1>5, <1>6, <1>7
<1> HIDE DEF len
<1>14. tail = left + len
  BY <1>2, <1>10, <1>12, <1>13
<1>15. blanks \in 0 .. Len(s) /\ zeros \in 0 .. Len(s)
  BY <1>2, <1>5, <1>6, <1>7, <1>12, <1>13
<1>16. tail = head + Len(data) /\ head \in Nat /\ tail <= Len(s)
  BY <1>2, <1>5, <1>6, <1>7, <1>10, <1>11, <1>12, <1>13, <1>14
<1>17. SignOf(d) # "" => left < Len(s) /\ s[left + 1] = SignOf(d)
  <2> DEFINE signed == SignOf(d) # ""
  <2>1. SUFFICES ASSUME signed
                 PROVE  left < Len(s) /\ s[left + 1] = SignOf(d)
    BY DEF signed
  <2>2. n = 1 /\ body[1] = SignOf(d)
    BY <1>4, <1>8, <2>1, Zenon
  <2> HIDE DEF signed
  <2>3. 1 \in 1 .. len /\ left < Len(s)
    BY <1>2, <1>5, <1>6, <1>10, <1>11, <1>12, <1>13, <2>2
  <2> QED
    BY <1>12, <2>2, <2>3
<1>18. ASSUME NEW k \in head - zeros + 1 .. head
       PROVE  s[k] = "0"
  <2> DEFINE m == k - (left + n)
  <2>1. m \in 1 .. zeros /\ n + m \in 1 .. len /\ left + (n + m) = k
    BY <1>5, <1>6, <1>7, <1>10, <1>13
  <2> HIDE DEF m
  <2>2. s[left + (n + m)] = body[n + m] /\ body[n + m] = "0"
    BY <1>3, <1>12, <2>1
  <2> QED
    BY <2>1, <2>2
<1>19. \A k \in (1 .. left) \cup (tail + 1 .. Len(s)) : s[k] = SPACE
  BY <1>12, <1>14
<1>20. SubSeq(s, head + 1, tail) = data
  <2>1. ASSUME NEW k \in 1 .. Len(data)
        PROVE  s[head + k] = data[k]
    <3> DEFINE m == (n + zeros) + k
    <3>1. m \in 1 .. len /\ left + m = head + k
      BY <1>5, <1>6, <1>7, <1>10, <1>13
    <3>2. body[m] = data[k]
      BY <1>3
    <3> HIDE DEF m
    <3> QED
      BY <1>12, <3>1, <3>2
  <2>2. head + Len(data) <= Len(s)
    BY <1>16
  <2> HIDE DEF head, tail
  <2>3. SubSeq(s, head + 1, head + Len(data)) = data
    BY <1>9, <1>12, <1>16, <2>1, <2>2, Cut
  <2> QED
    BY <1>16, <2>3
<1>21. Parts(d, s, blanks, zeros, left, head, tail)
  <2>1. head <= tail
    BY <1>5, <1>16
  <2> HIDE DEF head, tail
  <2> QED
    BY <1>2, <1>17, <1>18, <1>19, <2>1 DEF Parts
<1> QED
  BY <1>15, <1>20, <1>21, Zenon DEF s, data, zeros, blanks, left, n, head, tail

LEMMA PaddedRight ==
  ASSUME NEW d, Legal(d), d.conv # "C", Numeric(d)
  PROVE  Padded(d, Field(d), Blanks(d), Zeros(d, Len(Data(d))), Data(d))
<1> DEFINE s == Field(d)
           len == Len(Data(d))
           zeros == Zeros(d, len)
           n == SignWidth(d)
           blanks == Blanks(d)
           body == Len(Body(d))
<1>1. len \in Nat /\ body = n + zeros + len
  BY BodyIs
<1>2. n \in Nat
  BY DEF SignWidth
<1>3. d.precision \in Int /\ d.width \in Int
  BY LegalIs
<1>4. /\ zeros \in Nat
      /\ d.precision >= 0 =>
           zeros = IF d.precision > len THEN d.precision - len ELSE 0
      /\ d.precision < 0 /\ zeros > 0 =>
           /\ "0" \in d.flags /\ "-" \notin d.flags
           /\ (len + n) + zeros = d.width
      /\ d.precision < 0 /\ "0" \in d.flags /\ "-" \notin d.flags =>
           (len + n) + zeros >= d.width
  BY <1>1, ZerosFill
<1>5. blanks = IF d.width - body > 0 THEN d.width - body ELSE 0
  BY DEF Blanks
<1>6. Len(s) = blanks + body
  BY FieldAround DEF Around
<1> HIDE DEF s, len, zeros, n, blanks, body
<1>7. d.precision >= 0 => zeros + len = Max({d.precision, len})
  <2> DEFINE S == {d.precision, len}
  <2>1. \E x \in S : \A y \in S : x >= y
    BY <1>1, <1>3
  <2>2. Max(S) \in S /\ \A y \in S : Max(S) >= y
    <3> HIDE DEF S
    <3> QED
      BY <2>1 DEF Max
  <2> DEFINE max == Max(S)
  <2>3. max \in {d.precision, len} /\ max >= d.precision /\ max >= len
    BY <2>2
  <2> HIDE DEF max
  <2>4. d.precision >= 0 => zeros + len = max
    BY <1>1, <1>3, <1>4, <2>3
  <2> QED
    BY <2>4 DEF max
<1>8. ASSUME d.precision < 0, zeros > 0
      PROVE  "0" \in d.flags /\ blanks = 0 /\ Len(s) = d.width
  <2>1. "0" \in d.flags /\ (len + n) + zeros = d.width
    BY <1>4, <1>8
  <2>2. body = d.width
    BY <1>1, <1>2, <1>4, <2>1
  <2> QED
    BY <1>3, <1>5, <1>6, <2>1, <2>2
<1>9. ASSUME d.precision < 0, {"0", "-"} \cap d.flags = {"0"}
      PROVE  blanks = 0
  <2>1. "0" \in d.flags /\ "-" \notin d.flags
    <3>1. "0" # "-"
      OBVIOUS
    <3> QED
      BY <1>9, <3>1
  <2>2. (len + n) + zeros >= d.width
    BY <1>4, <1>9, <2>1
  <2>3. ~ (d.width - body > 0)
    BY <1>1, <1>2, <1>3, <1>4, <2>2
  <2> QED
    BY <1>5, <2>3
<1> QED
  BY <1>7, <1>8, <1>9 DEF Padded, s, len, zeros, blanks

Fits(d, s, blanks, zeros) ==
  LET left == IF "-" \in d.flags THEN 0 ELSE blanks
      head == left + SignWidth(d) + zeros
      tail == Len(s) - (blanks - left)
      text == SubSeq(s, head + 1, tail)
  IN  /\ Parts(d, s, blanks, zeros, left, head, tail)
      /\ IF Numeric(d)
         THEN /\ NumeralFor(d, text)
              /\ text = <<>> <=> d.arg = 0 /\ d.precision = 0
              /\ Padded(d, s, blanks, zeros, text)
         ELSE zeros = 0 /\ text = Data(d)

LEMMA FitsField ==
  ASSUME NEW d, NEW s, NEW blanks \in 0 .. Len(s), NEW zeros \in 0 .. Len(s),
         Fits(d, s, blanks, zeros)
  PROVE  IsField(d, s)
  BY DEF IsField, Fits, Parts, Padded, NumeralFor, SignOf, SignWidth

LEMMA FieldOf ==
  ASSUME NEW d, Legal(d), d.conv # "C"
  PROVE  IsField(d, Field(d))
<1> DEFINE s == Field(d)
           zeros == Zeros(d, Len(Data(d)))
           blanks == Blanks(d)
           left == IF "-" \in d.flags THEN 0 ELSE blanks
           head == left + SignWidth(d) + zeros
           tail == Len(s) - (blanks - left)
           text == SubSeq(s, head + 1, tail)
<1>1. /\ blanks \in 0 .. Len(s) /\ zeros \in 0 .. Len(s)
      /\ Parts(d, s, blanks, zeros, left, head, tail)
      /\ text = Data(d)
  BY PartsRight
<1>2. IF Numeric(d)
      THEN /\ NumeralFor(d, text)
           /\ text = <<>> <=> d.arg = 0 /\ d.precision = 0
           /\ Padded(d, s, blanks, zeros, text)
      ELSE zeros = 0 /\ text = Data(d)
  <2>1. CASE Numeric(d)
    <3>1. /\ NumeralFor(d, Data(d))
          /\ Data(d) = <<>> <=> d.arg = 0 /\ d.precision = 0
      BY <2>1, DataRight
    <3>2. Padded(d, s, blanks, zeros, Data(d))
      BY <2>1, PaddedRight
    <3> HIDE DEF text, s, blanks, zeros
    <3> QED
      BY <1>1, <2>1, <3>1, <3>2
  <2>2. CASE ~ Numeric(d)
    <3>1. Len(Data(d)) \in Nat
      BY BodyIs
    <3>2. zeros = 0
      BY <2>2, <3>1, ZerosFill
    <3> HIDE DEF text, zeros
    <3> QED
      BY <1>1, <2>2, <3>2
  <2> QED
    BY <2>1, <2>2
<1>3. Fits(d, s, blanks, zeros)
  BY <1>1, <1>2, Zenon DEF Fits
<1> HIDE DEF s, blanks, zeros
<1>4. IsField(d, s)
  BY <1>1, <1>3, FitsField
<1> QED
  BY <1>4 DEF s

(* Only legal directives are printed.                                      *)
LegalFormat(directives) ==
  /\ Listed(directives)
  /\ \A k \in 1 .. Len(directives) : Legal(directives[k])

FormatInv ==
  /\ LegalFormat(format)
  /\ at = "unknown" => algorithm \in Unknown

LEMMA UnknownFormatLegal ==
  ASSUME algorithm \in Unknown
  PROVE  LegalFormat(UnknownFormat)
<1> DEFINE newline == Plain("c", NEWLINE)
           words == Plain("s", Words)
           number == Plain("d", algorithm)
<1>1. algorithm \in Ints
  BY ScheduleAssumption
<1>2. Legal(newline)
  BY DEF Plain, Directive, Legal, Numeric
<1>3. Legal(words)
  BY ConsolePrintfAssumption DEF Plain, Directive, Legal, Numeric
<1>4. Legal(number)
  BY <1>1 DEF Plain, Directive, Legal, Numeric
<1> DEFINE directives == <<newline, words, number, newline>>
<1>5. UnknownFormat = directives
  BY DEF UnknownFormat
<1> HIDE DEF newline, words, number
<1>6. directives \in Seq({newline, words, number}) /\ Len(directives) = 4
  OBVIOUS
<1>7. ASSUME NEW k \in 1 .. Len(directives)
      PROVE  Legal(directives[k])
  <2>1. k = 1 \/ k = 2 \/ k = 3 \/ k = 4
    BY <1>6
  <2>2. /\ directives[1] = newline /\ directives[2] = words
        /\ directives[3] = number /\ directives[4] = newline
    OBVIOUS
  <2> HIDE DEF directives
  <2> QED
    BY <1>2, <1>3, <1>4, <2>1, <2>2
<1> HIDE DEF directives
<1> QED
  BY <1>5, <1>6, <1>7, Zenon DEF LegalFormat, Listed

LEMMA TailLegal ==
  ASSUME NEW directives, LegalFormat(directives), directives # <<>>
  PROVE  LegalFormat(Tail(directives)) /\ Legal(Head(directives))
<1>1. PICK S : directives \in Seq(S)
  BY DEF LegalFormat, Listed
<1> DEFINE rest == Tail(directives)
<1>2. /\ rest \in Seq(S) /\ Len(rest) = Len(directives) - 1 /\ Len(directives) \in Nat \ {0}
      /\ \A k \in 1 .. Len(rest) : rest[k] = directives[k + 1]
      /\ Head(directives) = directives[1]
  BY <1>1
<1> HIDE DEF rest
<1>3. ASSUME NEW k \in 1 .. Len(rest)
      PROVE  Legal(rest[k])
  <2>1. k + 1 \in 1 .. Len(directives)
    BY <1>2
  <2> QED
    BY <1>2, <2>1 DEF LegalFormat
<1>4. 1 \in 1 .. Len(directives)
  BY <1>2
<1>5. LegalFormat(rest)
  BY <1>2, <1>3, Zenon DEF LegalFormat, Listed
<1> QED
  BY <1>2, <1>4, <1>5 DEF LegalFormat, rest

(* Every field is what C's printf would print: for every width, precision, *)
(* combination of flags and argument to which C gives a meaning, and every *)
(* width of an int, if no precision is smaller than the text is long.      *)
THEOREM FieldsAreRight ==
  ASSUME LegalFormats
  PROVE  Spec => []FieldRight
<1>1. Init => FormatInv
  <2> SUFFICES ASSUME Init PROVE FormatInv
    OBVIOUS
  <2>1. format = <<>>
    BY DEF Init, ConsoleInit
  <2>2. <<>> \in Seq({}) /\ Len(<<>>) = 0
    OBVIOUS
  <2>3. LegalFormat(format)
    BY <2>1, <2>2 DEF LegalFormat, Listed
  <2>4. at = "unknown" => algorithm \in Unknown
    <3>1. CASE LoopInit
      <4>1. algorithm \in 0 .. 4 /\ at = Loop[algorithm + 1]
        BY <3>1 DEF LoopInit, Algorithms
      <4>2. algorithm + 1 \in 1 .. 5
        BY <4>1
      <4>3. \A k \in 1 .. 5 : k = 1 \/ k = 2 \/ k = 3 \/ k = 4 \/ k = 5
        OBVIOUS
      <4>4. \A k \in 1 .. 5 : Loop[k] # "unknown"
        BY <4>3 DEF Loop
      <4> QED
        BY <4>1, <4>2, <4>4
    <3>2. CASE algorithm \in IF at = "unknown" THEN Unknown ELSE {0}
      BY <3>2
    <3> QED
      BY <3>1, <3>2 DEF Init
  <2> QED
    BY <2>3, <2>4 DEF FormatInv
<1>2. FormatInv /\ [Next]_vars => FormatInv'
  <2> SUFFICES ASSUME FormatInv, [Next]_vars PROVE FormatInv'
    OBVIOUS
  <2>1. CASE LoopNext /\ UNCHANGED consoleVars
    <3>1. at' # "unknown"
      <4>1. ASSUME NEW condition, NEW loop, RunIf(condition, loop), loop # "unknown"
            PROVE  at' # "unknown"
        BY <4>1, Zenon DEF RunIf
      <4>2. CASE Next0
        BY <4>1, <4>2 DEF Next0
      <4>3. CASE Lowest1
        BY <4>1, <4>3 DEF Lowest1
      <4>4. CASE Scan2
        BY <4>4 DEF Scan2
      <4>5. CASE Seek2
        BY <4>1, <4>5 DEF Seek2
      <4>6. CASE Share3
        BY <4>1, <4>6 DEF Share3
      <4>7. ASSUME NEW drawn \in Pids, Draw4(drawn) PROVE at' # "unknown"
        BY <4>1, <4>7 DEF Draw4
      <4>8. CASE Chosen
        BY <4>8 DEF Chosen, loopVars
      <4> QED
        BY <2>1, <4>2, <4>3, <4>4, <4>5, <4>6, <4>7, <4>8 DEF LoopNext
    <3> QED
      BY <2>1, <3>1 DEF FormatInv, consoleVars
  <2>2. CASE UnknownAlgorithm
    BY <2>2, UnknownFormatLegal DEF UnknownAlgorithm, At, console_printf, FormatInv
  <2>3. CASE OtherCall
    <3>1. PICK directives \in OtherFormats : format' = directives
      BY <2>3 DEF OtherCall, console_printf
    <3>2. /\ directives \in Seq(Range(directives))
          /\ \A d \in Range(directives) : Legal(d)
      BY DEF LegalFormats
    <3>3. \A k \in 1 .. Len(directives) : directives[k] \in Range(directives)
      BY <3>2 DEF Range
    <3>4. LegalFormat(directives)
      BY <3>2, <3>3, Zenon DEF LegalFormat, Listed
    <3> QED
      BY <2>3, <3>1, <3>4 DEF OtherCall, At, FormatInv
  <2>4. CASE PrintNext
    <3>1. CASE Convert
      BY <2>4, <3>1, TailLegal DEF PrintNext, Convert, FormatInv, loopVars
    <3>2. CASE Put
      BY <2>4, <3>2 DEF PrintNext, Put, FormatInv, loopVars
    <3> QED
      BY <2>4, <3>1, <3>2 DEF PrintNext
  <2>5. CASE Printed
    BY <2>5 DEF Printed, At, FormatInv, consoleVars
  <2>6. CASE UNCHANGED vars
    BY <2>6 DEF vars, loopVars, consoleVars, FormatInv
  <2> QED
    BY <2>1, <2>2, <2>3, <2>4, <2>5, <2>6 DEF Next, Spin
<1>3. FormatInv => FieldRight
  BY TailLegal, FieldOf DEF FormatInv, FieldRight
<1> QED
  BY <1>1, <1>2, <1>3, PTL DEF Spec

=============================================================================
