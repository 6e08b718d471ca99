-------------------------- MODULE SchedulerProofs ---------------------------
(***************************************************************************)
(* schedule()'s choice, for every table of descriptors: it is a runnable   *)
(* process, there is one if there should be, and but for the lottery it is *)
(* the only one.                                                           *)
(***************************************************************************)
EXTENDS Scheduler, WellFoundedInduction, TLAPS

-----------------------------------------------------------------------------
(* Minima of sets of numbers.                                              *)

LEMMA LeastNat ==
  ASSUME NEW T, T \subseteq Nat, T # {}
  PROVE  \E m \in T : \A n \in T : m <= n
  <1> DEFINE Less == {ss \in Nat \X Nat : ss[1] < ss[2]}
  <1>1. IsWellFoundedOn(Less, Nat)
    BY NatLessThanWellFounded DEF OpToRel
  <1>2. \A x, y \in Nat : x < y => <<x, y>> \in Less
    OBVIOUS
  <1> HIDE DEF Less
  <1>3. PICK m \in T : \A n \in T : <<n, m>> \notin Less
    BY <1>1, WFMin
  <1>4. \A n \in T : ~ (n < m)
    BY <1>2, <1>3
  <1> QED
    BY <1>4

(* A numbered finite set has an element of least rank.  If not there is a  *)
(* least k for which a set within 0 .. k has none; it has k, and without   *)
(* it an element of least rank, which is then its own or k is.             *)
LEMMA LeastRank ==
  ASSUME NEW n \in Nat, NEW S, S \subseteq 0 .. n, S # {},
         NEW rank, \A x \in S : rank[x] \in Int
  PROVE  \E m \in S : \A x \in S : rank[m] <= rank[x]
  <1> DEFINE NoLeast(T) == \A m \in T : \E x \in T : rank[x] < rank[m]
             Bad == {k \in Nat : \E T \in SUBSET (0 .. k) :
                       T # {} /\ (\A x \in T : rank[x] \in Int) /\ NoLeast(T)}
  <1>1. SUFFICES ASSUME Bad # {} PROVE FALSE
    <2>1. CASE NoLeast(S)
      <3>1. n \in Bad
        BY <2>1
      <3> QED
        BY <1>1, <3>1
    <2>2. CASE ~ NoLeast(S)
      BY <2>2
    <2> QED
      BY <2>1, <2>2
  <1>2. PICK k \in Bad : \A j \in Bad : k <= j
    <2>1. Bad \subseteq Nat
      OBVIOUS
    <2> HIDE DEF Bad
    <2> QED
      BY <1>1, <2>1, LeastNat
  <1>3. k \in Nat /\ k - 1 \notin Bad
    <2>1. k \in Nat
      BY <1>2
    <2> HIDE DEF Bad
    <2> QED
      BY <1>2, <2>1
  <1>4. PICK T \in SUBSET (0 .. k) :
          T # {} /\ (\A x \in T : rank[x] \in Int) /\ NoLeast(T)
    BY <1>2
  <1>5. k \in T /\ k # 0
    <2>1. CASE k \notin T
      <3>1. PICK x \in T : x \in 0 .. k /\ x # k
        BY <1>4, <2>1
      <3>2. k - 1 \in Nat /\ T \in SUBSET (0 .. k - 1)
        BY <1>3, <1>4, <2>1, <3>1, SMTT(20)
      <3>3. k - 1 \in Bad
        BY <1>4, <3>2
      <3> QED
        BY <1>3, <3>3
    <2>2. CASE k = 0
      <3>1. \A x \in T : x = 0
        BY <1>4, <2>2
      <3>2. PICK m \in T : rank[m] \in Int
        BY <1>4
      <3>3. PICK x \in T : rank[x] < rank[m]
        BY <1>4
      <3> QED
        BY <3>1, <3>2, <3>3
    <2> QED
      BY <2>1, <2>2
  <1>6. CASE T \ {k} = {}
    BY <1>4, <1>5, <1>6
  <1>7. CASE T \ {k} # {}
    <2>1. k - 1 \in Nat /\ T \ {k} \in SUBSET (0 .. k - 1)
      BY <1>3, <1>4, <1>5
    <2>2. PICK m \in T \ {k} : \A x \in T \ {k} : ~ (rank[x] < rank[m])
      <3>1. SUFFICES ASSUME NoLeast(T \ {k}) PROVE FALSE
        OBVIOUS
      <3>2. k - 1 \in Bad
        BY <1>4, <1>7, <2>1, <3>1
      <3> QED
        BY <1>3, <3>2
    <2>3. rank[k] < rank[m]
      BY <1>4, <2>2
    <2>4. PICK y \in T : rank[y] < rank[k]
      BY <1>4, <1>5
    <2> QED
      BY <1>4, <1>5, <2>2, <2>3, <2>4
  <1> QED
    BY <1>6, <1>7

-----------------------------------------------------------------------------
(* Going round the table.                                                  *)

LEMMA Rounds ==
  ASSUME NEW cur \in Pids, NEW pid \in Pids
  PROVE  /\ StepsFrom(cur, pid) = IF pid >= cur THEN pid - cur
                                  ELSE pid - cur + NPROCS
         /\ StepsPast(cur, pid) = IF pid > cur THEN pid - cur - 1
                                  ELSE pid - cur - 1 + NPROCS
  <1>1. ASSUME NEW x \in 0 .. NPROCS - 1 PROVE x % NPROCS = x
    BY NPROCSAssumption
  <1>2. ASSUME NEW x \in -NPROCS .. -1 PROVE x % NPROCS = x + NPROCS
    BY NPROCSAssumption
  <1>3. /\ pid \in Int /\ cur \in Int /\ NPROCS \in Nat
        /\ 0 <= pid /\ pid <= NPROCS - 1 /\ 0 <= cur /\ cur <= NPROCS - 1
    BY NPROCSAssumption DEF Pids
  <1>4. StepsFrom(cur, pid) = IF pid >= cur THEN pid - cur
                              ELSE pid - cur + NPROCS
    <2>1. CASE pid >= cur
      BY <1>1, <1>3, <2>1 DEF StepsFrom
    <2>2. CASE ~ (pid >= cur)
      BY <1>2, <1>3, <2>2 DEF StepsFrom
    <2> QED
      BY <2>1, <2>2
  <1>5. StepsPast(cur, pid) = IF pid > cur THEN pid - cur - 1
                              ELSE pid - cur - 1 + NPROCS
    <2>1. CASE pid > cur
      BY <1>1, <1>3, <2>1 DEF StepsPast
    <2>2. CASE ~ (pid > cur)
      BY <1>2, <1>3, <2>2 DEF StepsPast
    <2> QED
      BY <2>1, <2>2
  <1> QED
    BY <1>4, <1>5

(* Each pid is met once in a round.                                        *)
LEMMA RoundsApart ==
  ASSUME NEW cur \in Pids, NEW p \in Pids, NEW q \in Pids
  PROVE  /\ StepsFrom(cur, p) \in 0 .. NPROCS - 1
         /\ StepsPast(cur, p) \in 0 .. NPROCS - 1
         /\ StepsFrom(cur, p) = StepsFrom(cur, q) => p = q
         /\ StepsPast(cur, p) = StepsPast(cur, q) => p = q
  <1>1. /\ p \in Int /\ q \in Int /\ cur \in Int /\ NPROCS \in Nat
        /\ 0 <= p /\ p <= NPROCS - 1 /\ 0 <= q /\ q <= NPROCS - 1
        /\ 0 <= cur /\ cur <= NPROCS - 1
    BY NPROCSAssumption DEF Pids
  <1> QED
    BY <1>1, Rounds

(* A round from cur meets a first pid of any set, and one past cur does.   *)
LEMMA FirstMet ==
  ASSUME NEW cur \in Pids, NEW S \in SUBSET Pids, S # {}
  PROVE  /\ \E p \in S : \A q \in S : StepsFrom(cur, p) <= StepsFrom(cur, q)
         /\ \E p \in S : \A q \in S : StepsPast(cur, p) <= StepsPast(cur, q)
  <1> DEFINE from == [p \in Pids |-> StepsFrom(cur, p)]
             past == [p \in Pids |-> StepsPast(cur, p)]
  <1>1. /\ S \subseteq 0 .. NPROCS - 1
        /\ NPROCS - 1 \in Nat
        /\ \A p \in S : from[p] \in Int /\ past[p] \in Int
    <2>1. S \subseteq 0 .. NPROCS - 1 /\ NPROCS - 1 \in Nat
      BY NPROCSAssumption DEF Pids
    <2>2. \A p \in Pids : StepsFrom(cur, p) \in Int /\ StepsPast(cur, p) \in Int
      BY RoundsApart, NPROCSAssumption
    <2> QED
      BY <2>1, <2>2
  <1>2. /\ \E p \in S : \A q \in S : from[p] <= from[q]
        /\ \E p \in S : \A q \in S : past[p] <= past[q]
    <2> HIDE DEF from, past
    <2> QED
      BY <1>1, LeastRank
  <1>3. \A p \in S : from[p] = StepsFrom(cur, p) /\ past[p] = StepsPast(cur, p)
    OBVIOUS
  <1> HIDE DEF from, past
  <1> QED
    BY <1>2, <1>3

-----------------------------------------------------------------------------
(* What schedule() picks.                                                  *)

(* It runs only runnable processes.                                        *)
LEMMA PicksRunnable ==
  ASSUME NEW algorithm, NEW table, NEW cur, NEW pid,
         Picks(algorithm, table, cur, pid)
  PROVE  Runnable(table, pid)
  BY DEF Picks, RoundRobin, LowestPid, HighestPriority, MostUrgent,
         ProportionalShare, FirstFrom, WithinShare, Renewable

(* It finds one if there is one.  Under algorithm 3 a negative share would *)
(* hide its process.                                                       *)
LEMMA PicksIfRunnable ==
  ASSUME NEW algorithm \in Algorithms, NEW table \in Tables, NEW cur \in Pids,
         NEW ready \in Pids, Runnable(table, ready),
         algorithm = 3 => table[ready].p_share >= 0
  PROVE  \E pid \in Pids : Picks(algorithm, table, cur, pid)
  <1> DEFINE R == {p \in Pids : Runnable(table, p)}
  <1>0. R \in SUBSET Pids /\ R # {} /\ \A p \in Pids : p \in R <=> Runnable(table, p)
    OBVIOUS
  <1> HIDE DEF R
  <1>1. CASE algorithm = 0
    <2>1. PICK pid \in R : \A q \in R : StepsPast(cur, pid) <= StepsPast(cur, q)
      BY <1>0, FirstMet
    <2> QED
      BY <1>0, <1>1, <2>1 DEF Picks, RoundRobin
  <1>2. CASE algorithm = 1
    <2> DEFINE rank == [p \in Pids |-> p]
    <2>1. /\ R \subseteq 0 .. NPROCS - 1
          /\ NPROCS - 1 \in Nat
          /\ \A p \in R : rank[p] = p /\ rank[p] \in Int
      <3>1. \A p \in Pids : p \in Int
        BY NPROCSAssumption DEF Pids
      <3>2. R \subseteq 0 .. NPROCS - 1 /\ NPROCS - 1 \in Nat
        BY <1>0, NPROCSAssumption DEF Pids
      <3> QED
        BY <1>0, <3>1, <3>2
    <2> HIDE DEF rank
    <2>2. PICK pid \in R : \A q \in R : rank[pid] <= rank[q]
      BY <1>0, <2>1, LeastRank
    <2> QED
      BY <1>0, <1>2, <2>1, <2>2 DEF Picks, LowestPid
  <1>3. CASE algorithm = 2
    <2> DEFINE rank == [p \in Pids |-> table[p].p_priority]
    <2>1. /\ R \subseteq 0 .. NPROCS - 1
          /\ NPROCS - 1 \in Nat
          /\ \A p \in R : rank[p] = table[p].p_priority /\ rank[p] \in Int
      <3>1. \A p \in Pids : table[p].p_priority \in Int
        BY NPROCSAssumption DEF Pids, Tables, Descriptor
      <3>2. R \subseteq 0 .. NPROCS - 1 /\ NPROCS - 1 \in Nat
        BY <1>0, NPROCSAssumption DEF Pids
      <3> QED
        BY <1>0, <3>1, <3>2
    <2> HIDE DEF rank
    <2>2. PICK best \in R : \A q \in R : rank[best] <= rank[q]
      BY <1>0, <2>1, LeastRank
    <2> DEFINE M == {p \in Pids : MostUrgent(table, p)}
    <2>3. best \in M
      BY <1>0, <2>1, <2>2 DEF MostUrgent
    <2>4. PICK pid \in M : \A q \in M : StepsPast(cur, pid) <= StepsPast(cur, q)
      <3>1. M \in SUBSET Pids /\ M # {}
        BY <2>3
      <3> HIDE DEF M
      <3> QED
        BY <3>1, FirstMet
    <2> QED
      BY <1>3, <2>4 DEF Picks, HighestPriority
  <1>4. CASE algorithm = 3
    <2> DEFINE W == {p \in Pids : WithinShare(table, p)}
               N == {p \in Pids : Renewable(table, p)}
    <2>1. ready \in N
      BY <1>4 DEF Renewable, WithinCount
    <2>2. CASE W # {}
      <3>1. W \in SUBSET Pids
        OBVIOUS
      <3>2. PICK pid \in W : \A q \in W : StepsFrom(cur, pid) <= StepsFrom(cur, q)
        <4> HIDE DEF W
        <4> QED
          BY <2>2, <3>1, FirstMet
      <3> QED
        BY <1>4, <2>2, <3>2 DEF Picks, ProportionalShare, FirstFrom
    <2>3. CASE W = {}
      <3>1. N \in SUBSET Pids /\ N # {}
        BY <2>1
      <3>2. PICK pid \in N : \A q \in N : StepsFrom(cur, pid) <= StepsFrom(cur, q)
        <4> HIDE DEF N
        <4> QED
          BY <3>1, FirstMet
      <3> QED
        BY <1>4, <2>3, <3>2 DEF Picks, ProportionalShare, FirstFrom
    <2> QED
      BY <2>2, <2>3
  <1>5. CASE algorithm = 4
    BY <1>5 DEF Picks
  <1> QED
    BY <1>1, <1>2, <1>3, <1>4, <1>5 DEF Algorithms

(* Only the lottery leaves it a choice.                                    *)
LEMMA PicksOne ==
  ASSUME NEW algorithm \in 0 .. 3, NEW table, NEW cur \in Pids,
         NEW p \in Pids, NEW q \in Pids,
         Picks(algorithm, table, cur, p), Picks(algorithm, table, cur, q)
  PROVE  p = q
  <1>1. \A x, y \in Pids :
          /\ StepsFrom(cur, x) \in Int /\ StepsPast(cur, x) \in Int
          /\ StepsFrom(cur, x) = StepsFrom(cur, y) => x = y
          /\ StepsPast(cur, x) = StepsPast(cur, y) => x = y
    BY RoundsApart, NPROCSAssumption
  <1>2. CASE algorithm = 0
    BY <1>1, <1>2 DEF Picks, RoundRobin
  <1>3. CASE algorithm = 1
    BY <1>3, NPROCSAssumption DEF Picks, LowestPid, Pids
  <1>4. CASE algorithm = 2
    BY <1>1, <1>4 DEF Picks, HighestPriority
  <1>5. CASE algorithm = 3
    BY <1>1, <1>5 DEF Picks, ProportionalShare, FirstFrom
  <1> QED
    BY <1>2, <1>3, <1>4, <1>5

-----------------------------------------------------------------------------
(* What it does to the counters leaves the rest of the descriptors alone.  *)

LEMMA NumTimesType ==
  ASSUME NEW table \in Tables, NEW cur, NEW pid, NEW q \in Pids
  PROVE  NumTimes(table, cur, pid, q) \in Int
  BY DEF NumTimes, Tables, Descriptor

SameButCount(d, e) ==
  /\ d.p_state = e.p_state
  /\ d.p_priority = e.p_priority
  /\ d.p_share = e.p_share

LEMMA ChargedType ==
  ASSUME NEW algorithm, NEW table \in Tables, NEW cur, NEW pid
  PROVE  /\ Charged(algorithm, table, cur, pid) \in Tables
         /\ \A q \in Pids : /\ Runnable(Charged(algorithm, table, cur, pid), q)
                                <=> Runnable(table, q)
                            /\ SameButCount(Charged(algorithm, table, cur, pid)[q],
                                            table[q])
  <1>1. \A q \in Pids : table[q] \in Descriptor
    BY DEF Tables
  <1>2. ASSUME NEW q \in Pids, NEW n \in Int
        PROVE  /\ [table[q] EXCEPT !.p_num_times = n] \in Descriptor
               /\ SameButCount([table[q] EXCEPT !.p_num_times = n], table[q])
    BY <1>1 DEF Descriptor, SameButCount
  <1>3. CASE algorithm = 3
    <2> DEFINE new == Charged(algorithm, table, cur, pid)
    <2>1. new = [q \in Pids |->
                   [table[q] EXCEPT !.p_num_times = NumTimes(table, cur, pid, q)]]
      BY <1>3 DEF Charged
    <2> HIDE DEF new
    <2>2. \A q \in Pids : new[q] \in Descriptor /\ SameButCount(new[q], table[q])
      BY <1>2, <2>1, NumTimesType
    <2>3. new \in Tables
      BY <2>1, <2>2 DEF Tables
    <2> QED
      BY <2>2, <2>3 DEF new, Runnable, SameButCount
  <1>4. CASE algorithm # 3
    BY <1>4 DEF Charged, SameButCount
  <1> QED
    BY <1>3, <1>4

LEMMA ExhaustedType ==
  ASSUME NEW algorithm, NEW table \in Tables
  PROVE  /\ Exhausted(algorithm, table) \in Tables
         /\ \A q \in Pids : /\ Runnable(Exhausted(algorithm, table), q)
                                <=> Runnable(table, q)
                            /\ SameButCount(Exhausted(algorithm, table)[q], table[q])
  <1>1. \A q \in Pids : table[q] \in Descriptor
    BY DEF Tables
  <1>2. ASSUME NEW q \in Pids
        PROVE  /\ [table[q] EXCEPT !.p_num_times = 0] \in Descriptor
               /\ SameButCount([table[q] EXCEPT !.p_num_times = 0], table[q])
    BY <1>1 DEF Descriptor, SameButCount
  <1>3. CASE algorithm = 3
    <2> DEFINE new == Exhausted(algorithm, table)
    <2>1. new = [q \in Pids |-> IF Runnable(table, q)
                                THEN [table[q] EXCEPT !.p_num_times = 0] ELSE table[q]]
      BY <1>3 DEF Exhausted
    <2> HIDE DEF new
    <2>2. \A q \in Pids : new[q] \in Descriptor /\ SameButCount(new[q], table[q])
      BY <1>1, <1>2, <2>1 DEF SameButCount
    <2>3. new \in Tables
      BY <2>1, <2>2 DEF Tables
    <2> QED
      BY <2>2, <2>3 DEF new, Runnable, SameButCount
  <1>4. CASE algorithm # 3
    BY <1>4 DEF Exhausted, SameButCount
  <1> QED
    BY <1>3, <1>4

=============================================================================
