------------------------- MODULE KernelQuantaProofs -------------------------
(***************************************************************************)
(* Nobody starves: the bound of KernelQuanta holds for every number of     *)
(* processes and all shares, however the clock ticks.                      *)
(***************************************************************************)
EXTENDS KernelQuanta, KernelProofs, FiniteSetTheorems

-----------------------------------------------------------------------------
(* The invariant.                                                          *)

(* The share of an application is 0 until it has set it.                   *)
Unset(p) == threadRegs[p].eip \in {"sys_set_priority", "sys_set_share"}

SharesInv ==
  \A p \in Apps : proc_array[p].p_share = IF Unset(p) THEN 0 ELSE SHARE[p]

(* Only the current process has turns counted, and no more than it may     *)
(* have: whoever is passed starts again at 0.                              *)
Counted(table, cur) ==
  \A p \in Apps : Runnable(table, p) =>
    /\ table[p].p_share >= 0
    /\ IF p = cur
       THEN table[p].p_num_times \in 0 .. table[p].p_share + 1
       ELSE table[p].p_num_times = 0

(* The applications a round from p meets before it comes to cur.           *)
Between(p, cur) ==
  {q \in Apps : 0 < StepsFrom(p, q) /\ StepsFrom(p, q) < StepsFrom(p, cur)}

(* The turns the current process has taken at most since the one before it *)
(* in the round; sys_set_share may have forgotten one.                     *)
Taken ==
  LET times == proc_array[current].p_num_times
  IN  IF scheduling_algorithm = 0 THEN 1
      ELSE IF Unset(current) THEN times ELSE times + 1

AllTurns == [q \in Apps |-> Turns(q)]

(* f summed over the subsets of S, as the fold in BoundedWait does it.     *)
SumIn(S, f) ==
  CHOOSE sum : sum = [A \in SUBSET S |->
    IF A = {} THEN 0
    ELSE f[CHOOSE x \in A : TRUE] + sum[A \ {CHOOSE x \in A : TRUE}]]

(* Whoever waits has waited for the applications the round has met since,  *)
(* all their turns, and for the current one.                               *)
WaitInv ==
  /\ waited \in [Apps -> Nat]
  /\ \A p \in Apps :
       waited[p] # 0 =>
         /\ ~ searching /\ p # current /\ Runnable(proc_array, p)
         /\ waited[p] <= SumIn(Apps \ {p}, AllTurns)[Between(p, current)] + Taken

QuantaInv ==
  /\ SharesInv
  /\ scheduling_algorithm = 3 /\ ~ searching => Counted(proc_array, current)
  /\ TakesTurns => WaitInv

-----------------------------------------------------------------------------
(* Sums.                                                                   *)

(* The next element the sum takes.                                         *)
Any(A) == CHOOSE x \in A : TRUE

(* Sets of pids, as the provers know them: their members are numbers.      *)
Numbered(S) == \E n \in Nat : S \subseteq 0 .. n

LEMMA SubsetsSmaller ==
  ASSUME NEW S, Numbered(S)
  PROVE  /\ Cardinality(S) \in Nat
         /\ \A A \in SUBSET S :
              /\ Cardinality(A) \in Nat /\ Cardinality(A) <= Cardinality(S)
              /\ A = {} <=> Cardinality(A) = 0
              /\ \A x \in A : Cardinality(A \ {x}) = Cardinality(A) - 1
<1>1. IsFiniteSet(S)
  <2>1. PICK n \in Nat : S \subseteq 0 .. n
    BY DEF Numbered
  <2>2. IsFiniteSet(0 .. n)
    BY FS_Interval
  <2> QED
    BY <2>1, <2>2, FS_Subset
<1>2. \A A \in SUBSET S : IsFiniteSet(A) /\ Cardinality(A) <= Cardinality(S)
  BY <1>1, FS_Subset
<1>3. \A A \in SUBSET S : /\ Cardinality(A) \in Nat
                          /\ A = {} <=> Cardinality(A) = 0
  BY <1>2, FS_CardinalityType, FS_EmptySet
<1>4. \A A \in SUBSET S : \A x \in A : Cardinality(A \ {x}) = Cardinality(A) - 1
  BY <1>2, FS_RemoveElement
<1> QED
  BY <1>1, <1>2, <1>3, <1>4, FS_CardinalityType

(* The sum exists: if it did not, there would be a least number of elements *)
(* up to which it does not, but the sums of one less give those.           *)
LEMMA SumIs ==
  ASSUME NEW S, Numbered(S), NEW f
  PROVE  \A A \in SUBSET S :
           SumIn(S, f)[A] = IF A = {} THEN 0
                            ELSE f[Any(A)] + SumIn(S, f)[A \ {Any(A)}]
<1> DEFINE Small(k) == {A \in SUBSET S : Cardinality(A) <= k}
           Sums(g, D) == g = [A \in D |-> IF A = {} THEN 0
                                          ELSE f[Any(A)] + g[A \ {Any(A)}]]
           Bad == {k \in Nat : ~ \E g : Sums(g, Small(k))}
<1>0. /\ Cardinality(S) \in Nat
      /\ \A A \in SUBSET S :
           /\ Cardinality(A) \in Nat /\ Cardinality(A) <= Cardinality(S)
           /\ A = {} <=> Cardinality(A) = 0
           /\ \A x \in A : Cardinality(A \ {x}) = Cardinality(A) - 1
  BY SubsetsSmaller
<1>1. Bad = {}
  <2>1. SUFFICES ASSUME Bad # {} PROVE FALSE
    OBVIOUS
  <2>2. PICK k \in Bad : \A j \in Bad : k <= j
    <3>1. Bad \subseteq Nat
      OBVIOUS
    <3> HIDE DEF Bad
    <3> QED
      BY <2>1, <3>1, LeastNat
  <2>3. k \in Nat /\ ~ \E g : Sums(g, Small(k))
    BY <2>2
  <2>4. CASE k = 0
    <3> DEFINE g == [A \in Small(k) |-> 0]
    <3>1. \A A \in Small(k) : A = {}
      BY <1>0, <2>4
    <3>2. Sums(g, Small(k))
      BY <3>1
    <3> QED
      BY <2>3, <3>2
  <2>5. CASE k # 0
    <3>1. k - 1 \in Nat /\ k - 1 \notin Bad
      <4>1. k - 1 \in Nat
        BY <2>3, <2>5
      <4> HIDE DEF Bad
      <4> QED
        BY <2>2, <2>3, <4>1
    <3>2. PICK h : Sums(h, Small(k - 1))
      BY <3>1
    <3> DEFINE g == [A \in Small(k) |-> IF A = {} THEN 0
                                        ELSE f[Any(A)] + h[A \ {Any(A)}]]
    <3>3. \A A \in Small(k) : A # {} => A \ {Any(A)} \in Small(k - 1)
      <4> SUFFICES ASSUME NEW A \in SUBSET S, Cardinality(A) <= k, A # {}
                   PROVE  A \ {Any(A)} \in Small(k - 1)
        OBVIOUS
      <4>1. Any(A) \in A
        BY DEF Any
      <4>2. A \ {Any(A)} \in SUBSET S
        OBVIOUS
      <4>3. Cardinality(A \ {Any(A)}) <= k - 1
        <5>1. Cardinality(A \ {Any(A)}) = Cardinality(A) - 1
          BY <1>0, <4>1
        <5>2. Cardinality(A) \in Nat
          BY <1>0
        <5> QED
          BY <2>3, <5>1, <5>2
      <4> QED
        BY <4>2, <4>3
    <3>4. Small(k - 1) \subseteq Small(k)
      BY <1>0, <2>3
    <3>5. \A B \in Small(k - 1) : h[B] = g[B]
      <4> HIDE DEF Small
      <4> QED
        BY <3>2, <3>4
    <3>6. \A A \in Small(k) : A # {} => h[A \ {Any(A)}] = g[A \ {Any(A)}]
      BY <3>3, <3>5
    <3>7. g = [A \in Small(k) |-> g[A]]
      OBVIOUS
    <3>8. \A A \in Small(k) : g[A] = IF A = {} THEN 0
                                     ELSE f[Any(A)] + g[A \ {Any(A)}]
      <4> HIDE DEF Small
      <4> QED
        BY <3>6
    <3>9. Sums(g, Small(k))
      <4> HIDE DEF g, Small
      <4> QED
        BY <3>7, <3>8
    <3> QED
      BY <2>3, <3>9
  <2> QED
    BY <2>4, <2>5
<1>2. Small(Cardinality(S)) = SUBSET S
  BY <1>0
<1>3. \E g : Sums(g, SUBSET S)
  <2>1. \E g : Sums(g, Small(Cardinality(S)))
    <3> HIDE DEF Sums, Small
    <3> QED
      BY <1>0, <1>1
  <2> QED
    BY <1>2, <2>1
<1>4. SumIn(S, f) = CHOOSE g : Sums(g, SUBSET S)
  BY DEF SumIn, Any
<1>5. Sums(SumIn(S, f), SUBSET S)
  <2> HIDE DEF Sums
  <2> QED
    BY <1>3, <1>4
<1> QED
  BY <1>5

(* Of any subsets of S one is smallest: no other one is it less an element. *)
LEMMA Smallest ==
  ASSUME NEW S, Numbered(S), NEW Bad \in SUBSET (SUBSET S), Bad # {}
  PROVE  \E A \in Bad : \A x \in A : A \ {x} \notin Bad
<1> DEFINE Sizes == {k \in Nat : \E A \in Bad : Cardinality(A) = k}
<1>0. \A A \in SUBSET S :
        /\ Cardinality(A) \in Nat
        /\ \A x \in A : Cardinality(A \ {x}) = Cardinality(A) - 1
  BY SubsetsSmaller
<1>1. Sizes \subseteq Nat /\ Sizes # {}
  BY <1>0
<1>2. PICK k \in Sizes : \A j \in Sizes : k <= j
  <2> HIDE DEF Sizes
  <2> QED
    BY <1>1, LeastNat
<1>3. PICK A \in Bad : Cardinality(A) = k
  BY <1>2
<1>4. \A B \in Bad : Cardinality(B) \in Nat /\ k <= Cardinality(B)
  BY <1>0, <1>2
<1>5. \A x \in A : Cardinality(A \ {x}) = k - 1 /\ k \in Nat
  BY <1>0, <1>2, <1>3
<1> HIDE DEF Sizes
<1>6. \A x \in A : A \ {x} \notin Bad
  BY <1>4, <1>5
<1> QED
  BY <1>6

NatOn(S, f) == \A x \in S : f[x] \in Nat

LEMMA SumNat ==
  ASSUME NEW S, Numbered(S), NEW f, NatOn(S, f)
  PROVE  \A A \in SUBSET S : SumIn(S, f)[A] \in Nat
<1> DEFINE sum == SumIn(S, f)
           Bad == {A \in SUBSET S : sum[A] \notin Nat}
<1>1. \A A \in SUBSET S :
        sum[A] = IF A = {} THEN 0 ELSE f[Any(A)] + sum[A \ {Any(A)}]
  BY SumIs
<1> HIDE DEF sum
<1>2. SUFFICES ASSUME Bad # {} PROVE FALSE
  BY DEF sum
<1>3. Bad \in SUBSET (SUBSET S)
  OBVIOUS
<1>4. PICK A \in Bad : \A x \in A : A \ {x} \notin Bad
  <2> HIDE DEF Bad
  <2> QED
    BY <1>2, <1>3, Smallest
<1>5. A \in SUBSET S /\ sum[A] \notin Nat
  BY <1>4
<1>6. A # {} /\ sum[A] = f[Any(A)] + sum[A \ {Any(A)}]
  <2>1. A # {}
    <3>1. sum[{}] = 0
      BY <1>1
    <3> QED
      BY <1>5, <3>1
  <2> QED
    BY <1>1, <1>5, <2>1
<1>7. Any(A) \in A
  BY <1>6 DEF Any
<1>8. A \ {Any(A)} \in SUBSET S
  BY <1>5
<1>9. sum[A \ {Any(A)}] \in Nat
  <2>1. A \ {Any(A)} \notin Bad
    BY <1>4, <1>7
  <2> QED
    BY <1>8, <2>1
<1>10. f[Any(A)] \in Nat
  BY <1>5, <1>7 DEF NatOn
<1> HIDE DEF Bad
<1> QED
  BY <1>5, <1>6, <1>9, <1>10

(* Any element may be taken first.                                         *)
Adds(S, f) == \A A \in SUBSET S : \A x \in A :
                SumIn(S, f)[A] = f[x] + SumIn(S, f)[A \ {x}]

LEMMA SumAdd ==
  ASSUME NEW S, Numbered(S), NEW f, NatOn(S, f)
  PROVE  Adds(S, f)
<1> DEFINE sum == SumIn(S, f)
           Bad == {A \in SUBSET S : \E x \in A : sum[A] # f[x] + sum[A \ {x}]}
<1>1. \A A \in SUBSET S :
        /\ sum[A] = IF A = {} THEN 0 ELSE f[Any(A)] + sum[A \ {Any(A)}]
        /\ sum[A] \in Nat
  <2>1. \A A \in SUBSET S :
          sum[A] = IF A = {} THEN 0 ELSE f[Any(A)] + sum[A \ {Any(A)}]
    BY SumIs
  <2>2. \A A \in SUBSET S : sum[A] \in Nat
    BY SumNat
  <2> HIDE DEF sum
  <2> QED
    BY <2>1, <2>2
<1> HIDE DEF sum
<1>2. SUFFICES ASSUME Bad # {} PROVE FALSE
  BY DEF sum, Adds
<1>3. Bad \in SUBSET (SUBSET S)
  OBVIOUS
<1>4. PICK A \in Bad : \A x \in A : A \ {x} \notin Bad
  <2> HIDE DEF Bad
  <2> QED
    BY <1>2, <1>3, Smallest
<1>5. PICK x \in A : sum[A] # f[x] + sum[A \ {x}]
  BY <1>4
<1> DEFINE c == Any(A)
<1>6. A \in SUBSET S /\ c \in A /\ sum[A] = f[c] + sum[A \ {c}]
  BY <1>1, <1>4, <1>5 DEF Any
<1> HIDE DEF c
<1>7. c # x
  BY <1>5, <1>6
<1>8. sum[A \ {c}] = f[x] + sum[(A \ {c}) \ {x}]
  <2>1. A \ {c} \in SUBSET S /\ x \in A \ {c} /\ A \ {c} \notin Bad
    BY <1>4, <1>6, <1>7
  <2> QED
    BY <2>1
<1>9. sum[A \ {x}] = f[c] + sum[(A \ {x}) \ {c}]
  <2>1. A \ {x} \in SUBSET S /\ c \in A \ {x} /\ A \ {x} \notin Bad
    BY <1>4, <1>6, <1>7
  <2> QED
    BY <2>1
<1>10. (A \ {x}) \ {c} = (A \ {c}) \ {x}
  OBVIOUS
<1>11. /\ f[c] \in Nat /\ f[x] \in Nat
       /\ sum[(A \ {c}) \ {x}] \in Nat
  <2>1. c \in S /\ x \in S /\ (A \ {c}) \ {x} \in SUBSET S
    BY <1>6
  <2> QED
    BY <1>1, <2>1 DEF NatOn
<1>12. sum[A] = f[c] + (f[x] + sum[(A \ {c}) \ {x}])
  BY <1>6, <1>8
<1>13. f[x] + sum[A \ {x}] = f[x] + (f[c] + sum[(A \ {c}) \ {x}])
  BY <1>9, <1>10
<1> QED
  BY <1>5, <1>11, <1>12, <1>13

LEMMA SumMonotone ==
  ASSUME NEW S, Numbered(S), NEW f, NatOn(S, f)
  PROVE  \A B \in SUBSET S : \A A \in SUBSET B : SumIn(S, f)[A] <= SumIn(S, f)[B]
<1> DEFINE sum == SumIn(S, f)
           Bad == {B \in SUBSET S : \E A \in SUBSET B : ~ (sum[A] <= sum[B])}
<1>1. \A B \in SUBSET S :
        /\ \A x \in B : sum[B] = f[x] + sum[B \ {x}]
        /\ sum[B] \in Nat
  <2>1. \A B \in SUBSET S : \A x \in B : sum[B] = f[x] + sum[B \ {x}]
    <3>1. Adds(S, f)
      BY SumAdd
    <3> QED
      BY <3>1 DEF Adds
  <2>2. \A B \in SUBSET S : sum[B] \in Nat
    BY SumNat
  <2> HIDE DEF sum
  <2> QED
    BY <2>1, <2>2
<1> HIDE DEF sum
<1>2. SUFFICES ASSUME Bad # {} PROVE FALSE
  BY DEF sum
<1>3. Bad \in SUBSET (SUBSET S)
  OBVIOUS
<1>4. PICK B \in Bad : \A x \in B : B \ {x} \notin Bad
  <2> HIDE DEF Bad
  <2> QED
    BY <1>2, <1>3, Smallest
<1>5. PICK A \in SUBSET B : ~ (sum[A] <= sum[B])
  BY <1>4
<1>6. A \in SUBSET S /\ B \in SUBSET S /\ sum[A] \in Nat /\ sum[B] \in Nat
  BY <1>1, <1>4, <1>5
<1>7. PICK x \in B : x \notin A
  <2>1. A # B
    BY <1>5, <1>6
  <2> QED
    BY <1>5, <2>1
<1>8. B \ {x} \in SUBSET S /\ B \ {x} \notin Bad /\ A \in SUBSET (B \ {x})
  BY <1>4, <1>6, <1>7
<1>9. sum[A] <= sum[B \ {x}]
  BY <1>8
<1>10. sum[B] = f[x] + sum[B \ {x}] /\ sum[B \ {x}] \in Nat /\ f[x] \in Nat
  BY <1>1, <1>6, <1>8 DEF NatOn
<1> QED
  BY <1>5, <1>6, <1>9, <1>10

-----------------------------------------------------------------------------
(* Rounds.                                                                 *)

(* From one process to the next the round has met the one it leaves, and   *)
(* has not come to whoever it would meet later.                            *)
LEMMA BetweenGrows ==
  ASSUME NEW p \in Apps, NEW cur \in Apps, NEW pid \in Apps,
         p # cur, p # pid, pid # cur,
         StepsFrom(cur, pid) <= StepsFrom(cur, p)
  PROVE  /\ Between(p, cur) \in SUBSET (Apps \ {p})
         /\ cur \notin Between(p, cur)
         /\ Between(p, cur) \cup {cur} \in SUBSET Between(p, pid)
         /\ Between(p, pid) \in SUBSET (Apps \ {p})
<1>1. /\ p \in Int /\ cur \in Int /\ pid \in Int /\ NPROCS \in Nat
      /\ 0 < p /\ p < NPROCS /\ 0 < cur /\ cur < NPROCS
      /\ 0 < pid /\ pid < NPROCS
      /\ p \in Pids /\ cur \in Pids /\ pid \in Pids
  BY NPROCSAssumption DEF Apps, Pids
<1>2. 0 < StepsFrom(p, cur) /\ StepsFrom(p, cur) < StepsFrom(p, pid)
  <2>1. /\ StepsFrom(p, cur) = IF cur >= p THEN cur - p ELSE cur - p + NPROCS
        /\ StepsFrom(p, pid) = IF pid >= p THEN pid - p ELSE pid - p + NPROCS
        /\ StepsFrom(cur, pid) = IF pid >= cur THEN pid - cur ELSE pid - cur + NPROCS
        /\ StepsFrom(cur, p) = IF p >= cur THEN p - cur ELSE p - cur + NPROCS
    BY <1>1, Rounds
  <2> QED
    BY <1>1, <2>1
<1>3. \A q \in Apps : StepsFrom(p, q) \in Int
  BY <1>1, RoundsApart, NPROCSAssumption DEF Apps, Pids
<1>4. StepsFrom(p, p) = 0
  BY <1>1, Rounds
<1> QED
  BY <1>2, <1>3, <1>4 DEF Between

(* What schedule() does with counted turns: it stays with the process that *)
(* was running if that has turns left or no other is runnable, and else    *)
(* goes on to the next one; whom it leaves has no turns counted.           *)
LEMMA NextTurn ==
  ASSUME NEW algorithm \in {0, 3}, NEW table \in Tables, ~ Runnable(table, CPU),
         NEW cur \in Apps, NEW pid \in Apps,
         Picks(algorithm, table, cur, pid),
         algorithm = 3 => Counted(table, cur)
  PROVE  /\ Runnable(table, pid)
         /\ pid # cur => \A q \in Apps : q # cur /\ Runnable(table, q) =>
                           StepsFrom(cur, pid) <= StepsFrom(cur, q)
         /\ pid = cur => \/ \A q \in Apps : q # cur => ~ Runnable(table, q)
                         \/ algorithm = 3 /\ WithinShare(table, cur)
<1>1. /\ cur \in Pids /\ pid \in Pids /\ Runnable(table, pid)
      /\ \A q \in Apps : q \in Pids /\ q \in Int /\ 0 < q /\ q < NPROCS
      /\ NPROCS \in Nat
  BY PicksRunnable, NPROCSAssumption DEF Apps, Pids
<1>2. \A q \in Apps :
        /\ StepsFrom(cur, q) = IF q >= cur THEN q - cur ELSE q - cur + NPROCS
        /\ StepsPast(cur, q) = IF q > cur THEN q - cur - 1
                               ELSE q - cur - 1 + NPROCS
  BY <1>1, Rounds
<1>3. CASE algorithm = 0
  <2>1. \A q \in Apps : Runnable(table, q) =>
          StepsPast(cur, pid) <= StepsPast(cur, q)
    BY <1>1, <1>3 DEF Picks, RoundRobin
  <2> QED
    BY <1>1, <1>2, <2>1
<1>4. CASE algorithm = 3
  <2>1. \A q \in Apps : q # cur /\ Runnable(table, q) => WithinShare(table, q)
    BY <1>4 DEF Counted, WithinShare, WithinCount
  <2>2. ProportionalShare(table, cur, pid)
    BY <1>4 DEF Picks
  <2>3. CASE \E q \in Pids : WithinShare(table, q)
    <3>1. /\ WithinShare(table, pid)
          /\ \A q \in Pids : WithinShare(table, q) =>
               StepsFrom(cur, pid) <= StepsFrom(cur, q)
      BY <2>2, <2>3 DEF ProportionalShare, FirstFrom
    <3> QED
      BY <1>1, <1>4, <2>1, <3>1
  <2>4. CASE ~ \E q \in Pids : WithinShare(table, q)
    <3>1. \A q \in Apps : q # cur => ~ Runnable(table, q)
      BY <1>1, <2>1, <2>4
    <3> QED
      BY <1>1, <3>1
  <2> QED
    BY <2>3, <2>4
<1> QED
  BY <1>3, <1>4

(* ... and the counts it leaves.                                           *)
LEMMA NextCounts ==
  ASSUME NEW table \in Tables, ~ Runnable(table, CPU),
         NEW cur \in Apps, NEW pid \in Apps,
         Picks(3, table, cur, pid), Counted(table, cur)
  PROVE  /\ Counted(Charged(3, table, cur, pid), pid)
         /\ Charged(3, table, cur, pid)[pid].p_num_times =
              IF pid = cur /\ WithinShare(table, cur)
              THEN table[cur].p_num_times + 1 ELSE 1
<1> DEFINE new == Charged(3, table, cur, pid)
<1>0. /\ \A q \in Apps : q \in Pids
      /\ \A q \in Pids : q \in Apps \/ q = CPU
      /\ cur \in Pids /\ pid \in Pids
  BY NPROCSAssumption DEF Apps, Pids, CPU
<1>1. /\ Runnable(table, pid)
      /\ pid # cur => \A q \in Apps : q # cur /\ Runnable(table, q) =>
                        StepsFrom(cur, pid) <= StepsFrom(cur, q)
      /\ pid = cur => \/ \A q \in Apps : q # cur => ~ Runnable(table, q)
                      \/ WithinShare(table, cur)
  BY NextTurn
<1>2. \A q \in Apps : /\ Runnable(new, q) <=> Runnable(table, q)
                      /\ new[q].p_share = table[q].p_share
                      /\ new[q].p_num_times = NumTimes(table, cur, pid, q)
  <2>1. \A q \in Apps : /\ Runnable(new, q) <=> Runnable(table, q)
                        /\ new[q].p_share = table[q].p_share
    BY <1>0, ChargedType DEF SameButCount
  <2>2. ASSUME NEW q \in Apps
        PROVE  new[q].p_num_times = NumTimes(table, cur, pid, q)
    <3>1. new[q] = [table[q] EXCEPT !.p_num_times = NumTimes(table, cur, pid, q)]
      BY <1>0 DEF Charged
    <3>2. table[q] \in Descriptor
      BY <1>0 DEF Tables
    <3> QED
      BY <3>1, <3>2 DEF Descriptor
  <2> QED
    BY <2>1, <2>2
<1> HIDE DEF new
<1>3. \A q \in Apps : /\ table[q].p_num_times \in Int
                      /\ table[q].p_share \in Int
  BY <1>0 DEF Tables, Descriptor
<1>4. \A q \in Apps : StepsFrom(cur, q) \in Int /\ StepsFrom(cur, q) >= 0
  BY <1>0, RoundsApart, NPROCSAssumption
<1>5. StepsFrom(cur, cur) = 0
  BY <1>0, Rounds, NPROCSAssumption DEF Pids
<1>6. \A q \in Apps : Runnable(table, q) /\ q # cur =>
        /\ table[q].p_num_times = 0 /\ table[q].p_share >= 0
        /\ WithinShare(table, q)
  BY <1>3 DEF Counted, WithinShare, WithinCount
<1>7. Runnable(table, cur) =>
        /\ table[cur].p_share >= 0
        /\ table[cur].p_num_times \in 0 .. table[cur].p_share + 1
  BY DEF Counted
<1>8. CASE pid = cur /\ WithinShare(table, cur)
  <2>1. \A q \in Apps : NumTimes(table, cur, pid, q) =
          IF q = pid THEN table[q].p_num_times + 1 ELSE table[q].p_num_times
    BY <1>4, <1>5, <1>8 DEF NumTimes
  <2>2. table[cur].p_num_times <= table[cur].p_share
    BY <1>8 DEF WithinShare, WithinCount
  <2> QED
    BY <1>1, <1>2, <1>3, <1>6, <1>7, <1>8, <2>1, <2>2 DEF Counted, new
<1>9. CASE pid = cur /\ ~ WithinShare(table, cur)
  <2>1. NumTimes(table, cur, pid, pid) = 1
    BY <1>1, <1>9 DEF NumTimes
  <2>2. \A q \in Apps : Runnable(table, q) => q = pid
    BY <1>1, <1>9
  <2> QED
    BY <1>1, <1>2, <1>3, <1>7, <1>9, <2>1, <2>2 DEF Counted, new
<1>10. CASE pid # cur
  <2>1. WithinShare(table, pid) /\ table[pid].p_num_times = 0
    BY <1>1, <1>6, <1>10
  <2>2. 0 < StepsFrom(cur, pid)
    BY <1>0, <1>4, <1>5, <1>10, RoundsApart
  <2>3. NumTimes(table, cur, pid, pid) = 1
    BY <1>4, <2>1 DEF NumTimes
  <2>4. \A q \in Apps : Runnable(table, q) /\ q # pid =>
          NumTimes(table, cur, pid, q) = 0
    BY <1>5, <1>6, <2>2 DEF NumTimes
  <2> QED
    BY <1>1, <1>2, <1>3, <1>6, <1>7, <1>10, <2>3, <2>4 DEF Counted, new
<1> QED
  BY <1>8, <1>9, <1>10
-----------------------------------------------------------------------------
(* The steps.                                                              *)

LEMMA SharesAre ==
  ASSUME SharesNonNegative, KernelInv, scheduling_algorithm = 3
  PROVE  \A p \in Apps : SHARE[p] \in Nat
<1>1. <<3, clock_on>> \in Settings
  BY DEF KernelInv, TypeOK, settings
<1>2. <<3, clock_on>>[1] = 3
  OBVIOUS
<1> QED
  BY <1>1, <1>2, KernelAssumption DEF SharesNonNegative

LEMMA TurnsAreNat ==
  ASSUME SharesNonNegative, KernelInv, TakesTurns, NEW p \in Apps
  PROVE  /\ Numbered(Apps \ {p}) /\ NatOn(Apps \ {p}, AllTurns)
         /\ \A q \in Apps : AllTurns[q] = Turns(q) /\ Turns(q) \in Nat
<1>1. \A q \in Apps : AllTurns[q] = Turns(q)
  BY DEF AllTurns
<1>2. \A q \in Apps : Turns(q) \in Nat
  BY SharesAre DEF Turns, TakesTurns
<1>3. Numbered(Apps \ {p})
  BY NPROCSAssumption, SMTT(20) DEF Numbered, Apps
<1> QED
  BY <1>1, <1>2, <1>3 DEF NatOn

LEMMA TakenAtMost ==
  ASSUME SharesNonNegative, KernelInv, QuantaInv, TakesTurns, ~ searching
  PROVE  Taken \in Nat /\ Taken <= Turns(current)
<1>1. current \in Apps /\ Runnable(proc_array, current)
  BY CurrentThread
<1>2. CASE scheduling_algorithm = 0
  BY <1>2 DEF Taken, Turns
<1>3. CASE scheduling_algorithm = 3
  <2>1. /\ proc_array[current].p_num_times \in 0 .. proc_array[current].p_share + 1
        /\ proc_array[current].p_share = IF Unset(current) THEN 0 ELSE SHARE[current]
        /\ SHARE[current] \in Nat
    BY <1>1, <1>3, SharesAre DEF QuantaInv, Counted, SharesInv
  <2> QED
    BY <1>3, <2>1 DEF Taken, Turns
<1> QED
  BY <1>2, <1>3 DEF TakesTurns

(* What a dispatch asks schedule() to work on: sys_set_share may take one  *)
(* turn off the count, its own.                                            *)
LEMMA Dispatches ==
  ASSUME SharesNonNegative, KernelInv, QuantaInv, SystemCall \/ Clock
  PROVE  \E table \in Tables :
           /\ ~ searching /\ ~ Runnable(table, CPU)
           /\ \E frame : Interrupt(frame, table)
           /\ \A p \in Apps : table[p].p_share = IF Unset(p)' THEN 0 ELSE SHARE[p]
           /\ scheduling_algorithm = 3 =>
                /\ Counted(table, current)
                /\ Taken <= IF threadRegs'[current].eip
                                 \in {"sys_set_priority", "sys_set_share"}
                            THEN table[current].p_num_times
                            ELSE table[current].p_num_times + 1
<1>1. CASE SystemCall
  <2>1. PICK call \in Traps, d \in Descriptor :
          /\ ~ searching /\ Changed(call, d)
          /\ threadRegs[current].eip = call
          /\ threadRegs' = [threadRegs EXCEPT ![current] = Resume(@)]
          /\ Interrupt(Resume(regs[CPU]), [proc_array EXCEPT ![current] = d])
          /\ [proc_array EXCEPT ![current] = d] \in Tables
          /\ ~ Runnable([proc_array EXCEPT ![current] = d], CPU)
    BY <1>1, SystemCalls
  <2> DEFINE table == [proc_array EXCEPT ![current] = d]
  <2>2. /\ current \in Apps /\ Runnable(proc_array, current)
        /\ \A q \in Apps : q \in Pids
    BY <2>1, CurrentThread, NPROCSAssumption DEF Apps, Pids
  <2>3. /\ table[current] = d
        /\ \A q \in Apps \ {current} : table[q] = proc_array[q]
        /\ \A q \in Apps \ {current} : threadRegs'[q] = threadRegs[q]
        /\ threadRegs'[current] = Resume(threadRegs[current])
    BY <2>1, <2>2, ThreadsType DEF Tables
  <2>4. threadRegs'[current].eip \in {"sys_set_priority", "sys_set_share"}
          <=> call = "sys_set_priority"
    <3>1. ASSUME NEW n \in Nat
          PROVE  LoopTop(current, n) \notin {"sys_set_priority", "sys_set_share"}
      BY DEF LoopTop
    <3> QED
      BY <2>1, <2>2, <2>3, <3>1, Resumes, ThreadsType, UserCodeAssumption
         DEF Traps, Controlled
  <2>5. \A p \in Apps : table[p].p_share = IF Unset(p)' THEN 0 ELSE SHARE[p]
    <3>1. SharesInv
      BY DEF QuantaInv
    <3> HIDE DEF table
    <3>2. table[current].p_share = IF Unset(current) /\ call # "sys_set_share"
                                   THEN 0 ELSE SHARE[current]
      BY <2>1, <2>2, <2>3, <3>1 DEF Changed, SharesInv, Unset
    <3>3. \A p \in Apps : p = current =>
            table[p].p_share = IF Unset(p)' THEN 0 ELSE SHARE[p]
      BY <2>1, <2>4, <3>2 DEF Unset
    <3> QED
      BY <2>2, <2>3, <3>1, <3>3 DEF SharesInv, Unset
  <2>6. ASSUME scheduling_algorithm = 3
        PROVE  /\ Counted(table, current)
               /\ Taken <= IF threadRegs'[current].eip
                                \in {"sys_set_priority", "sys_set_share"}
                           THEN table[current].p_num_times
                           ELSE table[current].p_num_times + 1
    <3>1. /\ Counted(proc_array, current)
          /\ proc_array[current].p_num_times \in 0 .. proc_array[current].p_share + 1
          /\ proc_array[current].p_share = IF Unset(current) THEN 0 ELSE SHARE[current]
          /\ proc_array[current].p_share >= 0
          /\ SHARE[current] \in Nat
      BY <2>1, <2>2, <2>6, SharesAre DEF QuantaInv, Counted, SharesInv
    <3> HIDE DEF table
    <3>2. /\ table[current].p_share = IF call = "sys_set_share" THEN SHARE[current]
                                      ELSE proc_array[current].p_share
          /\ table[current].p_num_times = IF call = "sys_set_share" THEN 0
                                          ELSE proc_array[current].p_num_times
      BY <2>1, <2>3 DEF Changed
    <3>3. Counted(table, current)
      BY <2>2, <2>3, <3>1, <3>2 DEF Counted, Runnable
    <3>4. Taken = IF Unset(current) THEN proc_array[current].p_num_times
                  ELSE proc_array[current].p_num_times + 1
      BY <2>6 DEF Taken
    <3>5. Unset(current) <=> call \in {"sys_set_priority", "sys_set_share"}
      BY <2>1 DEF Unset
    <3> QED
      BY <2>4, <3>1, <3>2, <3>3, <3>4, <3>5
  <2> HIDE DEF table
  <2> QED
    BY <2>1, <2>5, <2>6 DEF table
<1>2. CASE Clock
  <2>1. /\ ~ searching /\ threadRegs' = threadRegs
        /\ Interrupt(regs[CPU], proc_array)
        /\ proc_array \in Tables /\ ~ Runnable(proc_array, CPU)
    BY <1>2, Ticks
  <2>2. /\ \A p \in Apps : proc_array[p].p_share = IF Unset(p)' THEN 0 ELSE SHARE[p]
        /\ scheduling_algorithm = 3 => Counted(proc_array, current)
    BY <2>1 DEF QuantaInv, SharesInv, Unset
  <2>3. scheduling_algorithm = 3 =>
          Taken = IF threadRegs'[current].eip
                       \in {"sys_set_priority", "sys_set_share"}
                  THEN proc_array[current].p_num_times
                  ELSE proc_array[current].p_num_times + 1
    BY <2>1 DEF Taken, Unset
  <2>4. scheduling_algorithm = 3 => Taken \in Nat
    BY <2>1, TakenAtMost DEF TakesTurns
  <2> QED
    BY <2>1, <2>2, <2>3, <2>4
<1> QED
  BY <1>1, <1>2
(* Whoever waits on has been passed at most by the one that was running,   *)
(* and that has had no more turns than it may.                             *)
LEMMA DispatchWaits ==
  ASSUME SharesNonNegative, KernelInv, QuantaInv, ~ searching, TakesTurns,
         NEW table \in Tables, ~ Runnable(table, CPU),
         scheduling_algorithm = 3 => Counted(table, current),
         NEW pid \in Apps, Picks(scheduling_algorithm, table, current, pid),
         NEW p \in Apps, p # pid, Runnable(table, p),
         NEW taken \in Nat, taken >= 1,
         scheduling_algorithm = 3 /\ pid = current /\ WithinShare(table, current)
           => taken >= Taken + 1
  PROVE  waited[p] + 1 <= SumIn(Apps \ {p}, AllTurns)[Between(p, pid)] + taken
<1> DEFINE sum == SumIn(Apps \ {p}, AllTurns)
<1>1. /\ current \in Apps
      /\ waited[p] \in Nat
      /\ waited[p] # 0 => p # current /\ waited[p] <= sum[Between(p, current)] + Taken
      /\ Taken \in Nat /\ Taken <= Turns(current)
      /\ Turns(current) \in Nat /\ AllTurns[current] = Turns(current)
  BY CurrentThread, TakenAtMost, TurnsAreNat DEF QuantaInv, WaitInv
<1>2. \A A \in SUBSET (Apps \ {p}) :
        /\ sum[A] \in Nat
        /\ \A B \in SUBSET A : sum[B] <= sum[A]
  <2>1. Numbered(Apps \ {p}) /\ NatOn(Apps \ {p}, AllTurns)
    BY TurnsAreNat
  <2>2. \A A \in SUBSET (Apps \ {p}) : sum[A] \in Nat
    BY <2>1, SumNat
  <2>3. \A A \in SUBSET (Apps \ {p}) : \A B \in SUBSET A : sum[B] <= sum[A]
    BY <2>1, SumMonotone
  <2> HIDE DEF sum
  <2> QED
    BY <2>2, <2>3
<1>3. \A A \in SUBSET (Apps \ {p}) : \A x \in A :
        sum[A] = AllTurns[x] + sum[A \ {x}]
  <2>1. Adds(Apps \ {p}, AllTurns)
    BY TurnsAreNat, SumAdd
  <2> QED
    BY <2>1 DEF Adds
<1>4. \A q \in Apps : Between(p, q) \in SUBSET (Apps \ {p})
  <2>1. StepsFrom(p, p) = 0
    BY Rounds, NPROCSAssumption DEF Apps, Pids
  <2> QED
    BY <2>1 DEF Between
<1> HIDE DEF sum
<1>5. sum[Between(p, pid)] \in Nat
  BY <1>2, <1>4
<1>6. /\ pid # current => \A q \in Apps : q # current /\ Runnable(table, q) =>
                            StepsFrom(current, pid) <= StepsFrom(current, q)
      /\ pid = current => \/ \A q \in Apps : q # current => ~ Runnable(table, q)
                          \/ scheduling_algorithm = 3 /\ WithinShare(table, current)
  BY <1>1, NextTurn DEF TakesTurns
<1>7. CASE waited[p] = 0
  BY <1>5, <1>7 DEF sum
<1>8. CASE waited[p] # 0 /\ pid = current
  <2>1. taken >= Taken + 1
    BY <1>6, <1>8
  <2> QED
    BY <1>1, <1>5, <1>8, <2>1 DEF sum
<1>9. CASE waited[p] # 0 /\ pid # current
  <2>1. /\ Between(p, current) \in SUBSET (Apps \ {p})
        /\ current \notin Between(p, current)
        /\ Between(p, current) \cup {current} \in SUBSET Between(p, pid)
        /\ Between(p, pid) \in SUBSET (Apps \ {p})
    BY <1>1, <1>6, <1>9, BetweenGrows
  <2> DEFINE B == Between(p, current) \cup {current}
  <2>2. B \in SUBSET (Apps \ {p}) /\ B \ {current} = Between(p, current)
    BY <2>1
  <2>3. sum[B] = Turns(current) + sum[Between(p, current)]
    <3>1. sum[B] = AllTurns[current] + sum[B \ {current}]
      BY <1>3, <2>2
    <3> QED
      BY <1>1, <2>2, <3>1
  <2>4. sum[B] <= sum[Between(p, pid)] /\ sum[B] \in Nat
        /\ sum[Between(p, current)] \in Nat
    BY <1>2, <2>1, <2>2
  <2> HIDE DEF B
  <2> QED
    BY <1>1, <1>5, <1>9, <2>3, <2>4 DEF sum
<1> QED
  BY <1>7, <1>8, <1>9

LEMMA DispatchQuantaInv ==
  ASSUME SharesNonNegative, KernelInv, QuantaInv, Dispatch
  PROVE  QuantaInv'
<1>1. PICK table \in Tables :
        /\ ~ searching /\ ~ Runnable(table, CPU)
        /\ \E frame : Interrupt(frame, table)
        /\ \A p \in Apps : table[p].p_share = IF Unset(p)' THEN 0 ELSE SHARE[p]
        /\ scheduling_algorithm = 3 =>
             /\ Counted(table, current)
             /\ Taken <= IF threadRegs'[current].eip
                              \in {"sys_set_priority", "sys_set_share"}
                         THEN table[current].p_num_times
                         ELSE table[current].p_num_times + 1
  BY Dispatches DEF Dispatch
<1>2. /\ current \in Apps
      /\ \A q \in Apps : q \in Pids
      /\ \A q \in Pids : q \in Apps \/ q = CPU
      /\ UNCHANGED scheduling_algorithm
  BY <1>1, CurrentThread, NPROCSAssumption
     DEF Apps, Pids, CPU, Interrupt, Schedule, settings
<1>3. /\ waited' \in [Apps -> Nat]
      /\ \A p \in Apps : waited'[p] # 0 =>
           /\ TakesTurns /\ p # current' /\ ~ searching'
           /\ Runnable(proc_array', p)
           /\ waited'[p] = waited[p] + 1
  <2>1. TakesTurns => waited \in [Apps -> Nat]
    BY DEF QuantaInv, WaitInv
  <2>2. \A p \in Apps : waited'[p] =
          IF TakesTurns /\ p # current' /\ ~ searching' /\ Runnable(proc_array', p)
          THEN waited[p] + 1 ELSE 0
    BY DEF Dispatch
  <2>3. waited' = [p \in Apps |-> waited'[p]]
    BY DEF Dispatch
  <2>4. \A p \in Apps : waited'[p] \in Nat
    BY <2>1, <2>2
  <2> QED
    BY <2>2, <2>3, <2>4
<1>4. CASE \E pid \in Pids :
             /\ Picks(scheduling_algorithm, table, current, pid)
             /\ proc_array' = Charged(scheduling_algorithm, table, current, pid)
             /\ current' = pid
             /\ UNCHANGED searching
  <2>1. /\ current' \in Apps /\ ~ searching'
        /\ Picks(scheduling_algorithm, table, current, current')
        /\ proc_array' = Charged(scheduling_algorithm, table, current, current')
    BY <1>1, <1>2, <1>4, PicksRunnable
  <2>2. \A q \in Apps : /\ Runnable(proc_array', q) <=> Runnable(table, q)
                        /\ proc_array'[q].p_share = table[q].p_share
    BY <1>2, <2>1, ChargedType DEF SameButCount
  <2>3. SharesInv'
    BY <1>1, <2>2 DEF SharesInv
  <2>4. scheduling_algorithm = 3 =>
          /\ Counted(proc_array', current')
          /\ proc_array'[current'].p_num_times =
               IF current' = current /\ WithinShare(table, current)
               THEN table[current].p_num_times + 1 ELSE 1
    BY <1>1, <1>2, <2>1, NextCounts
  <2>5. ASSUME TakesTurns PROVE WaitInv'
    <3>1. /\ Taken \in Nat
          /\ Taken' \in Nat /\ Taken' >= 1
          /\ scheduling_algorithm = 3 /\ current' = current
               /\ WithinShare(table, current) => Taken' >= Taken + 1
      <4>1. Taken \in Nat
        BY <1>1, <2>5, TakenAtMost
      <4>2. CASE scheduling_algorithm = 0
        BY <1>2, <4>1, <4>2 DEF Taken
      <4>3. CASE scheduling_algorithm = 3
        <5>1. Taken' = IF threadRegs'[current'].eip
                            \in {"sys_set_priority", "sys_set_share"}
                       THEN proc_array'[current'].p_num_times
                       ELSE proc_array'[current'].p_num_times + 1
          BY <1>2, <4>3 DEF Taken, Unset
        <5>2. table[current].p_num_times \in Int
          BY <1>2 DEF Tables, Descriptor
        <5>3. WithinShare(table, current) => table[current].p_num_times >= 0
          BY <1>1, <1>2, <4>3 DEF Counted, WithinShare
        <5> QED
          BY <1>1, <2>4, <4>1, <4>3, <5>1, <5>2, <5>3
      <4> QED
        BY <2>5, <4>2, <4>3 DEF TakesTurns
    <3>2. AllTurns' = AllTurns
      BY <1>2 DEF AllTurns, Turns
    <3>3. ASSUME NEW p \in Apps, waited'[p] # 0
          PROVE  waited'[p] <= SumIn(Apps \ {p}, AllTurns)[Between(p, current')] + Taken'
      <4>1. p # current' /\ Runnable(table, p) /\ waited'[p] = waited[p] + 1
        BY <1>3, <2>2, <3>3
      <4> QED
        BY <1>1, <2>1, <2>5, <3>1, <4>1, DispatchWaits
    <3> QED
      BY <1>3, <3>2, <3>3 DEF WaitInv
  <2> QED
    BY <1>2, <2>3, <2>4, <2>5 DEF QuantaInv, TakesTurns
<1>5. CASE proc_array' = Exhausted(scheduling_algorithm, table) /\ searching'
  <2>1. \A q \in Apps : proc_array'[q].p_share = table[q].p_share
    BY <1>2, <1>5, ExhaustedType DEF SameButCount
  <2>2. SharesInv'
    BY <1>1, <2>1 DEF SharesInv
  <2>3. WaitInv'
    BY <1>3, <1>5 DEF WaitInv
  <2> QED
    BY <1>5, <2>2, <2>3 DEF QuantaInv
<1> QED
  BY <1>1, <1>4, <1>5 DEF Interrupt, Schedule, Run

LEMMA NextQuantaInv ==
  ASSUME SharesNonNegative, KernelInv, QuantaInv, [QuantaNext]_quantaVars
  PROVE  QuantaInv'
<1>1. CASE Dispatch
  BY <1>1, DispatchQuantaInv
<1>2. CASE Execute /\ UNCHANGED waited
  <2>1. /\ ~ searching /\ UNCHANGED kernelVars
        /\ current \in Apps
        /\ \A q \in Apps \ {current} : threadRegs'[q] = threadRegs[q]
        /\ threadRegs[current].eip \in {"swap_in", "load", "store", "sys_yield"}
        /\ threadRegs'[current].eip \in {"swap_in", "load", "store", "sys_yield"}
    BY <1>2, Executes, ThreadsType
       DEF Instruction, SwapIn, LoadCursor, StoreCursor, StoreCell, SwapOut,
           Registers
  <2>2. \A q \in Apps : Unset(q)' <=> Unset(q)
    BY <2>1 DEF Unset
  <2>3. UNCHANGED <<proc_array, current, scheduling_algorithm, searching, waited>>
    BY <1>2, <2>1 DEF kernelVars, settings
  <2>4. SharesInv'
    BY <2>2, <2>3 DEF QuantaInv, SharesInv
  <2>5. Taken' = Taken
    BY <2>1, <2>2, <2>3 DEF Taken
  <2>6. AllTurns' = AllTurns
    BY <2>3 DEF AllTurns, Turns
  <2>7. TakesTurns' => WaitInv'
    BY <2>3, <2>5, <2>6 DEF QuantaInv, WaitInv, TakesTurns
  <2> QED
    BY <2>3, <2>4, <2>7 DEF QuantaInv
<1>3. CASE UNCHANGED quantaVars \/ (Search /\ UNCHANGED waited)
  <2>1. UNCHANGED <<threadRegs, proc_array, current, scheduling_algorithm,
                    searching, waited>>
    BY <1>3 DEF quantaVars, Search, vars, kernelVars, settings, threadRegs
  <2>2. UNCHANGED <<AllTurns, Taken>> /\ SharesInv' = SharesInv
    BY <2>1 DEF AllTurns, Turns, Taken, Unset, SharesInv
  <2> QED
    BY <2>1, <2>2 DEF QuantaInv, WaitInv, TakesTurns
<1> QED
  BY <1>1, <1>2, <1>3 DEF QuantaNext

(* Under round robin and proportional share schedule() keeps nobody that   *)
(* could run waiting for more turns of the others than they have, with any *)
(* number of processes, any shares and any ticks of the clock              *)
(* (schedos-kern.c, schedule).                                             *)
THEOREM NobodyStarves ==
  ASSUME SharesNonNegative
  PROVE  QuantaSpec => []BoundedWait
<1>1. QuantaInit => Init /\ QuantaInv
  <2> SUFFICES ASSUME QuantaInit PROVE QuantaInv
    BY DEF QuantaInit
  <2>1. ASSUME NEW p \in Apps
        PROVE  /\ proc_array[p].p_share = 0 /\ proc_array[p].p_num_times = 0
               /\ Unset(p)
    <3>1. proc_array[p] = [EmptyDescriptor EXCEPT !.p_state = "P_RUNNABLE"]
      BY NPROCSAssumption DEF QuantaInit, Init, Apps, Pids
    <3>2. threadRegs[p].eip = "sys_set_priority"
      BY CPUNotApp DEF QuantaInit, Init, threadRegs, Contexts, StartOf
    <3> QED
      BY <3>1, <3>2 DEF EmptyDescriptor, Unset
  <2>2. SharesInv /\ Counted(proc_array, current)
    BY <2>1 DEF SharesInv, Counted
  <2>3. WaitInv
    BY DEF QuantaInit, WaitInv
  <2> QED
    BY <2>2, <2>3 DEF QuantaInv
<1>2. [QuantaNext]_quantaVars => [Next]_vars
  BY DEF QuantaNext, quantaVars, Dispatch, Next
<1>3. KernelInv /\ QuantaInv /\ [QuantaNext]_quantaVars => QuantaInv'
  BY NextQuantaInv
<1>4. KernelInv /\ QuantaInv => BoundedWait
  <2> SUFFICES ASSUME KernelInv, QuantaInv, TakesTurns, NEW p \in Apps
               PROVE  waited[p] <= FoldFunctionOnSet(+, 0, AllTurns, Apps \ {p})
    BY DEF BoundedWait, AllTurns
  <2> SUFFICES waited[p] <= SumIn(Apps \ {p}, AllTurns)[Apps \ {p}]
    BY DEF FoldFunctionOnSet, MapThenFoldSet, SumIn
  <2> DEFINE sum == SumIn(Apps \ {p}, AllTurns)
  <2>1. Numbered(Apps \ {p}) /\ NatOn(Apps \ {p}, AllTurns)
    BY TurnsAreNat
  <2>2. \A A \in SUBSET (Apps \ {p}) : sum[A] \in Nat
    BY <2>1, SumNat
  <2>3. \A A \in SUBSET (Apps \ {p}) : \A B \in SUBSET A : sum[B] <= sum[A]
    BY <2>1, SumMonotone
  <2>4. \A A \in SUBSET (Apps \ {p}) : \A x \in A :
          sum[A] = AllTurns[x] + sum[A \ {x}]
    <3>1. Adds(Apps \ {p}, AllTurns)
      BY <2>1, SumAdd
    <3> QED
      BY <3>1 DEF Adds
  <2> HIDE DEF sum
  <2>6. CASE waited[p] = 0
    <3>1. sum[Apps \ {p}] \in Nat
      BY <2>2
    <3> QED
      BY <2>6, <3>1 DEF sum
  <2>7. CASE waited[p] # 0
    <3>1. /\ ~ searching /\ p # current
          /\ waited[p] \in Nat
          /\ waited[p] <= sum[Between(p, current)] + Taken
      BY <2>7 DEF QuantaInv, WaitInv, sum
    <3>2. /\ current \in Apps
          /\ Taken \in Nat /\ Taken <= Turns(current)
          /\ Turns(current) \in Nat /\ AllTurns[current] = Turns(current)
      BY <3>1, CurrentThread, TakenAtMost, TurnsAreNat
    <3> DEFINE B == Between(p, current)
    <3>3. B \in SUBSET ((Apps \ {p}) \ {current}) /\ current \in Apps \ {p}
      <4>1. StepsFrom(p, p) = 0
        BY Rounds, NPROCSAssumption DEF Apps, Pids
      <4>2. StepsFrom(p, current) \in Int
        BY <3>2, RoundsApart, NPROCSAssumption DEF Apps, Pids
      <4> QED
        BY <3>1, <3>2, <4>1, <4>2 DEF Between
    <3> HIDE DEF B
    <3>4. sum[Apps \ {p}] = Turns(current) + sum[(Apps \ {p}) \ {current}]
      BY <2>4, <3>2, <3>3
    <3>5. /\ sum[B] <= sum[(Apps \ {p}) \ {current}]
          /\ sum[B] \in Nat /\ sum[(Apps \ {p}) \ {current}] \in Nat
      BY <2>2, <2>3, <3>3
    <3> QED
      BY <3>1, <3>2, <3>4, <3>5 DEF B, sum
  <2> QED
    BY <2>6, <2>7
<1> QED
  BY InitKernelInv, NextKernelInv, <1>1, <1>2, <1>3, <1>4, PTL DEF QuantaSpec

=============================================================================
