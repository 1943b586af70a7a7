--------------------------- MODULE FlowCtrlLemmas ---------------------------
(***************************************************************************)
(* Lemmas about FlowCtrl: the arithmetic of whole pages, the loop over     *)
(* counts, and that the initial state, commands and the set-up of the hot  *)
(* pass establish or keep its invariant.                                   *)
(***************************************************************************)
EXTENDS FlowCtrl, FiniteSetTheorems, TLAPS

(* Rounding down to whole pages gives no more than what was rounded. *)
LEMMA WholePages ==
  ASSUME NEW a \in Nat
  PROVE  /\ a \div PageSize \in Nat
         /\ PageSize * (a \div PageSize) \in Nat
         /\ PageSize * (a \div PageSize) <= a
  BY FlowAssumption, SMT

(* A page list gives up at most its size and at most what was granted. *)
LEMMA MovedBound ==
  ASSUME NEW size \in Nat, NEW can \in Nat
  PROVE  /\ MovedSize(size, can) \in Nat
         /\ MovedSize(size, can) <= size
         /\ MovedSize(size, can) <= can
  BY WholePages, FlowAssumption DEF MovedSize

(* A grant is part of the target and of what is left of the cap; it uses   *)
(* the cap up exactly when the target reaches what is left.                *)
LEMMA GrantBound ==
  ASSUME TypeOK, Ledger, NEW s \in Pass, NEW j \in Pair, NEW size \in Nat
  PROVE  /\ Grant(s, j, size) \in Nat
         /\ Grant(s, j, size) <= size
         /\ used[s][j] + Grant(s, j, size) <= cap[s][j]
         /\ used[s][j] < cap[s][j] =>
              (size >= cap[s][j] - used[s][j]
                 <=> used[s][j] + Grant(s, j, size) = cap[s][j])
         /\ used[s][j] >= cap[s][j] => Grant(s, j, size) = 0
  <1>1. used[s][j] \in Nat /\ cap[s][j] \in Nat
    BY DEF TypeOK
  <1>2. used[s][j] <= cap[s][j]
    BY DEF Ledger, Books
  <1> QED BY <1>1, <1>2 DEF Grant, Least

(* The set of pairs is finite and has PairNum elements. *)
LEMMA PairFinite ==
  /\ IsFiniteSet(Pair)
  /\ Cardinality(Pair) = PairNum
  /\ \A S \in SUBSET Pair : IsFiniteSet(S) /\ Cardinality(S) \in 0..PairNum
  <1>1. IsFiniteSet(Pair) /\ Cardinality(Pair) = PairNum
    BY FS_Interval, FlowAssumption DEF Pair
  <1>2. ASSUME NEW S \in SUBSET Pair
        PROVE  IsFiniteSet(S) /\ Cardinality(S) \in 0..PairNum
    BY <1>1, FS_Subset, FS_CardinalityType, FlowAssumption
  <1> QED BY <1>1, <1>2

(* The cap of the prefetch pass is within the quota and leaves the reserve. *)
LEMMA PrefetchCanBound ==
  ASSUME NEW f \in Nat, NEW q \in Nat, conf.hot_reserve \in Nat
  PROVE  /\ PrefetchCan(f, q) \in Nat
         /\ PrefetchCan(f, q) <= q
         /\ PrefetchCan(f, q) > 0 => PrefetchCan(f, q) <= f - conf.hot_reserve
  BY DEF PrefetchCan, Least

(* The cap of the cold pass is within the quota, and zero where the free   *)
(* memory reaches the reserve.                                             *)
LEMMA ColdCanBound ==
  ASSUME NEW f \in Nat, NEW cf \in Nat, NEW q \in Nat, conf.hot_reserve \in Nat
  PROVE  /\ ColdCan(f, cf, q) \in Nat
         /\ ColdCan(f, cf, q) <= q
         /\ f >= conf.hot_reserve => ColdCan(f, cf, q) = 0
  BY DEF ColdCan, Least

-----------------------------------------------------------------------------
(* Type of what a step computes. *)

(* The steps of the loop stay on their side of the threshold, and within   *)
(* the counts, the processes and the pairs there are.                      *)
LEMMA LoopStep ==
  ASSUME TypeOK, LoopRange, NEW s \in Pass, pc = s,
         NextPair(s) \/ NextPid(s), UNCHANGED conf
  PROVE  /\ pc' \in {s, NextPc(s)}
         /\ at' \in [count : Count, pid : Pid, pair : Pair]
         /\ LoopRange'
  <1>1. /\ at \in [count : Count, pid : Pid, pair : Pair]
        /\ conf.hot_threshold \in 0..(MaxCount + 1)
        /\ conf' = conf
    BY DEF TypeOK
  <1>2. CASE pc' = pc /\ at' = [at EXCEPT !.pair = @ + 1]
             /\ at.pair < PairNum - 1
    BY <1>1, <1>2, FlowAssumption DEF LoopRange, Pair
  <1>3. CASE pc' = pc /\ at' = [at EXCEPT !.pid = @ + 1, !.pair = 0]
             /\ at.pid < PidNum
    <2>1. at' = [count |-> at.count, pid |-> at.pid + 1, pair |-> 0]
      BY <1>1, <1>3
    <2>2. at.pid + 1 \in Pid /\ 0 \in Pair
      BY <1>1, <1>3, FlowAssumption DEF Pid, Pair
    <2> QED BY <1>1, <1>3, <2>1, <2>2 DEF LoopRange
  <1>4. CASE NextCount(s)
    <2>1. CASE pc' = NextPc(s) /\ at' = at
      BY <1>1, <2>1 DEF LoopRange, NextPc, Pass
    <2>2. CASE /\ pc' = pc
               /\ at.count + count_step(s) # count_end(s)
               /\ at' = [count |-> at.count + count_step(s), pid |-> 1, pair |-> 0]
      <3>1. 1 \in Pid /\ 0 \in Pair
        BY FlowAssumption DEF Pid, Pair
      <3>2. CASE s = "hot"
        BY <1>1, <2>2, <3>1, <3>2, FlowAssumption
           DEF LoopRange, count_step, count_end, Count
      <3>3. CASE s = "prefetch"
        BY <1>1, <2>2, <3>1, <3>3, FlowAssumption
           DEF LoopRange, count_step, count_end, Count
      <3>4. CASE s = "cold"
        BY <1>1, <2>2, <3>1, <3>4, FlowAssumption
           DEF LoopRange, count_step, count_end, Count
      <3> QED BY <3>2, <3>3, <3>4 DEF Pass
    <2> QED BY <1>4, <2>1, <2>2 DEF NextCount
  <1> QED BY <1>2, <1>3, <1>4 DEF NextPair, NextPid

(* So does the beginning of a loop. *)
LEMMA LoopBegin ==
  ASSUME TypeOK, NEW s \in Pass, NEW c, SetUp(s, c)
  PROVE  /\ pc' \in {s, NextPc(s)}
         /\ at' \in [count : Count, pid : Pid, pair : Pair]
         /\ LoopRange'
  <1>1. /\ at \in [count : Count, pid : Pid, pair : Pair]
        /\ conf.hot_threshold \in 0..(MaxCount + 1)
        /\ conf' = conf
    BY DEF TypeOK, SetUp, input
  <1>2. CASE pc' = NextPc(s) /\ at' = at
    BY <1>1, <1>2 DEF LoopRange, NextPc, Pass
  <1>3. CASE /\ pc' = s
             /\ count_start(s) # count_end(s)
             /\ at' = [count |-> count_start(s), pid |-> 1, pair |-> 0]
    <2>1. 1 \in Pid /\ 0 \in Pair
      BY FlowAssumption DEF Pid, Pair
    <2>2. CASE s = "hot"
      BY <1>1, <1>3, <2>1, <2>2, FlowAssumption
         DEF LoopRange, count_start, count_end, Count
    <2>3. CASE s = "prefetch"
      BY <1>1, <1>3, <2>1, <2>3, FlowAssumption
         DEF LoopRange, count_start, count_end, Count
    <2>4. CASE s = "cold"
      BY <1>1, <1>3, <2>1, <2>4, FlowAssumption
         DEF LoopRange, count_start, count_end, Count
    <2> QED BY <2>2, <2>3, <2>4 DEF Pass
  <1> QED BY <1>2, <1>3 DEF SetUp

(* The caps of a pass and its counter, when it is set up. *)
LEMMA SetUpEnough ==
  ASSUME TypeOK, EnoughExact, NEW s \in Pass, NEW c \in [Pair -> Nat],
         SetUp(s, c), \A j \in Pair : used[s][j] = 0
  PROVE  /\ cap' \in [Pass -> [Pair -> Nat]]
         /\ enough' \in [Pass -> 0..PairNum]
         /\ EnoughExact'
  <1> DEFINE N == {j \in Pair : c[j] <= 0}
             Out(t) == {j \in Pair : used[t][j] >= cap[t][j]}
  <1>1. /\ cap' = [cap EXCEPT ![s] = c]
        /\ enough' = [enough EXCEPT ![s] = Cardinality(N)]
        /\ used' = used
    BY DEF SetUp
  <1>2. Cardinality(N) \in 0..PairNum
    BY PairFinite
  <1>3. cap' \in [Pass -> [Pair -> Nat]] /\ enough' \in [Pass -> 0..PairNum]
    BY <1>1, <1>2 DEF TypeOK
  <1>4. ASSUME NEW t \in Pass, pc' = t \/ enough'[t] > 0
        PROVE  enough'[t] = Cardinality({j \in Pair : used'[t][j] >= cap'[t][j]})
    <2>1. CASE t = s
      <3>1. {j \in Pair : used'[t][j] >= cap'[t][j]} = N
        BY <1>1, <2>1 DEF TypeOK
      <3> QED BY <3>1, <2>1, <1>1 DEF TypeOK
    <2>2. CASE t # s
      <3>1. pc' # t
        BY <2>2, LoopBegin DEF NextPc, Pass
      <3>2. enough'[t] = enough[t] /\ cap'[t] = cap[t]
        BY <1>1, <2>2 DEF TypeOK
      <3>3. enough[t] = Cardinality(Out(t))
        BY <1>4, <3>1, <3>2 DEF EnoughExact
      <3>4. {j \in Pair : used'[t][j] >= cap'[t][j]} = Out(t)
        BY <1>1, <3>2
      <3> QED BY <3>2, <3>3, <3>4, ZenonT(60)
    <2> QED BY <2>1, <2>2
  <1> QED BY <1>3, <1>4 DEF EnoughExact

-----------------------------------------------------------------------------
(* The initial states satisfy the inductive invariant. *)
LEMMA InitInv == Init => IInv
  <1> SUFFICES ASSUME Init PROVE IInv
    OBVIOUS
  <1>1. /\ conf \in [mig_quota : Nat, hot_reserve : Nat,
                     hot_threshold : 0..(MaxCount + 1)]
        /\ mem \in [Pair -> [free : Nat, cold_free : Nat]]
    BY FlowAssumption DEF Init
  <1>2. /\ on_hot \in [Count -> [Pid -> [Pair -> Nat]]]
        /\ on_cold \in [Count -> [Pid -> [Pair -> Nat]]]
    <2>1. [Pair -> Sizes] \subseteq [Pair -> Nat]
      BY FlowAssumption
    <2>2. [Pid -> [Pair -> Sizes]] \subseteq [Pid -> [Pair -> Nat]]
      BY <2>1
    <2> HIDE DEF Pid, Pair
    <2>3. [Count -> [Pid -> [Pair -> Sizes]]] \subseteq [Count -> [Pid -> [Pair -> Nat]]]
      BY <2>2
    <2> QED BY <2>3 DEF Init
  <1>3. TypeOK
    <2>1. /\ cold \in [Pair -> Nat]
          /\ free \in [Pair -> Nat]
          /\ cold_free \in [Pair -> Nat]
          /\ cold_replaced \in [Pair -> Nat]
          /\ quota \in [Pair -> Nat]
      BY <1>1 DEF Init
    <2>2. /\ cap \in [Pass -> [Pair -> Nat]]
          /\ used \in [Pass -> [Pair -> Nat]]
          /\ moved \in [Pass -> [Pair -> Nat]]
      BY DEF Init
    <2>3. enough \in [Pass -> 0..PairNum]
      BY FlowAssumption DEF Init
    <2>4. at \in [count : Count, pid : Pid, pair : Pair]
      BY FlowAssumption DEF Init, Count, Pid, Pair
    <2>5. working \in SUBSET Pid /\ pc \in PassPc /\ disturbed \in BOOLEAN
      BY DEF Init, PassPc
    <2> QED BY <1>1, <1>2, <2>1, <2>2, <2>3, <2>4, <2>5 DEF TypeOK
  <1>4. LoopRange
    BY DEF Init, LoopRange
  <1>5. Ledger
    <2> SUFFICES ASSUME NEW j \in Pair PROVE Books(j)
      BY DEF Ledger
    <2>1. \A s \in Pass : cap[s][j] = 0 /\ used[s][j] = 0 /\ moved[s][j] = 0
      BY DEF Init
    <2>2. /\ pc = "hot_cal" /\ quota[j] = conf.mig_quota
          /\ free[j] = mem[j].free /\ cold_replaced[j] = 0
      BY DEF Init
    <2>3. conf.mig_quota \in Nat /\ mem[j].free \in Nat
      BY <1>1
    <2> QED BY <2>1, <2>2, <2>3 DEF Books, Pass
  <1>6. EnoughExact
    BY DEF Init, EnoughExact, Pass
  <1> QED BY <1>3, <1>4, <1>5, <1>6 DEF IInv

(* Commands do not touch the books. *)
LEMMA CommandInv ==
  ASSUME IInv, NEW p \in Pid, Command(p)
  PROVE  IInv'
  <1> USE DEF Command, input, pageVars, nodeVars
  <1>1. TypeOK'
    BY DEF IInv, TypeOK
  <1>2. LoopRange'
    BY DEF IInv, LoopRange
  <1>3. Ledger'
    BY ZenonT(60) DEF IInv, Ledger, Books
  <1>4. EnoughExact'
    BY DEF IInv, EnoughExact
  <1> QED BY <1>1, <1>2, <1>3, <1>4 DEF IInv

(* Nor does stepping over a process. *)
LEMMA SkipPidInv ==
  ASSUME IInv, NEW s \in Pass, SkipPid(s)
  PROVE  IInv'
  <1> USE DEF SkipPid, input, pageVars, nodeVars
  <1>1. /\ pc' \in {s, NextPc(s)}
        /\ at' \in [count : Count, pid : Pid, pair : Pair]
        /\ LoopRange'
    BY LoopStep DEF IInv
  <1>2. TypeOK'
    BY <1>1 DEF IInv, TypeOK, PassPc, NextPc, Pass
  <1>3. Ledger'
    <2> SUFFICES ASSUME NEW j \in Pair PROVE Books(j)'
      BY DEF Ledger
    <2>1. Books(j)
      BY DEF IInv, Ledger
    <2>2. UNCHANGED <<conf, mem, cap, used, moved, quota, free, cold_replaced>>
      OBVIOUS
    <2>3. pc = s
      OBVIOUS
    <2> HIDE DEF SkipPid, input, pageVars, nodeVars
    <2>4. CASE s = "hot"
      <3>1. pc = "hot" /\ pc' \in {"hot", "prefetch_cal"}
        BY <1>1, <2>3, <2>4 DEF NextPc
      <3> QED BY <2>1, <2>2, <3>1 DEF Books
    <2>5. CASE s = "prefetch"
      <3>1. pc = "prefetch" /\ pc' \in {"prefetch", "cold_cal"}
        BY <1>1, <2>3, <2>5 DEF NextPc
      <3> QED BY <2>1, <2>2, <3>1 DEF Books
    <2>6. CASE s = "cold"
      <3>1. pc = "cold" /\ pc' \in {"cold", "done"}
        BY <1>1, <2>3, <2>6 DEF NextPc
      <3> QED BY <2>1, <2>2, <3>1 DEF Books
    <2> QED BY <2>4, <2>5, <2>6 DEF Pass
  <1>4. EnoughExact'
    BY <1>1, ZenonT(40) DEF IInv, EnoughExact, NextPc, Pass
  <1> QED BY <1>1, <1>2, <1>3, <1>4 DEF IInv

(* The hot pass is set up: its caps respect the quota, and twice over what *)
(* goes beyond the free memory.                                            *)
LEMMA CalHotInv ==
  ASSUME IInv, CalHot
  PROVE  IInv'
  <1> DEFINE c == [j \in Pair |-> HotCan(j)]
  <1>1. ASSUME NEW j \in Pair
        PROVE  /\ HotCan(j) \in Nat
               /\ HotCan(j) <= quota[j]
               /\ HotCan(j) > free[j] => 2 * HotCan(j) <= quota[j] + free[j]
    <2>1. /\ quota[j] \in Nat /\ free[j] \in Nat
          /\ cold_free[j] \in Nat /\ cold[j] \in Nat
      BY DEF IInv, TypeOK
    <2> DEFINE room == IF quota[j] < free[j] THEN quota[j]
                       ELSE Least(free[j] + ((quota[j] - free[j]) \div 2),
                                  free[j] + cold_free[j])
    <2>2. /\ room \in Nat /\ room <= quota[j]
          /\ room > free[j] => 2 * room <= quota[j] + free[j]
      <3>1. CASE quota[j] < free[j]
        BY <2>1, <3>1
      <3>2. CASE ~(quota[j] < free[j])
        <4>1. PICK h \in Nat : h = (quota[j] - free[j]) \div 2
          BY <2>1, <3>2
        <4>2. 2 * h <= quota[j] - free[j]
          BY <2>1, <3>2, <4>1
        <4>3. room = Least(free[j] + h, free[j] + cold_free[j])
          BY <3>2, <4>1
        <4> HIDE DEF room
        <4> QED BY <2>1, <4>2, <4>3 DEF Least
      <3> QED BY <3>1, <3>2
    <2>3. HotCan(j) = Least(room, cold[j] + free[j])
      BY DEF HotCan
    <2> HIDE DEF room
    <2> QED BY <2>1, <2>2, <2>3 DEF Least
  <1>2. c \in [Pair -> Nat] /\ SetUp("hot", c) /\ "hot" \in Pass
    BY <1>1 DEF CalHot, Pass
  <1>3. \A j \in Pair : used["hot"][j] = 0
    <2> SUFFICES ASSUME NEW j \in Pair PROVE used["hot"][j] = 0
      OBVIOUS
    <2>1. Books(j) /\ pc = "hot_cal"
      BY DEF IInv, Ledger, CalHot
    <2>2. cap["hot"][j] = 0 /\ used["hot"][j] <= cap["hot"][j]
      BY <1>2, <2>1, ZenonT(60) DEF Books
    <2>3. used["hot"][j] \in Nat
      BY DEF IInv, TypeOK, Pass
    <2> QED BY <2>2, <2>3
  <1>4. /\ cap' \in [Pass -> [Pair -> Nat]]
        /\ enough' \in [Pass -> 0..PairNum]
        /\ EnoughExact'
    BY <1>2, <1>3, SetUpEnough DEF IInv
  <1>5. /\ pc' \in {"hot", "prefetch_cal"}
        /\ at' \in [count : Count, pid : Pid, pair : Pair]
        /\ LoopRange'
    BY <1>2, LoopBegin DEF IInv, NextPc
  <1>6. TypeOK'
    BY <1>4, <1>5 DEF IInv, TypeOK, PassPc, CalHot, SetUp, input, nodeVars, pageVars
  <1>7. Ledger'
    <2> SUFFICES ASSUME NEW j \in Pair PROVE Books(j)'
      BY DEF Ledger
    <2>1. Books(j)
      BY DEF IInv, Ledger
    <2>2. cap' = [cap EXCEPT !["hot"] = c]
      BY <1>2 DEF SetUp
    <2>3. /\ cap'["hot"][j] = HotCan(j)
          /\ cap'["prefetch"][j] = cap["prefetch"][j]
          /\ cap'["cold"][j] = cap["cold"][j]
      BY <2>2 DEF IInv, TypeOK, Pass
    <2>4. UNCHANGED <<conf, mem, used, moved, quota, free, cold_replaced>>
      BY DEF CalHot, SetUp, input, nodeVars, pageVars
    <2>5. /\ quota[j] = conf.mig_quota /\ free[j] = mem[j].free
          /\ cold_replaced[j] = 0 /\ cap["prefetch"][j] = 0
          /\ cap["cold"][j] = 0
      <3>1. pc = "hot_cal"
        BY DEF CalHot
      <3> QED BY <2>1, <3>1, ZenonT(60) DEF Books
    <2>6. \A s \in Pass : used[s][j] <= cap'[s][j] /\ moved[s][j] <= used[s][j]
      <3>1. \A s \in Pass : used[s][j] <= cap[s][j] /\ moved[s][j] <= used[s][j]
        BY <2>1, ZenonT(60) DEF Books
      <3>2. used["hot"][j] <= cap'["hot"][j]
        BY <1>1, <1>3, <2>3
      <3> QED BY <3>1, <3>2, <2>3, ZenonT(60) DEF Pass
    <2> QED BY <1>1, <1>5, <2>3, <2>4, <2>5, <2>6 DEF Books
  <1> QED BY <1>4, <1>5, <1>6, <1>7 DEF IInv
=============================================================================
