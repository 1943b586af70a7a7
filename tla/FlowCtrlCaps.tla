---------------------------- MODULE FlowCtrlCaps ----------------------------
(***************************************************************************)
(* Lemmas about FlowCtrl: the set-up of the prefetch pass and of the cold  *)
(* pass, which take what the earlier passes used from what is left, keeps  *)
(* its invariant.                                                          *)
(***************************************************************************)
EXTENDS FlowCtrlLemmas

(* The prefetch pass is set up: what the hot pass used is taken from the   *)
(* free memory and the quota, with nothing going below zero.               *)
LEMMA CalPrefetchInv ==
  ASSUME IInv, CalPrefetch
  PROVE  IInv'
  <1> DEFINE c == [j \in Pair |-> PrefetchCan(free'[j], quota'[j])]
  <1>1. ASSUME NEW j \in Pair
        PROVE  /\ Replaced(j) = IF used["hot"][j] > mem[j].free
                                THEN used["hot"][j] - mem[j].free ELSE 0
               /\ Replaced(j) \in Nat
               /\ free'[j] = mem[j].free - used["hot"][j] + Replaced(j)
               /\ free'[j] \in Nat
               /\ quota'[j] = conf.mig_quota - used["hot"][j] - Replaced(j)
               /\ quota'[j] \in Nat
               /\ cold_free'[j] \in Nat
               /\ cold_replaced'[j] = Replaced(j)
               /\ PrefetchCan(free'[j], quota'[j]) \in Nat
               /\ PrefetchCan(free'[j], quota'[j]) <= quota'[j]
               /\ PrefetchCan(free'[j], quota'[j]) > 0 =>
                    PrefetchCan(free'[j], quota'[j]) <= free'[j] - conf.hot_reserve
    <2>1. /\ quota[j] \in Nat /\ free[j] \in Nat /\ cold_free[j] \in Nat
          /\ used["hot"][j] \in Nat /\ cap["hot"][j] \in Nat
          /\ mem[j].free \in Nat
          /\ conf.mig_quota \in Nat /\ conf.hot_reserve \in Nat
      BY DEF IInv, TypeOK, Pass
    <2>2. /\ quota[j] = conf.mig_quota /\ free[j] = mem[j].free
          /\ cold_replaced[j] = 0
          /\ used["hot"][j] <= cap["hot"][j]
          /\ cap["hot"][j] <= conf.mig_quota
          /\ cap["hot"][j] > mem[j].free =>
               2 * cap["hot"][j] <= conf.mig_quota + mem[j].free
      BY DEF IInv, Ledger, Books, CalPrefetch, Pass
    <2>3. /\ free'[j] = free[j] - (used["hot"][j] - Replaced(j))
          /\ quota'[j] = quota[j] - (used["hot"][j] + Replaced(j))
          /\ cold_free'[j] = cold_free[j] + used["hot"][j] - Replaced(j)
          /\ cold_replaced'[j] = cold_replaced[j] + Replaced(j)
      BY DEF CalPrefetch
    <2>4. /\ Replaced(j) = IF used["hot"][j] > mem[j].free
                           THEN used["hot"][j] - mem[j].free ELSE 0
          /\ Replaced(j) \in Nat
      BY <2>1, <2>2 DEF Replaced
    <2>5. /\ free'[j] \in Nat /\ quota'[j] \in Nat /\ cold_free'[j] \in Nat
      BY <2>1, <2>2, <2>3, <2>4
    <2>6. /\ PrefetchCan(free'[j], quota'[j]) \in Nat
          /\ PrefetchCan(free'[j], quota'[j]) <= quota'[j]
          /\ PrefetchCan(free'[j], quota'[j]) > 0 =>
               PrefetchCan(free'[j], quota'[j]) <= free'[j] - conf.hot_reserve
      BY <2>1, <2>5, PrefetchCanBound, ZenonT(60)
    <2>7. /\ free'[j] = mem[j].free - used["hot"][j] + Replaced(j)
          /\ quota'[j] = conf.mig_quota - used["hot"][j] - Replaced(j)
          /\ cold_replaced'[j] = Replaced(j)
      BY <2>1, <2>2, <2>3, <2>4
    <2> QED BY <2>4, <2>5, <2>6, <2>7, ZenonT(60)
  <1>2. c \in [Pair -> Nat] /\ SetUp("prefetch", c) /\ "prefetch" \in Pass
    BY <1>1 DEF CalPrefetch, Pass
  <1>3. \A j \in Pair : used["prefetch"][j] = 0
    <2> SUFFICES ASSUME NEW j \in Pair PROVE used["prefetch"][j] = 0
      OBVIOUS
    <2>1. Books(j) /\ pc = "prefetch_cal"
      BY DEF IInv, Ledger, CalPrefetch
    <2>2. cap["prefetch"][j] = 0 /\ used["prefetch"][j] <= cap["prefetch"][j]
      BY <1>2, <2>1, ZenonT(60) DEF Books
    <2>3. used["prefetch"][j] \in Nat
      BY DEF IInv, TypeOK, Pass
    <2> QED BY <2>2, <2>3
  <1>4. /\ cap' \in [Pass -> [Pair -> Nat]]
        /\ enough' \in [Pass -> 0..PairNum]
        /\ EnoughExact'
    BY <1>2, <1>3, SetUpEnough DEF IInv
  <1>5. /\ pc' \in {"prefetch", "cold_cal"}
        /\ at' \in [count : Count, pid : Pid, pair : Pair]
        /\ LoopRange'
    BY <1>2, LoopBegin, ZenonT(60) DEF IInv, NextPc
  <1>6. TypeOK'
    <2>1. /\ free' \in [Pair -> Nat] /\ quota' \in [Pair -> Nat]
          /\ cold_free' \in [Pair -> Nat] /\ cold_replaced' \in [Pair -> Nat]
      BY <1>1 DEF CalPrefetch
    <2> QED BY <1>4, <1>5, <2>1
            DEF IInv, TypeOK, PassPc, CalPrefetch, SetUp, input, pageVars
  <1>7. Ledger'
    <2> SUFFICES ASSUME NEW j \in Pair PROVE Books(j)'
      BY DEF Ledger
    <2>1. Books(j)
      BY DEF IInv, Ledger
    <2>2. cap' = [cap EXCEPT !["prefetch"] = c]
      BY <1>2 DEF SetUp
    <2>3. /\ cap'["prefetch"][j] = PrefetchCan(free'[j], quota'[j])
          /\ cap'["hot"][j] = cap["hot"][j]
          /\ cap'["cold"][j] = cap["cold"][j]
      BY <2>2 DEF IInv, TypeOK, Pass
    <2>4. UNCHANGED <<conf, mem, used, moved>>
      BY DEF CalPrefetch, SetUp, input, pageVars
    <2>5. /\ cap["hot"][j] <= conf.mig_quota
          /\ cap["hot"][j] > mem[j].free =>
               2 * cap["hot"][j] <= conf.mig_quota + mem[j].free
          /\ cap["cold"][j] = 0
      BY <2>1 DEF Books, CalPrefetch
    <2>6. \A s \in Pass : used[s][j] <= cap'[s][j] /\ moved[s][j] <= used[s][j]
      <3>1. \A s \in Pass : used[s][j] <= cap[s][j] /\ moved[s][j] <= used[s][j]
        BY <2>1, ZenonT(60) DEF Books
      <3>2. used["prefetch"][j] <= cap'["prefetch"][j]
        <4>1. cap'["prefetch"][j] \in Nat /\ used["prefetch"][j] = 0
          BY <1>1, <1>3, <2>3, ZenonT(60)
        <4> QED BY <4>1
      <3> QED BY <3>1, <3>2, <2>3, ZenonT(60) DEF Pass
    <2>7. PrefetchCan(free'[j], quota'[j]) > 0 =>
            PrefetchCan(free'[j], quota'[j])
              <= mem[j].free - used["hot"][j] - conf.hot_reserve
      <3>1. /\ mem[j].free \in Nat /\ used["hot"][j] \in Nat
            /\ conf.hot_reserve \in Nat
        BY DEF IInv, TypeOK, Pass
      <3> QED BY <1>1, <3>1
    <2> QED BY <1>1, <1>5, <2>3, <2>4, <2>5, <2>6, <2>7 DEF Books
  <1> QED BY <1>4, <1>5, <1>6, <1>7, ZenonT(60) DEF IInv

(* The cold pass is set up: the quota left, and what the hot pass counts on*)
(* being evicted; nothing more where something was prefetched.             *)
LEMMA CalColdInv ==
  ASSUME IInv, CalCold
  PROVE  IInv'
  <1> DEFINE can(j) == ColdCan(free'[j], cold_free'[j], quota'[j]) + cold_replaced[j]
             c == [j \in Pair |-> can(j)]
  <1>1. ASSUME NEW j \in Pair
        PROVE  /\ free'[j] \in Nat /\ quota'[j] \in Nat /\ cold_free'[j] \in Nat
               /\ can(j) \in Nat
               /\ can(j) <= conf.mig_quota - used["hot"][j] - used["prefetch"][j]
               /\ used["prefetch"][j] > 0 => can(j) = 0
    <2>1. /\ quota[j] \in Nat /\ free[j] \in Nat /\ cold_free[j] \in Nat
          /\ used["hot"][j] \in Nat /\ used["prefetch"][j] \in Nat
          /\ cap["prefetch"][j] \in Nat /\ cold_replaced[j] \in Nat
          /\ mem[j].free \in Nat
          /\ conf.mig_quota \in Nat /\ conf.hot_reserve \in Nat
      BY DEF IInv, TypeOK, Pass
    <2>r. cold_replaced[j] = IF used["hot"][j] > mem[j].free
                             THEN used["hot"][j] - mem[j].free ELSE 0
      BY DEF IInv, Ledger, Books, CalCold
    <2>2. /\ quota[j] = conf.mig_quota - used["hot"][j] - cold_replaced[j]
          /\ free[j] = mem[j].free - used["hot"][j] + cold_replaced[j]
          /\ used["prefetch"][j] <= cap["prefetch"][j]
          /\ cap["prefetch"][j] <= conf.mig_quota - used["hot"][j] - cold_replaced[j]
          /\ cap["prefetch"][j] > 0 =>
               cap["prefetch"][j] <= mem[j].free - used["hot"][j] - conf.hot_reserve
      BY DEF IInv, Ledger, Books, CalCold, Pass
    <2>3. /\ free'[j] = free[j] - used["prefetch"][j]
          /\ quota'[j] = quota[j] - used["prefetch"][j]
          /\ cold_free'[j] = cold_free[j] + used["prefetch"][j]
      BY DEF CalCold
    <2>4. free'[j] \in Nat /\ quota'[j] \in Nat /\ cold_free'[j] \in Nat
      BY <2>1, <2>2, <2>3
    <2>5. /\ ColdCan(free'[j], cold_free'[j], quota'[j]) \in Nat
          /\ ColdCan(free'[j], cold_free'[j], quota'[j]) <= quota'[j]
          /\ free'[j] >= conf.hot_reserve =>
               ColdCan(free'[j], cold_free'[j], quota'[j]) = 0
      BY <2>1, <2>4, ColdCanBound, ZenonT(60)
    <2>6. used["prefetch"][j] > 0 => free'[j] >= conf.hot_reserve /\ cold_replaced[j] = 0
      <3> SUFFICES ASSUME used["prefetch"][j] > 0
                   PROVE  free'[j] >= conf.hot_reserve /\ cold_replaced[j] = 0
        OBVIOUS
      <3>1. used["prefetch"][j] <= mem[j].free - used["hot"][j] - conf.hot_reserve
        BY <2>1, <2>2
      <3>2. ~(used["hot"][j] > mem[j].free)
        BY <2>1, <3>1
      <3>3. cold_replaced[j] = 0
        BY <2>r, <3>2, ZenonT(60)
      <3>4. free[j] = mem[j].free - used["hot"][j] + cold_replaced[j]
        BY <2>2, ZenonT(60)
      <3>5. free'[j] = free[j] - used["prefetch"][j]
        BY <2>3, ZenonT(60)
      <3> QED BY <2>1, <3>1, <3>3, <3>4, <3>5
    <2> DEFINE x == ColdCan(free'[j], cold_free'[j], quota'[j])
    <2>7. x \in Nat /\ x <= quota'[j] /\ (free'[j] >= conf.hot_reserve => x = 0)
      BY <2>5
    <2> HIDE DEF x
    <2>8. /\ x + cold_replaced[j] \in Nat
          /\ x + cold_replaced[j]
               <= conf.mig_quota - used["hot"][j] - used["prefetch"][j]
          /\ used["prefetch"][j] > 0 => x + cold_replaced[j] = 0
      <3>1. x + cold_replaced[j] \in Nat
        BY <2>1, <2>7
      <3>2. quota'[j] = conf.mig_quota - used["hot"][j] - cold_replaced[j]
                          - used["prefetch"][j]
        BY <2>2, <2>3
      <3>3. x + cold_replaced[j]
               <= conf.mig_quota - used["hot"][j] - used["prefetch"][j]
        BY <2>1, <2>7, <3>2
      <3>4. used["prefetch"][j] > 0 => x + cold_replaced[j] = 0
        BY <2>1, <2>6, <2>7
      <3> QED BY <3>1, <3>3, <3>4
    <2> QED BY <2>4, <2>8 DEF x
  <1>2. c \in [Pair -> Nat] /\ SetUp("cold", c) /\ "cold" \in Pass
    BY <1>1 DEF CalCold, Pass
  <1>3. \A j \in Pair : used["cold"][j] = 0
    <2> SUFFICES ASSUME NEW j \in Pair PROVE used["cold"][j] = 0
      OBVIOUS
    <2>1. Books(j) /\ pc = "cold_cal"
      BY DEF IInv, Ledger, CalCold
    <2>2. cap["cold"][j] = 0 /\ used["cold"][j] <= cap["cold"][j]
      BY <1>2, <2>1, ZenonT(60) DEF Books
    <2>3. used["cold"][j] \in Nat
      BY DEF IInv, TypeOK, Pass
    <2> QED BY <2>2, <2>3
  <1>4. /\ cap' \in [Pass -> [Pair -> Nat]]
        /\ enough' \in [Pass -> 0..PairNum]
        /\ EnoughExact'
    BY <1>2, <1>3, SetUpEnough DEF IInv
  <1>5. /\ pc' \in {"cold", "done"}
        /\ at' \in [count : Count, pid : Pid, pair : Pair]
        /\ LoopRange'
    BY <1>2, LoopBegin, ZenonT(60) DEF IInv, NextPc
  <1>6. TypeOK'
    <2>1. /\ free' \in [Pair -> Nat] /\ quota' \in [Pair -> Nat]
          /\ cold_free' \in [Pair -> Nat]
      BY <1>1 DEF CalCold
    <2> QED BY <1>4, <1>5, <2>1
            DEF IInv, TypeOK, PassPc, CalCold, SetUp, input, pageVars
  <1>7. Ledger'
    <2> SUFFICES ASSUME NEW j \in Pair PROVE Books(j)'
      BY DEF Ledger
    <2>1. Books(j)
      BY DEF IInv, Ledger
    <2>2. cap' = [cap EXCEPT !["cold"] = c]
      BY <1>2 DEF SetUp
    <2>3. /\ cap'["cold"][j] = can(j)
          /\ cap'["hot"][j] = cap["hot"][j]
          /\ cap'["prefetch"][j] = cap["prefetch"][j]
      BY <2>2 DEF IInv, TypeOK, Pass
    <2>4. UNCHANGED <<conf, mem, used, moved, cold_replaced>>
      BY DEF CalCold, SetUp, input, pageVars
    <2>5. \A s \in Pass : used[s][j] <= cap'[s][j] /\ moved[s][j] <= used[s][j]
      <3>1. \A s \in Pass : used[s][j] <= cap[s][j] /\ moved[s][j] <= used[s][j]
        BY <2>1, ZenonT(60) DEF Books
      <3>2. used["cold"][j] <= cap'["cold"][j]
        <4>1. cap'["cold"][j] \in Nat /\ used["cold"][j] = 0
          BY <1>1, <1>3, <2>3, ZenonT(60)
        <4> QED BY <4>1
      <3> QED BY <3>1, <3>2, <2>3, ZenonT(60) DEF Pass
    <2>6. /\ cap["hot"][j] <= conf.mig_quota
          /\ cap["hot"][j] > mem[j].free =>
               2 * cap["hot"][j] <= conf.mig_quota + mem[j].free
          /\ cold_replaced[j] = IF used["hot"][j] > mem[j].free
                                THEN used["hot"][j] - mem[j].free ELSE 0
          /\ cap["prefetch"][j] <= conf.mig_quota - used["hot"][j]
               - (IF used["hot"][j] > mem[j].free
                  THEN used["hot"][j] - mem[j].free ELSE 0)
          /\ cap["prefetch"][j] > 0 =>
               cap["prefetch"][j] <= mem[j].free - used["hot"][j] - conf.hot_reserve
      BY <2>1 DEF Books, CalCold
    <2>7. /\ can(j) <= conf.mig_quota - used["hot"][j] - used["prefetch"][j]
          /\ used["prefetch"][j] > 0 => can(j) = 0
      BY <1>1
    <2> HIDE DEF can
    <2> QED BY <1>5, <2>3, <2>4, <2>5, <2>6, <2>7 DEF Books
  <1> QED BY <1>4, <1>5, <1>6, <1>7 DEF IInv
=============================================================================
