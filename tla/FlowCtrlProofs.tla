--------------------------- MODULE FlowCtrlProofs ---------------------------
(***************************************************************************)
(* Proofs about FlowCtrl for any number of pairs, processes and counts,    *)
(* any page size and any configuration.                                    *)
(***************************************************************************)
EXTENDS FlowCtrlCaps

(* One visit of a pass to a process and a pair. *)
LEMMA FilterPolicyInv ==
  ASSUME IInv, NEW s \in Pass, FilterPolicy(s)
  PROVE  IInv'
  <1> DEFINE j == at.pair
             size == npf(s)[at.count][at.pid][j]
             g == Grant(s, j, size)
             m == MovedSize(size, g)
             full == used[s][j] < cap[s][j] /\ size >= cap[s][j] - used[s][j]
  <1>1. /\ pc = s
        /\ used' = [used EXCEPT ![s][j] = @ + g]
        /\ enough' = IF full THEN [enough EXCEPT ![s] = @ + 1] ELSE enough
        /\ moved' = [moved EXCEPT ![s][j] = @ + m]
        /\ TakePages(s, at.count, at.pid, j, m)
        /\ \/ enough'[s] = PairNum /\ pc' = NextPc(s) /\ at' = at
           \/ enough'[s] # PairNum /\ NextPair(s)
        /\ UNCHANGED <<conf, mem, working, cold, free, cold_free, cold_replaced,
                       quota, cap, disturbed>>
    BY DEF FilterPolicy, input, nodeVars
  <1>2. at.count \in Count /\ at.pid \in Pid /\ j \in Pair
    BY DEF IInv, TypeOK
  <1>3. size \in Nat
    BY <1>2 DEF IInv, TypeOK, npf
  <1> HIDE DEF j, size
  <1>4. /\ g \in Nat /\ g <= size
        /\ used[s][j] + g <= cap[s][j]
        /\ full => used[s][j] + g = cap[s][j]
        /\ used[s][j] < cap[s][j] /\ ~full => used[s][j] + g < cap[s][j]
        /\ used[s][j] >= cap[s][j] => g = 0
    <2>1. used[s][j] \in Nat /\ cap[s][j] \in Nat
      BY <1>2 DEF IInv, TypeOK
    <2> QED BY <1>2, <1>3, <2>1, GrantBound DEF IInv
  <1>5. m \in Nat /\ m <= size /\ m <= g
    BY <1>3, <1>4, MovedBound
  <1> HIDE DEF g, m
  <1>6. /\ pc' \in {s, NextPc(s)}
        /\ at' \in [count : Count, pid : Pid, pair : Pair]
        /\ LoopRange'
    <2>1. CASE pc' = NextPc(s) /\ at' = at
      BY <2>1 DEF IInv, TypeOK, LoopRange, NextPc, Pass
    <2>2. CASE NextPair(s)
      BY <1>1, <2>2, LoopStep DEF IInv
    <2> QED BY <1>1, <2>1, <2>2
  <1>7. /\ used' \in [Pass -> [Pair -> Nat]]
        /\ moved' \in [Pass -> [Pair -> Nat]]
        /\ \A t \in Pass, k \in Pair :
             /\ used'[t][k] = IF t = s /\ k = j THEN used[s][j] + g ELSE used[t][k]
             /\ moved'[t][k] = IF t = s /\ k = j THEN moved[s][j] + m ELSE moved[t][k]
    BY <1>1, <1>2, <1>4, <1>5 DEF IInv, TypeOK
  <1>8. EnoughExact' /\ enough' \in [Pass -> 0..PairNum]
    <2> DEFINE Out(t) == {k \in Pair : used[t][k] >= cap[t][k]}
               OutN(t) == {k \in Pair : used'[t][k] >= cap'[t][k]}
    <2>1. \A t \in Pass \ {s} : OutN(t) = Out(t) /\ enough'[t] = enough[t]
      BY <1>1, <1>7, ZenonT(60) DEF IInv, TypeOK
    <2>2. enough[s] = Cardinality(Out(s))
      BY <1>1 DEF IInv, EnoughExact
    <2>3. enough'[s] = Cardinality(OutN(s))
      <3>a. \A k \in Pair : used[s][k] \in Nat /\ cap[s][k] \in Nat
        BY DEF IInv, TypeOK
      <3>b. \A k \in Pair : /\ cap'[s][k] = cap[s][k]
                            /\ k # j => used'[s][k] = used[s][k]
        BY <1>1, <1>7, ZenonT(60)
      <3>c. used'[s][j] = used[s][j] + g
        BY <1>2, <1>7, ZenonT(60)
      <3>d. /\ used[s][j] \in Nat /\ cap[s][j] \in Nat
            /\ cap'[s][j] = cap[s][j]
        BY <3>a, <3>b, <1>2, ZenonT(60)
      <3>1. CASE full
        <4>1. used[s][j] < cap[s][j] /\ used[s][j] + g = cap[s][j]
          BY <3>1, <1>4, ZenonT(60)
        <4>2. ~(used[s][j] >= cap[s][j]) /\ used'[s][j] >= cap'[s][j]
          <5> HIDE DEF full
          <5> QED BY <3>c, <3>d, <4>1, <1>4
        <4>3. j \notin Out(s)
          BY <4>2
        <4>4. ASSUME NEW k \in Pair
              PROVE  k \in OutN(s) <=> k \in Out(s) \cup {j}
          <5>1. CASE k = j
            BY <5>1, <4>2
          <5>2. CASE k # j
            BY <5>2, <3>b
          <5> QED BY <5>1, <5>2
        <4>5. OutN(s) = Out(s) \cup {j}
          BY <4>4, <1>2
        <4>6. Cardinality(OutN(s)) = Cardinality(Out(s)) + 1
          BY <4>3, <4>5, PairFinite, FS_AddElement
        <4>7. enough'[s] = enough[s] + 1
          BY <3>1, <1>1, ZenonT(60) DEF IInv, TypeOK
        <4> QED BY <2>2, <4>6, <4>7
      <3>2. CASE ~full
        <4>1. used'[s][j] >= cap'[s][j] <=> used[s][j] >= cap[s][j]
          <5>1. /\ used[s][j] < cap[s][j] => used[s][j] + g < cap[s][j]
                /\ used[s][j] >= cap[s][j] => g = 0
            BY <3>2, <1>4, ZenonT(60)
          <5> HIDE DEF full
          <5> QED BY <3>c, <3>d, <5>1, <1>4
        <4>2. ASSUME NEW k \in Pair
              PROVE  k \in OutN(s) <=> k \in Out(s)
          <5>1. CASE k = j
            BY <5>1, <4>1
          <5>2. CASE k # j
            BY <5>2, <3>b
          <5> QED BY <5>1, <5>2
        <4>3. OutN(s) = Out(s)
          BY <4>2
        <4>4. enough' = enough
          BY <3>2, <1>1, ZenonT(60)
        <4> QED BY <2>2, <4>3, <4>4, ZenonT(60)
      <3> QED BY <3>1, <3>2
    <2>4. enough' \in [Pass -> 0..PairNum]
      <3>1. Cardinality(OutN(s)) \in 0..PairNum
        BY PairFinite
      <3>2. DOMAIN enough' = Pass /\ enough' = [t \in Pass |-> enough'[t]]
        BY <1>1 DEF IInv, TypeOK
      <3> QED BY <2>1, <2>3, <3>1, <3>2 DEF IInv, TypeOK
    <2>5. \A t \in Pass : t # s => pc' # t
      BY <1>6 DEF NextPc, Pass
    <2> QED BY <2>1, <2>3, <2>4, <2>5 DEF IInv, EnoughExact
  <1>9. /\ on_hot' \in [Count -> [Pid -> [Pair -> Nat]]]
        /\ on_cold' \in [Count -> [Pid -> [Pair -> Nat]]]
    <2>1. ASSUME NEW f \in [Count -> [Pid -> [Pair -> Nat]]], NEW n \in Count,
                 NEW p \in Pid, NEW k \in Pair, f[n][p][k] - m \in Nat
          PROVE  [f EXCEPT ![n][p][k] = @ - m] \in [Count -> [Pid -> [Pair -> Nat]]]
      BY <2>1
    <2>2. size - m \in Nat
      BY <1>3, <1>5
    <2>3. CASE s = "cold"
      <3>1. on_hot[at.count][at.pid][j] - m \in Nat
        BY <2>2, <2>3 DEF size, npf
      <3>2. on_hot' = [on_hot EXCEPT ![at.count][at.pid][j] = @ - m] /\ on_cold' = on_cold
        BY <1>1, <2>3 DEF TakePages
      <3>3. /\ on_hot \in [Count -> [Pid -> [Pair -> Nat]]]
            /\ on_cold \in [Count -> [Pid -> [Pair -> Nat]]]
        BY DEF IInv, TypeOK
      <3>4. on_hot' \in [Count -> [Pid -> [Pair -> Nat]]]
        BY <1>2, <2>1, <3>1, <3>2, <3>3, ZenonT(60)
      <3> QED BY <3>2, <3>3, <3>4
    <2>4. CASE s # "cold"
      <3>1. on_cold[at.count][at.pid][j] - m \in Nat
        BY <2>2, <2>4 DEF size, npf
      <3>2. on_cold' = [on_cold EXCEPT ![at.count][at.pid][j] = @ - m] /\ on_hot' = on_hot
        BY <1>1, <2>4 DEF TakePages
      <3>3. /\ on_cold \in [Count -> [Pid -> [Pair -> Nat]]]
            /\ on_hot \in [Count -> [Pid -> [Pair -> Nat]]]
        BY ZenonT(60) DEF IInv, TypeOK
      <3>4. on_cold' \in [Count -> [Pid -> [Pair -> Nat]]]
        BY <1>2, <2>1, <3>1, <3>2, <3>3, ZenonT(60)
      <3> QED BY <3>2, <3>3, <3>4
    <2> QED BY <2>3, <2>4
  <1>10. TypeOK'
    BY <1>1, <1>6, <1>7, <1>8, <1>9 DEF IInv, TypeOK, PassPc, NextPc, Pass
  <1>11. Ledger'
    <2> SUFFICES ASSUME NEW k \in Pair PROVE Books(k)'
      BY DEF Ledger
    <2>1. Books(k)
      BY DEF IInv, Ledger
    <2>2. \A t \in Pass : used[t][k] \in Nat /\ cap[t][k] \in Nat /\ moved[t][k] \in Nat
      BY DEF IInv, TypeOK
    <2>3. \A t \in Pass : used'[t][k] <= cap'[t][k] /\ moved'[t][k] <= used'[t][k]
      <3> SUFFICES ASSUME NEW t \in Pass
                   PROVE  used'[t][k] <= cap'[t][k] /\ moved'[t][k] <= used'[t][k]
        OBVIOUS
      <3>1. used[t][k] <= cap[t][k] /\ moved[t][k] <= used[t][k] /\ cap' = cap
        BY <1>1, <2>1 DEF Books
      <3>2. CASE t = s /\ k = j
        <4>1. /\ used'[t][k] = used[t][k] + g /\ moved'[t][k] = moved[t][k] + m
              /\ used[t][k] + g <= cap[t][k] /\ cap'[t][k] = cap[t][k]
          BY <1>4, <1>7, <3>1, <3>2, ZenonT(60)
        <4> HIDE DEF full
        <4>2. g \in Nat /\ m \in Nat /\ m <= g
          BY <1>4, <1>5, ZenonT(60)
        <4>3. used[t][k] \in Nat /\ cap[t][k] \in Nat /\ moved[t][k] \in Nat
          BY <2>2, ZenonT(60)
        <4> QED BY <3>1, <4>1, <4>2, <4>3
      <3>3. CASE ~(t = s /\ k = j)
        BY <1>7, <3>1, <3>3, ZenonT(60)
      <3> QED BY <3>2, <3>3
    <2>4. CASE s = "hot"
      <3>1. pc = "hot" /\ pc' \in {"hot", "prefetch_cal"}
        BY <1>1, <1>6, <2>4 DEF NextPc
      <3> QED BY <1>1, <2>1, <2>3, <3>1 DEF Books
    <2>5. CASE s = "prefetch"
      <3>1. pc = "prefetch" /\ pc' \in {"prefetch", "cold_cal"}
        BY <1>1, <1>6, <2>5 DEF NextPc
      <3>2. used'["hot"][k] = used["hot"][k]
        BY <1>7, <2>5 DEF Pass
      <3>3. /\ cap' = cap /\ conf' = conf /\ mem' = mem /\ quota' = quota
            /\ free' = free /\ cold_replaced' = cold_replaced
        BY <1>1
      <3> QED BY <2>1, <2>3, <3>1, <3>2, <3>3 DEF Books
    <2>6. CASE s = "cold"
      <3>1. pc = "cold" /\ pc' \in {"cold", "done"}
        BY <1>1, <1>6, <2>6 DEF NextPc
      <3>2. /\ used'["hot"][k] = used["hot"][k]
            /\ used'["prefetch"][k] = used["prefetch"][k]
        BY <1>7, <2>6 DEF Pass
      <3>3. /\ cap' = cap /\ conf' = conf /\ mem' = mem /\ quota' = quota
            /\ free' = free /\ cold_replaced' = cold_replaced
        BY <1>1
      <3> QED BY <2>1, <2>3, <3>1, <3>2, <3>3 DEF Books
    <2> QED BY <2>4, <2>5, <2>6 DEF Pass
  <1> QED BY <1>6, <1>8, <1>10, <1>11, ZenonT(60) DEF IInv

-----------------------------------------------------------------------------
(* IInv holds in every state of the passes of cslide_filter_pfs. *)
THEOREM Invariance == Spec => []IInv
  <1>1. IInv /\ [Next]_vars => IInv'
    <2> SUFFICES ASSUME IInv, [Next]_vars PROVE IInv'
      OBVIOUS
    <2>1. CASE CalHot
      BY <2>1, CalHotInv
    <2>2. CASE CalPrefetch
      BY <2>2, CalPrefetchInv
    <2>3. CASE CalCold
      BY <2>3, CalColdInv
    <2>4. CASE \E s \in Pass : SkipPid(s) \/ FilterPolicy(s)
      BY <2>4, SkipPidInv, FilterPolicyInv
    <2>5. CASE \E p \in Pid : Command(p)
      BY <2>5, CommandInv
    <2>6. CASE UNCHANGED vars
      <3> USE <2>6 DEF vars, input, nodeVars, pageVars
      <3>1. TypeOK'
        BY DEF IInv, TypeOK
      <3>2. LoopRange'
        BY DEF IInv, LoopRange
      <3>3. Ledger'
        BY ZenonT(60) DEF IInv, Ledger, Books
      <3>4. EnoughExact'
        BY DEF IInv, EnoughExact
      <3> QED BY <3>1, <3>2, <3>3, <3>4 DEF IInv
    <2> QED BY <2>1, <2>2, <2>3, <2>4, <2>5, <2>6 DEF Next
  <1> QED BY <1>1, InitInv, PTL DEF Spec

(* What the books say on one pair. *)
LEMMA BooksBalance ==
  ASSUME TypeOK, NEW j \in Pair, Books(j)
  PROVE  /\ moved["hot"][j] + moved["prefetch"][j] + moved["cold"][j]
              <= conf.mig_quota
         /\ moved["prefetch"][j] > 0 =>
              /\ moved["cold"][j] = 0
              /\ mem[j].free - moved["hot"][j] - moved["prefetch"][j]
                   >= conf.hot_reserve
  <1>1. \A s \in Pass : used[s][j] \in Nat /\ cap[s][j] \in Nat /\ moved[s][j] \in Nat
    BY DEF TypeOK
  <1>2. /\ mem[j].free \in Nat
        /\ conf.mig_quota \in Nat /\ conf.hot_reserve \in Nat
    BY DEF TypeOK
  <1> DEFINE q == conf.mig_quota
             f == mem[j].free
             u(s) == used[s][j]
             m(s) == moved[s][j]
  <1>3. /\ u("hot") \in Nat /\ m("hot") \in Nat /\ cap["hot"][j] \in Nat
        /\ u("prefetch") \in Nat /\ m("prefetch") \in Nat /\ cap["prefetch"][j] \in Nat
        /\ u("cold") \in Nat /\ m("cold") \in Nat /\ cap["cold"][j] \in Nat
    BY <1>1, ZenonT(60) DEF Pass
  <1>4. /\ m("hot") <= u("hot") /\ u("hot") <= cap["hot"][j]
        /\ m("prefetch") <= u("prefetch") /\ u("prefetch") <= cap["prefetch"][j]
        /\ m("cold") <= u("cold") /\ u("cold") <= cap["cold"][j]
    <2>1. \A s \in Pass : used[s][j] <= cap[s][j] /\ moved[s][j] <= used[s][j]
      BY ZenonT(60) DEF Books
    <2> QED BY <2>1, ZenonT(60) DEF Pass
  <1>5. cap["hot"][j] <= q
    BY ZenonT(60) DEF Books
  <1>6. CASE pc \in {"hot_cal", "hot", "prefetch_cal"}
    <2>1. cap["prefetch"][j] = 0 /\ cap["cold"][j] = 0
      BY <1>6, ZenonT(60) DEF Books
    <2> QED BY <1>3, <1>2, <1>4, <1>5, <2>1
  <1>7. CASE pc \in {"prefetch", "cold_cal", "cold", "done"}
    <2>1. /\ cap["prefetch"][j] <= q - u("hot")
          /\ cap["prefetch"][j] > 0 =>
               cap["prefetch"][j] <= f - u("hot") - conf.hot_reserve
      <3>1. /\ cap["prefetch"][j]
                 <= q - u("hot") - (IF u("hot") > f THEN u("hot") - f ELSE 0)
            /\ cap["prefetch"][j] > 0 =>
                 cap["prefetch"][j] <= f - u("hot") - conf.hot_reserve
        BY <1>7, ZenonT(60) DEF Books
      <3> QED BY <1>2, <1>3, <3>1
    <2>2. CASE pc \in {"prefetch", "cold_cal"}
      <3>1. cap["cold"][j] = 0
        BY <2>2, ZenonT(60) DEF Books
      <3> QED BY <1>3, <1>2, <1>4, <2>1, <3>1
    <2>3. CASE pc \in {"cold", "done"}
      <3>1. /\ cap["cold"][j] <= q - u("hot") - u("prefetch")
            /\ u("prefetch") > 0 => cap["cold"][j] = 0
        BY <2>3, ZenonT(60) DEF Books
      <3> QED BY <1>3, <1>2, <1>4, <2>1, <3>1
    <2> QED BY <1>7, <2>2, <2>3
  <1> QED BY <1>6, <1>7 DEF TypeOK, PassPc

(* node_mig_quota bounds what a round moves on every pair, in both         *)
(* directions together, for every configuration and whatever commands      *)
(* arrive during the passes.                                               *)
THEOREM QuotaHolds == Spec => []QuotaKept
  <1>1. IInv => QuotaKept
    BY BooksBalance DEF IInv, Ledger, QuotaKept
  <1> QED BY <1>1, Invariance, PTL

(* A round that prefetches into a hot node evicts nothing from it. *)
THEOREM NoPingPongHolds == Spec => []NoPingPong
  <1>1. IInv => NoPingPong
    BY BooksBalance DEF IInv, Ledger, NoPingPong
  <1> QED BY <1>1, Invariance, PTL

(* Prefetching never uses the reserve of the hot node. *)
THEOREM ReserveHolds == Spec => []ReserveKept
  <1>1. IInv => ReserveKept
    BY BooksBalance DEF IInv, Ledger, ReserveKept
  <1> QED BY <1>1, Invariance, PTL

(* The counter that ends a pass early counts exactly the exhausted pairs. *)
THEOREM EnoughHolds == Spec => []EnoughExact
  BY Invariance, PTL DEF IInv
=============================================================================
