------------------------------ MODULE FlowCtrl ------------------------------
(***************************************************************************)
(* The migration decision of the cslide engine (cslide_filter_pfs): three  *)
(* passes over the counted pages decide which pages of each pair of NUMA   *)
(* nodes go from the cold to the hot node ("hot": pages at or above the    *)
(* threshold, "prefetch": pages below it, into spare room) and which go    *)
(* from the hot to the cold node ("cold").  Each pass is limited by what   *)
(* the passes before it used of the quota and of the free memory.          *)
(*                                                                         *)
(* While cslide_main runs the passes, the command thread may stop or       *)
(* restart tasks, which takes processes out of the iteration or back in.   *)
(*                                                                         *)
(* Sizes are in an arbitrary unit of which a (2 MB) page is PageSize.      *)
(***************************************************************************)
EXTENDS Integers, FiniteSets, Functions

CONSTANTS
  PairNum,    \* node_map.cur_num
  PidNum,     \* length of factory->working_head
  MaxCount,   \* loop * MAX_ACCESS_WEIGHT
  PageSize,   \* size of a page
  Quotas,     \* values of node_mig_quota
  Reserves,   \* values of node_hot_reserve
  Frees,      \* free memory a node may have
  Sizes,      \* memory one process may have on a node at one access count
  Commands    \* whether the command thread stops and restarts tasks

ASSUME FlowAssumption ==
  /\ PairNum \in Nat \ {0}
  /\ PidNum \in Nat \ {0}
  /\ MaxCount \in Nat
  /\ PageSize \in Nat \ {0}
  /\ Quotas \subseteq Nat
  /\ Reserves \subseteq Nat
  /\ Frees \subseteq Nat
  /\ Sizes \subseteq Nat
  /\ Commands \in BOOLEAN

Pair == 0..(PairNum - 1)
Pid == 1..PidNum
Count == 0..MaxCount
Pass == {"hot", "prefetch", "cold"}

VARIABLES
  conf,          \* mig_quota, hot_reserve and hot_threshold of the engine
  mem,           \* sys_mem: free and cold_free of every pair at the start
  working,       \* processes whose params are in STATE_WORKING
  on_hot,        \* npf->size on the hot node, by count, process and pair
  on_cold,       \* npf->size on the cold node
  cold,          \* node_ctrl.cold, by pair; likewise the next four
  free,
  cold_free,
  cold_replaced,
  quota,
  cap,           \* ctrl_cap.cap, by pass and pair
  used,          \* ctrl_cap.used
  enough,        \* hot_enough, prefetch_enough, cold_enough
  moved,         \* size put on the lists of memory_grade, by pass and pair
  pc,            \* pass being run, or about to be set up ("..._cal")
  at,            \* loop variables of do_filter
  disturbed      \* whether a command changed working since cslide_stat

input == <<conf, mem>>
nodeVars == <<free, cold_free, cold_replaced, quota>>
pageVars == <<on_hot, on_cold, moved>>
vars == <<input, working, pageVars, cold, nodeVars, cap, used, enough, pc, at,
          disturbed>>

PassPc == {"hot_cal", "hot", "prefetch_cal", "prefetch", "cold_cal", "cold",
           "done"}

TypeOK ==
  /\ conf \in [mig_quota : Nat, hot_reserve : Nat, hot_threshold : 0..(MaxCount + 1)]
  /\ mem \in [Pair -> [free : Nat, cold_free : Nat]]
  /\ working \in SUBSET Pid
  /\ on_hot \in [Count -> [Pid -> [Pair -> Nat]]]
  /\ on_cold \in [Count -> [Pid -> [Pair -> Nat]]]
  /\ cold \in [Pair -> Nat]
  /\ free \in [Pair -> Nat]
  /\ cold_free \in [Pair -> Nat]
  /\ cold_replaced \in [Pair -> Nat]
  /\ quota \in [Pair -> Nat]
  /\ cap \in [Pass -> [Pair -> Nat]]
  /\ used \in [Pass -> [Pair -> Nat]]
  /\ enough \in [Pass -> 0..PairNum]
  /\ moved \in [Pass -> [Pair -> Nat]]
  /\ pc \in PassPc
  /\ at \in [count : Count, pid : Pid, pair : Pair]
  /\ disturbed \in BOOLEAN

Least(a, b) == IF a < b THEN a ELSE b

(* update_pages_info: cold memory on the hot node of pair j, as cslide_stat *)
(* sums it over the working processes.                                     *)
ColdPages(j, threshold) ==
  LET below == {c \in Count : c < threshold}
  IN  SumFunction([p \in Pid |->
        SumFunction([c \in below |-> on_hot[c][p][j]])])

(* cslide_stat and init_flow_ctrl: a threshold of up to MaxCount + 1 is    *)
(* what fill_hot_threshold lets through.                                   *)
Init ==
  /\ conf \in [mig_quota : Quotas, hot_reserve : Reserves,
               hot_threshold : 0..(MaxCount + 1)]
  /\ mem \in [Pair -> [free : Frees, cold_free : Frees]]
  /\ working = Pid
  /\ on_hot \in [Count -> [Pid -> [Pair -> Sizes]]]
  /\ on_cold \in [Count -> [Pid -> [Pair -> Sizes]]]
  /\ cold = [j \in Pair |-> ColdPages(j, conf.hot_threshold)]
  /\ cold \in [Pair -> Nat]
  /\ free = [j \in Pair |-> mem[j].free]
  /\ cold_free = [j \in Pair |-> mem[j].cold_free]
  /\ cold_replaced = [j \in Pair |-> 0]
  /\ quota = [j \in Pair |-> conf.mig_quota]
  /\ cap = [s \in Pass |-> [j \in Pair |-> 0]]
  /\ used = [s \in Pass |-> [j \in Pair |-> 0]]
  /\ enough = [s \in Pass |-> 0]
  /\ moved = [s \in Pass |-> [j \in Pair |-> 0]]
  /\ pc = "hot_cal"
  /\ at = [count |-> 0, pid |-> 1, pair |-> 0]
  /\ disturbed = FALSE

-----------------------------------------------------------------------------
(* The loop of do_filter, as move_hot_pages, prefetch_hot_pages and        *)
(* move_cold_pages set it up.                                              *)

count_start(s) == CASE s = "hot" -> MaxCount
                    [] s = "prefetch" -> conf.hot_threshold - 1
                    [] s = "cold" -> 0

(* Mutant of count_end: the cold pass also looks at the threshold itself. *)
count_end_past(s) == CASE s = "hot" -> conf.hot_threshold - 1
                       [] s = "prefetch" -> -1
                       [] s = "cold" -> conf.hot_threshold + 1

count_end(s) == CASE s = "hot" -> conf.hot_threshold - 1
                  [] s = "prefetch" -> -1
                  [] s = "cold" -> conf.hot_threshold

count_step(s) == IF s = "cold" THEN 1 ELSE -1

NextPc(s) == CASE s = "hot" -> "prefetch_cal"
               [] s = "prefetch" -> "cold_cal"
               [] s = "cold" -> "done"

NextCount(s) ==
  IF at.count + count_step(s) = count_end(s)
  THEN pc' = NextPc(s) /\ UNCHANGED at
  ELSE /\ at' = [count |-> at.count + count_step(s), pid |-> 1, pair |-> 0]
       /\ UNCHANGED pc

NextPid(s) ==
  IF at.pid < PidNum
  THEN at' = [at EXCEPT !.pid = @ + 1, !.pair = 0] /\ UNCHANGED pc
  ELSE NextCount(s)

NextPair(s) ==
  IF at.pair < PairNum - 1
  THEN at' = [at EXCEPT !.pair = @ + 1] /\ UNCHANGED pc
  ELSE NextPid(s)

(* flow_cal_func stored the caps c of pass s; the loop starts unless every *)
(* pair is done already or there is no count to look at.                   *)
SetUp(s, c) ==
  LET n == Cardinality({j \in Pair : c[j] <= 0})
  IN  /\ cap' = [cap EXCEPT ![s] = c]
      /\ enough' = [enough EXCEPT ![s] = n]
      /\ IF n = PairNum \/ count_start(s) = count_end(s)
         THEN pc' = NextPc(s) /\ UNCHANGED at
         ELSE /\ pc' = s
              /\ at' = [count |-> count_start(s), pid |-> 1, pair |-> 0]
      /\ UNCHANGED <<input, working, pageVars, cold, used, disturbed>>

-----------------------------------------------------------------------------
(* Mutant of HotCan: what an eviction costs is not counted. *)
HotCan_once(j) ==
  LET q == quota[j]
      f == free[j]
  IN  Least(IF q < f THEN q ELSE Least(q, f + cold_free[j]), cold[j] + f)

(* Mutant of HotCan: the cold memory of the hot node is no limit. *)
HotCan_coldless(j) ==
  LET q == quota[j]
      f == free[j]
  IN  IF q < f THEN q ELSE Least(f + ((q - f) \div 2), f + cold_free[j])

(* Mutant of HotCan: the quota is halved even where nothing is evicted. *)
HotCan_half(j) ==
  Least(Least(quota[j] \div 2, free[j] + cold_free[j]), cold[j] + free[j])

(* node_cal_hot_can_move *)
HotCan(j) ==
  LET q == quota[j]
      f == free[j]
      room == IF q < f THEN q
              ELSE Least(f + ((q - f) \div 2), f + cold_free[j])
  IN  Least(room, cold[j] + f)

(* flow_cal_hot_can_move *)
CalHot ==
  /\ pc = "hot_cal"
  /\ SetUp("hot", [j \in Pair |-> HotCan(j)])
  /\ UNCHANGED nodeVars

(* What a hot move beyond the free memory displaces. *)
Replaced(j) == IF used["hot"][j] > free[j] THEN used["hot"][j] - free[j] ELSE 0

(* Mutant of PrefetchCan: the reserve may be used. *)
PrefetchCan_reserve(f, q) == Least(f, q)

(* node_cal_hot_can_prefetch *)
PrefetchCan(f, q) ==
  IF f <= conf.hot_reserve THEN 0 ELSE Least(f - conf.hot_reserve, q)

(* flow_cal_hot_can_prefetch: node_update_hot_move, then the caps. *)
CalPrefetch ==
  /\ pc = "prefetch_cal"
  /\ free' = [j \in Pair |-> free[j] - (used["hot"][j] - Replaced(j))]
  /\ quota' = [j \in Pair |-> quota[j] - (used["hot"][j] + Replaced(j))]
  /\ cold_free' = [j \in Pair |-> cold_free[j] + used["hot"][j] - Replaced(j)]
  /\ cold_replaced' = [j \in Pair |-> cold_replaced[j] + Replaced(j)]
  /\ SetUp("prefetch", [j \in Pair |-> PrefetchCan(free'[j], quota'[j])])

(* node_cal_cold_can_move *)
ColdCan(f, cf, q) ==
  LET can_move == Least(Least(q, conf.hot_reserve - f), cf)
  IN  IF can_move < 0 THEN 0 ELSE can_move

(* flow_cal_cold_can_move: node_update_hot_prefetch, then the caps. *)
CalCold ==
  /\ pc = "cold_cal"
  /\ free' = [j \in Pair |-> free[j] - used["prefetch"][j]]
  /\ quota' = [j \in Pair |-> quota[j] - used["prefetch"][j]]
  /\ cold_free' = [j \in Pair |-> cold_free[j] + used["prefetch"][j]]
  /\ SetUp("cold", [j \in Pair |->
       ColdCan(free'[j], cold_free'[j], quota'[j]) + cold_replaced[j]])
  /\ UNCHANGED cold_replaced

-----------------------------------------------------------------------------
(* do_filter *)

(* Mutant of Grant: the cap only decides whether there is a grant. *)
Grant_whole(s, j, target) ==
  IF used[s][j] < cap[s][j] THEN target ELSE 0

(* cap_cost: what is granted of a target size. *)
Grant(s, j, target) ==
  IF used[s][j] < cap[s][j] THEN Least(target, cap[s][j] - used[s][j]) ELSE 0

(* move_npf_to_list: whole pages only. *)
MovedSize(size, can_move) ==
  IF size <= can_move THEN size ELSE PageSize * (can_move \div PageSize)

(* The pages to_hot_policy and to_cold_policy look at. *)
npf(s) == IF s = "cold" THEN on_hot ELSE on_cold

TakePages(s, c, p, j, size) ==
  IF s = "cold"
  THEN on_hot' = [on_hot EXCEPT ![c][p][j] = @ - size] /\ UNCHANGED on_cold
  ELSE on_cold' = [on_cold EXCEPT ![c][p][j] = @ - size] /\ UNCHANGED on_hot

(* Mutant of SkipPid: next_working_params does not advance. *)
SkipPid_stuck(s) ==
  /\ pc = s
  /\ at.pair = 0
  /\ at.pid \notin working
  /\ UNCHANGED vars

(* The iteration is at a process that stopped working. *)
SkipPid(s) ==
  /\ pc = s
  /\ at.pair = 0
  /\ at.pid \notin working
  /\ NextPid(s)
  /\ UNCHANGED <<input, working, pageVars, cold, nodeVars, cap, used, enough,
                 disturbed>>

(* Mutant of FilterPolicy: hot_enough grows at every visit of a pair that  *)
(* is exhausted.                                                           *)
FilterPolicy_recount(s) ==
  LET j == at.pair
      size == npf(s)[at.count][at.pid][j]
      can_move == Grant(s, j, size)
      full == size >= cap[s][j] - used[s][j]
      m == MovedSize(size, can_move)
  IN  /\ pc = s
      /\ at.pair = 0 => at.pid \in working
      /\ used' = [used EXCEPT ![s][j] = @ + can_move]
      /\ enough' = IF full THEN [enough EXCEPT ![s] = @ + 1] ELSE enough
      /\ moved' = [moved EXCEPT ![s][j] = @ + m]
      /\ TakePages(s, at.count, at.pid, j, m)
      /\ IF enough'[s] = PairNum
         THEN pc' = NextPc(s) /\ UNCHANGED at
         ELSE NextPair(s)
      /\ UNCHANGED <<input, working, cold, nodeVars, cap, disturbed>>

(* filter_policy on one process and pair: grant, charge, move; then leave  *)
(* if every pair is exhausted.  A process is only tested for STATE_WORKING *)
(* when the iteration reaches it, not before each of its pairs.            *)
FilterPolicy(s) ==
  LET j == at.pair
      size == npf(s)[at.count][at.pid][j]
      can_move == Grant(s, j, size)
      full == used[s][j] < cap[s][j] /\ size >= cap[s][j] - used[s][j]
      m == MovedSize(size, can_move)
  IN  /\ pc = s
      /\ at.pair = 0 => at.pid \in working
      /\ used' = [used EXCEPT ![s][j] = @ + can_move]
      /\ enough' = IF full THEN [enough EXCEPT ![s] = @ + 1] ELSE enough
      /\ moved' = [moved EXCEPT ![s][j] = @ + m]
      /\ TakePages(s, at.count, at.pid, j, m)
      /\ IF enough'[s] = PairNum
         THEN pc' = NextPc(s) /\ UNCHANGED at
         ELSE NextPair(s)
      /\ UNCHANGED <<input, working, cold, nodeVars, cap, disturbed>>

(* The command thread: cslide_stop_task and cslide_start_task. *)
Command(p) ==
  /\ Commands
  /\ pc # "done"
  /\ working' = IF p \in working THEN working \ {p} ELSE working \cup {p}
  /\ disturbed' = TRUE
  /\ UNCHANGED <<input, pageVars, cold, nodeVars, cap, used, enough, pc, at>>

Next ==
  \/ CalHot \/ CalPrefetch \/ CalCold
  \/ \E s \in Pass : SkipPid(s) \/ FilterPolicy(s)
  \/ \E p \in Pid : Command(p)

Spec == Init /\ [][Next]_vars

(* cslide_main keeps running. *)
FairSpec ==
  /\ Spec
  /\ WF_vars(CalHot \/ CalPrefetch \/ CalCold
             \/ \E s \in Pass : SkipPid(s) \/ FilterPolicy(s))

-----------------------------------------------------------------------------
(* Properties. *)

(* node_mig_quota bounds what one round moves between the nodes of a pair, *)
(* in both directions together, whatever commands arrive meanwhile.        *)
QuotaKept ==
  \A j \in Pair :
    moved["hot"][j] + moved["prefetch"][j] + moved["cold"][j] <= conf.mig_quota

(* Once the passes are over, what comes to the hot node fits the memory    *)
(* free there plus what leaves it, and the other way round: the hot pass   *)
(* counts on evictions that only the cold pass, two passes later, decides. *)
(* A process stopped in between takes its cold pages out of that plan.     *)
MovesFit ==
  pc = "done" /\ ~disturbed => \A j \in Pair :
    LET up == moved["hot"][j] + moved["prefetch"][j]
        down == moved["cold"][j]
    IN  /\ up <= mem[j].free + down
        /\ down <= mem[j].cold_free + up

(* A round never prefetches cold pages into the hot node of a pair and     *)
(* evicts pages from it as well.                                           *)
NoPingPong ==
  \A j \in Pair : moved["prefetch"][j] > 0 => moved["cold"][j] = 0

(* Prefetching leaves node_hot_reserve free on the hot node. *)
ReserveKept ==
  \A j \in Pair : moved["prefetch"][j] > 0 =>
    mem[j].free - moved["hot"][j] - moved["prefetch"][j] >= conf.hot_reserve

(* Pages below the threshold are prefetched only when no page at or above  *)
(* it was left behind on the cold node of that pair.                       *)
HotBeforePrefetch ==
  ~disturbed => \A j \in Pair : moved["prefetch"][j] > 0 =>
    \A c \in Count, p \in Pid : c >= conf.hot_threshold => on_cold[c][p][j] = 0

(* The three passes come to an end, whatever commands arrive. *)
PassesEnd == <>(pc = "done")

(* do_filter leaves a pass early by comparing a counter for equality: from *)
(* the set-up of a pass on, its counter is exactly the number of exhausted *)
(* pairs.                                                                  *)
EnoughExact ==
  \A s \in Pass : pc = s \/ enough[s] > 0 =>
    enough[s] = Cardinality({j \in Pair : used[s][j] >= cap[s][j]})

(* Where the loop of a pass may stand: on its side of the threshold. *)
LoopRange ==
  /\ pc = "hot" => at.count >= conf.hot_threshold
  /\ pc \in {"prefetch", "cold"} => at.count < conf.hot_threshold

(* What every pass may still use on pair j, in terms of what the earlier   *)
(* passes used and of the memory and the quota at the start.               *)
Books(j) ==
  LET q == conf.mig_quota
      f == mem[j].free
      hot == used["hot"][j]
      pre == used["prefetch"][j]
      replaced == IF hot > f THEN hot - f ELSE 0
  IN  /\ \A s \in Pass : used[s][j] <= cap[s][j] /\ moved[s][j] <= used[s][j]
      /\ cap["hot"][j] <= q
      /\ cap["hot"][j] > f => 2 * cap["hot"][j] <= q + f
      /\ pc = "hot_cal" => cap["hot"][j] = 0
      /\ pc \in {"hot_cal", "hot", "prefetch_cal"} =>
           /\ quota[j] = q
           /\ free[j] = f
           /\ cold_replaced[j] = 0
           /\ cap["prefetch"][j] = 0
      /\ pc \in {"prefetch", "cold_cal", "cold", "done"} =>
           /\ cold_replaced[j] = replaced
           /\ cap["prefetch"][j] <= q - hot - replaced
           /\ cap["prefetch"][j] > 0 =>
                cap["prefetch"][j] <= f - hot - conf.hot_reserve
      /\ pc \in {"prefetch", "cold_cal"} =>
           /\ quota[j] = q - hot - replaced
           /\ free[j] = f - hot + replaced
      /\ pc \notin {"cold", "done"} => cap["cold"][j] = 0
      /\ pc \in {"cold", "done"} =>
           /\ cap["cold"][j] <= q - hot - pre
           /\ pre > 0 => cap["cold"][j] = 0

(* The books behind QuotaKept, NoPingPong and ReserveKept. *)
Ledger == \A j \in Pair : Books(j)

(* The inductive invariant. *)
IInv ==
  /\ TypeOK
  /\ LoopRange
  /\ Ledger
  /\ EnoughExact
=============================================================================
