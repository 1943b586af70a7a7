-------------------------- MODULE PoolAdapterProofs --------------------------
(***************************************************************************)
(* Proofs about PoolAdapter, for every number of threads, every set of     *)
(* processes and every combination of failures.                            *)
(***************************************************************************)
EXTENDS PoolAdapter, FiniteSetTheorems, TLAPS

-----------------------------------------------------------------------------
(* Type correctness. *)

(* The pid lists a round may start with are sequences of processes. *)
LEMMA PidListsType == PidLists \subseteq Seq(Pid)
  BY DEF PidLists

(* An empty list is one, too. *)
LEMMA NoPids == <<>> \in Seq(Pid)
  OBVIOUS

(* A worker's step preserves the types of the pool. *)
LEMMA WorkerType ==
  ASSUME NEW w \in Worker, PoolTypeOK, WorkerStep(w) \/ WorkerSpurious(w)
  PROVE  PoolTypeOK'
<1>1. CASE WorkerWait(w)
  BY <1>1 DEF PoolTypeOK, WorkerPc, WorkerWait, Goto
<1>2. CASE WorkerTake(w)
  BY <1>2 DEF PoolTypeOK, WorkerPc, WorkerTake, Goto
<1>3. CASE WorkerNap(w)
  BY <1>3 DEF PoolTypeOK, WorkerPc, WorkerNap, Goto
<1>4. CASE WorkerReturn(w)
  BY <1>4 DEF PoolTypeOK, WorkerPc, WorkerReturn, Goto
<1>5. CASE WorkerCount(w)
  BY <1>5 DEF PoolTypeOK, WorkerPc, WorkerCount, Goto
<1>6. CASE WorkerWake(w)
  BY <1>6 DEF PoolTypeOK, WorkerPc, WorkerWake, Goto
<1>7. CASE WorkerCancelled(w)
  BY <1>7 DEF PoolTypeOK, WorkerPc, WorkerCancelled, Goto
<1>8. CASE WorkerCancelledWaiting(w)
  BY <1>8 DEF PoolTypeOK, WorkerPc, WorkerCancelledWaiting, Goto
<1>9. CASE threadpool_cancel_unlock(w)
  BY <1>9 DEF PoolTypeOK, WorkerPc, threadpool_cancel_unlock, Goto
<1>10. CASE WorkerSpurious(w)
  BY <1>10 DEF PoolTypeOK, WorkerPc, WorkerSpurious, Goto
<1> QED
  BY <1>1, <1>2, <1>3, <1>4, <1>5, <1>6, <1>7, <1>8, <1>9, <1>10 DEF WorkerStep

(* Steps of the other threads that leave the pool alone keep its types. *)
LEMMA PoolUnchanged == ASSUME PoolTypeOK, UNCHANGED poolVars PROVE PoolTypeOK'
  BY DEF PoolTypeOK, poolVars

(* Every action of the command and timer threads preserves the types. *)
LEMMA TypeStep == ASSUME TypeOK, [Next]_vars PROVE TypeOK'
<1> USE PoolAssumption, AdapterAssumption
<1>a. pids \in Seq(Pid) /\ cursor \in Nat /\ PoolTypeOK
  BY DEF TypeOK
<1>1. CASE \E w \in Worker : PoolStep(w) \/ PoolSpurious(w)
  BY <1>1, WorkerType
     DEF TypeOK, PoolStep, PoolSpurious, rpcVars, timerVars
<1>2. CASE StartTask
  BY <1>2 DEF TypeOK, PoolTypeOK, StartTask, threadpool_create_begin, RpcPc,
              TimerPc, WorkerPc, Worker, Unlocked
<1>3. CASE StopTask \/ SpawnFails \/ TimerFails \/ TimerCreate \/ TimerStart
           \/ MarkStarted \/ JoinTimer \/ CancelGarbage \/ FreePids
  <2>1. UNCHANGED poolVars
    BY <1>3 DEF StopTask, SpawnFails, TimerFails, TimerCreate, TimerStart,
                MarkStarted, JoinTimer, CancelGarbage, FreePids
  <2> QED
    BY <1>3, <2>1, <1>a, PoolUnchanged, NoPids, ZenonT(60)
       DEF TypeOK, StopTask, SpawnFails, TimerFails, TimerCreate,
           TimerStart, MarkStarted, JoinTimer, CancelGarbage, FreePids,
           RpcPc, TimerPc, timerVars
<1>4. CASE SpawnWorker
  BY <1>4 DEF TypeOK, PoolTypeOK, SpawnWorker, threadpool_create_thread, Goto,
              WorkerPc, rpcVars, timerVars
<1>5. CASE SpawnDone
  BY <1>5 DEF TypeOK, PoolTypeOK, SpawnDone, threadpool_create_end, RpcPc,
              timerVars
<1>6. CASE CancelWorkers
  BY <1>6 DEF TypeOK, PoolTypeOK, CancelWorkers, threadpool_cancel_tasks_working,
              RpcPc, timerVars, Worker
<1>7. CASE JoinWorkers
  BY <1>7 DEF TypeOK, PoolTypeOK, JoinWorkers, threadpool_join_and_free, RpcPc,
              timerVars
<1>8. CASE TimerFires \/ TimerExits \/ RoundSkipped \/ PushDone \/ Poll
           \/ SleepDone
  <2>1. UNCHANGED poolVars
    BY <1>8 DEF TimerFires, TimerExits, RoundSkipped, PushDone, Poll, SleepDone
  <2> QED
    BY <1>8, <2>1, <1>a, PoolUnchanged
       DEF TypeOK, TimerFires, TimerExits, RoundSkipped, PushDone,
           Poll, SleepDone, Return, TimerPc, rpcVars
<1>9. CASE GetPids \/ GetPidsFails \/ TimerCancelled
  <2>1. UNCHANGED poolVars /\ pids' \in Seq(Pid)
    BY <1>9, <1>a, PidListsType, NoPids DEF GetPids, GetPidsFails, TimerCancelled
  <2> QED
    BY <1>9, <2>1, <1>a, PoolUnchanged
       DEF TypeOK, GetPids, GetPidsFails, TimerCancelled, Return, TimerPc, rpcVars
<1>10. CASE PushPid
  BY <1>10 DEF TypeOK, PoolTypeOK, PushPid, threadpool_add_worker, rpcVars
<1>11. CASE PushFails
  <2>1. cursor \in 1..Len(pids)
    BY <1>11, <1>a DEF PushFails
  <2>2. /\ SubSeq(pids, 1, cursor - 1) \in Seq(Pid)
        /\ SubSeq(pids, cursor + 1, Len(pids)) \in Seq(Pid)
    BY <2>1, <1>a
  <2>3. pids' \in Seq(Pid)
    BY <2>2, <1>11 DEF PushFails
  <2>4. UNCHANGED poolVars /\ UNCHANGED rpcVars /\ UNCHANGED scheduing_count
    BY <1>11 DEF PushFails
  <2>5. cursor' \in Nat
    BY <2>1, <1>11 DEF PushFails, TypeOK
  <2>6. tpc' \in TimerPc
    BY <1>11 DEF PushFails, TypeOK, TimerPc
  <2> QED
    BY <2>3, <2>4, <2>5, <2>6, <1>a, PoolUnchanged, ZenonT(60) DEF TypeOK, rpcVars
<1>12. CASE Notify \/ Reset
  <2>1. CASE Notify
    <3>1. PoolTypeOK'
      BY <2>1, <1>a DEF PoolTypeOK, Notify, threadpool_notify, WorkerPc
    <3>2. tpc' \in TimerPc /\ scheduing_count' \in Nat
      BY <2>1, <1>a DEF PoolTypeOK, Notify, TimerPc
    <3> QED
      BY <2>1, <3>1, <3>2, ZenonT(60) DEF TypeOK, Notify, rpcVars
  <2>2. CASE Reset
    <3>1. PoolTypeOK'
      BY <2>2, <1>a DEF PoolTypeOK, Reset, threadpool_reset_status
    <3>2. tpc' \in TimerPc
      BY <2>2 DEF Reset, Return, TimerPc
    <3> QED
      BY <2>2, <3>1, <3>2, ZenonT(60) DEF TypeOK, Reset, rpcVars
  <2> QED
    BY <1>12, <2>1, <2>2
<1>13. CASE UNCHANGED vars
  BY <1>13, <1>a, PoolUnchanged DEF TypeOK, vars, rpcVars, timerVars
<1> QED
  BY <1>1, <1>2, <1>3, <1>4, <1>5, <1>6, <1>7, <1>8, <1>9, <1>10, <1>11, <1>12,
     <1>13 DEF Next, RpcStep, TimerStep

(* The initial state is well typed. *)
LEMMA TypeInit == Init => TypeOK
<1>1. Init => PoolTypeOK
  BY PoolAssumption, NoPids
     DEF Init, PoolInit, PoolTypeOK, WorkerPc, Worker, Unlocked
<1>2. Init => proj_start \in BOOLEAN /\ down \in BOOLEAN /\ tcancel \in BOOLEAN
  BY Zenon DEF Init
<1>3. Init => pids \in Seq(Pid)
  BY NoPids DEF Init
<1>4. Init => rpc \in RpcPc /\ tpc \in TimerPc /\ ret \in {"ok", "fail"}
               /\ timer_inst \in {"null", "live"}
               /\ cursor \in Nat /\ scheduing_count \in Nat
  BY DEF Init, RpcPc, TimerPc
<1> QED
  BY <1>1, <1>2, <1>3, <1>4 DEF TypeOK

(* Type correctness of every reachable state. *)
THEOREM TypeCorrect == Spec => []TypeOK
<1>1. Init => TypeOK
  BY TypeInit
<1>2. TypeOK /\ [Next]_vars => TypeOK'
  BY TypeStep
<1> QED
  BY <1>1, <1>2, PTL DEF Spec

-----------------------------------------------------------------------------
(* The inductive invariant. *)

(* The set of busy workers is finite, so its cardinality counts it. *)
LEMMA BusyFinite ==
  /\ IsFiniteSet(Busy)
  /\ Cardinality(Busy) \in Nat
  /\ Cardinality(Busy) = 0 <=> Busy = {}
<1>1. IsFiniteSet(Worker)
  BY PoolAssumption, FS_Interval DEF Worker
<1>2. IsFiniteSet(Busy)
  BY <1>1, FS_Subset DEF Busy
<1> QED
  BY <1>2, FS_CardinalityType, FS_EmptySet

(* A worker that takes an item joins the busy ones. *)
LEMMA BusyEnter ==
  ASSUME PoolTypeOK, NEW w \in Worker, wpc[w] = "ready", Goto(w, "run")
  PROVE  Cardinality(Busy') = Cardinality(Busy) + 1
<1>1. w \notin Busy /\ Busy' = Busy \cup {w}
  BY DEF Busy, Goto, PoolTypeOK
<1> QED
  BY <1>1, BusyFinite, FS_AddElement

(* A worker that counts its item, or is cancelled in the functor, leaves. *)
LEMMA BusyLeave ==
  ASSUME PoolTypeOK, NEW w \in Worker, w \in Busy, NEW l \in {"ready", "dead"},
         Goto(w, l)
  PROVE  Cardinality(Busy') = Cardinality(Busy) - 1
<1>1. Busy' = Busy \ {w}
  BY DEF Busy, Goto, PoolTypeOK
<1> QED
  BY <1>1, BusyFinite, FS_RemoveElement

(* Every other step of a worker leaves the set as it is. *)
LEMMA BusyStay ==
  ASSUME PoolTypeOK, NEW w \in Worker, NEW l \in WorkerPc, Goto(w, l),
         w \in Busy <=> l \in {"run", "count"}
  PROVE  Busy' = Busy
  BY DEF Busy, Goto, PoolTypeOK

(* While the pool exists and the timer thread has not been started or sits *)
(* between two rounds, the pool is empty and idle.                         *)
LEMMA QuietPool ==
  ASSUME IInv, inst = "live", tpc \in {"none", "wait", "get"}
  PROVE  worker_list = <<>> /\ Busy = {} /\ execution_size = 0
<1>1. 0 = Len(worker_list) + Cardinality(Busy) + execution_size
  BY DEF IInv, Accounting, RoundState
<1>2. worker_list \in Seq(Pid) /\ Len(worker_list) \in Nat /\ execution_size \in Nat
  BY DEF IInv, TypeOK, PoolTypeOK
<1>3. Len(worker_list) = 0 /\ Cardinality(Busy) = 0 /\ execution_size = 0
  BY <1>1, <1>2, BusyFinite
<1> QED
  BY <1>2, <1>3, BusyFinite

(* Steps of the workers preserve the accounting. *)
LEMMA AccountingWorker ==
  ASSUME IInv, NEW w \in Worker, PoolStep(w) \/ PoolSpurious(w)
  PROVE  Accounting'
<1> SUFFICES ASSUME inst = "live", tpc # "dead"
             PROVE (scheduing_size = Len(worker_list) + Cardinality(Busy)
                                     + execution_size)'
  BY DEF Accounting, PoolStep, PoolSpurious, timerVars
<1> USE DEF WorkerPc
<1>a. /\ PoolTypeOK
      /\ scheduing_size = Len(worker_list) + Cardinality(Busy) + execution_size
      /\ worker_list \in Seq(Pid) /\ execution_size \in Nat
      /\ Cardinality(Busy) \in Nat
  BY BusyFinite DEF IInv, TypeOK, PoolTypeOK, Accounting
<1>b. w \notin cancelled \/ tpc = "none"
  BY DEF IInv, Staging
<1>1. CASE WorkerTake(w)
  BY <1>1, <1>a, BusyEnter DEF WorkerTake
<1>2. CASE WorkerCount(w)
  <2>1. Cardinality(Busy') = Cardinality(Busy) - 1
    BY <1>2, <1>a, BusyLeave DEF WorkerCount, Busy
  <2>2. /\ scheduing_size' = scheduing_size /\ worker_list' = worker_list
        /\ execution_size' = execution_size + 1
    BY <1>2 DEF WorkerCount
  <2> QED
    BY <2>1, <2>2, <1>a, SMTT(30)
<1>3. CASE WorkerCancelled(w)
  <2>1. w \notin Busy
    BY <1>3, <1>b, QuietPool DEF WorkerCancelled
  <2>2. Busy' = Busy
    BY <2>1, <1>3, <1>a, BusyStay DEF WorkerCancelled
  <2> QED
    BY <2>2, <1>3, <1>a DEF WorkerCancelled
<1>4. CASE WorkerReturn(w)
  <2>1. Busy' = Busy
    BY <1>4, <1>a, BusyStay DEF WorkerReturn, Busy
  <2> QED
    BY <2>1, <1>4, <1>a DEF WorkerReturn
<1>5. CASE WorkerWait(w) \/ WorkerNap(w) \/ WorkerWake(w) \/ WorkerSpurious(w)
           \/ WorkerCancelledWaiting(w) \/ threadpool_cancel_unlock(w)
  <2>1. Busy' = Busy
    BY <1>5, <1>a, BusyStay
       DEF WorkerWait, WorkerNap, WorkerWake, WorkerSpurious,
           WorkerCancelledWaiting, threadpool_cancel_unlock, Busy
  <2> QED
    BY <2>1, <1>5, <1>a
       DEF WorkerWait, WorkerNap, WorkerWake, WorkerSpurious,
           WorkerCancelledWaiting, threadpool_cancel_unlock
<1> QED
  BY <1>1, <1>2, <1>3, <1>4, <1>5 DEF PoolStep, PoolSpurious, WorkerStep

(* Steps of the command and timer threads preserve the accounting. *)
LEMMA AccountingOther ==
  ASSUME IInv, Next, ~\E w \in Worker : PoolStep(w) \/ PoolSpurious(w)
  PROVE  Accounting'
<1>a. /\ PoolTypeOK
      /\ worker_list \in Seq(Pid) /\ execution_size \in Nat
      /\ Cardinality(Busy) \in Nat
      /\ Accounting /\ pids \in Seq(Pid)
  BY BusyFinite DEF IInv, TypeOK, PoolTypeOK
<1>1. CASE StartTask
  <2>1. Busy' = {}
    BY <1>1 DEF StartTask, threadpool_create_begin, Busy
  <2>2. Cardinality(Busy') = 0
    BY <2>1, FS_EmptySet
  <2> QED
    BY <2>2, <1>1 DEF StartTask, threadpool_create_begin, Accounting
<1>2. CASE SpawnWorker
  <2>1. PICK w \in Worker : threadpool_create_thread(w)
    BY <1>2 DEF SpawnWorker
  <2>2. Busy' = Busy
    BY <2>1, <1>a, BusyStay DEF threadpool_create_thread, Busy, WorkerPc
  <2> QED
    BY <2>1, <2>2, <1>2, <1>a
       DEF SpawnWorker, threadpool_create_thread, Accounting, timerVars
<1>3. CASE SpawnDone
  BY <1>3, <1>a DEF SpawnDone, threadpool_create_end, Accounting, Busy, timerVars
<1>4. CASE CancelWorkers
  BY <1>4, <1>a DEF CancelWorkers, threadpool_cancel_tasks_working, Accounting,
                    Busy, timerVars
<1>5. CASE JoinWorkers
  BY <1>5 DEF JoinWorkers, threadpool_join_and_free, Accounting
<1>6. CASE PushPid
  <2>1. Busy' = Busy /\ pids[cursor] \in Pid
    BY <1>6, <1>a DEF PushPid, threadpool_add_worker, Busy
  <2>2. Len(worker_list') = Len(worker_list) + 1
    BY <2>1, <1>6, <1>a DEF PushPid, threadpool_add_worker
  <2> QED
    BY <2>1, <2>2, <1>6, <1>a DEF PushPid, threadpool_add_worker, Accounting
<1>7. CASE Notify
  <2>1. Busy' = Busy
    BY <1>7, <1>a DEF Notify, threadpool_notify, Busy
  <2> QED
    BY <2>1, <1>7, <1>a DEF Notify, threadpool_notify, Accounting
<1>8. CASE Reset
  <2>1. inst = "live" /\ execution_size = scheduing_size
    BY <1>8 DEF Reset, IInv, RoundState, Staging, TypeOK, PoolTypeOK
  <2>2. Len(worker_list) + Cardinality(Busy) = 0
    BY <2>1, <1>8, <1>a DEF Reset, Accounting
  <2>3. Busy' = Busy
    BY <1>8 DEF Reset, threadpool_reset_status, Busy
  <2> QED
    BY <2>2, <2>3, <1>8, <1>a DEF Reset, threadpool_reset_status, Accounting
<1>9. CASE StopTask \/ SpawnFails \/ TimerFails \/ TimerCreate \/ TimerStart
           \/ MarkStarted \/ JoinTimer \/ CancelGarbage \/ FreePids
           \/ TimerFires \/ TimerExits \/ RoundSkipped \/ GetPidsFails \/ GetPids
           \/ PushFails \/ PushDone \/ Poll \/ SleepDone \/ TimerCancelled
  <2>1. UNCHANGED poolVars
    BY <1>9, ZenonT(60)
       DEF StopTask, SpawnFails, TimerFails, TimerCreate, TimerStart,
           MarkStarted, JoinTimer, CancelGarbage, FreePids, TimerFires,
           TimerExits, RoundSkipped, GetPidsFails, GetPids, PushFails,
           PushDone, Poll, SleepDone, TimerCancelled
  <2>2. tpc' # "dead" => tpc # "dead" \/ inst = "null"
    <3>1. CASE StopTask \/ SpawnFails \/ TimerFails \/ TimerCreate
               \/ MarkStarted \/ JoinTimer \/ CancelGarbage \/ FreePids
      <4>1. tpc' = tpc
        BY <3>1, ZenonT(60)
           DEF StopTask, SpawnFails, TimerFails, TimerCreate, MarkStarted,
               JoinTimer, CancelGarbage, FreePids, timerVars
      <4> QED
        BY <4>1
    <3>2. CASE TimerStart
      <4>1. rpc = "timer_start" /\ Staging
        BY <3>2 DEF TimerStart, IInv
      <4> QED
        BY <4>1, ZenonT(60) DEF Staging
    <3>3. CASE TimerFires \/ TimerExits \/ RoundSkipped \/ GetPidsFails \/ GetPids
               \/ PushFails \/ PushDone \/ Poll \/ SleepDone
      <4>1. tpc \in {"wait", "get", "push", "poll", "sleep"}
        BY <3>3, ZenonT(60)
           DEF TimerFires, TimerExits, RoundSkipped, GetPidsFails, GetPids,
               PushFails, PushDone, Poll, SleepDone
      <4> QED
        BY <4>1
    <3>4. CASE TimerCancelled
      BY <3>4 DEF TimerCancelled
    <3> HIDE DEF IInv
    <3> QED
      BY <1>9, <3>1, <3>2, <3>3, <3>4, ZenonT(60)
  <2> QED
    BY <2>1, <2>2, <1>a DEF Accounting, Busy, poolVars
<1> QED
  BY <1>1, <1>2, <1>3, <1>4, <1>5, <1>6, <1>7, <1>8, <1>9
     DEF Next, RpcStep, TimerStep

(* No step breaks the ties between the command thread's stage, the pool,   *)
(* the timer and its thread.                                               *)
LEMMA StagingStep == ASSUME IInv, Next PROVE Staging'
<1> USE DEF IInv, Staging, rpcVars, timerVars, Alive
<1>1. CASE \E w \in Worker : PoolStep(w) \/ PoolSpurious(w)
  BY <1>1 DEF PoolStep, PoolSpurious, WorkerStep, WorkerWait, WorkerTake, WorkerNap,
              WorkerReturn, WorkerCount, WorkerWake, WorkerCancelled, WorkerSpurious,
              WorkerCancelledWaiting, threadpool_cancel_unlock
<1>2. CASE StartTask
  BY <1>2 DEF StartTask, threadpool_create_begin
<1>3. CASE SpawnWorker \/ SpawnDone \/ CancelWorkers
  BY <1>3 DEF SpawnWorker, threadpool_create_thread, SpawnDone,
              threadpool_create_end, CancelWorkers, threadpool_cancel_tasks_working
<1>4. CASE JoinWorkers
  BY <1>4, SMTT(30) DEF JoinWorkers, threadpool_join_and_free, Worker, Gone, TypeOK
<1>5. CASE StopTask \/ SpawnFails \/ TimerFails \/ TimerCreate \/ TimerStart
           \/ MarkStarted \/ JoinTimer \/ CancelGarbage \/ FreePids
  <2> USE DEF poolVars, Gone
  <2>1. CASE StopTask     BY <2>1 DEF StopTask
  <2>2. CASE SpawnFails   BY <2>2 DEF SpawnFails
  <2>3. CASE TimerFails   BY <2>3 DEF TimerFails
  <2>4. CASE TimerCreate  BY <2>4 DEF TimerCreate
  <2>5. CASE TimerStart   BY <2>5 DEF TimerStart
  <2>6. CASE MarkStarted  BY <2>6 DEF MarkStarted
  <2>7. CASE JoinTimer    BY <2>7 DEF JoinTimer
  <2>8. CASE CancelGarbage BY <2>8 DEF CancelGarbage
  <2>9. CASE FreePids     BY <2>9, ZenonT(60) DEF FreePids
  <2> HIDE DEF IInv, Staging, rpcVars, timerVars, poolVars, Alive, Gone
  <2> QED
    BY <1>5, <2>1, <2>2, <2>3, <2>4, <2>5, <2>6, <2>7, <2>8, <2>9, ZenonT(60)
<1>6. CASE TimerFires \/ TimerExits \/ RoundSkipped \/ GetPidsFails \/ GetPids
           \/ PushFails \/ PushDone \/ Poll \/ SleepDone \/ TimerCancelled
  BY <1>6 DEF TimerFires, TimerExits, RoundSkipped, GetPidsFails, GetPids,
              PushFails, PushDone, Poll, SleepDone, TimerCancelled, Return,
              poolVars, Gone
<1>7. CASE PushPid \/ Notify \/ Reset
  BY <1>7 DEF PushPid, Notify, Reset, Return, threadpool_add_worker,
              threadpool_notify, threadpool_reset_status
<1> HIDE DEF IInv, Staging, rpcVars, timerVars, Alive
<1> QED
  BY <1>1, <1>2, <1>3, <1>4, <1>5, <1>6, <1>7, ZenonT(60) DEF Next, RpcStep, TimerStep

(* No step breaks what the timer thread knows of the counters. *)
LEMMA RoundStateStep == ASSUME IInv, Next PROVE RoundState'
<1> USE DEF IInv, RoundState
<1>a. /\ tpc \in {"push", "notify", "poll", "sleep", "reset"} => inst = "live"
      /\ worker_list \in Seq(Pid) /\ execution_size \in Nat
      /\ scheduing_size \in Nat /\ Cardinality(Busy) \in Nat
      /\ Cardinality(Busy) = 0 <=> Busy = {}
  BY BusyFinite DEF Staging, TypeOK, PoolTypeOK
<1>1. CASE \E w \in Worker : PoolStep(w) \/ PoolSpurious(w)
  <2>1. PICK w \in Worker : PoolStep(w) \/ PoolSpurious(w)
    BY <1>1
  <2>2. CASE WorkerCount(w)
    <3>1. tpc # "reset"
      <4> SUFFICES ASSUME tpc = "reset" PROVE FALSE
        OBVIOUS
      <4>1. Cardinality(Busy) = 0
        BY <1>a DEF Accounting
      <4>2. w \in Busy
        BY <2>2 DEF WorkerCount, Busy
      <4> QED
        BY <4>1, <4>2, <1>a
    <3> QED
      BY <3>1, <2>1, <2>2 DEF WorkerCount, PoolStep, PoolSpurious, timerVars
  <2> QED
    BY <2>1, <2>2
       DEF PoolStep, PoolSpurious, WorkerStep, WorkerWait, WorkerTake,
           WorkerNap, WorkerReturn, WorkerWake, WorkerCancelled, WorkerSpurious,
           WorkerCancelledWaiting, threadpool_cancel_unlock, timerVars
<1>2. CASE StartTask
  BY <1>2 DEF StartTask, threadpool_create_begin
<1>3. CASE SpawnWorker \/ SpawnDone \/ CancelWorkers \/ JoinWorkers
  <2> USE DEF Staging, timerVars
  <2>1. CASE SpawnWorker
    BY <2>1 DEF SpawnWorker, threadpool_create_thread
  <2>2. CASE SpawnDone
    BY <2>2 DEF SpawnDone, threadpool_create_end
  <2>3. CASE CancelWorkers
    BY <2>3 DEF CancelWorkers, threadpool_cancel_tasks_working
  <2>4. CASE JoinWorkers
    BY <2>4 DEF JoinWorkers, threadpool_join_and_free
  <2> HIDE DEF IInv, RoundState, Staging, timerVars
  <2> QED
    BY <1>3, <2>1, <2>2, <2>3, <2>4, ZenonT(60)
<1>4. CASE StopTask \/ SpawnFails \/ TimerFails \/ TimerCreate \/ TimerStart
           \/ MarkStarted \/ JoinTimer \/ CancelGarbage \/ FreePids
  <2>1. UNCHANGED <<inst, scheduing_size, execution_size, scheduing_count>>
    BY <1>4, ZenonT(60)
       DEF StopTask, SpawnFails, TimerFails, TimerCreate, TimerStart,
           MarkStarted, JoinTimer, CancelGarbage, FreePids, poolVars, timerVars
  <2>2. tpc' = tpc \/ (tpc = "none" /\ tpc' = "wait")
    <3>1. CASE TimerStart
      <4>1. rpc = "timer_start" /\ tpc' = "wait" /\ Staging
        BY <3>1 DEF TimerStart
      <4> HIDE DEF IInv, RoundState
      <4> QED
        BY <4>1, ZenonT(60) DEF Staging
    <3>2. CASE StopTask \/ SpawnFails \/ TimerFails \/ TimerCreate
               \/ MarkStarted \/ JoinTimer \/ CancelGarbage \/ FreePids
      <4>1. tpc' = tpc
        BY <3>2, ZenonT(60)
           DEF StopTask, SpawnFails, TimerFails, TimerCreate, MarkStarted,
               JoinTimer, CancelGarbage, FreePids, timerVars
      <4> HIDE DEF IInv, RoundState
      <4> QED
        BY <4>1, ZenonT(60)
    <3> HIDE DEF IInv, RoundState
    <3> QED
      BY <1>4, <3>1, <3>2, ZenonT(60)
  <2> QED
    BY <2>1, <2>2, ZenonT(60)
<1>5. CASE TimerFires \/ TimerExits \/ RoundSkipped \/ GetPidsFails \/ GetPids
           \/ PushFails \/ PushDone \/ Poll \/ SleepDone \/ TimerCancelled
  BY <1>5 DEF TimerFires, TimerExits, RoundSkipped, GetPidsFails, GetPids,
              PushFails, PushDone, Poll, SleepDone, TimerCancelled, Return,
              poolVars
<1>6. CASE PushPid \/ Notify \/ Reset
  BY <1>6, SMTT(30) DEF PushPid, Notify, Reset, Return, threadpool_add_worker,
              threadpool_notify, threadpool_reset_status
<1> QED
  BY <1>1, <1>2, <1>3, <1>4, <1>5, <1>6 DEF Next, RpcStep, TimerStep

(* No step leaves the mutex with a thread that is not about to release it. *)
LEMMA LockStep == ASSUME IInv, Next PROVE LockHasLiveOwner'
<1> USE DEF IInv, LockHasLiveOwner
<1>a. /\ wpc \in [Worker -> WorkerPc]
      /\ lock \in Worker \cup {Unlocked}
  BY DEF TypeOK, PoolTypeOK
<1>1. CASE \E w \in Worker : PoolStep(w) \/ PoolSpurious(w)
  <2>1. PICK w \in Worker : WorkerStep(w) \/ WorkerSpurious(w)
    BY <1>1 DEF PoolStep, PoolSpurious
  <2> QED
    BY <2>1, <1>a
       DEF WorkerStep, WorkerWait, WorkerTake, WorkerNap, WorkerReturn,
           WorkerCount, WorkerWake, WorkerCancelled, WorkerSpurious, Goto,
           WorkerCancelledWaiting, threadpool_cancel_unlock
<1>2. CASE StartTask
  BY <1>2 DEF StartTask, threadpool_create_begin
<1>3. CASE SpawnWorker
  BY <1>3, <1>a DEF SpawnWorker, threadpool_create_thread, Goto
<1>4. CASE SpawnDone \/ CancelWorkers \/ JoinWorkers
  BY <1>4 DEF SpawnDone, threadpool_create_end, CancelWorkers, JoinWorkers,
              threadpool_cancel_tasks_working, threadpool_join_and_free
<1>5. CASE StopTask \/ SpawnFails \/ TimerFails \/ TimerCreate \/ TimerStart
           \/ MarkStarted \/ JoinTimer \/ CancelGarbage \/ FreePids
           \/ TimerFires \/ TimerExits \/ RoundSkipped \/ GetPidsFails \/ GetPids
           \/ PushFails \/ PushDone \/ Poll \/ SleepDone \/ TimerCancelled
  <2>1. UNCHANGED poolVars
    BY <1>5, ZenonT(60)
       DEF StopTask, SpawnFails, TimerFails, TimerCreate, TimerStart,
           MarkStarted, JoinTimer, CancelGarbage, FreePids, TimerFires,
           TimerExits, RoundSkipped, GetPidsFails, GetPids, PushFails,
           PushDone, Poll, SleepDone, TimerCancelled
  <2> QED
    BY <2>1 DEF poolVars
<1>6. CASE PushPid \/ Notify \/ Reset
  BY <1>6, <1>a DEF PushPid, Notify, Reset, threadpool_add_worker,
              threadpool_notify, threadpool_reset_status
<1> HIDE DEF IInv, LockHasLiveOwner
<1> QED
  BY <1>1, <1>2, <1>3, <1>4, <1>5, <1>6, ZenonT(60) DEF Next, RpcStep, TimerStep

(* IInv holds in every reachable state: the counters of the pool agree     *)
(* with the list and the workers, the stages of start and stop are kept,   *)
(* and a dead thread never owns the mutex.                                 *)
THEOREM Invariance == Spec => []IInv
<1>1. Init => IInv
  <2> SUFFICES ASSUME Init PROVE IInv
    OBVIOUS
  <2>1. TypeOK
    BY TypeInit
  <2>2. Accounting /\ Staging /\ RoundState /\ LockHasLiveOwner
    BY DEF Init, PoolInit, Accounting, Staging, RoundState, LockHasLiveOwner,
           Gone, Worker
  <2> QED
    BY <2>1, <2>2 DEF IInv
<1>2. IInv /\ [Next]_vars => IInv'
  <2> SUFFICES ASSUME IInv, [Next]_vars PROVE IInv'
    OBVIOUS
  <2>1. TypeOK'
    BY TypeStep DEF IInv
  <2>2. CASE Next
    BY <2>1, <2>2, AccountingWorker, AccountingOther, StagingStep,
       RoundStateStep, LockStep, ZenonT(60) DEF IInv
  <2>3. CASE UNCHANGED vars
    BY <2>1, <2>3 DEF IInv, Accounting, Staging, RoundState, LockHasLiveOwner,
       Busy, Gone, vars, poolVars, rpcVars, timerVars
  <2> QED
    BY <2>2, <2>3
<1> QED
  BY <1>1, <1>2, PTL DEF Spec

(* The counters, the list and the busy workers agree in every state. *)
THEOREM AccountingHolds == Spec => []Accounting
  BY Invariance, PTL DEF IInv

(* No worker holds, and no list entry names, a pid node at a time when the *)
(* nodes may be freed: the round before is completely over.                *)
THEOREM RoundsDoNotOverlap == Spec => []NoScanAcrossRounds
<1>1. IInv => NoScanAcrossRounds
  <2> SUFFICES ASSUME IInv PROVE NoScanAcrossRounds
    OBVIOUS
  <2>1. ASSUME inst = "live", tpc \in {"wait", "get"}
        PROVE  worker_list = <<>> /\ Busy = {} /\ scheduing_size = 0
               /\ execution_size = 0
    BY <2>1, QuietPool DEF IInv, RoundState
  <2>2. ASSUME rpc = "free_pids" PROVE Busy = {} /\ worker_list = <<>>
    BY <2>2 DEF IInv, Staging, Gone, Busy
  <2> QED
    BY <2>1, <2>2 DEF NoScanAcrossRounds
<1> QED
  BY <1>1, Invariance, PTL

(* When every worker thread can be created, no thread of the task is left  *)
(* when the pool and the timer it uses are freed.                          *)
THEOREM ThreadsJoined ==
  ASSUME "thread" \notin Faults
  PROVE  Spec => []NoThreadOutlivesPool
<1>1. IInv => NoThreadOutlivesPool
  BY DEF IInv, Staging, NoThreadOutlivesPool, TypeOK, RpcPc
<1> QED
  BY <1>1, Invariance, PTL
=============================================================================
