---------------------------- MODULE PoolAdapter -----------------------------
(***************************************************************************)
(* One task of a started project, as etmemd runs it: the command (RPC)     *)
(* thread starts and stops the task (slide_start_task, slide_stop_task,    *)
(* etmemd_pool_adapter.c), a timer thread (etmemd_threadtimer.c) fires the *)
(* scan rounds (launch_threadtimer_executor), and the workers of the       *)
(* task's thread pool (ThreadPool) scan one process each.                  *)
(*                                                                         *)
(* The task may be started and stopped any number of times.  Which failures*)
(* can occur is the constant Faults.                                       *)
(***************************************************************************)
EXTENDS ThreadPool, Functions

CONSTANTS
  MaxPids,   \* bound: length of a task's pid list
  Faults     \* "thread": pthread_create of a worker fails;
             \* "timer":  the timer cannot be created or started;
             \* "malloc": threadpool_add_worker cannot allocate;
             \* "spurious": pthread_cond_timedwait of the timer returns early

ASSUME AdapterAssumption ==
  /\ MaxPids \in Nat \ {0}
  /\ Faults \subseteq {"thread", "timer", "malloc", "spurious"}

VARIABLES
  rpc,              \* where the command thread is
  ret,              \* "ok", or "fail" while it undoes a failed start
  proj_start,       \* tk->eng->proj->start
  timer_inst,       \* tk->timer_inst: "null" or "live"
  down,             \* timer->down
  tpc,              \* where the timer thread is
  tcancel,          \* a pthread_cancel of the timer thread is pending
  pids,             \* tk->pids
  cursor,           \* index of *tk_pid in push_ctrl_workflow
  scheduing_count   \* local of launch_threadtimer_executor

rpcVars == <<rpc, ret, proj_start, timer_inst, down, tcancel>>
timerVars == <<tpc, pids, cursor, scheduing_count>>
vars == <<poolVars, rpcVars, timerVars>>

RpcPc == {"off", "spawn", "timer_create", "timer_start", "mark", "up",
          "join_timer", "cancel", "join", "free_pids", "crash"}

(* "wait": pthread_cond_timedwait.  "get": functor entered.  "push",       *)
(* "notify", "poll", "sleep", "reset": the steps of a round.  "crash": the *)
(* process died of a NULL dereference.                                     *)
TimerPc == {"none", "wait", "get", "push", "notify", "poll", "sleep", "reset",
            "dead", "crash"}

(* The pid lists etmemd_get_task_pids builds: the task's process, then its *)
(* children, each once.                                                    *)
PidLists == {s \in UNION {[1..n -> Pid] : n \in 1..MaxPids} : IsInjective(s)}

TypeOK ==
  /\ PoolTypeOK
  /\ rpc \in RpcPc
  /\ ret \in {"ok", "fail"}
  /\ proj_start \in BOOLEAN
  /\ timer_inst \in {"null", "live"}
  /\ down \in BOOLEAN
  /\ tpc \in TimerPc
  /\ tcancel \in BOOLEAN
  /\ pids \in Seq(Pid)
  /\ cursor \in Nat
  /\ scheduing_count \in Nat

Init ==
  /\ PoolInit
  /\ rpc = "off"
  /\ ret = "ok"
  /\ proj_start = FALSE
  /\ timer_inst = "null"
  /\ down = TRUE
  /\ tpc = "none"
  /\ tcancel = FALSE
  /\ pids = <<>>
  /\ cursor = 1
  /\ scheduing_count = 0

-----------------------------------------------------------------------------
(* The command thread: start. *)

(* slide_start_task: executor allocated, start_threadpool_work entered.    *)
(* The project is already started when the task is added to it, and not    *)
(* yet when the whole project is being started.  Threads left on a freed   *)
(* pool make everything that follows undefined: no further start.          *)
StartTask ==
  /\ rpc = "off"
  /\ \A w \in Worker : Gone(w)
  /\ threadpool_create_begin
  /\ rpc' = "spawn"
  /\ ret' = "ok"
  /\ proj_start' \in BOOLEAN
  /\ tpc' = "none"
  /\ UNCHANGED <<timer_inst, down, tcancel, pids, cursor, scheduing_count>>

SpawnWorker ==
  /\ rpc = "spawn"
  /\ \E w \in Worker : threadpool_create_thread(w)
  /\ UNCHANGED <<rpcVars, timerVars>>

SpawnDone ==
  /\ rpc = "spawn"
  /\ threadpool_create_end
  /\ rpc' = "timer_create"
  /\ UNCHANGED <<ret, proj_start, timer_inst, down, tcancel, timerVars>>

(* threadpool_create destroys the pool when a pthread_create fails. *)
SpawnFails ==
  /\ "thread" \in Faults
  /\ rpc = "spawn"
  /\ \E w \in Worker : wpc[w] = "none"
  /\ rpc' = "cancel"
  /\ ret' = "fail"
  /\ UNCHANGED <<proj_start, timer_inst, down, tcancel, timerVars, poolVars>>

(* thread_timer_create: timer->down = true. *)
TimerCreate ==
  /\ rpc = "timer_create"
  /\ timer_inst' = "live"
  /\ down' = TRUE
  /\ rpc' = "timer_start"
  /\ UNCHANGED <<ret, proj_start, tcancel, timerVars, poolVars>>

(* thread_timer_start: down = false and the thread runs. *)
TimerStart ==
  /\ rpc = "timer_start"
  /\ down' = FALSE
  /\ tcancel' = FALSE
  /\ tpc' = "wait"
  /\ rpc' = "mark"
  /\ UNCHANGED <<ret, proj_start, timer_inst, pids, cursor, scheduing_count,
                 poolVars>>

(* Either call fails: the pool is stopped and destroyed, and then the      *)
(* timer, which was never started.                                         *)
TimerFails ==
  /\ "timer" \in Faults
  /\ rpc \in {"timer_create", "timer_start"}
  /\ rpc' = "cancel"
  /\ ret' = "fail"
  /\ UNCHANGED <<proj_start, timer_inst, down, tcancel, timerVars, poolVars>>

(* etmemd_migrate_start: proj->start = true after every task has started. *)
MarkStarted ==
  /\ rpc = "mark"
  /\ proj_start' = TRUE
  /\ rpc' = "up"
  /\ UNCHANGED <<ret, timer_inst, down, tcancel, timerVars, poolVars>>

-----------------------------------------------------------------------------
(* The command thread: stop_and_delete_threadpool_work, then the rest of   *)
(* slide_stop_task.                                                        *)

(* thread_timer_stop: down = true, pthread_cancel; pthread_join follows. *)
StopTask ==
  /\ rpc = "up"
  /\ down' = TRUE
  /\ tcancel' = TRUE
  /\ rpc' = "join_timer"
  /\ UNCHANGED <<ret, proj_start, timer_inst, timerVars, poolVars>>

(* Mutant of JoinTimer: the timer is destroyed without a join. *)
JoinTimer_detached ==
  /\ rpc = "join_timer"
  /\ timer_inst' = "null"
  /\ tcancel' = FALSE
  /\ rpc' = "cancel"
  /\ UNCHANGED <<ret, proj_start, down, timerVars, poolVars>>

(* The timer thread is joined and thread_timer_destroy frees it. *)
JoinTimer ==
  /\ rpc = "join_timer"
  /\ tpc = "dead"
  /\ timer_inst' = "null"
  /\ tcancel' = FALSE
  /\ rpc' = "cancel"
  /\ UNCHANGED <<ret, proj_start, down, timerVars, poolVars>>

CancelWorkers ==
  /\ rpc = "cancel"
  /\ \A w \in 1..max_thread_cap : wpc[w] # "none"
  /\ threadpool_cancel_tasks_working
  /\ rpc' = "join"
  /\ UNCHANGED <<ret, proj_start, timer_inst, down, tcancel, timerVars>>

(* max_thread_cap exceeds the created threads: pthread_cancel of an        *)
(* uninitialised pthread_t.                                                *)
CancelGarbage ==
  /\ rpc = "cancel"
  /\ \E w \in 1..max_thread_cap : wpc[w] = "none"
  /\ rpc' = "crash"
  /\ UNCHANGED <<ret, proj_start, timer_inst, down, tcancel, timerVars, poolVars>>

JoinWorkers ==
  /\ rpc = "join"
  /\ threadpool_join_and_free
  /\ timer_inst' = "null"
  /\ rpc' = IF ret = "ok" THEN "free_pids" ELSE "off"
  /\ UNCHANGED <<ret, proj_start, down, tcancel, timerVars>>

(* etmemd_free_task_pids and the executor; the project is marked stopped   *)
(* by etmemd_migrate_stop.                                                 *)
FreePids ==
  /\ rpc = "free_pids"
  /\ pids' = <<>>
  /\ proj_start' = FALSE
  /\ rpc' = "off"
  /\ UNCHANGED <<ret, timer_inst, down, tcancel, tpc, cursor, scheduing_count,
                 poolVars>>

-----------------------------------------------------------------------------
(* The timer thread: thread_timer_routine and launch_threadtimer_executor. *)

(* End of the functor: while (!timer->down). *)
Return == tpc' = IF down THEN "dead" ELSE "wait"

(* ETIMEDOUT: the functor is called. *)
TimerFires ==
  /\ tpc = "wait"
  /\ ~tcancel
  /\ tpc' = "get"
  /\ UNCHANGED <<rpcVars, pids, cursor, scheduing_count, poolVars>>

(* Any other return of pthread_cond_timedwait ends the thread. *)
TimerExits ==
  /\ "spurious" \in Faults
  /\ tpc = "wait"
  /\ ~tcancel
  /\ tpc' = "dead"
  /\ UNCHANGED <<rpcVars, pids, cursor, scheduing_count, poolVars>>

(* The project is not started: nothing to do in this round. *)
RoundSkipped ==
  /\ tpc = "get"
  /\ ~proj_start
  /\ Return
  /\ UNCHANGED <<rpcVars, pids, cursor, scheduing_count, poolVars>>

(* etmemd_get_task_pids fails: before the list is touched, or after which  *)
(* the list is freed.                                                      *)
GetPidsFails ==
  /\ tpc = "get"
  /\ proj_start
  /\ pids' \in {pids, <<>>}
  /\ Return
  /\ UNCHANGED <<rpcVars, cursor, scheduing_count, poolVars>>

(* etmemd_get_task_pids: nodes of the old list may be freed, the new list  *)
(* is not empty.                                                           *)
GetPids ==
  /\ tpc = "get"
  /\ proj_start
  /\ pids' \in PidLists
  /\ cursor' = 1
  /\ tpc' = "push"
  /\ UNCHANGED <<rpcVars, scheduing_count, poolVars>>

(* push_ctrl_workflow, one iteration. *)
PushPid ==
  /\ tpc = "push"
  /\ cursor \in DOMAIN pids
  /\ threadpool_add_worker(pids[cursor])
  /\ cursor' = cursor + 1
  /\ UNCHANGED <<rpcVars, tpc, pids, scheduing_count>>

(* The push fails: the node is unlinked and freed, and the loop steps over *)
(* the node that took its place -- or through NULL when there is none.     *)
PushFails ==
  /\ "malloc" \in Faults
  /\ tpc = "push"
  /\ cursor \in DOMAIN pids
  /\ pids' = SubSeq(pids, 1, cursor - 1) \o SubSeq(pids, cursor + 1, Len(pids))
  /\ IF cursor < Len(pids)
     THEN cursor' = cursor + 1 /\ UNCHANGED tpc
     ELSE tpc' = "crash" /\ UNCHANGED cursor
  /\ UNCHANGED <<rpcVars, scheduing_count, poolVars>>

PushDone ==
  /\ tpc = "push"
  /\ cursor > Len(pids)
  /\ tpc' = "notify"
  /\ UNCHANGED <<rpcVars, pids, cursor, scheduing_count, poolVars>>

(* threadpool_notify; scheduing_size, which only this thread changes, is   *)
(* read once.                                                              *)
Notify ==
  /\ tpc = "notify"
  /\ threadpool_notify
  /\ scheduing_count' = scheduing_size
  /\ tpc' = "poll"
  /\ UNCHANGED <<rpcVars, pids, cursor>>

(* Mutant of Poll: the round is over once every item was taken. *)
Poll_taken ==
  /\ tpc = "poll"
  /\ tpc' = IF worker_list = <<>> THEN "reset" ELSE "sleep"
  /\ UNCHANGED <<rpcVars, pids, cursor, scheduing_count, poolVars>>

Poll ==
  /\ tpc = "poll"
  /\ tpc' = IF execution_size = scheduing_count THEN "reset" ELSE "sleep"
  /\ UNCHANGED <<rpcVars, pids, cursor, scheduing_count, poolVars>>

SleepDone ==
  /\ tpc = "sleep"
  /\ ~tcancel
  /\ tpc' = "poll"
  /\ UNCHANGED <<rpcVars, pids, cursor, scheduing_count, poolVars>>

Reset ==
  /\ tpc = "reset"
  /\ threadpool_reset_status
  /\ Return
  /\ UNCHANGED <<rpcVars, pids, cursor, scheduing_count>>

(* The pending cancel takes effect: in pthread_cond_timedwait, in sleep(1),*)
(* in the log call of a failed push, or while the pid list is being        *)
(* rebuilt, which leaves any list.                                         *)
TimerCancelled ==
  /\ tcancel
  /\ \/ tpc \in {"wait", "sleep"} /\ UNCHANGED pids
     \/ tpc = "push" /\ "malloc" \in Faults /\ UNCHANGED pids
     \/ tpc = "get" /\ pids' \in PidLists \cup {pids, <<>>}
  /\ tpc' = "dead"
  /\ UNCHANGED <<rpcVars, cursor, scheduing_count, poolVars>>

-----------------------------------------------------------------------------
RpcStep == SpawnWorker \/ SpawnDone \/ TimerCreate \/ TimerStart \/ MarkStarted
           \/ JoinTimer \/ CancelWorkers \/ CancelGarbage \/ JoinWorkers
           \/ FreePids

TimerStep == TimerFires \/ RoundSkipped \/ GetPids \/ PushPid \/ PushDone
             \/ Notify \/ Poll \/ SleepDone \/ Reset \/ TimerCancelled

PoolStep(w) == inst = "live" /\ WorkerStep(w) /\ UNCHANGED <<rpcVars, timerVars>>

PoolSpurious(w) ==
  inst = "live" /\ WorkerSpurious(w) /\ UNCHANGED <<rpcVars, timerVars>>

(* The process has not died of undefined behaviour. *)
Alive == tpc # "crash" /\ rpc # "crash"

Next ==
  /\ Alive
  /\ \/ StartTask \/ StopTask \/ SpawnFails \/ TimerFails \/ RpcStep
     \/ TimerExits \/ GetPidsFails \/ PushFails \/ TimerStep
     \/ \E w \in Worker : PoolStep(w) \/ PoolSpurious(w)

Spec == Init /\ [][Next]_vars

(* Every thread that can run is eventually scheduled, functors return, and *)
(* the timer expires.  Commands and faults need not happen.                *)
FairSpec ==
  /\ Spec
  /\ WF_vars(Alive /\ RpcStep)
  /\ WF_vars(Alive /\ TimerStep)
  /\ \A w \in Worker : WF_vars(Alive /\ PoolStep(w))
-----------------------------------------------------------------------------
(* Properties. *)

(* Every item pushed in a round is on the list, in the hands of exactly    *)
(* one worker, or counted.  The counters are updated by different threads, *)
(* one of them outside the mutex.  Cancelled workers drop items, but only  *)
(* once the timer thread that reads the counters is gone.                  *)
Accounting ==
  inst = "live" /\ tpc # "dead" =>
    scheduing_size = Len(worker_list) + Cardinality(Busy) + execution_size

(* When etmemd_get_task_pids may free the nodes of the pid list (functor   *)
(* entered), and when slide_stop_task frees them, no worker holds a node,  *)
(* none is on the work list and both counters are zero.                    *)
NoScanAcrossRounds ==
  /\ inst = "live" /\ tpc \in {"wait", "get"} =>
       worker_list = <<>> /\ Busy = {} /\ scheduing_size = 0 /\ execution_size = 0
  /\ rpc = "free_pids" => Busy = {} /\ worker_list = <<>>

(* threadpool_stop_and_destroy and thread_timer_destroy free memory that   *)
(* worker and timer threads use: they must be gone by then.                *)
NoThreadOutlivesPool ==
  /\ inst = "null" => \A w \in Worker : Gone(w)
  /\ inst = "null" \/ timer_inst = "null" => tpc \in {"none", "dead"}

(* A thread that was cancelled never leaves the pool's mutex locked: only  *)
(* a worker on its way through threadpool_cancel_unlock owns it.           *)
LockHasLiveOwner ==
  lock # Unlocked => wpc[lock] = "unwind"

(* The stages of start and stop against what exists in them: which of the  *)
(* pool, the timer and the timer thread are there while the command thread *)
(* is at a given step, how many threads the pool owns, and when it may     *)
(* have cancelled them.                                                    *)
Staging ==
  /\ inst = "null" <=> rpc \in {"off", "free_pids"}
  /\ inst = "null" => worker_list = <<>>
  /\ rpc \in {"mark", "up", "join_timer"} \/ tpc \in {"none", "dead"}
  /\ rpc \in {"timer_start", "mark", "up", "join_timer"} => timer_inst = "live"
  /\ rpc \in {"spawn", "timer_create", "timer_start"} => tpc = "none"
  /\ rpc \notin {"cancel", "join", "off", "crash"} => ret = "ok"
  /\ (ret = "ok" \/ "thread" \notin Faults) /\ rpc \notin {"spawn", "off"} =>
       max_thread_cap = MaxThreads
  /\ rpc \in {"join", "free_pids", "off", "crash"} \/ cancelled = {}
  /\ rpc = "free_pids" \/ (inst = "null" /\ "thread" \notin Faults) =>
       \A w \in Worker : Gone(w)

(* The timer thread's knowledge: between rounds nothing is scheduled, and  *)
(* while it polls nothing more is.                                         *)
RoundState ==
  /\ inst = "live" /\ tpc \in {"none", "wait", "get"} => scheduing_size = 0
  /\ tpc \in {"poll", "sleep", "reset"} => scheduing_count = scheduing_size
  /\ tpc = "reset" => execution_size = scheduing_size

(* The inductive invariant behind Accounting, NoScanAcrossRounds and       *)
(* LockHasLiveOwner.                                                       *)
IInv ==
  /\ TypeOK
  /\ Accounting
  /\ Staging
  /\ RoundState
  /\ LockHasLiveOwner

(* A round that starts pushing is over at some point: every waiting worker *)
(* hears of the work, and the poll of the counters sees it done.           *)
RoundCompletes ==
  tpc = "push" ~> tpc \in {"wait", "dead"}

(* A stop command returns: no join waits for a thread that never reaches a *)
(* cancellation point or that waits for a mutex a dead thread owns.        *)
StopCompletes ==
  rpc = "join_timer" ~> rpc = "off"

(* The task as TaskRound describes it. *)
Phase ==
  CASE inst = "null" -> "stopped"
    [] inst = "live" /\ tpc = "dead" -> "stopping"
    [] inst = "live" /\ tpc \in {"push", "notify", "poll", "sleep", "reset", "crash"}
         -> "round"
    [] OTHER -> "idle"

ToPush == IF tpc = "push" THEN {pids[i] : i \in cursor..Len(pids)} ELSE {}

Round == INSTANCE TaskRound WITH
  phase <- Phase,
  todo <- ToPush \cup Range(worker_list),
  running <- {arg[w] : w \in {v \in Worker : wpc[v] = "run"}},
  Lossy <- "malloc" \in Faults

(* A task's threads implement the rounds of TaskRound: no overlap, each    *)
(* process once, at most max_threads at a time, nothing after a stop.      *)
ImplementsRounds == Round!Spec
=============================================================================
