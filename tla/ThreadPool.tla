----------------------------- MODULE ThreadPool -----------------------------
(***************************************************************************)
(* The thread pool of etmemd (etmemd_threadpool.c): a stack of work items  *)
(* guarded by one mutex and one condition variable, served by max_threads  *)
(* worker threads that are stopped with pthread_cancel.                    *)
(*                                                                         *)
(* The module defines the pool's state, every step of a worker thread and  *)
(* the pool operations; the threads that call the operations are in        *)
(* PoolAdapter.  A critical section that neither blocks nor contains a     *)
(* cancellation point is one step that needs the mutex to be free.         *)
(***************************************************************************)
EXTENDS Integers, Sequences, FiniteSets

CONSTANTS
  Pid,         \* the processes a task may scan; a work item is its process
  NoPid,       \* the argument of a worker that has none
  MaxThreads   \* tk->max_threads

ASSUME PoolAssumption == /\ MaxThreads \in Nat \ {0}
                         /\ NoPid \notin Pid

VARIABLES
  inst,            \* tk->threadpool_inst: "null" or "live"
  lock,            \* owner of inst->lock, Unlocked when free
  worker_list,     \* inst->worker_list, head first
  scheduing_size,  \* items pushed since the last reset
  execution_size,  \* items executed since the last reset
  max_thread_cap,  \* inst->max_thread_cap
  wpc,             \* where each worker thread is
  arg,             \* func_arg of each worker thread
  cancelled        \* workers with a pending pthread_cancel

poolVars == <<inst, lock, worker_list, scheduing_size, execution_size,
              max_thread_cap, wpc, arg, cancelled>>

Worker == 1..MaxThreads
Unlocked == 0

(* "none"/"dead": no thread.  "ready": about to take the mutex.  "wait":   *)
(* in pthread_cond_wait.  "run": in the functor.  "count": functor done,   *)
(* execution_size not yet incremented.  "nap": in sleep(1).  "unwind":     *)
(* cancelled in pthread_cond_wait, mutex re-acquired, cleanup handler next.*)
WorkerPc == {"none", "ready", "wait", "run", "count", "nap", "unwind", "dead"}

PoolTypeOK ==
  /\ inst \in {"null", "live"}
  /\ lock \in Worker \cup {Unlocked}
  /\ worker_list \in Seq(Pid)
  /\ scheduing_size \in Nat
  /\ execution_size \in Nat
  /\ max_thread_cap \in 0..MaxThreads
  /\ wpc \in [Worker -> WorkerPc]
  /\ arg \in [Worker -> Pid \cup {NoPid}]
  /\ cancelled \in SUBSET Worker

PoolInit ==
  /\ inst = "null"
  /\ lock = Unlocked
  /\ worker_list = <<>>
  /\ scheduing_size = 0
  /\ execution_size = 0
  /\ max_thread_cap = 0
  /\ wpc = [w \in Worker |-> "none"]
  /\ arg = [w \in Worker |-> NoPid]
  /\ cancelled = {}

Gone(w) == wpc[w] \in {"none", "dead"}

(* Workers that hold an item taken from the list and not yet counted. *)
Busy == {w \in Worker : wpc[w] \in {"run", "count"}}

Goto(w, l) == wpc' = [wpc EXCEPT ![w] = l]

-----------------------------------------------------------------------------
(* Steps of a worker thread: threadpool_routine. *)

(* Under the mutex, nothing was scheduled: pthread_cond_wait. *)
WorkerWait(w) ==
  /\ wpc[w] = "ready"
  /\ lock = Unlocked
  /\ scheduing_size = 0
  /\ Goto(w, "wait")
  /\ UNCHANGED <<inst, lock, worker_list, scheduing_size, execution_size,
                 max_thread_cap, arg, cancelled>>

(* Mutant of WorkerTake: the item is not unlinked from the list. *)
WorkerTake_linked(w) ==
  /\ wpc[w] = "ready"
  /\ lock = Unlocked
  /\ scheduing_size # 0
  /\ worker_list # <<>>
  /\ arg' = [arg EXCEPT ![w] = Head(worker_list)]
  /\ Goto(w, "run")
  /\ UNCHANGED <<inst, lock, worker_list, scheduing_size, execution_size,
                 max_thread_cap, cancelled>>

(* Under the mutex, the head of the list is taken; the mutex is released   *)
(* before the functor is called.                                           *)
WorkerTake(w) ==
  /\ wpc[w] = "ready"
  /\ lock = Unlocked
  /\ scheduing_size # 0
  /\ worker_list # <<>>
  /\ worker_list' = Tail(worker_list)
  /\ arg' = [arg EXCEPT ![w] = Head(worker_list)]
  /\ Goto(w, "run")
  /\ UNCHANGED <<inst, lock, scheduing_size, execution_size, max_thread_cap,
                 cancelled>>

(* Under the mutex, the list is empty in the middle of a round: sleep(1). *)
WorkerNap(w) ==
  /\ wpc[w] = "ready"
  /\ lock = Unlocked
  /\ scheduing_size # 0
  /\ worker_list = <<>>
  /\ Goto(w, "nap")
  /\ UNCHANGED <<inst, lock, worker_list, scheduing_size, execution_size,
                 max_thread_cap, arg, cancelled>>

(* The functor returns. *)
WorkerReturn(w) ==
  /\ wpc[w] = "run"
  /\ Goto(w, "count")
  /\ UNCHANGED <<inst, lock, worker_list, scheduing_size, execution_size,
                 max_thread_cap, arg, cancelled>>

(* Mutant of WorkerCount: a plain increment, which a concurrent one may    *)
(* overwrite.                                                              *)
WorkerCount_racy(w) ==
  /\ wpc[w] = "count"
  /\ execution_size' \in {execution_size, execution_size + 1}
  /\ arg' = [arg EXCEPT ![w] = NoPid]
  /\ Goto(w, "ready")
  /\ UNCHANGED <<inst, lock, worker_list, scheduing_size, max_thread_cap,
                 cancelled>>

(* func_arg = NULL and the atomic increment, without the mutex. *)
WorkerCount(w) ==
  /\ wpc[w] = "count"
  /\ execution_size' = execution_size + 1
  /\ arg' = [arg EXCEPT ![w] = NoPid]
  /\ Goto(w, "ready")
  /\ UNCHANGED <<inst, lock, worker_list, scheduing_size, max_thread_cap,
                 cancelled>>

(* sleep(1) returns.  It is a cancellation point: a pending cancel wins. *)
WorkerWake(w) ==
  /\ wpc[w] = "nap"
  /\ w \notin cancelled
  /\ Goto(w, "ready")
  /\ UNCHANGED <<inst, lock, worker_list, scheduing_size, execution_size,
                 max_thread_cap, arg, cancelled>>

(* pthread_cond_wait may return without a broadcast. *)
WorkerSpurious(w) ==
  /\ wpc[w] = "wait"
  /\ w \notin cancelled
  /\ Goto(w, "ready")
  /\ UNCHANGED <<inst, lock, worker_list, scheduing_size, execution_size,
                 max_thread_cap, arg, cancelled>>

(* A pending cancel takes effect in the functor or in sleep(1): the        *)
(* cleanup handler finds g_pool_lock NULL.                                 *)
WorkerCancelled(w) ==
  /\ w \in cancelled
  /\ wpc[w] \in {"run", "nap"}
  /\ arg' = [arg EXCEPT ![w] = NoPid]
  /\ Goto(w, "dead")
  /\ UNCHANGED <<inst, lock, worker_list, scheduing_size, execution_size,
                 max_thread_cap, cancelled>>

(* A pending cancel takes effect in pthread_cond_wait, which re-acquires   *)
(* the mutex before the cleanup handler runs.                              *)
WorkerCancelledWaiting(w) ==
  /\ w \in cancelled
  /\ wpc[w] = "wait"
  /\ lock = Unlocked
  /\ lock' = w
  /\ Goto(w, "unwind")
  /\ UNCHANGED <<inst, worker_list, scheduing_size, execution_size,
                 max_thread_cap, arg, cancelled>>

(* Mutant of threadpool_cancel_unlock: g_pool_lock was not set. *)
threadpool_cancel_unlock_unset(w) ==
  /\ wpc[w] = "unwind"
  /\ Goto(w, "dead")
  /\ UNCHANGED <<inst, lock, worker_list, scheduing_size, execution_size,
                 max_thread_cap, arg, cancelled>>

(* threadpool_cancel_unlock: g_pool_lock is set, so the mutex is released. *)
threadpool_cancel_unlock(w) ==
  /\ wpc[w] = "unwind"
  /\ lock' = Unlocked
  /\ Goto(w, "dead")
  /\ UNCHANGED <<inst, worker_list, scheduing_size, execution_size,
                 max_thread_cap, arg, cancelled>>

(* What a scheduled worker thread is bound to do next. *)
WorkerStep(w) ==
  \/ WorkerWait(w) \/ WorkerTake(w) \/ WorkerNap(w) \/ WorkerReturn(w)
  \/ WorkerCount(w) \/ WorkerWake(w) \/ WorkerCancelled(w)
  \/ WorkerCancelledWaiting(w) \/ threadpool_cancel_unlock(w)

-----------------------------------------------------------------------------
(* Operations, called by the threads of PoolAdapter. *)

(* threadpool_create up to the thread loop.  max_thread_cap is only set    *)
(* after the loop: until then it holds whatever malloc returned, negative  *)
(* values acting as 0 and values above the thread count as MaxThreads.     *)
threadpool_create_begin ==
  /\ inst = "null"
  /\ inst' = "live"
  /\ lock' = Unlocked
  /\ worker_list' = <<>>
  /\ scheduing_size' = 0
  /\ execution_size' = 0
  /\ max_thread_cap' \in 0..MaxThreads
  /\ wpc' = [w \in Worker |-> "none"]
  /\ arg' = [w \in Worker |-> NoPid]
  /\ cancelled' = {}

(* pthread_create of worker w, in index order. *)
threadpool_create_thread(w) ==
  /\ wpc[w] = "none"
  /\ \A v \in Worker : v < w => wpc[v] # "none"
  /\ Goto(w, "ready")
  /\ UNCHANGED <<inst, lock, worker_list, scheduing_size, execution_size,
                 max_thread_cap, arg, cancelled>>

(* The loop created every thread. *)
threadpool_create_end ==
  /\ \A w \in Worker : wpc[w] # "none"
  /\ max_thread_cap' = MaxThreads
  /\ UNCHANGED <<inst, lock, worker_list, scheduing_size, execution_size,
                 wpc, arg, cancelled>>

(* Push at the head of the list, under the mutex. *)
threadpool_add_worker(p) ==
  /\ lock = Unlocked
  /\ worker_list' = <<p>> \o worker_list
  /\ scheduing_size' = scheduing_size + 1
  /\ UNCHANGED <<inst, lock, execution_size, max_thread_cap, wpc, arg,
                 cancelled>>

(* Mutant of threadpool_notify: no broadcast. *)
threadpool_notify_silent ==
  /\ lock = Unlocked
  /\ UNCHANGED poolVars

(* Broadcast under the mutex. *)
threadpool_notify ==
  /\ lock = Unlocked
  /\ wpc' = [w \in Worker |-> IF wpc[w] = "wait" THEN "ready" ELSE wpc[w]]
  /\ UNCHANGED <<inst, lock, worker_list, scheduing_size, execution_size,
                 max_thread_cap, arg, cancelled>>

(* Mutant of threadpool_reset_status: execution_size is not reset. *)
threadpool_reset_status_half ==
  /\ lock = Unlocked
  /\ scheduing_size' = 0
  /\ UNCHANGED <<inst, lock, worker_list, execution_size, max_thread_cap, wpc,
                 arg, cancelled>>

(* Both counters back to zero, under the mutex. *)
threadpool_reset_status ==
  /\ lock = Unlocked
  /\ scheduing_size' = 0
  /\ execution_size' = 0
  /\ UNCHANGED <<inst, lock, worker_list, max_thread_cap, wpc, arg, cancelled>>

(* threadpool_stop_and_destroy, first loop: pthread_cancel of the first    *)
(* max_thread_cap threads.                                                 *)
threadpool_cancel_tasks_working ==
  /\ cancelled' = 1..max_thread_cap
  /\ UNCHANGED <<inst, lock, worker_list, scheduing_size, execution_size,
                 max_thread_cap, wpc, arg>>

(* threadpool_stop_and_destroy, second loop and rest: join those threads,  *)
(* cancel_unschedul_tasks, destroy mutex and condition, free the instance. *)
threadpool_join_and_free ==
  /\ \A w \in 1..max_thread_cap : wpc[w] = "dead"
  /\ inst' = "null"
  /\ worker_list' = <<>>
  /\ execution_size' = execution_size + Len(worker_list)
  /\ UNCHANGED <<lock, scheduing_size, max_thread_cap, wpc, arg, cancelled>>
=============================================================================
