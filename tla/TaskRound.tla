------------------------------ MODULE TaskRound ------------------------------
(***************************************************************************)
(* What one task of etmemd promises, without threads, mutexes or counters: *)
(* scan rounds never overlap, a round scans each process of the task once, *)
(* on at most MaxThreads threads at a time, and a stopped task scans       *)
(* nothing.  PoolAdapter implements it.                                    *)
(***************************************************************************)
EXTENDS Naturals, FiniteSets

CONSTANTS
  Pid,          \* processes a task may scan
  MaxThreads,   \* processes scanned at the same time
  Lossy         \* whether a process may be dropped from a round

VARIABLES
  phase,     \* "stopped", "idle" between rounds, "round", or "stopping"
  todo,      \* processes of the round not yet taken up
  running    \* processes being scanned

vars == <<phase, todo, running>>

Init ==
  /\ phase = "stopped"
  /\ todo = {}
  /\ running = {}

Start ==
  /\ phase = "stopped"
  /\ phase' = "idle"
  /\ UNCHANGED <<todo, running>>

(* A round begins only when nothing of the previous one is left. *)
BeginRound ==
  /\ phase = "idle"
  /\ todo = {} /\ running = {}
  /\ phase' = "round"
  /\ todo' \in SUBSET Pid \ {{}}
  /\ UNCHANGED running

Scan(p) ==
  /\ phase \in {"round", "stopping"}
  /\ p \in todo \ running
  /\ Cardinality(running) < MaxThreads
  /\ todo' = todo \ {p}
  /\ running' = running \cup {p}
  /\ UNCHANGED phase

Finish(p) ==
  /\ p \in running
  /\ running' = running \ {p}
  /\ UNCHANGED <<phase, todo>>

(* Out of memory: some processes are left out of the round. *)
Drop ==
  /\ Lossy
  /\ phase = "round"
  /\ todo' \in SUBSET todo
  /\ UNCHANGED <<phase, running>>

EndRound ==
  /\ phase = "round"
  /\ todo = {} /\ running = {}
  /\ phase' = "idle"
  /\ UNCHANGED <<todo, running>>

(* The timer is gone: no more rounds, the current one is abandoned. *)
Abandon ==
  /\ phase \in {"idle", "round"}
  /\ phase' = "stopping"
  /\ todo' \in SUBSET todo
  /\ UNCHANGED running

(* EndRound and Abandon in one step. *)
EndAndAbandon ==
  /\ phase = "round"
  /\ todo = {} /\ running = {}
  /\ phase' = "stopping"
  /\ UNCHANGED <<todo, running>>

Stop ==
  /\ phase \in {"idle", "stopping"}
  /\ running = {}
  /\ phase' = "stopped"
  /\ todo' = {}
  /\ UNCHANGED running

Next ==
  \/ Start \/ BeginRound \/ Drop \/ EndRound \/ Abandon \/ EndAndAbandon \/ Stop
  \/ \E p \in Pid : Scan(p) \/ Finish(p)

Spec == Init /\ [][Next]_vars
=============================================================================
