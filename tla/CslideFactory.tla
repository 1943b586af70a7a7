--------------------------- MODULE CslideFactory ---------------------------
(***************************************************************************)
(* The life of a cslide engine's process parameters (etmemd_cslide.c).     *)
(*                                                                         *)
(* Two threads share them without a common lock.  The command thread       *)
(* allocates the parameters of a task, starts and stops them by writing    *)
(* their state, and hands them over to be freed; the engine thread         *)
(* cslide_main links new ones into its working list, walks that list in    *)
(* every phase of a round, and frees the ones given back.  Only the list   *)
(* of new parameters is protected by a mutex, whose critical sections are  *)
(* single steps here.                                                      *)
(*                                                                         *)
(* A task of a cslide engine has one process, so a node of the lists       *)
(* stands for a task, its task_pid and its cslide_pid_params.              *)
(***************************************************************************)
EXTENDS Naturals, Sequences, FiniteSets, SequencesExt

CONSTANTS
  Node,   \* the cslide_pid_params ever allocated: bounds the tasks added
  Nil,    \* the NULL pointer
  Loop    \* eng_params->loop, scans of every process in a round

ASSUME FactoryAssumption == Nil \notin Node /\ Loop \in Nat \ {0}

VARIABLES
  mem,       \* of each node: "unalloc", "live" or "freed"
  state,     \* params->state
  to_add,    \* factory->to_add_head .. to_add_tail
  taken,     \* the local to_add list of factory_update_pid_params
  working,   \* factory->working_head ..
  data,      \* what a round has allocated for each node and not released
  scans,     \* history: how many scans went into that
  finish,    \* eng_params->finish
  pc, iter,  \* where cslide_main is, and the node it is at
  gone,      \* the node it has unlinked and is about to free
  last,      \* it has seen finish and is in its last update
  round,     \* scans already made in this round
  tasks,     \* nodes the engine's tasks still point to
  start,     \* proj->start
  rpc,       \* what the command thread is doing
  left,      \* the tasks it still has to do it to
  at,        \* the node it is at: in factory_add, or walking the list
  halted     \* history: nodes that were not working at some time since the
             \* round began to read areas

mainVars == <<taken, working, data, scans, pc, iter, gone, last, round>>
cmdVars  == <<state, finish, tasks, start, rpc, left, at>>
rpcVars  == <<cmdVars, halted>>
vars     == <<mem, to_add, mainVars, rpcVars>>

\* What a round hangs on a node: the areas of the process (vmas, vma_pf), the
\* page references its scans put there (vma_pf[].page_refs), the references
\* counted by node (count_page_refs), and the ones chosen to migrate
\* (memory_grade).  A reference is moved from each of these to the next.
Data == {"vmas", "refs", "counted", "graded"}

\* The phases in which cslide_main walks the working list, in their order.
Phases == <<"empty", "get_vmas", "scan", "count", "filter", "migrate">>

Init ==
  /\ mem = [n \in Node |-> "unalloc"]
  /\ state = [n \in Node |-> "NONE"]
  /\ to_add = <<>> /\ taken = <<>> /\ working = <<>>
  /\ data = [n \in Node |-> {}] /\ scans = [n \in Node |-> 0]
  /\ finish = FALSE
  /\ pc = "take" /\ iter = Nil /\ gone = Nil /\ last = FALSE /\ round = 0
  /\ tasks = {} /\ start = FALSE
  /\ rpc = "idle" /\ left = {} /\ at = Nil /\ halted = {}

(***************************************************************************)
(* The command thread.                                                     *)
(***************************************************************************)
Head0(s) == IF s = <<>> THEN Nil ELSE Head(s)

\* n->next: NULL at the end of the list and once the node is unlinked.
NextOf(n) ==
  LET I == {i \in DOMAIN working : working[i] = n}
  IN  IF I = {} THEN Nil
      ELSE LET i == CHOOSE i \in I : TRUE
           IN  IF i = Len(working) THEN Nil ELSE working[i + 1]

\* cslide_fill_task: the parameters of a new task; they are started at once
\* when the project is running.  A failure releases what was allocated and
\* leaves no trace.
FillTask(n) ==
  /\ rpc = "idle" /\ ~finish
  /\ mem[n] = "unalloc"
  /\ mem' = [mem EXCEPT ![n] = "live"]
  /\ tasks' = tasks \cup {n}
  /\ IF start THEN rpc' = "start" /\ left' = {n} ELSE UNCHANGED <<rpc, left>>
  /\ UNCHANGED <<to_add, mainVars, state, finish, start, at, halted>>

\* The start and stop commands, over all tasks of the engine.
Begin(op) ==
  /\ rpc = "idle" /\ ~finish
  /\ start = (op = "stop")
  /\ rpc' = op /\ left' = tasks
  /\ UNCHANGED <<mem, to_add, mainVars, state, finish, tasks, start, at, halted>>

\* As SetWorking, but started parameters are linked again.
SetWorking_always(n) ==
  /\ rpc = "start" /\ at = Nil /\ n \in left
  /\ state' = [state EXCEPT ![n] = "WORKING"]
  /\ left' = left \ {n}
  /\ at' = n
  /\ UNCHANGED <<mem, to_add, mainVars, finish, tasks, start, rpc, halted>>

\* factory_add_pid_params, first half: the state is set before the list is
\* touched, and only parameters that were never started are linked.
SetWorking(n) ==
  /\ rpc = "start" /\ at = Nil /\ n \in left
  /\ state' = [state EXCEPT ![n] = "WORKING"]
  /\ left' = left \ {n}
  /\ at' = IF state[n] = "NONE" THEN n ELSE Nil
  /\ UNCHANGED <<mem, to_add, mainVars, finish, tasks, start, rpc, halted>>

\* factory_add_pid_params, second half, under factory->mtx.
PushToAdd ==
  /\ rpc = "start" /\ at # Nil
  /\ to_add' = <<at>> \o to_add
  /\ at' = Nil
  /\ UNCHANGED <<mem, mainVars, state, finish, tasks, start, rpc, left, halted>>

\* The project is started unless a task of another engine failed to start.
EndStart ==
  /\ rpc = "start" /\ at = Nil /\ left = {}
  /\ \E ok \in BOOLEAN : start' = (start \/ ok)
  /\ rpc' = "idle"
  /\ UNCHANGED <<mem, to_add, mainVars, state, finish, tasks, left, at, halted>>

\* The round is at work: it has found a node that is working.
InRound == pc \in Range(Phases) \ {"empty"}
Halted(n) == IF InRound THEN halted \cup {n} ELSE halted

\* cslide_stop_task, for the stop command and for a task being removed.
factory_remove_pid_params(n) ==
  /\ rpc = "stop" /\ n \in left
  /\ state' = [state EXCEPT ![n] = "REMOVE"]
  /\ left' = left \ {n}
  /\ halted' = Halted(n)
  /\ UNCHANGED <<mem, to_add, mainVars, finish, tasks, start, rpc, at>>

EndStop ==
  /\ rpc = "stop" /\ left = {}
  /\ start' = FALSE /\ rpc' = "idle"
  /\ UNCHANGED <<mem, to_add, mainVars, state, finish, tasks, left, at, halted>>

\* obj del of a task: do_remove_task; of the engine: all its tasks in turn.
BeginRemove(T, op) ==
  /\ rpc = "idle" /\ ~finish
  /\ rpc' = op /\ left' = T
  /\ UNCHANGED <<mem, to_add, mainVars, state, finish, tasks, start, at, halted>>

\* A task of a running project is stopped before it is cleared.
StopRemoved(n) ==
  /\ rpc \in {"del_task", "del_eng"} /\ at = Nil /\ n \in left
  /\ IF start
       THEN state' = [state EXCEPT ![n] = "REMOVE"] /\ halted' = Halted(n)
       ELSE UNCHANGED <<state, halted>>
  /\ at' = n
  /\ UNCHANGED <<mem, to_add, mainVars, finish, tasks, start, rpc, left>>

\* Parameters that were never linked are freed here, the others are left to
\* cslide_main.  Either way the task forgets them.
factory_free_pid_params ==
  /\ rpc \in {"del_task", "del_eng"} /\ at # Nil
  /\ IF state[at] = "NONE"
       THEN mem' = [mem EXCEPT ![at] = "freed"] /\ UNCHANGED <<state, halted>>
       ELSE state' = [state EXCEPT ![at] = "FREE"] /\ halted' = Halted(at) /\ UNCHANGED mem
  /\ tasks' = tasks \ {at} /\ left' = left \ {at} /\ at' = Nil
  /\ UNCHANGED <<to_add, mainVars, finish, start, rpc>>

\* The end of the removal; cslide_clear_eng tells cslide_main to finish.
EndRemove ==
  /\ rpc \in {"del_task", "del_eng"} /\ at = Nil /\ left = {}
  /\ finish' = (rpc = "del_eng")
  /\ rpc' = "idle"
  /\ UNCHANGED <<mem, to_add, mainVars, state, tasks, start, left, at, halted>>

\* cslide_engine_do_cmd of a started project: before it prints statistics it
\* walks the working list of the other thread, looking for a working node.
BeginCmd ==
  /\ rpc = "idle" /\ ~finish /\ start
  /\ at' = Head0(working)
  /\ rpc' = IF at' = Nil THEN "idle" ELSE "walk"
  /\ UNCHANGED <<mem, to_add, mainVars, state, finish, tasks, start, left, halted>>

\* One node of the walk.  What a freed node holds is anybody's guess: the
\* walk may end there or go on at any other memory.
WalkCmd ==
  /\ rpc = "walk"
  /\ \/ mem[at] = "live"
        /\ at' = IF state[at] = "WORKING" THEN Nil ELSE NextOf(at)
     \/ mem[at] = "freed"
        /\ at' \in {Nil} \cup {n \in Node : mem[n] # "unalloc"}
  /\ rpc' = IF at' = Nil THEN "idle" ELSE "walk"
  /\ UNCHANGED <<mem, to_add, mainVars, state, finish, tasks, start, left, halted>>

(***************************************************************************)
(* cslide_main.                                                            *)
(***************************************************************************)

\* factory_update_pid_params: takes the new parameters under factory->mtx,
TakeAdded ==
  /\ pc = "take"
  /\ taken' = to_add /\ to_add' = <<>>
  /\ pc' = "splice"
  /\ UNCHANGED <<mem, working, data, scans, iter, gone, last, round, rpcVars>>

\* As SpliceAdded, but the list of new parameters is emptied only here,
\* outside the critical section.
SpliceAdded_clears ==
  /\ pc = "splice"
  /\ working' = taken \o working /\ taken' = <<>> /\ to_add' = <<>>
  /\ iter' = Head0(working')
  /\ pc' = "sweep"
  /\ UNCHANGED <<mem, data, scans, gone, last, round, rpcVars>>

\* puts them before the working ones,
SpliceAdded ==
  /\ pc = "splice"
  /\ working' = taken \o working /\ taken' = <<>>
  /\ iter' = Head0(working')
  /\ pc' = "sweep"
  /\ UNCHANGED <<mem, to_add, data, scans, gone, last, round, rpcVars>>

\* As Sweep, but it ends at the first node that is still in use.
Sweep_stops ==
  /\ pc = "sweep" /\ gone = Nil /\ iter # Nil
  /\ IF state[iter] = "FREE"
       THEN gone' = iter /\ working' = Remove(working, iter) /\ iter' = NextOf(iter)
       ELSE iter' = Nil /\ UNCHANGED <<gone, working>>
  /\ UNCHANGED <<mem, to_add, taken, data, scans, pc, last, round, rpcVars>>

\* and unlinks every node the command thread has given back;
Sweep ==
  /\ pc = "sweep" /\ gone = Nil /\ iter # Nil
  /\ iter' = NextOf(iter)
  /\ IF state[iter] = "FREE"
       THEN gone' = iter /\ working' = Remove(working, iter)
       ELSE UNCHANGED <<gone, working>>
  /\ UNCHANGED <<mem, to_add, taken, data, scans, pc, last, round, rpcVars>>

\* free_pid_params frees the node, but not what a round hung on it.
FreeSwept ==
  /\ pc = "sweep" /\ gone # Nil
  /\ mem' = [mem EXCEPT ![gone] = "freed"]
  /\ gone' = Nil
  /\ UNCHANGED <<to_add, taken, working, data, scans, pc, iter, last, round, rpcVars>>

\* The end of the sweep: after the last one the engine is destroyed.
EndSweep ==
  /\ pc = "sweep" /\ gone = Nil /\ iter = Nil
  /\ pc' = IF last THEN "done" ELSE "check"
  /\ UNCHANGED <<mem, to_add, taken, working, data, scans, iter, gone, last, round, rpcVars>>

\* As CheckFinish, but without the last update.
CheckFinish_early ==
  /\ pc = "check"
  /\ IF finish
       THEN pc' = "done" /\ UNCHANGED <<iter, last>>
       ELSE /\ pc' \in {"empty", "clean"} /\ UNCHANGED last
            /\ iter' = Head0(working)
  /\ UNCHANGED <<mem, to_add, taken, working, data, scans, gone, round, rpcVars>>

\* As CheckFinish, but only when there is something to work on.
CheckFinish_busy ==
  /\ pc = "check"
  /\ IF finish /\ working # <<>>
       THEN pc' = "take" /\ last' = TRUE /\ UNCHANGED iter
       ELSE /\ pc' \in {"empty", "clean"} /\ UNCHANGED last
            /\ iter' = Head0(working)
  /\ UNCHANGED <<mem, to_add, taken, working, data, scans, gone, round, rpcVars>>

\* Finish, with one more update, or begin a round, unless the system's
\* memory cannot be read.
CheckFinish ==
  /\ pc = "check"
  /\ IF finish
       THEN pc' = "take" /\ last' = TRUE /\ UNCHANGED iter
       ELSE /\ pc' \in {"empty", "clean"} /\ UNCHANGED last
            /\ iter' = Head0(working)
  /\ UNCHANGED <<mem, to_add, taken, working, data, scans, gone, round, rpcVars>>

\* What the round has hung on the node it is at.
Here == data[iter]

\* A phase leaves d there and goes on to the next node, or fails, which ends
\* the round.
Hang(d) ==
  /\ data' = [data EXCEPT ![iter] = d]
  /\ iter' = NextOf(iter)
  /\ UNCHANGED pc

Fail(d) ==
  /\ data' = [data EXCEPT ![iter] = d]
  /\ pc' = "clean" /\ iter' = Head0(working)

\* factory_working_empty and the five walks over the working nodes.  A node
\* whose state is not WORKING when the walk reaches it is passed over.
Pass ==
  /\ pc \in Range(Phases) /\ iter # Nil
  /\ state[iter] # "WORKING"
  /\ Hang(Here)
  /\ UNCHANGED <<mem, to_add, taken, working, scans, gone, last, round, rpcVars>>

\* factory_working_empty stops at the first working node.
FoundWorking ==
  /\ pc = "empty" /\ iter # Nil /\ state[iter] = "WORKING"
  /\ pc' = "get_vmas" /\ iter' = Head0(working)
  /\ halted' = {n \in Range(working) : state[n] # "WORKING"}
  /\ UNCHANGED <<data, scans>>

\* cslide_get_vmas: no area to scan is not a failure.
get_vmas ==
  /\ pc = "get_vmas"
  /\ Hang(Here) \/ Hang(Here \cup {"vmas"}) \/ Fail(Here)
  /\ UNCHANGED <<scans, halted>>

\* As scan_vmas, but a process that cannot be scanned is passed over.
scan_vmas_tolerant ==
  /\ pc = "scan"
  /\ \/ "vmas" \notin Here /\ Hang(Here) /\ UNCHANGED scans
     \/ /\ "vmas" \in Here
        /\ \E d \in {Here, Here \cup {"refs"}} :
             \/ Hang(d) /\ scans' = [scans EXCEPT ![iter] = @ + 1]
             \/ Hang(d) /\ UNCHANGED scans
  /\ UNCHANGED halted

\* cslide_scan_vmas, if the areas were read: it puts references to the pages
\* it finds with the areas, those before the one it fails at included.
scan_vmas ==
  /\ pc = "scan"
  /\ \/ "vmas" \notin Here /\ Hang(Here) /\ UNCHANGED scans
     \/ /\ "vmas" \in Here
        /\ \E d \in {Here, Here \cup {"refs"}} :
             \/ Hang(d) /\ scans' = [scans EXCEPT ![iter] = @ + 1]
             \/ Fail(d) /\ UNCHANGED scans
  /\ UNCHANGED halted

\* cslide_count_node_pfs, if the areas were read: next_vma_pf takes the
\* references away from them, none if the process was not scanned.  Pages on
\* no known node are dropped, and a failure may come after a part of them.
count_node_pfs ==
  LET rest == Here \ {"refs"}
      got  == IF "refs" \in Here THEN {"counted"} ELSE {}
  IN  /\ pc = "count"
      /\ \/ "vmas" \notin Here /\ Hang(Here)
         \/ "vmas" \in Here /\ \E d \in SUBSET got : Hang(rest \cup d)
         \/ "vmas" \in Here /\ \E d \in SUBSET (got \cup (Here \ rest)) : Fail(rest \cup d)
      /\ UNCHANGED <<scans, halted>>

\* cslide_filter_pfs moves counted pages to the lists to migrate.
filter_pfs ==
  /\ pc = "filter"
  /\ \/ Hang(Here)
     \/ /\ "counted" \in Here
        /\ \E d \in {Here, Here \ {"counted"}} : Hang(d \cup {"graded"})
  /\ UNCHANGED <<scans, halted>>

\* migrate_single_task, of what was chosen.
migrate_task ==
  /\ pc = "migrate"
  /\ Hang(Here) \/ ("graded" \in Here /\ Fail(Here))
  /\ UNCHANGED <<scans, halted>>

Visit ==
  /\ pc \in Range(Phases) /\ iter # Nil
  /\ state[iter] = "WORKING"
  /\ \/ FoundWorking \/ get_vmas \/ scan_vmas
     \/ count_node_pfs \/ filter_pfs \/ migrate_task
  /\ UNCHANGED <<mem, to_add, taken, working, gone, last, round, cmdVars>>

NextPhase ==
  CASE pc = "empty" -> "clean"
    [] pc = "get_vmas" -> "scan"
    [] pc = "scan" -> IF round + 1 < Loop THEN "scan" ELSE "count"
    [] pc = "count" -> "filter"
    [] pc = "filter" -> "migrate"
    [] pc = "migrate" -> "clean"

\* The end of a walk; init_flow_ctrl, before the next one, may fail.
EndPhase ==
  /\ pc \in Range(Phases) /\ iter = Nil
  /\ pc' = NextPhase \/ (pc = "count" /\ pc' = "clean")
  /\ iter' = Head0(working)
  /\ round' = IF pc = "scan" THEN round + 1 ELSE round
  /\ UNCHANGED <<mem, to_add, taken, working, data, scans, gone, last, rpcVars>>

\* As Clean, but stopped processes are passed over.
Clean_working ==
  /\ pc = "clean" /\ iter # Nil
  /\ IF state[iter] = "WORKING"
       THEN data' = [data EXCEPT ![iter] = {}] /\ scans' = [scans EXCEPT ![iter] = 0]
       ELSE UNCHANGED <<data, scans>>
  /\ iter' = NextOf(iter)
  /\ UNCHANGED <<mem, to_add, taken, working, pc, gone, last, round, rpcVars>>

\* cslide_clean_params, after the sleep: all linked nodes, working or not.
Clean ==
  /\ pc = "clean" /\ iter # Nil
  /\ data' = [data EXCEPT ![iter] = {}] /\ scans' = [scans EXCEPT ![iter] = 0]
  /\ iter' = NextOf(iter)
  /\ UNCHANGED <<mem, to_add, taken, working, pc, gone, last, round, rpcVars>>

\* As EndRound, but the scans of the next round are counted on.
EndRound_counting ==
  /\ pc = "clean" /\ iter = Nil
  /\ pc' = "take" /\ halted' = {}
  /\ UNCHANGED <<mem, to_add, taken, working, data, scans, iter, gone, last, round, cmdVars>>

EndRound ==
  /\ pc = "clean" /\ iter = Nil
  /\ pc' = "take" /\ halted' = {} /\ round' = 0
  /\ UNCHANGED <<mem, to_add, taken, working, data, scans, iter, gone, last, cmdVars>>

(***************************************************************************)
(* The system.                                                             *)
(***************************************************************************)
Main == \/ TakeAdded \/ SpliceAdded \/ Sweep \/ FreeSwept \/ EndSweep
        \/ CheckFinish \/ Pass \/ Visit \/ EndPhase \/ Clean \/ EndRound

RemoveCmd == \/ \E n \in tasks : BeginRemove({n}, "del_task")
             \/ BeginRemove(tasks, "del_eng")

Rpc == \/ \E n \in Node : \/ FillTask(n) \/ SetWorking(n) \/ StopRemoved(n)
                          \/ factory_remove_pid_params(n)
       \/ \E op \in {"start", "stop"} : Begin(op)
       \/ PushToAdd \/ EndStart \/ EndStop
       \/ RemoveCmd \/ factory_free_pid_params \/ EndRemove
       \/ BeginCmd \/ WalkCmd

Next == Main \/ Rpc

Spec == Init /\ [][Next]_vars

\* The engine thread keeps running: nothing it does blocks for ever.  The
\* command thread need not send another command.
FairSpec == Spec /\ WF_vars(Main)

\* Nodes are interchangeable in the runs without liveness.
Symmetry == Permutations(Node)

(***************************************************************************)
(* Properties.                                                             *)
(***************************************************************************)

\* The type invariant of the two threads' state.
TypeOK ==
  /\ mem \in [Node -> {"unalloc", "live", "freed"}]
  /\ state \in [Node -> {"NONE", "WORKING", "REMOVE", "FREE"}]
  /\ to_add \in Seq(Node) /\ taken \in Seq(Node) /\ working \in Seq(Node)
  /\ data \in [Node -> SUBSET Data] /\ scans \in [Node -> 0 .. Loop]
  /\ finish \in BOOLEAN /\ last \in BOOLEAN /\ start \in BOOLEAN
  /\ pc \in Range(Phases) \cup {"take", "splice", "sweep", "check", "clean", "done"}
  /\ iter \in Node \cup {Nil} /\ gone \in Node \cup {Nil} /\ round \in 0 .. Loop
  /\ halted \subseteq Node
  /\ tasks \subseteq Node /\ left \subseteq tasks /\ at \in Node \cup {Nil}
  /\ rpc \in {"idle", "start", "stop", "del_task", "del_eng", "walk"}

Linked == to_add \o taken \o working

\* Parameters are on the lists of the factory at most once, however often
\* factory_add_pid_params is called for them, and cslide_main and the tasks
\* only ever point to parameters that are allocated: one party frees them,
\* once, when the other has no pointer to them left.
OneOwnerFrees ==
  /\ IsInjective(Linked)
  /\ Range(Linked) \cup tasks \cup ({iter, gone} \ {Nil})
       \subseteq {n \in Node : mem[n] = "live"}

\* No parameters are lost: once a task has given its parameters back they
\* are on a list cslide_main will sweep, or in its hand, or freed.
NoneLost ==
  \A n \in Node : mem[n] = "live" /\ n \notin tasks
                    => n \in Range(Linked) \cup {gone}

\* free_pid_params releases neither vmas nor the page references: whenever
\* parameters are freed, and whenever a round starts to fill them again,
\* cslide_clean_params has released these, even for a process stopped in the
\* middle of a round that failed.
RoundDataReleased ==
  /\ \A n \in Node : mem[n] # "live" => data[n] = {}
  /\ pc \in {"take", "splice", "sweep", "check", "empty"} => \A n \in Node : data[n] = {}

\* When the engine thread ends, nothing it was given is left allocated.
NothingLeft == pc = "done" => \A n \in Node : mem[n] # "live"

\* Every phase reads the state of a process anew, so one that is stopped and
\* started again misses some.  Still, what is counted, chosen and migrated was
\* scanned in this round and in no other: Loop times, unless the command
\* thread stopped the process after the round began, and then at least once.
\* An error of a scan never leaves a process with fewer.
CountsWholeScans ==
  \A n \in Node : data[n] \cap {"counted", "graded"} # {} =>
    /\ scans[n] \in 1 .. Loop
    /\ n \notin halted => scans[n] = Loop

\* Parameters that are given back are freed in the end.
EventuallyFreed == \A n \in Node : state[n] = "FREE" ~> mem[n] = "freed"

\* Removing the engine ends its thread.
EngineEnds == finish ~> pc = "done"

\* The command thread never touches parameters that cslide_main has freed;
\* the comment in factory_free_pid_params says that leaving the freeing to
\* cslide_main avoids the race.
CmdTouchesLive == rpc = "walk" => mem[at] = "live"
=============================================================================
