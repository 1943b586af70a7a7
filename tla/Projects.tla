------------------------------ MODULE Projects ------------------------------
(***************************************************************************)
(* The objects etmemd manages and the commands that change them: projects  *)
(* with engines with tasks (etmemd_project.c, etmemd_engine.c, the obj     *)
(* commands of etmemd_rpc.c).                                              *)
(*                                                                         *)
(* One thread executes all commands, one after the other, so there is no   *)
(* race here; what a sequence of legal commands leads to, some of which    *)
(* fail half way, is the question.  An obj command is executed one handler *)
(* (one group of its configuration file) at a time.  The threads a started *)
(* task runs are counted: a timer with its thread pool for the engines     *)
(* slide and memdcd, a working entry of the engine thread for cslide.      *)
(***************************************************************************)
EXTENDS Naturals, Sequences, FiniteSets, SequencesExt

CONSTANTS
  Proj, Eng, Task,  \* names; Eng are the engine types of etmemd_engine.c
  RegionProj,       \* the projects whose files say scan_type = region
  Files,            \* the configuration files of the obj commands
  None,             \* a group a file does not have
  Faults,           \* whether a call can fail, in the daemon or in the kernel
  MaxTimers         \* bounds the timers of one task

PoolEng == {"slide", "memdcd"}
StartEng == PoolEng \cup {"cslide"}

ASSUME ProjectsAssumption ==
  /\ Eng \subseteq StartEng \cup {"damon"}
  /\ RegionProj \subseteq Proj
  /\ None \notin Proj
  /\ Faults \in BOOLEAN
  /\ MaxTimers \in Nat \ {0}

Key == Proj \X Eng \X Task
NoFile == [project |-> None, engine |-> None, task |-> None]

VARIABLES
  projs,   \* g_projects
  engs,    \* <<project, engine>> pairs of the projects' engine lists
  tasks,   \* <<project, engine, task>> triples of the engines' task lists
  start,   \* proj->start
  inst,    \* tasks with a timer_inst (pool engines), or working (cslide)
  timers,  \* of each task, how many timers drive it
  orphans, \* removed tasks that a timer still drives
  damon,   \* the kernel's monitor: whose processes it has, and whether it is on
  file, op, todo, err,  \* the obj command being executed
  botched, \* history: page scan projects of which a start has failed
  had,     \* history: the groups of its file whose object was there before
  reply,   \* the last reply
  up       \* the daemon is running

objVars == <<projs, engs, tasks, start>>
runVars == <<inst, timers, orphans>>
cmdVars == <<file, op, todo, err, had, reply>>
vars    == <<objVars, runVars, damon, botched, cmdVars, up>>

Init ==
  /\ projs = {} /\ engs = {} /\ tasks = {}
  /\ start = [p \in Proj |-> FALSE]
  /\ inst = {} /\ timers = [k \in Key |-> 0] /\ orphans = {} /\ botched = {}
  /\ damon = [target |-> None, on |-> FALSE]
  /\ file = NoFile /\ op = "none" /\ todo = <<>>
  /\ err = "OPT_SUCCESS" /\ had = {} /\ reply = "none"
  /\ up = TRUE

\* The command thread waits for the next command.
Idle == up /\ (op \in {"add", "del"} => reply # "none")
TasksOf(p) == {k \in tasks : k[1] = p}
Startable(K) == {k \in K : k[2] \in StartEng}

(***************************************************************************)
(* Starting and stopping tasks.                                            *)
(***************************************************************************)

\* start_task of the engines: a pool engine gives the task a new timer and
\* forgets the one it may have; cslide marks its entry as working.
StartTasks(K) ==
  /\ timers' = [k \in Key |-> IF k \notin K THEN timers[k]
                              ELSE IF k[2] \in PoolEng THEN timers[k] + 1 ELSE 1]
  /\ \A k \in K : timers[k] < MaxTimers

\* stop_task of the engines: a task without timer_inst has nothing to stop.
Stopped(K) ==
  [k \in Key |-> IF k \notin K \cap inst THEN timers[k]
                 ELSE IF k[2] \in PoolEng THEN timers[k] - 1 ELSE 0]

Reply(o, r) ==
  /\ op' = o /\ reply' = r
  /\ file' = NoFile /\ err' = r /\ had' = {} /\ UNCHANGED todo

\* As start_tasks, but it is enough that some task starts.
start_tasks_lenient(p) ==
  LET K == Startable(TasksOf(p))
      unsupported == \E e \in Eng \ StartEng : <<p, e>> \in engs
  IN \E failed \in IF Faults THEN SUBSET {k \in K : k[2] \in PoolEng} ELSE {{}} :
       /\ StartTasks(K \ failed)
       /\ \E lost \in SUBSET failed : inst' = (inst \cup (K \ failed)) \ lost
       /\ IF failed # K \/ K = {}
            THEN /\ start' = [start EXCEPT ![p] = TRUE]
                 /\ Reply("start", "OPT_SUCCESS")
                 /\ UNCHANGED botched
            ELSE /\ botched' = botched \cup {p}
                 /\ Reply("start", "OPT_INTER_ERR")
                 /\ UNCHANGED start
       /\ UNCHANGED <<orphans, damon, up>>

\* start_tasks of a page scan project: every task of every engine is tried,
\* and a failure is only reported; an engine without start_task is one.  A
\* task that fails keeps its timer_inst, or has NULL if it was the timer that
\* could not be created or started.
start_tasks(p) ==
  LET K == Startable(TasksOf(p))
      unsupported == \E e \in Eng \ StartEng : <<p, e>> \in engs
  IN \E failed \in IF Faults THEN SUBSET {k \in K : k[2] \in PoolEng} ELSE {{}} :
       /\ StartTasks(K \ failed)
       /\ \E lost \in SUBSET failed : inst' = (inst \cup (K \ failed)) \ lost
       /\ IF failed = {} /\ ~unsupported
            THEN /\ start' = [start EXCEPT ![p] = TRUE]
                 /\ Reply("start", "OPT_SUCCESS")
                 /\ UNCHANGED botched
            ELSE /\ botched' = botched \cup {p}
                 /\ Reply("start", "OPT_INTER_ERR")
                 /\ UNCHANGED start
       /\ UNCHANGED <<orphans, damon, up>>

EnginesOf(p) == {e \in Eng : <<p, e>> \in engs}

\* What the kernel may hold after a file of it was written that held old.  The
\* write happens in fclose, whose result nobody looks at, so the code goes on
\* whether the kernel took the value or not.
Written(old, new) == {new} \cup (IF Faults THEN {old} ELSE {})

\* etmemd_start_damon of a region scan project: refused if the kernel has no
\* damon.  Then a project without engines makes it follow a NULL pointer; one
\* with another engine, or without a task, is refused.  The processes and the
\* other parameters are written before the monitor is turned on, and stay if
\* a later file cannot be opened.  The kernel need not take other processes
\* while the monitor is on.
etmemd_start_damon(p) ==
  /\ UNCHANGED <<runVars, botched>>
  /\ \/ /\ Faults
        /\ Reply("start", "OPT_INTER_ERR")
        /\ UNCHANGED <<start, damon, up>>
     \/ /\ EnginesOf(p) = {}
        /\ up' = FALSE
        /\ UNCHANGED <<start, damon, cmdVars>>
     \/ /\ EnginesOf(p) # {}
        /\ EnginesOf(p) # {"damon"} \/ TasksOf(p) = {}
        /\ Reply("start", "OPT_INTER_ERR")
        /\ UNCHANGED <<start, damon, up>>
     \/ /\ EnginesOf(p) = {"damon"} /\ TasksOf(p) # {}
        /\ \E t \in Written(damon.target, p) \cup (IF damon.on THEN {damon.target} ELSE {}) :
             \/ /\ damon' \in [target : {t}, on : Written(damon.on, TRUE)]
                /\ start' = [start EXCEPT ![p] = TRUE]
                /\ Reply("start", "OPT_SUCCESS")
             \/ /\ Faults
                /\ damon' = [damon EXCEPT !.target = t]
                /\ UNCHANGED start
                /\ Reply("start", "OPT_INTER_ERR")
        /\ UNCHANGED up

etmemd_migrate_start(p) ==
  /\ Idle
  /\ UNCHANGED <<projs, engs, tasks>>
  /\ \/ /\ p \notin projs
        /\ Reply("start", "OPT_PRO_NOEXIST")
        /\ UNCHANGED <<start, runVars, damon, botched, up>>
     \/ /\ p \in projs /\ start[p]
        /\ Reply("start", "OPT_PRO_STARTED")
        /\ UNCHANGED <<start, runVars, damon, botched, up>>
     \/ p \in projs \ RegionProj /\ ~start[p] /\ start_tasks(p)
     \/ p \in projs \cap RegionProj /\ ~start[p] /\ etmemd_start_damon(p)

\* etmemd_stop_damon: the stop of a region scan project turns the monitor off,
\* whoever it works for, unless the kernel does not take that either; the
\* project stays started if the file cannot be written.
etmemd_stop_damon(p) ==
  \/ /\ \E b \in Written(damon.on, FALSE) : damon' = [damon EXCEPT !.on = b]
     /\ start' = [start EXCEPT ![p] = FALSE]
     /\ Reply("stop", "OPT_SUCCESS")
  \/ /\ Faults
     /\ UNCHANGED <<damon, start>>
     /\ Reply("stop", "OPT_INTER_ERR")

etmemd_migrate_stop(p) ==
  /\ Idle
  /\ UNCHANGED <<projs, engs, tasks, orphans, up>>
  /\ \/ /\ p \notin projs
        /\ Reply("stop", "OPT_PRO_NOEXIST")
        /\ UNCHANGED <<start, inst, timers, damon, botched>>
     \/ /\ p \in projs /\ ~start[p]
        /\ Reply("stop", "OPT_PRO_STOPPED")
        /\ UNCHANGED <<start, inst, timers, damon, botched>>
     \/ /\ p \in projs \ RegionProj /\ start[p]
        /\ timers' = Stopped(TasksOf(p)) /\ inst' = inst \ TasksOf(p)
        /\ start' = [start EXCEPT ![p] = FALSE]
        /\ Reply("stop", "OPT_SUCCESS")
        /\ UNCHANGED <<damon, botched>>
     \/ /\ p \in projs \cap RegionProj /\ start[p]
        /\ etmemd_stop_damon(p)
        /\ UNCHANGED <<inst, timers, botched>>

(***************************************************************************)
(* The obj commands.                                                       *)
(***************************************************************************)
AddOrder == <<"project", "engine", "task">>
DelOrder == <<"task", "engine", "project">>

Named(f) == {g \in Range(AddOrder) : f[g] # None}
Present(f) ==
  LET here == [project |-> projs, engine |-> engs, task |-> tasks]
  IN  {g \in Named(f) : f[g] \in here[g]}

\* do_obj_cmd: the handlers of the groups the file has, in the order of the
\* command's table.  A file without any group is refused.
do_obj_cmd(o, f) ==
  /\ Idle
  /\ file' = f /\ op' = o
  /\ todo' = SelectSeq(IF o = "add" THEN AddOrder ELSE DelOrder, LAMBDA g : f[g] # None)
  /\ err' = "OPT_SUCCESS"
  /\ reply' = "none"
  /\ had' = Present(f)
  /\ UNCHANGED <<objVars, runVars, damon, botched, up>>

\* As Result, but a later success hides the error of a removal.
Result_last(r) ==
  /\ UNCHANGED <<file, op, had, reply>>
  /\ IF r # "OPT_SUCCESS" /\ op = "add"
       THEN todo' = <<>> /\ err' = r
       ELSE todo' = Tail(todo) /\ err' = r

\* The result of a handler: a failed add ends the command, a failed removal
\* is remembered and the command goes on.
Result(r) ==
  /\ UNCHANGED <<file, op, had, reply>>
  /\ IF r # "OPT_SUCCESS" /\ op = "add"
       THEN todo' = <<>> /\ err' = r
       ELSE todo' = Tail(todo) /\ err' = IF r = "OPT_SUCCESS" THEN err ELSE r

\* The reply to the command: the error of the add, or the last one of the
\* removals.
EndObjCmd ==
  /\ up /\ op \in {"add", "del"} /\ todo = <<>> /\ reply = "none"
  /\ reply' = IF Named(file) = {} THEN "OPT_INVAL" ELSE err
  /\ UNCHANGED <<objVars, runVars, damon, botched, file, op, todo, err, had, up>>

Handler(o, g) == up /\ op = o /\ todo # <<>> /\ Head(todo) = g

\* get_group_objs: the parents of a group's object.
NoParents(p, e) ==
  IF p \notin projs THEN "OPT_PRO_NOEXIST"
  ELSE IF <<p, e>> \notin engs THEN "OPT_ENG_NOEXIST" ELSE "OPT_SUCCESS"

Unfit(r) == Result(r) /\ UNCHANGED <<objVars, runVars>>

etmemd_project_add ==
  /\ Handler("add", "project")
  /\ LET p == file.project
     IN \/ p \in projs /\ Unfit("OPT_PRO_EXISTED")
        \/ p \notin projs /\ Faults /\ Unfit("OPT_INVAL")
        \/ /\ p \notin projs
           /\ projs' = projs \cup {p}
           /\ start' = [start EXCEPT ![p] = FALSE]
           /\ Result("OPT_SUCCESS")
           /\ UNCHANGED <<engs, tasks, runVars>>
  /\ UNCHANGED <<damon, botched, up>>

etmemd_project_add_engine ==
  /\ Handler("add", "engine")
  /\ LET p == file.engine[1]
     IN \/ p \notin projs /\ Unfit("OPT_PRO_NOEXIST")
        \/ p \in projs /\ file.engine \in engs /\ Unfit("OPT_ENG_EXISTED")
        \/ p \in projs /\ file.engine \notin engs /\ Faults /\ Unfit("OPT_INTER_ERR")
        \/ /\ p \in projs /\ file.engine \notin engs
           /\ engs' = engs \cup {file.engine}
           /\ Result("OPT_SUCCESS")
           /\ UNCHANGED <<projs, tasks, start, runVars>>
  /\ UNCHANGED <<damon, botched, up>>

\* As etmemd_project_add_task, but the task waits for the next start.
etmemd_project_add_task_idle ==
  /\ Handler("add", "task")
  /\ LET k == file.task
         parents == NoParents(k[1], k[2])
     IN \/ parents # "OPT_SUCCESS" /\ Unfit(parents)
        \/ parents = "OPT_SUCCESS" /\ k \in tasks /\ Unfit("OPT_TASK_EXISTED")
        \/ parents = "OPT_SUCCESS" /\ k \notin tasks /\ Faults /\ Unfit("OPT_INTER_ERR")
        \/ /\ parents = "OPT_SUCCESS" /\ k \notin tasks
           /\ tasks' = tasks \cup {k}
           /\ UNCHANGED <<timers, inst>>
           /\ Result("OPT_SUCCESS")
           /\ UNCHANGED <<projs, engs, start, orphans>>
  /\ UNCHANGED <<damon, botched, up>>

\* A task added to a started project is started, and not added if that fails.
etmemd_project_add_task ==
  /\ Handler("add", "task")
  /\ LET k == file.task
         parents == NoParents(k[1], k[2])
     IN \/ parents # "OPT_SUCCESS" /\ Unfit(parents)
        \/ parents = "OPT_SUCCESS" /\ k \in tasks /\ Unfit("OPT_TASK_EXISTED")
        \/ parents = "OPT_SUCCESS" /\ k \notin tasks /\ Faults /\ Unfit("OPT_INTER_ERR")
        \/ /\ parents = "OPT_SUCCESS" /\ k \notin tasks
           /\ tasks' = tasks \cup {k}
           /\ LET K == IF start[k[1]] THEN Startable({k}) ELSE {}
              IN  StartTasks(K) /\ inst' = inst \cup K
           /\ Result("OPT_SUCCESS")
           /\ UNCHANGED <<projs, engs, start, orphans>>
  /\ UNCHANGED <<damon, botched, up>>

\* As do_remove_tasks, but timer_inst is left behind.
do_remove_tasks_stale(K) ==
  LET left == Stopped({k \in K : start[k[1]]})
  IN  /\ tasks' = tasks \ K
      /\ UNCHANGED inst
      /\ orphans' = orphans \cup {k \in K : k[2] \in PoolEng /\ left[k] > 0}
      /\ timers' = [k \in Key |-> IF k \in K THEN 0 ELSE timers[k]]


\* do_remove_task of each task in K: stopped if its project is started, and
\* freed.  A timer that still runs then drives freed memory; the engine
\* thread of cslide only lets go of its entry.
do_remove_tasks(K) ==
  LET left == Stopped({k \in K : start[k[1]]})
  IN  /\ tasks' = tasks \ K
      /\ inst' = inst \ K
      /\ orphans' = orphans \cup {k \in K : k[2] \in PoolEng /\ left[k] > 0}
      /\ timers' = [k \in Key |-> IF k \in K THEN 0 ELSE timers[k]]

etmemd_project_remove_task ==
  /\ Handler("del", "task")
  /\ LET k == file.task
         parents == NoParents(k[1], k[2])
     IN \/ parents # "OPT_SUCCESS" /\ Unfit(parents)
        \/ parents = "OPT_SUCCESS" /\ k \notin tasks /\ Unfit("OPT_TASK_NOEXIST")
        \/ /\ k \in tasks
           /\ do_remove_tasks({k})
           /\ Result("OPT_SUCCESS")
           /\ UNCHANGED <<projs, engs, start>>
  /\ UNCHANGED <<damon, botched, up>>

\* As etmemd_project_remove_engine, but the engine's tasks are forgotten.
etmemd_project_remove_engine_childless ==
  /\ Handler("del", "engine")
  /\ LET pe == file.engine
     IN \/ pe[1] \notin projs /\ Unfit("OPT_PRO_NOEXIST")
        \/ pe[1] \in projs /\ pe \notin engs /\ Unfit("OPT_ENG_NOEXIST")
        \/ /\ pe \in engs
           /\ UNCHANGED <<tasks, runVars>>
           /\ engs' = engs \ {pe}
           /\ Result("OPT_SUCCESS")
           /\ UNCHANGED <<projs, start>>
  /\ UNCHANGED <<damon, botched, up>>

etmemd_project_remove_engine ==
  /\ Handler("del", "engine")
  /\ LET pe == file.engine
     IN \/ pe[1] \notin projs /\ Unfit("OPT_PRO_NOEXIST")
        \/ pe[1] \in projs /\ pe \notin engs /\ Unfit("OPT_ENG_NOEXIST")
        \/ /\ pe \in engs
           /\ do_remove_tasks({k \in tasks : <<k[1], k[2]>> = pe})
           /\ engs' = engs \ {pe}
           /\ Result("OPT_SUCCESS")
           /\ UNCHANGED <<projs, start>>
  /\ UNCHANGED <<damon, botched, up>>

\* do_remove_project stops the tasks it removes but not the monitor.
do_remove_projects(P) ==
  /\ do_remove_tasks({k \in tasks : k[1] \in P})
  /\ engs' = {pe \in engs : pe[1] \notin P}
  /\ projs' = projs \ P
  /\ UNCHANGED start

etmemd_project_remove ==
  /\ Handler("del", "project")
  /\ \/ file.project \notin projs /\ Unfit("OPT_PRO_NOEXIST")
     \/ file.project \in projs /\ do_remove_projects({file.project}) /\ Result("OPT_SUCCESS")
  /\ UNCHANGED <<damon, botched, up>>

\* A signal ends the command loop; etmemd_stop_all_projects cleans up.
etmemd_stop_all_projects ==
  /\ Idle
  /\ do_remove_projects(projs)
  /\ up' = FALSE
  /\ UNCHANGED <<damon, botched, cmdVars>>

(***************************************************************************)
(* The system.                                                             *)
(***************************************************************************)
Next ==
  \/ \E o \in {"add", "del"}, f \in Files : do_obj_cmd(o, f)
  \/ etmemd_project_add \/ etmemd_project_add_engine \/ etmemd_project_add_task
  \/ etmemd_project_remove_task \/ etmemd_project_remove_engine \/ etmemd_project_remove
  \/ EndObjCmd
  \/ \E p \in Proj : etmemd_migrate_start(p) \/ etmemd_migrate_stop(p)
  \/ etmemd_stop_all_projects

Spec == Init /\ [][Next]_vars

(***************************************************************************)
(* Properties.                                                             *)
(***************************************************************************)

\* The type invariant of the command thread's state; timer_inst is a field of
\* a task, and goes with it.
TypeOK ==
  /\ projs \subseteq Proj /\ engs \subseteq Proj \X Eng /\ tasks \subseteq Key
  /\ start \in [Proj -> BOOLEAN]
  /\ inst \subseteq tasks /\ timers \in [Key -> 0 .. MaxTimers] /\ orphans \subseteq Key
  /\ damon \in [target : Proj \cup {None}, on : BOOLEAN]
  /\ file \in Files \cup {NoFile} /\ op \in {"none", "start", "stop", "add", "del"}
  /\ had \subseteq Range(AddOrder) /\ botched \subseteq Proj
  /\ up \in BOOLEAN

\* No engine outlives its project and no task its engine: the task's and the
\* engine's pointers to their parents stay good.
ParentsExist ==
  /\ \A pe \in engs : pe[1] \in projs
  /\ \A k \in tasks : <<k[1], k[2]>> \in engs
  /\ \A k \in Key : timers[k] > 0 => k \in tasks

\* If no start fails, a task is driven by exactly one timer while its project
\* is started and by none otherwise, whatever is added, removed, started and
\* stopped in between, and no timer drives a removed task.
RunsIffStarted ==
  /\ orphans = {}
  /\ \A k \in Startable(tasks) : timers[k] = IF start[k[1]] THEN 1 ELSE 0


\* A project that counts as started has all its tasks running, even if
\* starting it has failed for some of them before.
StartedRuns == \A k \in Startable(tasks) : start[k[1]] => timers[k] > 0

\* An obj command that replies success has done all it was asked for: every
\* object of the file was not there before and is now, or the reverse.
SuccessIsComplete ==
  reply = "OPT_SUCCESS" /\ up =>
    /\ op = "add" => had = {} /\ Present(file) = Named(file)
    /\ op = "del" => had = Named(file) /\ Present(file) = {}

\* "Before a project is deleted, all tasks in the project automatically
\* stop": no timer goes on driving a task that has been freed.
NoOrphans == orphans = {}

\* "When the administrator runs the obj del command to delete a project, the
\* project automatically stops if it has been started."
DeletedIsStopped == damon.on => damon.target \in projs
=============================================================================
