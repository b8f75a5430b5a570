---------------------------------- MODULE Swarm ----------------------------------
(* SwarmCoordinator of RecursiveMachineIntelligence/src/core/swarm.rs: agents *)
(* register and leave, tasks are queued, scheduled to idle agents, reported   *)
(* as finished, and queued again when their agent leaves.  The report on a    *)
(* task may come at any time, also late from an agent that has left.          *)
EXTENDS Integers, Sequences, FiniteSets, SequencesExt, FiniteSetsExt, Retain

Nobody == "nobody"

CONSTANTS
    Worker,      \* the ids register_agent draws
    SkillsOf,    \* by worker: its capabilities
    MaxWorkers,  \* max_agents
    JobOf        \* by task: its priority, capability, dependencies

ASSUME SwarmAssumption ==
    /\ DOMAIN SkillsOf = Worker /\ MaxWorkers \in Nat
    /\ \A j \in DOMAIN JobOf : JobOf[j].after \subseteq DOMAIN JobOf
    /\ Worker \cap DOMAIN JobOf = {} /\ Nobody \notin Worker

VARIABLES
    members,     \* agents: by registered worker, whether it is Idle, and its tasks
    queue,       \* task_queue
    active,      \* active_tasks: by task, the worker it is assigned to, or Nobody
    finished,    \* completed_tasks
    phase,       \* the coordinator's state
    seen         \* history: the workers that registered, the tasks submitted

swarmVars == <<members, queue, active, finished, phase, seen>>

Job == DOMAIN JobOf

SwarmInit ==
    /\ members = <<>> /\ queue = <<>> /\ active = <<>> /\ finished = <<>>
    /\ phase = "starting" /\ seen = {}

-----------------------------------------------------------------------------
Register(w) ==
    /\ w \notin seen /\ Cardinality(DOMAIN members) < MaxWorkers
    /\ members' = [v \in DOMAIN members \cup {w} |->
                       IF v = w THEN [idle |-> TRUE, tasks |-> <<>>] ELSE members[v]]
    /\ seen' = seen \cup {w}
    /\ UNCHANGED <<queue, active, finished, phase>>

Submit(j) ==
    /\ j \notin seen
    /\ queue' = Append(queue, j)
    /\ seen' = seen \cup {j}
    /\ UNCHANGED <<members, active, finished, phase>>

(* A copy of each of its tasks goes to the front of the queue; the task stays*)
(* among the active ones, with nobody.                                       *)
Unregister(w) ==
    /\ w \in DOMAIN members
    /\ LET left == Retained(members[w].tasks, DOMAIN active) IN
       /\ queue' = Reverse(left) \o queue
       /\ active' = [j \in DOMAIN active |-> IF j \in ToSet(left) THEN Nobody ELSE active[j]]
    /\ members' = [v \in DOMAIN members \ {w} |-> members[v]]
    /\ UNCHANGED <<finished, phase, seen>>

-----------------------------------------------------------------------------
(* schedule, for one idle worker after the other.  A coordinator is          *)
(* [members, queue, active].                                                 *)

CanHandle(w, j) == SkillsOf[w] \cap {JobOf[j].skill, "all"} # {}

(* The positions next_task_for_agent would take: of the highest priority the *)
(* last.  Everything that is queued is Pending.                              *)
Best(w, tasksQueued) ==
    {i \in DOMAIN tasksQueued :
        /\ CanHandle(w, tasksQueued[i])
        /\ \A k \in DOMAIN tasksQueued : CanHandle(w, tasksQueued[k]) =>
              \/ JobOf[tasksQueued[i]].priority > JobOf[tasksQueued[k]].priority
              \/ JobOf[tasksQueued[i]].priority = JobOf[tasksQueued[k]].priority /\ i >= k}

(* Mutant: the task is read from the queue and stays there. *)
DequeuedLeft(tasksQueued, i) == tasksQueued

Dequeued(tasksQueued, i) == RemoveAt(tasksQueued, i)

Assign(c, w) ==
    IF Best(w, c.queue) = {} THEN c
    ELSE LET i == CHOOSE i \in Best(w, c.queue) : TRUE
             j == c.queue[i]
         IN [members |-> [c.members EXCEPT ![w] = [idle |-> FALSE, tasks |-> Append(@.tasks, j)]],
             queue   |-> Dequeued(c.queue, i),
             active  |-> [k \in DOMAIN c.active \cup {j} |-> IF k = j THEN w ELSE c.active[k]]]

IdleMembers == {w \in DOMAIN members : members[w].idle}

Scheduled(order) ==
    LET after[n \in 0 .. Len(order)] ==
          IF n = 0 THEN [members |-> members, queue |-> queue, active |-> active]
          ELSE Assign(after[n - 1], order[n])
    IN after[Len(order)]

(* The agents come in the order of a hash map, which is any. *)
Schedule ==
    /\ \E order \in SetToSeqs(IdleMembers) :
         LET c == Scheduled(order)
         IN members' = c.members /\ queue' = c.queue /\ active' = c.active
    /\ UNCHANGED <<finished, phase, seen>>

(* complete_task: with the task's agent, if it has one that is registered.   *)
Complete(j) ==
    /\ j \in DOMAIN active
    /\ active' = [k \in DOMAIN active \ {j} |-> active[k]]
    /\ members' = [w \in DOMAIN members |->
          IF w # active[j] THEN members[w]
          ELSE [idle |-> TRUE, tasks |-> Retained(members[w].tasks, Job \ {j})]]
    /\ finished' = Append(finished, j)
    /\ UNCHANGED <<queue, phase, seen>>

(* start, pause and stop, which nothing else looks at. *)
SetPhase(p) == phase' = p /\ UNCHANGED <<members, queue, active, finished, seen>>

(* bound: a task that is finished again and again is followed twice.         *)
SwarmNext ==
    \/ \E w \in Worker : Register(w) \/ Unregister(w)
    \/ \E j \in Job : Submit(j)
    \/ Schedule
    \/ \E j \in Job : Len(Retained(finished, {j})) < 2 /\ Complete(j)
    \/ \E p \in {"running", "paused", "shuttingDown"} : SetPhase(p)

SwarmSpec == SwarmInit /\ [][SwarmNext]_swarmVars

-----------------------------------------------------------------------------
Has(w) == ToSet(members[w].tasks)
Holders(j) == {w \in DOMAIN members : j \in Has(w)}

(* However agents come and go and whenever reports arrive, no task is lost,  *)
(* none is with two agents, queued twice, or queued while an agent has it;   *)
(* an agent has one task or is Idle, and its task is active in its name.     *)
SwarmIsSound ==
    /\ \A j \in seen \cap Job : j \in ToSet(queue) \cup DOMAIN active \cup ToSet(finished)
    /\ IsInjective(queue)
    /\ \A j \in Job : Cardinality(Holders(j)) <= 1 /\ (j \in ToSet(queue) => Holders(j) = {})
    /\ \A w \in DOMAIN members :
          /\ Len(members[w].tasks) = IF members[w].idle THEN 0 ELSE 1
          /\ \A j \in Has(w) : j \in DOMAIN active /\ active[j] = w
    /\ \A j \in DOMAIN active : active[j] = Nobody => j \in ToSet(queue)

(* swarm.rs:1126: "Marks an active task finished. The task moves to the      *)
(* completed list".  It is there once.                                       *)
FinishedOnce == IsInjective(finished)

(* swarm.rs:147: "IDs of tasks that must complete before this one can run".  *)
DependenciesFirst == \A w \in DOMAIN members : \A j \in Has(w) : JobOf[j].after \subseteq ToSet(finished)

(* swarm.rs:1060: "Returns the number of tasks currently assigned and in     *)
(* progress".                                                                *)
ActiveAreAssigned == \A j \in DOMAIN active : active[j] # Nobody

(* swarm.rs:894: "Temporarily halted; scheduling is suspended".              *)
PausedAssignsNothing ==
    [][phase = "paused" => \A w \in DOMAIN members \cap DOMAIN members' : Has(w)' \subseteq Has(w)]_swarmVars
=============================================================================
