--------------------------------- MODULE Tasks ---------------------------------
(* The task graph of prototype/src/decompose.rs: tasks with dependencies, the *)
(* assignment of ready tasks to agents, and the plans computed from the       *)
(* graph.  Its callers add tasks and edges at any time, also while agents     *)
(* work, and an edge may close a cycle.                                       *)
EXTENDS Integers, Sequences, FiniteSets, SequencesExt, FiniteSetsExt, Retain

CONSTANTS
    Crew,      \* the agents given to assign_agents, in their order
    Backlog,   \* the cost and required capabilities of each task that is added
    MaxEdges   \* bound: the edges ever added

ASSUME TaskAssumption ==
    /\ \A i \in DOMAIN Crew : Crew[i].capacity \in Nat
    /\ Len(Backlog) \in Nat /\ DOMAIN Backlog = 1 .. Len(Backlog)
    /\ \A t \in DOMAIN Backlog : Backlog[t].cost \in Nat
    /\ MaxEdges \in Nat

VARIABLES
    tasks,    \* by id: the state and the agent (a position in Crew, or 0)
    deps,     \* by id: what the task depends on; rdeps is its converse
    late      \* history: the edges of tasks that were Ready or beyond by then

taskVars == <<tasks, deps, late>>

TaskStates == {"Pending", "Ready", "InProgress", "Completed", "Blocked"}
TaskIds == 1 .. Len(tasks)

TaskInit == tasks = <<>> /\ deps = <<>> /\ late = {}

-----------------------------------------------------------------------------
(* update_readiness.                                                         *)

(* Mutant: one dependency is enough. *)
SatisfiedByOne(ds, done) == ds = {} \/ ds \cap done # {}

Satisfied(ds, done) == ds \subseteq done

(* Mutant: only what is Pending is looked at again. *)
ReadinessOfPending(t, done) ==
    IF tasks[t].state # "Pending" THEN tasks[t].state
    ELSE IF Satisfied(deps[t], done) THEN "Ready" ELSE "Blocked"

Readiness(t, done) ==
    IF tasks[t].state \notin {"Pending", "Blocked"} THEN tasks[t].state
    ELSE IF Satisfied(deps[t], done) THEN "Ready" ELSE "Blocked"

Done == {t \in TaskIds : tasks[t].state = "Completed"}

UpdateReadiness == [t \in TaskIds |-> [tasks[t] EXCEPT !.state = Readiness(t, Done)]]

(* Greedy, in the order of ids: the first agent of the crew that has the     *)
(* capabilities and, of the tasks of this call, fewer than its capacity.     *)
Fits(task, i, taken) ==
    /\ task.caps \subseteq Crew[i].caps
    /\ Cardinality({k \in DOMAIN taken : taken[k] = i}) < Crew[i].capacity

(* In the order of ids. *)
Ascending(ids) == Retained([t \in TaskIds |-> t], ids)

(* Where the tasks of the sequence ready go, up to the first that fits none, *)
(* at which the call returns its error.                                      *)
Placement(ready) ==
    LET taken[n \in 0 .. Len(ready)] ==
          IF n = 0 THEN <<>>
          ELSE LET before == taken[n - 1]
                   fit == {i \in DOMAIN Crew : Fits(Backlog[ready[n]], i, before)}
               IN IF Len(before) < n - 1 \/ fit = {} THEN before
                                                     ELSE Append(before, Min(fit))
    IN taken[Len(ready)]

-----------------------------------------------------------------------------
AddTask ==
    /\ Len(tasks) < Len(Backlog)
    /\ tasks' = Append(tasks, [state |-> "Pending", agent |-> 0])
    /\ deps' = Append(deps, {})
    /\ UNCHANGED late

(* An edge that exists is an error; one to the task itself, or one that      *)
(* closes a cycle, is not.                                                   *)
AddDep(t, d) ==
    /\ d \notin deps[t]
    /\ Cardinality({e \in TaskIds \X TaskIds : e[2] \in deps[e[1]]}) < MaxEdges
    /\ deps' = [deps EXCEPT ![t] = @ \cup {d}]
    /\ late' = IF tasks[t].state \in {"Pending", "Blocked"} THEN late
                                                          ELSE late \cup {<<t, d>>}
    /\ UNCHANGED tasks

AssignAgents ==
    LET updated == UpdateReadiness
        ready == Ascending({t \in TaskIds : updated[t].state = "Ready"})
        taken == Placement(ready)
    IN /\ tasks' = [t \in TaskIds |->
             IF \E k \in DOMAIN ready : k <= Len(taken) /\ ready[k] = t
             THEN [updated[t] EXCEPT !.state = "InProgress",
                      !.agent = taken[CHOOSE k \in DOMAIN ready : ready[k] = t]]
             ELSE updated[t]]
       /\ UNCHANGED <<deps, late>>

(* complete_task: the state the task is in is not looked at. *)
CompleteTask(t) ==
    /\ tasks' = [u \in TaskIds |->
          IF u = t THEN [tasks[u] EXCEPT !.state = "Completed"]
          ELSE [tasks[u] EXCEPT !.state = Readiness(u, Done \cup {t})]]
    /\ UNCHANGED <<deps, late>>

TaskNext ==
    \/ AddTask
    \/ \E t, d \in TaskIds : AddDep(t, d)
    \/ AssignAgents
    \/ \E t \in TaskIds : CompleteTask(t)

TaskSpec == TaskInit /\ [][TaskNext]_taskVars

(* Agents finish what they were given, and whoever schedules keeps at it. *)
Progress ==
    AssignAgents \/ \E t \in TaskIds : tasks[t].state = "InProgress" /\ CompleteTask(t)

-----------------------------------------------------------------------------
(* Plans.                                                                    *)

(* Mutant: a task enters the queue with the first of its dependencies. *)
ReleasedByOne(id, before) == {t \in TaskIds : id \in deps[t] /\ deps[t] \cap before = {}}

(* The tasks whose in-degree falls to zero when id leaves the queue after    *)
(* those in before.                                                          *)
Released(id, before) == {t \in TaskIds : id \in deps[t] /\ deps[t] \subseteq before \cup {id}}

(* topological_order: queued[n] is everything that was in the queue when the *)
(* n-th task has left it.  It is an error unless all tasks were.             *)
TopologicalOrder ==
    LET queued[n \in 0 .. Len(tasks)] ==
          IF n = 0 THEN Ascending({t \in TaskIds : deps[t] = {}})
          ELSE LET q == queued[n - 1] IN
               IF Len(q) < n THEN q
               ELSE q \o Ascending(Released(q[n], {q[k] : k \in 1 .. n - 1}))
    IN queued[Len(tasks)]

(* parallel_waves: the tasks in the first n waves.  It is an error when a    *)
(* wave is empty before all tasks are in one.                                *)
WavesUpTo ==
    LET placed[n \in 0 .. Len(tasks)] ==
          IF n = 0 THEN {}
          ELSE placed[n - 1] \cup {t \in TaskIds : deps[t] \subseteq placed[n - 1]}
    IN placed

(* critical_path, on a graph that has an order: the cost to the end of each  *)
(* task, the dependency it comes through (the last of the dearest), and the  *)
(* path traced back from a dearest end.                                      *)
Distance ==
    LET dist[t \in TaskIds] ==
          Backlog[t].cost + IF deps[t] = {} THEN 0 ELSE Max({dist[d] : d \in deps[t]})
    IN dist

(* Mutant: the cheapest. *)
BestDepCheapest(dist, t) == Max({d \in deps[t] : \A e \in deps[t] : dist[d] <= dist[e]})

BestDep(dist, t) == Max({d \in deps[t] : \A e \in deps[t] : dist[e] <= dist[d]})

CriticalPath(end) ==
    LET dist == Distance
        back[n \in 1 .. Len(tasks)] ==
          IF n = 1 THEN <<end>>
          ELSE LET path == back[n - 1] IN
               IF deps[Head(path)] = {} THEN path ELSE <<BestDep(dist, Head(path))>> \o path
    IN back[Len(tasks)]

-----------------------------------------------------------------------------
(* An agent never starts on a task whose dependencies are not all complete,  *)
(* but for an edge that came when the task was already ready (see            *)
(* TasksWaitForAll): readiness is computed at one call and used at a later   *)
(* one, with completions, new tasks and edges in between.                    *)
TasksWait ==
    \A t \in TaskIds : tasks[t].state \in {"Ready", "InProgress"} =>
        \A d \in deps[t] : tasks[d].state = "Completed" \/ <<t, d>> \in late

(* A set of tasks each of which waits for another of the set. *)
Cyclic == \E c \in SUBSET TaskIds : c # {} /\ \A t \in c : deps[t] \cap c # {}

(* The chains of n tasks, each depending on the one before. *)
Chains(n) == {c \in [1 .. n -> TaskIds] : \A i \in 1 .. n - 1 : c[i] \in deps[c[i + 1]]}

(* What a chain costs, summed up from its end. *)
CostOf(c) ==
    LET last[n \in 0 .. Len(c)] ==
          IF n = 0 THEN 0 ELSE last[n - 1] + Backlog[c[Len(c) + 1 - n]].cost
    IN last[Len(c)]

(* What the planning functions promise, on every graph callers can build:    *)
(* an order exists exactly when the graph has no cycle, and then it has every*)
(* task once and after its dependencies; a task is in the wave that the      *)
(* longest chain to it gives; the critical path is a chain of the graph, from*)
(* a task without dependencies, and none costs more.  The plans read the     *)
(* graph and the costs only, so they are looked at before any progress.      *)
PlansAreSound == (\A t \in TaskIds : tasks[t].state = "Pending") =>
    LET order == TopologicalOrder
        n == Len(tasks)
        waves == WavesUpTo
    IN /\ Len(order) = n <=> ~Cyclic
       /\ waves[n] = TaskIds <=> ~Cyclic
       /\ ~Cyclic =>
          LET all == UNION {Chains(k) : k \in 1 .. n}
              dist == Distance
              dearest == Max({CostOf(c) : c \in all} \cup {0})
          IN /\ ToSet(order) = TaskIds
             /\ \A i, j \in 1 .. n : order[i] \in deps[order[j]] => i < j
             /\ \A t \in TaskIds, k \in 1 .. n :
                   t \in waves[k] <=> \A c \in all : Last(c) = t => Len(c) <= k
             /\ \A end \in TaskIds : (\A t \in TaskIds : dist[t] <= dist[end]) =>
                   LET path == CriticalPath(end) IN
                      /\ path \in all /\ deps[Head(path)] = {} /\ Last(path) = end
                      /\ CostOf(path) = dearest /\ dist[end] = dearest

(* Work gets done: when every task has an agent that can do it, the        *)
(* graph gains a cycle or all its tasks are completed, again and again if    *)
(* tasks keep coming.                                                        *)
TasksFinish ==
    []<>(Cyclic \/ \A t \in TaskIds : tasks[t].state = "Completed")

(* decompose.rs:10: waves hold "tasks whose deps are satisfied". *)
TasksWaitForAll ==
    \A t \in TaskIds : tasks[t].state = "InProgress" =>
        \A d \in deps[t] : tasks[d].state = "Completed"

(* decompose.rs:67: capacity is the "Max tasks this agent can handle         *)
(* concurrently".                                                            *)
CapacityHolds ==
    \A i \in DOMAIN Crew :
        Cardinality({t \in TaskIds : tasks[t].state = "InProgress" /\ tasks[t].agent = i})
            <= Crew[i].capacity
=============================================================================
