----------------------------- MODULE MCCoordination -----------------------------
(* The coordination objects of one agent runtime (AgentRuntime in            *)
(* prototype/src/agent_runtime.rs holds a lease manager, a bus, a task graph *)
(* and, through its adapter, a shared workspace), the merge engine, and the  *)
(* library's memory, store and swarm coordinator.  They share no state and   *)
(* every call goes to one of them, so what the others did in between cannot  *)
(* matter: a behaviour here drives one of them, any one.                     *)
EXTENDS Leases, Bus, Tasks, Crdt, Workspace, Memory, Storage, Swarm, TLC

CONSTANTS a1, a2, k1, k2, w1, w2, w3

VARIABLE driven

MCRegion == {<<"m">>, <<"m", "f">>, <<"n">>}

MCCrew == <<[caps |-> {"code"}, capacity |-> 1], [caps |-> {"code", "test"}, capacity |-> 1]>>

MCBacklog == <<[cost |-> 1, caps |-> {"code"}], [cost |-> 3, caps |-> {"test"}],
               [cost |-> 1, caps |-> {"code"}]>>

MCHash == (a1 :> 1) @@ (a2 :> 2)

MCKey == {<<"k">>, <<"k", "x">>}
MCPrefix == {<<>>, <<"k", "x">>}

MCFileOf == (k1 :> "k1") @@ (k2 :> "k2")
MCOneFile == (k1 :> "k") @@ (k2 :> "k")     \* "a/b" and "a__b"

MCSkills == (w1 :> {"train"}) @@ (w2 :> {"all"}) @@ (w3 :> {"train"})
MCJobs == <<[priority |-> 1, skill |-> "train", after |-> {}],
            [priority |-> 2, skill |-> "eval", after |-> {1}],
            [priority |-> 1, skill |-> "train", after |-> {1}]>>

vars == <<driven, leaseVars, busVars, taskVars, crdtVars, workspaceVars, memoryVars, storageVars,
          swarmVars>>

Init ==
    /\ driven \in {"leases", "bus", "tasks", "crdt", "workspace", "memory", "storage", "swarm"}
    /\ LeaseInit /\ BusInit /\ TaskInit /\ CrdtInit /\ WorkspaceInit /\ MemoryInit /\ StorageInit
    /\ SwarmInit

Next ==
    /\ UNCHANGED driven
    /\ \/ driven = "leases" /\ LeaseNext
          /\ UNCHANGED <<busVars, taskVars, crdtVars, workspaceVars,
                         memoryVars, storageVars, swarmVars>>
       \/ driven = "bus" /\ BusNext
          /\ UNCHANGED <<leaseVars, taskVars, crdtVars, workspaceVars,
                         memoryVars, storageVars, swarmVars>>
       \/ driven = "tasks" /\ TaskNext
          /\ UNCHANGED <<leaseVars, busVars, crdtVars, workspaceVars,
                         memoryVars, storageVars, swarmVars>>
       \/ driven = "crdt" /\ CrdtNext
          /\ UNCHANGED <<leaseVars, busVars, taskVars, workspaceVars,
                         memoryVars, storageVars, swarmVars>>
       \/ driven = "workspace" /\ WorkspaceNext
          /\ UNCHANGED <<leaseVars, busVars, taskVars, crdtVars,
                         memoryVars, storageVars, swarmVars>>
       \/ driven = "memory" /\ MemoryNext
          /\ UNCHANGED <<leaseVars, busVars, taskVars, crdtVars,
                         workspaceVars, storageVars, swarmVars>>
       \/ driven = "storage" /\ StorageNext
          /\ UNCHANGED <<leaseVars, busVars, taskVars, crdtVars,
                         workspaceVars, memoryVars, swarmVars>>
       \/ driven = "swarm" /\ SwarmNext
          /\ UNCHANGED <<leaseVars, busVars, taskVars, crdtVars,
                         workspaceVars, memoryVars, storageVars>>

(* Schedulers keep assigning and agents finish what they were given. *)
Fairness ==
    WF_vars(/\ driven = "tasks" /\ Progress
            /\ UNCHANGED <<driven, leaseVars, busVars, crdtVars, workspaceVars, memoryVars,
                           storageVars, swarmVars>>)

Spec == Init /\ [][Next]_vars /\ Fairness
=============================================================================
