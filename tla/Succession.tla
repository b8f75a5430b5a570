------------------------------ MODULE Succession ------------------------------
(***************************************************************************)
(* Succession cycles over one shared lineage (germline/src/cycle.rs with   *)
(* gate.rs and lineage.rs).  Any number of cycles may be open at once: a   *)
(* Cycle borrows the lineage only during adjudicate() and commit(), so     *)
(* another commit, a demotion, an operator's rollback or an eviction from  *)
(* the artifact store may come between a verdict and its commit.           *)
(***************************************************************************)
EXTENDS Gate, SequencesExt

CONSTANTS
    Evidence,    \* the measurements a workload may report
    LiveGates,   \* values Episode.gate, a public field, may be given
    MaxShadow,   \* bound on the successful shadow runs of a cycle
    MaxEvents    \* bound: no rollback once the lineage has this many events

ASSUME EvidenceAssumption == Evidence \subseteq Measurements
ASSUME LiveGatesAssumption == LiveGates \subseteq Gates
ASSUME MaxShadowAssumption == MaxShadow \in Nat
ASSUME MaxEventsAssumption == MaxEvents \in Nat

VARIABLES
    lin,     \* the Lineage
    cycles,  \* the Cycle of each allocated id
    gate,    \* Episode.gate as it is now
    store    \* the artifacts that are materialized

vars == <<lin, cycles, gate, store>>

Phases == {"Unborn", "Proposed", "Evaluated", "Shadowing", "Adjudicated",
           "Promoted", "Refused"}

Cycles == [phase : Phases, candidate : Generations, shadow_successes : 0 .. MaxShadow,
           verdict : {None, "Promote", "Reject"}, approval : Approvals \cup {None}]

Unborn == [phase |-> "Unborn", candidate |-> NewGeneration, shadow_successes |-> 0,
           verdict |-> None, approval |-> None]

TypeOK ==
    /\ lin \in Lineages
    /\ cycles \in [Ids -> Cycles]
    /\ gate \in Gates
    /\ store \in SUBSET Artifacts

Init ==
    /\ lin = EmptyLineage
    /\ cycles = [i \in Ids |-> Unborn]
    /\ gate = RegisteredGate
    /\ store = Artifacts

-----------------------------------------------------------------------------
(* The generations a candidate may derive from: the measured ones, or the  *)
(* champion when the proposal names none.                                  *)
Population(l) == {i \in Ids : Known(l, i) /\ HasHeldout(l.data[i])}

(* Cycle::propose, with an id from next_id(). *)
Propose(parent, artifact) ==
    /\ lin.next_id < MaxId
    /\ lin' = TakeId(lin)
    /\ cycles' = [cycles EXCEPT ![lin.next_id] =
            [Unborn EXCEPT !.phase = "Proposed",
                           !.candidate = [parent |-> parent, artifact |-> artifact,
                                          measured |-> None]]]
    /\ UNCHANGED <<gate, store>>

Evaluate(id, m) ==
    /\ cycles[id].phase = "Proposed"
    /\ cycles' = [cycles EXCEPT ![id].phase = "Evaluated",
                                ![id].candidate = Measured(@, m)]
    /\ UNCHANGED <<lin, gate, store>>

(* shadow(): only a success counts towards the canary. *)
Shadow(id, success) ==
    /\ cycles[id].phase \in {"Evaluated", "Shadowing"}
    /\ success => cycles[id].shadow_successes < MaxShadow
    /\ cycles' = [cycles EXCEPT
            ![id].phase = "Shadowing",
            ![id].shadow_successes = IF success THEN @ + 1 ELSE @]
    /\ UNCHANGED <<lin, gate, store>>

(* Cycle::adjudicate: the verdict and the approval are minted together. *)
AdjudicateCycle(id) ==
    /\ cycles[id].phase \in {"Evaluated", "Shadowing"}
    /\ LET approved == Adjudicate(gate, id, cycles[id].candidate, lin,
                                  cycles[id].shadow_successes, store) = {}
       IN cycles' = [cycles EXCEPT
            ![id].phase = "Adjudicated",
            ![id].verdict = IF approved THEN "Promote" ELSE "Reject",
            ![id].approval = IF approved THEN Approval(id, lin) ELSE None]
    /\ UNCHANGED <<lin, gate, store>>

CommitRefused(id) ==
    /\ cycles[id].phase = "Adjudicated"
    /\ cycles[id].verdict = "Reject"
    /\ lin' = Refuse(lin, id)
    /\ cycles' = [cycles EXCEPT ![id].phase = "Refused"]
    /\ UNCHANGED <<gate, store>>

(* The approval is taken and the candidate added before promote() rules on *)
(* the approval, so a stale one leaves a Candidate behind and the cycle in *)
(* Adjudicated with nothing left to commit.                                *)
CommitApproved(id) ==
    /\ cycles[id].phase = "Adjudicated"
    /\ cycles[id].verdict = "Promote"
    /\ cycles[id].approval # None
    /\ LET added == Add(lin, id, cycles[id].candidate)
       IN /\ lin' = Promote(added, cycles[id].approval)
          /\ cycles' = [cycles EXCEPT
                ![id].approval = None,
                ![id].phase = IF MayPromote(added, cycles[id].approval)
                              THEN "Promoted" ELSE @]
    /\ UNCHANGED <<gate, store>>

(* demote_champion, called by whoever supervises; no change on NoFallback. *)
Demote ==
    /\ MayDemote(lin, store)
    /\ lin' = DemoteChampion(lin, store)
    /\ UNCHANGED <<cycles, gate, store>>

(* roll_back_to, an operator's decision; no change when it is refused. *)
RollBack(target) ==
    /\ Len(lin.events) < MaxEvents
    /\ MayRollBack(lin, target, store)
    /\ lin' = RollBackTo(lin, target, store)
    /\ UNCHANGED <<cycles, gate, store>>

(* The surroundings: Episode.gate is written to, an artifact is lost or    *)
(* restored in the store the materialized() callback looks at.             *)
EditGate(g) ==
    /\ gate' = g
    /\ UNCHANGED <<lin, cycles, store>>

StoreChanges(a) ==
    /\ store' = IF a \in store THEN store \ {a} ELSE store \cup {a}
    /\ UNCHANGED <<lin, cycles, gate>>

Next ==
    \/ \E p \in Population(lin) \cup {lin.champion}, a \in Artifacts : Propose(p, a)
    \/ \E id \in Ids, m \in Evidence : Evaluate(id, m)
    \/ \E id \in Ids, success \in BOOLEAN : Shadow(id, success)
    \/ \E id \in Ids : AdjudicateCycle(id)
    \/ \E id \in Ids : CommitRefused(id)
    \/ \E id \in Ids : CommitApproved(id)
    \/ Demote
    \/ \E id \in Ids : RollBack(id)
    \/ \E g \in LiveGates : EditGate(g)
    \/ \E a \in Artifacts : StoreChanges(a)

Spec == Init /\ [][Next]_vars

-----------------------------------------------------------------------------
PromotionEvents(l) == {p \in 1 .. Len(l.events) : l.events[p].event = "Promoted"}

(* The events account for authority: the champion is the generation the    *)
(* last move left in authority, no other generation is marked Champion,    *)
(* and the quarantined generations are those with a Demoted event, which   *)
(* is what previously_demoted() reads (lineage.rs).                        *)
RecordExplainsAuthority == Explained(lin)

(* Every promotion in the record was earned, under the criteria the        *)
(* episode registered, against the very champion it displaced, whatever    *)
(* moved between the verdict and the commit and whatever was written to    *)
(* the live gate (Episode::adjudicate, Lineage::promote).                  *)
EarnedAgainst(g, f) ==
    /\ HasHeldout(g) /\ g.measured.suite = SuiteDigest /\ g.measured.evaluator = Evaluator
    /\ \A x \in GuardAxes : HasAxis(g, x)
    /\ HasHeldout(f) =>
         /\ MeasuredAxes(g) = MeasuredAxes(f)
         /\ HasAxis(f, PrimaryAxis) =>
              g.measured.fitness[PrimaryAxis] - f.measured.fitness[PrimaryAxis]
                    >= RegisteredGate.min_improvement
         /\ \A x \in GuardAxes :
              g.measured.fitness[x]
                    >= f.measured.fitness[x] - RegisteredGate.guard_tolerance

PromotionsEarned ==
    \A p \in PromotionEvents(lin) :
        LET e == lin.events[p]
        IN EarnedAgainst(lin.data[e.generation],
                         IF e.other = None THEN NewGeneration ELSE lin.data[e.other])

(* The ratchet the code keeps: no promoted generation is below any of its  *)
(* own ancestors on a guard axis by more than the tolerance, however long  *)
(* the chain and however small each step (check_fitness, best_ancestor).   *)
AncestryRatchet ==
    \A p \in PromotionEvents(lin) :
        LET g == lin.events[p].generation
        IN \A x \in GuardAxes : \A mark \in Marks(lin, g, x) :
             lin.data[g].measured.fitness[x] >= mark - RegisteredGate.guard_tolerance

(* History is append-only: no step drops or reorders an event or a         *)
(* generation, rewrites what was measured, takes a generation out of       *)
(* quarantine or hands an id out again (GenerationId: "never reused").     *)
HistoryAppendOnly ==
    [][/\ IsPrefix(lin.events, lin'.events)
       /\ IsPrefix(lin.order, lin'.order)
       /\ lin.next_id <= lin'.next_id
       /\ \A i \in Ids : Known(lin, i) =>
            /\ lin'.data[i] = lin.data[i]
            /\ Known(lin', i)
            /\ lin.status[i] = "Quarantined" => lin'.status[i] = "Quarantined"
      ]_vars

(* A fallback that runs: when authority leaves a champion other than by a  *)
(* promotion, it goes to a generation that was added to the lineage, has   *)
(* not failed and whose artifact is in the store at that moment            *)
(* (demote_champion, roll_back_to).                                        *)
FallbackIsRunnable ==
    [][lin'.champion # lin.champion
            /\ Last(lin'.events).event \in {"Demoted", "RolledBack"}
        => /\ lin'.champion \in ToSet(lin.order)
           /\ ~PreviouslyDemoted(lin', lin'.champion)
           /\ lin.data[lin'.champion].artifact \in store]_vars

(* The lineage keeps the promise of Authority. *)
AuthorityView == INSTANCE Authority WITH
    holder <- lin.champion,
    held <- {i \in Ids : lin.status[i] \in {"Champion", "Retired", "Quarantined"}},
    fallen <- {i \in Ids : lin.status[i] = "Quarantined"}

RefinesAuthority == AuthorityView!Spec

-----------------------------------------------------------------------------
(* GERMLINE.md, invariant 8: "Authority moves only on the gate's           *)
(* approval".  A generation that is or was in authority was promoted.      *)
AuthorityOnlyByApproval ==
    \A i \in Ids :
        lin.status[i] \in {"Champion", "Retired", "Quarantined"} =>
            \E p \in PromotionEvents(lin) : lin.events[p].generation = i
=============================================================================
