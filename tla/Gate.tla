--------------------------------- MODULE Gate ---------------------------------
(***************************************************************************)
(* The promotion gate of germline/src/gate.rs: an episode registers the    *)
(* criteria, the suite and the evaluator; adjudicate() collects the        *)
(* reasons to refuse a challenger, and approve() mints an approval only    *)
(* when there is none.                                                     *)
(*                                                                         *)
(* A gate is [min_improvement, guard_tolerance, min_shadow_successes] over *)
(* the fixed axes below, in units of the smallest fitness difference that  *)
(* matters.  Its digest is the gate itself: two gates have one digest      *)
(* exactly when they are equal.                                            *)
(***************************************************************************)
EXTENDS Lineage

CONSTANTS
    PrimaryAxis, GuardAxes,
    RegisteredGate,     \* Episode.gate_digest
    SuiteDigest,        \* Episode.suite_digest
    Evaluator           \* Episode.evaluator

Gates == [min_improvement : Nat, guard_tolerance : Nat, min_shadow_successes : Nat]

ASSUME AxesAssumption == PrimaryAxis \in Axes /\ GuardAxes \subseteq Axes
ASSUME GateAssumption == RegisteredGate \in Gates

(* lineage.champion().and_then(heldout_fitness) is Some. *)
MeasuredChampion(l) == l.champion # None /\ HasHeldout(l.data[l.champion])

Comparable(chal, l) ==
    MeasuredChampion(l) => MeasuredAxes(chal) = MeasuredAxes(l.data[l.champion])

(* Only when both sides measured the primary axis is there a margin. *)
Improves(gate, chal, l) ==
    MeasuredChampion(l) /\ HasAxis(l.data[l.champion], PrimaryAxis)
                        /\ HasAxis(chal, PrimaryAxis) =>
        chal.measured.fitness[PrimaryAxis]
            - l.data[l.champion].measured.fitness[PrimaryAxis] >= gate.min_improvement

(* Mutant: only the champion's chain counts. *)
HighWaterOfChampion(chal, l, axis) ==
    UNION {Marks(l, root, axis) : root \in {l.champion} \ {None}}

(* The ratchet looks at the chain of the challenger's parent and at the    *)
(* champion's: the greatest mark less the tolerance is the floor.          *)
HighWater(chal, l, axis) ==
    UNION {Marks(l, root, axis) : root \in {chal.parent, l.champion} \ {None}}

HoldsGuard(gate, chal, l, axis) ==
    \A mark \in HighWater(chal, l, axis) :
        chal.measured.fitness[axis] >= mark - gate.guard_tolerance

(* check_fitness returns early when the axes cannot be compared. *)
CheckFitness(gate, chal, l) ==
    IF ~Comparable(chal, l) THEN {"IncomparableAxes"}
    ELSE {r \in {"InsufficientImprovement"} : ~Improves(gate, chal, l)}
         \cup {r \in {"GuardUnmeasured"} : \E x \in GuardAxes : ~HasAxis(chal, x)}
         \cup {r \in {"GuardRegression"} :
                 \E x \in GuardAxes : HasAxis(chal, x) /\ ~HoldsGuard(gate, chal, l, x)}

CheckEvidence(gate, chal, l) ==
    IF HasHeldout(chal)
    THEN {r \in {"SuiteChanged"} : chal.measured.suite # SuiteDigest}
         \cup {r \in {"SelfCertified"} : chal.measured.evaluator # Evaluator}
         \cup CheckFitness(gate, chal, l)
    ELSE {"NoHeldOutEvidence"}

(* Mutant: the registered digest is not compared with the live gate. *)
AdjudicateLiveGate(gate, id, chal, l, shadow_successes, store) ==
    CheckEvidence(gate, chal, l)
    \cup {r \in {"NotMaterialized"} : chal.artifact \notin store}
    \cup {r \in {"PreviouslyDemoted"} : PreviouslyDemoted(l, id)}
    \cup {r \in {"ShadowIncomplete"} : shadow_successes < gate.min_shadow_successes}

(* Episode::adjudicate: `gate` is the live Episode.gate, `store` the       *)
(* artifacts the materialized() callback answers for.                      *)
Adjudicate(gate, id, chal, l, shadow_successes, store) ==
    {r \in {"GateChanged"} : gate # RegisteredGate}
    \cup CheckEvidence(gate, chal, l)
    \cup {r \in {"NotMaterialized"} : chal.artifact \notin store}
    \cup {r \in {"PreviouslyDemoted"} : PreviouslyDemoted(l, id)}
    \cup {r \in {"ShadowIncomplete"} : shadow_successes < gate.min_shadow_successes}

Approval(id, l) == [generation |-> id, incumbent |-> l.champion]

Approvals == [generation : Ids, incumbent : Ids \cup {None}]
=============================================================================
