----------------------------- MODULE MCSuccession -----------------------------
(* Small instances of Succession for TLC. *)
EXTENDS Succession

Fit(p, g) == [primary |-> p, guard |-> g]

Held(suite, evaluator, p, g) ==
    [kind |-> "HeldOut", suite |-> suite, evaluator |-> evaluator, fitness |-> Fit(p, g)]

MCAxes == {"primary", "guard"}
MCGuardAxes == {"guard"}
MCGate == [min_improvement |-> 1, guard_tolerance |-> 1, min_shadow_successes |-> 0]
MCShadowGate == [MCGate EXCEPT !.min_shadow_successes = 1]

(* A chain in which each step loses what the tolerance allows, and one      *)
(* measurement for every way evidence can be refused.                        *)
MCEvidence == {Held("s", "judge", 0, 2), Held("s", "judge", 1, 1), Held("s", "judge", 2, 0),
    Held("s2", "judge", 2, 1), Held("s", "self", 2, 1),
    [Held("s", "judge", 2, 1) EXCEPT !.kind = "Optimized"],
    [Held("s", "judge", 2, 1) EXCEPT !.fitness.guard = None]}

MCLooseGate == [MCShadowGate EXCEPT !.min_improvement = 0, !.min_shadow_successes = 0]
MCNoEdits == {MCGate}
MCEdits == {MCShadowGate, MCLooseGate}
=============================================================================
