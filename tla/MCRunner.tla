------------------------------- MODULE MCRunner -------------------------------
(* Small instances of Runner for TLC. *)
EXTENDS Runner

Held(p, g) == [kind |-> "HeldOut", suite |-> "s", evaluator |-> "judge",
               fitness |-> [primary |-> p, guard |-> g]]

MCAxes == {"primary", "guard"}
MCGuardAxes == {"guard"}
MCGate == [min_improvement |-> 1, guard_tolerance |-> 1, min_shadow_successes |-> 1]
MCCanaryFree == [MCGate EXCEPT !.min_shadow_successes = 0]

(* gen0 is the champion the operator starts from. *)
Seeded(m) == Install(Add(TakeId(EmptyLineage), 0,
                [parent |-> None, artifact |-> "seed", measured |-> m]), 0)
MCGenesis == Seeded(Held(0, 1))
MCEmpty == EmptyLineage

MCEvidence == {Held(0, 1), Held(1, 1)}

MCPolicy == [window |-> 3, max_failure_percent |-> 34, fitness_tolerance |-> 2,
             divergence_threshold |-> 1]

Sample(ok, h, o) == [success |-> ok, heldout |-> h, optimized |-> o]
MCSamples == {Sample(TRUE, NoScore, NoScore), Sample(FALSE, NoScore, NoScore)}
MCAllSamples == MCSamples \cup {Sample(TRUE, -3, NoScore), Sample(TRUE, -2, 2)}
MCHealthy == {Sample(TRUE, NoScore, NoScore)}
MCQuick == [MCPolicy EXCEPT !.window = 1]
=============================================================================
