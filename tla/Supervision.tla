----------------------------- MODULE Supervision -----------------------------
(***************************************************************************)
(* The supervisor of germline/src/supervisor.rs as operators.  A           *)
(* supervisor keeps every sample; the code only ever counts them and       *)
(* averages their composites, so the counts and the sums are the state.    *)
(* Rates are percentages, composites integers in units of the smallest     *)
(* difference that matters.                                                *)
(***************************************************************************)
EXTENDS Integers

CONSTANTS Policy, NoScore

Policies == [window : Nat, max_failure_percent : 0 .. 100,
             fitness_tolerance : Nat, divergence_threshold : Nat]

ASSUME PolicyAssumption == Policy \in Policies

(* Option<composite> of a sample's held-out and optimized scores. *)
Samples(scores) == [success : BOOLEAN, heldout : scores \cup {NoScore},
                    optimized : scores \cup {NoScore}]

Tally == [sum : Int, count : Nat]

Supervisors == [observed : Nat, failures : Nat, heldout : Tally, optimized : Tally,
                baseline : Int, optimized_baseline : Int \cup {NoScore}]

NewSupervisor(baseline) ==
    [observed |-> 0, failures |-> 0, heldout |-> [sum |-> 0, count |-> 0],
     optimized |-> [sum |-> 0, count |-> 0], baseline |-> baseline,
     optimized_baseline |-> NoScore]

WithOptimizedBaseline(s, v) == [s EXCEPT !.optimized_baseline = v]

Count(tally, score) ==
    IF score = NoScore THEN tally
    ELSE [sum |-> tally.sum + score, count |-> tally.count + 1]

(* Mutant: a success makes up for a failure. *)
PushForgiving(s, sample) ==
    [s EXCEPT !.observed = @ + 1,
              !.failures = IF sample.success THEN @ - 1 ELSE @ + 1,
              !.heldout = Count(@, sample.heldout),
              !.optimized = Count(@, sample.optimized)]

(* observe() pushes the sample, then Diagnose rules on all of them. *)
Push(s, sample) ==
    [s EXCEPT !.observed = @ + 1,
              !.failures = IF sample.success THEN @ ELSE @ + 1,
              !.heldout = Count(@, sample.heldout),
              !.optimized = Count(@, sample.optimized)]

Malfunctions(s) ==
    s.observed >= 3 /\ 100 * s.failures > Policy.max_failure_percent * s.observed

Stalls(s) == s.failures = s.observed

(* mean - origin < bound, with the mean left as a fraction. *)
MeanFalls(tally, origin, bound) == tally.sum - tally.count * origin < tally.count * bound
MeanRises(tally, origin, bound) == tally.sum - tally.count * origin > tally.count * bound

Declines(s) ==
    s.heldout.count > 0 /\ MeanFalls(s.heldout, s.baseline, -Policy.fitness_tolerance)

Diverges(s) ==
    /\ s.heldout.count > 0 /\ s.optimized.count > 0
    /\ s.optimized_baseline # NoScore
    /\ MeanRises(s.optimized, s.optimized_baseline, Policy.divergence_threshold)
    /\ MeanFalls(s.heldout, s.baseline, -Policy.divergence_threshold)

(* The first failure mode established, in the order observe() tests them. *)
Diagnose(s) ==
    CASE Malfunctions(s) -> "Malfunction"
      [] ~Malfunctions(s) /\ s.observed < Policy.window -> "Healthy"
      [] OTHER -> IF Stalls(s) THEN "Stall"
                  ELSE IF Declines(s) THEN "FitnessDecline"
                  ELSE IF Diverges(s) THEN "MetricDivergence"
                  ELSE "Healthy"
=============================================================================
