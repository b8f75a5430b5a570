-------------------------------- MODULE Replay --------------------------------
(***************************************************************************)
(* Lineage::replay (germline/src/lineage.rs): the entries a run journals,  *)
(* and the fold over them that rebuilds the lineage, the count of          *)
(* proposals and the refusals in a row.  The chain has been verified       *)
(* before (module Journal), so the journal is the sequence of its entries. *)
(* One external proposer is modelled; a score is an integer out of a fixed *)
(* scale, and a mean the pair of its sum and count.                        *)
(***************************************************************************)
EXTENDS Gate

Proposed(id, g) == [kind |-> "Proposed", generation |-> id,
                    candidate |-> Measured(g, None)]
Evaluated(id, m) == [kind |-> "Evaluated", generation |-> id, measured |-> m]
Adjudicated(id, approved) ==
    [kind |-> "Adjudicated", generation |-> id, approved |-> approved]
Succession(event) == [kind |-> "Succession", event |-> event]
Failure(id) == [kind |-> "Failure", generation |-> id]
Calibrated(score, trust) == [kind |-> "Calibrated", score |-> score, trust |-> trust]
CycleRefused == [kind |-> "CycleRefused"]
Note == [kind |-> "Note"]

-----------------------------------------------------------------------------
(* ProposerRecord (germline/src/manifest.rs). *)
MinSamples == 3

NoRecord == [samples |-> 0, total |-> 0]

Scored(record, score) ==
    [samples |-> record.samples + 1, total |-> record.total + score]

Trust(record) == IF record.samples < MinSamples THEN [samples |-> 1, total |-> 0] ELSE record

SameTrust(t, u) == t.total * u.samples = u.total * t.samples

(* A Resumed value in the making; ok is FALSE once replay has returned     *)
(* ReplayError::Inconsistent.                                              *)
ReplayStart(genesis) ==
    [lin |-> genesis, pending |-> [i \in Ids |-> None],
     proposals |-> 0, trailing |-> 0, record |-> NoRecord, ok |-> TRUE]

Inconsistent(r) == [r EXCEPT !.ok = FALSE]

(* Mutant: a proposal does not reserve its id. *)
ReplayProposedUnreserved(r, e) ==
    IF Known(r.lin, e.generation) \/ r.pending[e.generation] # None
    THEN Inconsistent(r)
    ELSE [r EXCEPT !.pending[e.generation] = e.candidate, !.proposals = @ + 1]

ReplayProposed(r, e) ==
    IF Known(r.lin, e.generation) \/ r.pending[e.generation] # None
    THEN Inconsistent(r)
    ELSE [r EXCEPT !.lin = BumpId(@, e.generation),
                   !.pending[e.generation] = e.candidate,
                   !.proposals = @ + 1]

ReplayEvaluated(r, e) ==
    IF r.pending[e.generation] = None THEN Inconsistent(r)
    ELSE [r EXCEPT !.pending[e.generation] = Measured(@, e.measured)]

ReplayPromoted(r, e) ==
    IF \/ e.other # r.lin.champion
       \/ r.pending[e.generation] = None
       \/ ~HasHeldout(r.pending[e.generation])
    THEN Inconsistent(r)
    ELSE [r EXCEPT !.lin = Install(Add(@, e.generation, r.pending[e.generation]),
                                   e.generation),
                   !.pending[e.generation] = None,
                   !.trailing = 0]

ReplayRefused(r, e) ==
    [r EXCEPT !.lin = Refuse(@, e.generation),
              !.pending[e.generation] = None,
              !.trailing = @ + 1]

ReplayDemoted(r, e) ==
    IF r.lin.champion # e.generation \/ r.lin.status[e.other] # "Retired"
    THEN Inconsistent(r)
    ELSE [r EXCEPT !.lin = ApplyDemotion(@, e.generation, e.other)]

ReplayRolledBack(r, e) ==
    IF \/ r.lin.champion # e.generation
       \/ r.lin.status[e.other] \in {"Absent", "Quarantined"}
    THEN Inconsistent(r)
    ELSE [r EXCEPT !.lin = ApplyRollback(@, e.generation, e.other)]

ReplaySuccession(r, e) ==
    CASE e.event = "Promoted"   -> ReplayPromoted(r, e)
      [] e.event = "Refused"    -> ReplayRefused(r, e)
      [] e.event = "Demoted"    -> ReplayDemoted(r, e)
      [] e.event = "RolledBack" -> ReplayRolledBack(r, e)

(* Mutant: a refused cycle is no proposal. *)
ReplayCycleRefusedUncounted(r) == [r EXCEPT !.trailing = @ + 1]

ReplayCycleRefused(r) == [r EXCEPT !.proposals = @ + 1, !.trailing = @ + 1]

(* Mutant: the trust is checked and the score is not kept. *)
ReplayCalibratedUnkept(r, e) ==
    IF SameTrust(Trust(Scored(r.record, e.score)), e.trust) THEN r ELSE Inconsistent(r)

(* The trust an entry carries must be the one its scores give. *)
ReplayCalibrated(r, e) ==
    IF SameTrust(Trust(Scored(r.record, e.score)), e.trust)
    THEN [r EXCEPT !.record = Scored(@, e.score)]
    ELSE Inconsistent(r)

(* Adjudicated, Failure and Note entries change nothing. *)
ReplayEntry(r, e) ==
    IF ~r.ok THEN r
    ELSE CASE e.kind = "Proposed"     -> ReplayProposed(r, e)
           [] e.kind = "Evaluated"    -> ReplayEvaluated(r, e)
           [] e.kind = "Succession"   -> ReplaySuccession(r, e.event)
           [] e.kind = "Calibrated"   -> ReplayCalibrated(r, e)
           [] e.kind = "CycleRefused" -> ReplayCycleRefused(r)
           [] OTHER                   -> r

(* replay() is a left fold: with its value on the journal so far in hand,  *)
(* one more entry takes one more ReplayEntry.  Runner carries that value   *)
(* along (its variable `disk`) instead of folding the journal anew.        *)
=============================================================================
