-------------------------------- MODULE Runner --------------------------------
(***************************************************************************)
(* The unattended runner of germline/src/runner.rs with the cycle it       *)
(* drives (cycle.rs), the journal it writes and the supervisor it consults.*)
(* The journal survives; the lineage, the loop counters and the cycle are  *)
(* in memory.  A step ends where the code journals, so a crash may come    *)
(* between any two appends and between a change of the lineage and the     *)
(* append that records it.                                                 *)
(*                                                                         *)
(* The workload is external: what it materializes, measures and observes   *)
(* is chosen at every call.  HealthSample scores are relative to the       *)
(* champion's composite at promotion, so the baseline is 0.                *)
(***************************************************************************)
EXTENDS Replay, Supervision, SequencesExt

CONSTANTS
    Genesis,       \* the lineage the operator starts from
    Evidence,      \* measurements the workload may report
    Scores,        \* scores a proposer's prediction may get; {} for the built-in search
    HealthSamples, \* observations the champion may give
    MaxCycles,     \* policy.max_cycles
    MaxRefusals,   \* policy.max_consecutive_refusals
    ShadowRuns,    \* policy.shadow_runs
    MaxRestarts,   \* bound on crashes and restarts of halted runs
    MaxFaults      \* bound on journal appends that fail

(* A Lineage has private fields and is not deserialized: whoever sets one  *)
(* up uses next_id(), add() and grant(), and so keeps the record.          *)
IdsTaken(l) == \A i \in Ids : Known(l, i) => i < l.next_id

ASSUME GenesisAssumption ==
    Genesis \in Lineages /\ Explained(Genesis) /\ IdsTaken(Genesis)

ASSUME RunnerAssumption ==
    /\ Evidence \subseteq Measurements
    /\ Scores \subseteq Nat
    /\ HealthSamples \subseteq Samples(Int)
    /\ {MaxCycles, MaxRefusals, ShadowRuns, MaxRestarts, MaxFaults} \subseteq Nat

VARIABLES
    journal,   \* the entries on disk
    disk,      \* what Lineage::replay makes of them
    lin,       \* the live lineage
    pc,        \* where run() is
    index,     \* cycle_index
    limit,     \* first_cycle + max_cycles
    refusals,  \* consecutive_refusals
    cand,      \* the open Cycle
    sup,       \* the Supervisor of the new champion
    record,    \* the ProposerRecord of the external proposer
    report,    \* RunReport: halt and journal_head
    validated, \* history: generations that were healthy through the window
    restarts, faults

memory == <<lin, index, limit, refusals, cand, sup, report>>
vars == <<journal, disk, memory, record, pc, validated, restarts, faults>>

NoCycle == [id |-> None, generation |-> NewGeneration, approved |-> FALSE]
NoReport == [halt |-> "Running", head |-> 0]

Halts == {"BudgetExhausted", "Demoted", "SearchStalled", "WorkloadFailed",
          "NoFallbackAvailable"}

Points == {"start", "cycle", "proposed", "evaluated", "calibrated", "adjudicated",
           "refused", "promoted", "granted", "supervise", "failing", "demoted", "stalled",
           "failed", "halted", "down"}

TypeOK ==
    /\ lin \in Lineages
    /\ pc \in Points
    /\ {index, limit, refusals, restarts, faults} \subseteq Nat
    /\ cand \in [id : Ids \cup {None}, generation : Generations, approved : BOOLEAN]
    /\ sup \in Supervisors
    /\ record \in [samples : Nat, total : Nat]
    /\ report \in [halt : Halts \cup {"Running"}, head : Nat]
    /\ validated \subseteq Ids

Init ==
    /\ journal = <<>> /\ disk = ReplayStart(Genesis)
    /\ lin = Genesis
    /\ pc = "start"
    /\ index = 0 /\ limit = MaxCycles /\ refusals = 0
    /\ cand = NoCycle
    /\ sup = NewSupervisor(0)
    /\ record = NoRecord
    /\ report = NoReport
    /\ validated = {}
    /\ restarts = 0 /\ faults = 0

-----------------------------------------------------------------------------
(* journal.append.  A failed append writes nothing here; module Journal    *)
(* has the failures that leave something in the file.  A Note matters only *)
(* where its failure or its place is observable; the others are left out.  *)
Write(entry, ok) ==
    /\ ok \/ faults < MaxFaults
    /\ faults' = IF ok THEN faults ELSE faults + 1
    /\ journal' = IF ok THEN Append(journal, entry) ELSE journal
    /\ disk' = IF ok THEN ReplayEntry(disk, entry) ELSE disk

Halt(why) ==
    /\ pc' = "halted"
    /\ report' = [halt |-> why, head |-> Len(journal')]

(* one_cycle returns the error of a journal append. *)
Fail == pc' = "failed"

(* Where the loop goes with `count` refusals in a row. *)
NextCycle(count) ==
    /\ refusals' = count
    /\ index' = index + 1
    /\ pc' = IF count >= MaxRefusals THEN "stalled" ELSE "cycle"

Open(ok) ==
    /\ pc = "start"
    /\ Write(Note, ok)
    /\ pc' = "cycle"
    /\ UNCHANGED <<memory, record, validated, restarts>>

Finish(ok) ==
    /\ pc = "cycle" /\ index >= limit
    /\ Write(Note, ok)
    /\ Halt("BudgetExhausted")
    /\ UNCHANGED <<lin, index, limit, refusals, cand, sup, record, validated, restarts>>

(* one_cycle returned an error: no candidate could be produced,            *)
(* materialized or measured, or an append failed.                          *)
WorkloadFails(ok) ==
    /\ pc = "failed" \/ (pc = "cycle" /\ index < limit)
    /\ Write(Note, ok)
    /\ Halt("WorkloadFailed")
    /\ UNCHANGED <<lin, index, limit, refusals, cand, sup, record, validated, restarts>>

(* Every edit of an external proposer failed the manifest check. *)
RefuseCycle(ok) ==
    /\ pc = "cycle" /\ index < limit
    /\ Write(CycleRefused, ok)
    /\ IF ok THEN NextCycle(refusals + 1)
             ELSE Fail /\ UNCHANGED <<index, refusals>>
    /\ UNCHANGED <<lin, limit, cand, sup, report, record, validated, restarts>>

Population(l) == {i \in Ids : Known(l, i) /\ HasHeldout(l.data[i])}

(* one_cycle up to Cycle::propose: measured first, then given an id. *)
ProposeCandidate(parent, artifact, m, ok) ==
    /\ pc = "cycle" /\ index < limit
    /\ lin.next_id < MaxId
    /\ LET g == [parent |-> parent, artifact |-> artifact, measured |-> m]
       IN /\ Write(Proposed(lin.next_id, g), ok)
          /\ cand' = [id |-> lin.next_id, generation |-> g, approved |-> FALSE]
    /\ lin' = TakeId(lin)
    /\ IF ok THEN pc' = "proposed" ELSE Fail
    /\ UNCHANGED <<index, limit, refusals, sup, report, record, validated, restarts>>

EvaluateCandidate(ok) ==
    /\ pc = "proposed"
    /\ Write(Evaluated(cand.id, cand.generation.measured), ok)
    /\ IF ok THEN pc' = "evaluated" ELSE Fail
    /\ UNCHANGED <<memory, record, validated, restarts>>

(* The measurement scores what the proposer predicted.  The record counts  *)
(* the score whether or not the entry is written.                          *)
Calibrate(score, ok) ==
    /\ pc = "evaluated"
    /\ record' = Scored(record, score)
    /\ Write(Calibrated(score, Trust(record')), ok)
    /\ pc' = "calibrated"
    /\ UNCHANGED <<memory, validated, restarts>>

(* Mutant: the verdict is not journalled. *)
AdjudicateUnrecorded(successes, store, ok) ==
    /\ pc \in {"evaluated", "calibrated"}
    /\ cand' = [cand EXCEPT !.approved =
            Adjudicate(RegisteredGate, cand.id, cand.generation, lin, successes, store) = {}]
    /\ pc' = "adjudicated"
    /\ UNCHANGED <<journal, disk, lin, index, limit, refusals, sup, report, record, validated,
                   restarts, faults>>

(* The shadow runs and Cycle::adjudicate. *)
AdjudicateCandidate(successes, store, ok) ==
    /\ pc \in {"evaluated", "calibrated"}
    /\ LET approved == Adjudicate(RegisteredGate, cand.id, cand.generation, lin,
                                  successes, store) = {}
       IN /\ Write(Adjudicated(cand.id, approved), ok)
          /\ cand' = [cand EXCEPT !.approved = approved]
    /\ IF ok THEN pc' = "adjudicated" ELSE Fail
    /\ UNCHANGED <<lin, index, limit, refusals, sup, report, record, validated, restarts>>

(* Cycle::commit changes the lineage, then journals the event it made. *)
Commit ==
    /\ pc = "adjudicated"
    /\ lin' = IF cand.approved
              THEN Promote(Add(lin, cand.id, cand.generation), Approval(cand.id, lin))
              ELSE Refuse(lin, cand.id)
    /\ pc' = IF cand.approved THEN "promoted" ELSE "refused"
    /\ UNCHANGED <<journal, disk, index, limit, refusals, cand, sup, report, record, validated,
                   restarts, faults>>

(* The runner drops the result of a refusing commit: its error too. *)
JournalRefusal(ok) ==
    /\ pc = "refused"
    /\ Write(Succession(Last(lin.events)), ok)
    /\ NextCycle(refusals + 1)
    /\ UNCHANGED <<lin, limit, cand, sup, report, record, validated, restarts>>

(* Mutant: an error is dropped, as it is for a refusal. *)
JournalPromotionUnchecked(ok) ==
    /\ pc = "promoted"
    /\ Write(Succession(Last(lin.events)), ok)
    /\ pc' = "granted"
    /\ UNCHANGED <<memory, record, validated, restarts>>

JournalPromotion(ok) ==
    /\ pc = "promoted"
    /\ Write(Succession(Last(lin.events)), ok)
    /\ IF ok THEN pc' = "granted" ELSE Fail
    /\ UNCHANGED <<memory, record, validated, restarts>>

(* Mutant: the new champion is not supervised. *)
JournalGrantTrusting(ok) ==
    /\ pc = "granted"
    /\ Write(Note, ok)
    /\ NextCycle(0)
    /\ UNCHANGED <<lin, limit, cand, sup, report, record, validated, restarts>>

(* The note that names the authority; without it commit() fails as well. *)
JournalGrant(ok) ==
    /\ pc = "granted"
    /\ Write(Note, ok)
    /\ IF ok THEN pc' = "supervise" /\ sup' = NewSupervisor(0)
             ELSE Fail /\ UNCHANGED sup
    /\ UNCHANGED <<lin, index, limit, refusals, cand, report, record, validated, restarts>>

(* Mutants: a failure is recorded and nothing else, and a healthy sample   *)
(* starts the window over.                                                 *)
ObserveOnly(sample, ok) ==
    /\ pc = "supervise"
    /\ sup' = Push(sup, sample)
    /\ IF Diagnose(sup') # "Healthy" THEN Write(Failure(lin.champion), ok)
       ELSE ok /\ UNCHANGED <<journal, disk, faults>>
    /\ IF sup'.observed >= Policy.window
       THEN validated' = validated \cup {lin.champion} /\ NextCycle(0)
       ELSE UNCHANGED <<pc, index, refusals, validated>>
    /\ UNCHANGED <<lin, limit, cand, report, record, restarts>>

ObserveAfresh(sample, ok) ==
    /\ pc = "supervise"
    /\ IF Diagnose(Push(sup, sample)) # "Healthy"
       THEN /\ sup' = Push(sup, sample)
            /\ Write(Failure(lin.champion), ok)
            /\ pc' = "failing"
       ELSE ok /\ sup' = NewSupervisor(0) /\ UNCHANGED <<pc, journal, disk, faults>>
    /\ UNCHANGED <<lin, index, limit, refusals, cand, report, record, validated, restarts>>

(* supervise(): one observation, and the end of the window. *)
Observe(sample, ok) ==
    /\ pc = "supervise"
    /\ sup' = Push(sup, sample)
    /\ IF Diagnose(sup') # "Healthy"
       THEN /\ Write(Failure(lin.champion), ok)
            /\ pc' = "failing"
            /\ UNCHANGED <<index, refusals, validated>>
       ELSE /\ ok /\ UNCHANGED <<journal, disk, faults>>
            /\ IF sup'.observed >= Policy.window
               THEN /\ validated' = validated \cup {lin.champion}
                    /\ NextCycle(0)
               ELSE UNCHANGED <<pc, index, refusals, validated>>
    /\ UNCHANGED <<lin, limit, cand, report, record, restarts>>

DemoteFailed(store) ==
    /\ pc = "failing"
    /\ MayDemote(lin, store)
    /\ lin' = DemoteChampion(lin, store)
    /\ pc' = "demoted"
    /\ UNCHANGED <<journal, disk, index, limit, refusals, cand, sup, report, record, validated,
                   restarts, faults>>

NoFallback(store, ok) ==
    /\ pc = "failing"
    /\ ~MayDemote(lin, store)
    /\ Write(Note, ok)
    /\ Halt("NoFallbackAvailable")
    /\ UNCHANGED <<lin, index, limit, refusals, cand, sup, record, validated, restarts>>

JournalDemotion(ok) ==
    /\ pc = "demoted"
    /\ Write(Succession(Last(lin.events)), ok)
    /\ Halt("Demoted")
    /\ UNCHANGED <<lin, index, limit, refusals, cand, sup, record, validated, restarts>>

(* Mutant: the head is read before the last note is written. *)
StallHeadFirst(ok) ==
    /\ pc = "stalled"
    /\ Write(Note, ok)
    /\ pc' = "halted"
    /\ report' = [halt |-> "SearchStalled", head |-> Len(journal)]
    /\ UNCHANGED <<lin, index, limit, refusals, cand, sup, record, validated, restarts>>

Stall(ok) ==
    /\ pc = "stalled"
    /\ Write(Note, ok)
    /\ Halt("SearchStalled")
    /\ UNCHANGED <<lin, index, limit, refusals, cand, sup, record, validated, restarts>>

Step ==
    \E ok \in BOOLEAN :
        \/ Open(ok) \/ Finish(ok) \/ WorkloadFails(ok) \/ RefuseCycle(ok)
        \/ \E p \in Population(lin) \cup {lin.champion}, a \in Artifacts, m \in Evidence :
              ProposeCandidate(p, a, m, ok)
        \/ EvaluateCandidate(ok)
        \/ \E score \in Scores : Calibrate(score, ok)
        \/ \E n \in 0 .. ShadowRuns, store \in SUBSET Artifacts :
              AdjudicateCandidate(n, store, ok)
        \/ Commit
        \/ JournalRefusal(ok) \/ JournalPromotion(ok) \/ JournalGrant(ok)
        \/ \E sample \in HealthSamples : Observe(sample, ok)
        \/ \E store \in SUBSET Artifacts : DemoteFailed(store)
        \/ \E store \in SUBSET Artifacts : NoFallback(store, ok)
        \/ JournalDemotion(ok) \/ Stall(ok)

-----------------------------------------------------------------------------
(* The process dies: the journal is what is left. *)
Crash ==
    /\ pc \notin {"halted", "down"}
    /\ restarts < MaxRestarts
    /\ restarts' = restarts + 1
    /\ pc' = "down"
    /\ lin' = Genesis
    /\ index' = 0 /\ limit' = 0 /\ refusals' = 0 /\ record' = NoRecord
    /\ cand' = NoCycle /\ sup' = NewSupervisor(0) /\ report' = NoReport
    /\ UNCHANGED <<journal, disk, validated, faults>>

(* Lineage::replay and Runner::resume, after a crash or a halt. *)
Resume ==
    /\ pc = "down" \/ (pc = "halted" /\ restarts < MaxRestarts)
    /\ restarts' = IF pc = "halted" THEN restarts + 1 ELSE restarts
    /\ disk.ok
    /\ lin' = disk.lin
    /\ index' = disk.proposals
    /\ limit' = disk.proposals + MaxCycles
    /\ refusals' = disk.trailing
    /\ record' = disk.record
    /\ pc' = "start"
    /\ cand' = NoCycle /\ sup' = NewSupervisor(0) /\ report' = NoReport
    /\ UNCHANGED <<journal, disk, validated, faults>>

Next == Step \/ Crash \/ Resume

(* A run that is up keeps going; nothing obliges anyone to restart it. *)
Spec == Init /\ [][Next]_vars /\ WF_vars(Step)

-----------------------------------------------------------------------------
(* An event is in memory and not yet in the journal. *)
InFlight == pc \in {"refused", "promoted", "demoted"}

(* The journal a run leaves behind always replays, wherever the run died   *)
(* and whatever was lost: no sequence of entries the runner can write is   *)
(* one that Lineage::replay refuses as inconsistent (with_proposer():      *)
(* "Resumable").                                                           *)
JournalReplays == disk.ok

(* When no append fails, replaying what is on disk gives the live lineage, *)
(* short of the one event whose append is still to come: whenever the      *)
(* process dies, a restart continues from the authority it had recorded    *)
(* (Lineage::replay against Cycle::commit and supervise).                  *)
ReplayFollowsLive ==
    /\ pc # "down" /\ ~InFlight => disk.lin = lin
    /\ InFlight => disk.lin.events = Front(lin.events)

(* The counters a restart takes from the journal are the ones the live     *)
(* loop holds: the cycle number, hence the seed, and the refusals in a row *)
(* (Resumed.proposals and trailing_refusals against run()).                *)
CountersSurvive ==
    pc = "cycle" => disk.proposals = index /\ disk.trailing = refusals

(* An external proposer resumes with the trust it had earned: between      *)
(* cycles the record replay() rebuilds from the Calibrated entries is the  *)
(* one the live run holds (Runner::resume, Resumed.proposers).             *)
TrustSurvives == pc = "cycle" => disk.record = record

TallySurvives == CountersSurvive /\ TrustSurvives

(* Positions of the entries of one kind about one generation. *)
At(kind, id) == {p \in 1 .. Len(journal) :
                    journal[p].kind = kind /\ journal[p].generation = id}

(* The paper trail: a promotion on disk comes after exactly one proposal,  *)
(* an evaluation and an approving verdict of that generation, in this      *)
(* order, and the candidate on disk is the generation that was promoted,   *)
(* across every crash (cycle.rs: "Every transition writes to the journal").*)
PromotionsHavePaperTrail ==
    \A p \in 1 .. Len(journal) :
        journal[p].kind = "Succession" /\ journal[p].event.event = "Promoted" =>
            LET id == journal[p].event.generation
            IN \E a \in At("Proposed", id), b \in At("Evaluated", id),
                  c \in At("Adjudicated", id) :
                 /\ a < b /\ b < c /\ c < p
                 /\ At("Proposed", id) = {a}
                 /\ journal[c].approved

(* The head a report publishes anchors the whole journal: nothing is       *)
(* written after it until the run is resumed (run(), every return).        *)
ReportAnchorsJournal == pc = "halted" => report.head = Len(journal)

(* A failure on record ends the failed generation's authority before the   *)
(* run returns, or the run says that no fallback exists.                   *)
RecordedFailureEndsAuthority ==
    pc = "halted" /\ report.halt # "NoFallbackAvailable" /\ lin.champion # None =>
        At("Failure", lin.champion) = {}

(* run(): "Supervise the new champion before proposing anything else."     *)
(* Once a generation of this journal holds authority, the next proposal    *)
(* finds it healthy through a window of observations.                      *)
SupervisedBeforeProposing ==
    pc = "proposed" => lin.champion \in validated \cup {Genesis.champion}

(* Authority as the disk records it, crashes included, keeps the promise   *)
(* of module Authority, from whatever Genesis granted.                     *)
DurableView == INSTANCE Authority WITH
    holder <- disk.lin.champion,
    held <- {i \in Ids : disk.lin.status[i] \in {"Champion", "Retired", "Quarantined"}},
    fallen <- {i \in Ids : disk.lin.status[i] = "Quarantined"}

DurableAuthority == [][DurableView!Next]_(DurableView!vars)

(* "Bounded by construction": a run that is not killed halts by itself.    *)
RunsEnd == pc = "start" ~> pc \in {"halted", "down"}

-----------------------------------------------------------------------------
(* GERMLINE.md, section 10: "failure -> fallback, fully journalled".  When *)
(* a run reports Halt::Demoted, the journal gives authority to the same    *)
(* generation as the lineage the run leaves behind.                        *)
DemotionIsJournalled ==
    pc = "halted" /\ report.halt = "Demoted" => disk.lin.champion = lin.champion

(* GERMLINE.md, section 6: metric divergence, "optimized metric up while   *)
(* held-out down", is caught after a full window.  Scores are relative to  *)
(* the promotion, so both baselines are 0.                                 *)
DivergenceIsCaught ==
    pc = "cycle" /\ sup.observed >= Policy.window =>
        ~Diverges(WithOptimizedBaseline(sup, 0))
=============================================================================
