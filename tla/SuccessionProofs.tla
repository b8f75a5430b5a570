--------------------------- MODULE SuccessionProofs ---------------------------
(***************************************************************************)
(* Proofs about Succession, for every value of its constants and with any  *)
(* number of open cycles: its types, that the record explains authority,   *)
(* and that every promotion was earned.                                    *)
(***************************************************************************)
EXTENDS Succession, LineageProofs

-----------------------------------------------------------------------------
(* The inductive invariant. *)

(* The cycle may still commit its candidate, or has not got so far. *)
Unsettled(c) ==
    \/ c.phase \in {"Unborn", "Proposed", "Evaluated", "Shadowing"}
    \/ c.approval # None

(* The generation an approval measures against, NewGeneration for none. *)
Against(l, id) == IF id = None THEN NewGeneration ELSE l.data[id]

(* The approval held by cycle c of id i is for that cycle, was earned      *)
(* against the incumbent it names, and that incumbent is known.            *)
ApprovalSound(l, c, i) ==
    c.approval # None =>
        /\ c.phase = "Adjudicated" /\ c.verdict = "Promote"
        /\ c.approval.generation = i
        /\ c.approval.incumbent # None => Known(l, c.approval.incumbent)
        /\ EarnedAgainst(c.candidate, Against(l, c.approval.incumbent))

(* An id that was not handed out has no cycle, and a cycle that may still  *)
(* commit has not added its generation.                                    *)
CycleSound(l, c, i) ==
    /\ i >= l.next_id => c.phase = "Unborn"
    /\ Unsettled(c) => ~Known(l, i)
    /\ ApprovalSound(l, c, i)

(* A promotion names generations of the lineage, so no later Add changes   *)
(* what it was earned with.                                                *)
PromotionSound(l, e) ==
    e.event = "Promoted" =>
        /\ Known(l, e.generation)
        /\ e.other # None => Known(l, e.other)
        /\ EarnedAgainst(l.data[e.generation], Against(l, e.other))

RecordSound(l) == \A p \in 1 .. Len(l.events) : PromotionSound(l, l.events[p])

IInv ==
    /\ TypeOK
    /\ Explained(lin)
    /\ \A i \in Ids : CycleSound(lin, cycles[i], i)
    /\ RecordSound(lin)

-----------------------------------------------------------------------------
(* The champion heads its own chain. *)
LEMMA ChainHasRoot ==
    ASSUME NEW l, NEW id \in Ids, Known(l, id)
    PROVE  id \in Chain(l, id)
  BY DEF Chain

(* What adjudicate() approves is earned against the champion of that       *)
(* moment under the registered gate.                                       *)
LEMMA ApprovedIsEarned ==
    ASSUME NEW l \in Lineages, NEW g, NEW id, NEW chal, NEW n, NEW st,
           Adjudicate(g, id, chal, l, n, st) = {},
           l.champion # None => Known(l, l.champion)
    PROVE  EarnedAgainst(chal, Against(l, l.champion))
  <1>1. g = RegisteredGate /\ CheckEvidence(g, chal, l) = {}
    BY DEF Adjudicate
  <1>2. /\ HasHeldout(chal) /\ chal.measured.suite = SuiteDigest
        /\ chal.measured.evaluator = Evaluator /\ CheckFitness(g, chal, l) = {}
    BY <1>1 DEF CheckEvidence
  <1>3. Comparable(chal, l)
    BY <1>2 DEF CheckFitness
  <1>4. /\ Improves(g, chal, l)
        /\ \A x \in GuardAxes : HasAxis(chal, x)
        /\ \A x \in GuardAxes : HasAxis(chal, x) => HoldsGuard(g, chal, l, x)
    BY <1>2, <1>3 DEF CheckFitness
  <1>5. ASSUME HasHeldout(Against(l, l.champion))
        PROVE  /\ MeasuredAxes(chal) = MeasuredAxes(Against(l, l.champion))
               /\ HasAxis(Against(l, l.champion), PrimaryAxis) =>
                    chal.measured.fitness[PrimaryAxis]
                      - Against(l, l.champion).measured.fitness[PrimaryAxis]
                          >= RegisteredGate.min_improvement
               /\ \A x \in GuardAxes :
                    chal.measured.fitness[x]
                      >= Against(l, l.champion).measured.fitness[x]
                           - RegisteredGate.guard_tolerance
    <2> DEFINE f == l.data[l.champion]
    <2>1. l.champion # None /\ Against(l, l.champion) = f /\ HasHeldout(f)
      BY <1>5 DEF Against, HasHeldout, NewGeneration
    <2>2. MeasuredAxes(chal) = MeasuredAxes(f)
      BY <2>1, <1>3 DEF Comparable, MeasuredChampion
    <2>3. \A x \in Axes : HasAxis(f, x) <=> HasAxis(chal, x)
      BY <2>2 DEF MeasuredAxes
    <2>4. HasAxis(f, PrimaryAxis) =>
            chal.measured.fitness[PrimaryAxis] - f.measured.fitness[PrimaryAxis]
                >= g.min_improvement
      BY <2>1, <2>3, <1>4, AxesAssumption DEF Improves, MeasuredChampion
    <2>5. ASSUME NEW x \in GuardAxes
          PROVE  chal.measured.fitness[x] >= f.measured.fitness[x] - g.guard_tolerance
      <3>1. HasAxis(f, x) /\ HoldsGuard(g, chal, l, x)
        BY <2>3, <1>4, AxesAssumption
      <3>2. l.champion \in Ids
        BY <2>1 DEF Lineages
      <3>3. l.champion \in Chain(l, l.champion)
        BY <2>1, <3>2, ChainHasRoot
      <3>4. f.measured.fitness[x] \in Marks(l, l.champion, x)
        BY <3>1, <3>3 DEF Marks
      <3>5. f.measured.fitness[x] \in HighWater(chal, l, x)
        BY <3>4, <2>1 DEF HighWater
      <3> QED
        BY <3>1, <3>5 DEF HoldsGuard
    <2> QED
      BY <1>1, <2>1, <2>2, <2>4, <2>5
  <1> QED
    BY <1>2, <1>4, <1>5 DEF EarnedAgainst

(* A cycle that was not opened holds no approval. *)
LEMMA UnbornTyped == Unborn \in Cycles /\ Unborn.approval = None
  <1>1. NewGeneration \in Generations
    BY DEF NewGeneration, Generations
  <1> QED
    BY <1>1, MaxShadowAssumption DEF Unborn, Cycles, Phases

(* The empty lineage is a lineage and its empty record explains it. *)
LEMMA InitSound == Init => IInv
  <1> SUFFICES ASSUME Init PROVE IInv
    OBVIOUS
  <1>1. NewGeneration \in Generations
    BY DEF NewGeneration, Generations
  <1>2. EmptyLineage \in Lineages
    BY <1>1, MaxIdAssumption DEF EmptyLineage, Lineages
  <1>3. Unborn \in Cycles
    BY UnbornTyped
  <1>4. TypeOK
    BY <1>2, <1>3, GateAssumption DEF Init, TypeOK
  <1>5. /\ lin.events = <<>> /\ lin.champion = None /\ Len(lin.events) = 0
        /\ \A i \in Ids : lin.status[i] = "Absent"
    BY DEF Init, EmptyLineage
  <1>6. Explained(lin)
    BY <1>5, NoneIsNoId DEF Explained, Moves, PreviouslyDemoted
  <1>7. \A i \in Ids : CycleSound(lin, cycles[i], i)
    BY <1>5 DEF Init, CycleSound, ApprovalSound, Unsettled, Unborn, Known
  <1>8. RecordSound(lin)
    BY <1>5 DEF RecordSound
  <1> QED
    BY <1>4, <1>6, <1>7, <1>8 DEF IInv

-----------------------------------------------------------------------------
(* l2 keeps every generation of l as it was, and hands out ids from where  *)
(* l stopped or later.                                                     *)
Keeps(l, l2) ==
    /\ l.next_id <= l2.next_id
    /\ \A i \in Ids : Known(l, i) => Known(l2, i) /\ l2.data[i] = l.data[i]

(* What an approval or a promotion rests on survives in such an l2. *)
LEMMA AgainstKept ==
    ASSUME NEW l, NEW l2, Keeps(l, l2), NEW o \in Ids \cup {None},
           o # None => Known(l, o)
    PROVE  Against(l2, o) = Against(l, o) /\ (o # None => Known(l2, o))
  BY DEF Keeps, Against

(* A cycle stays sound when the lineage grows without adding its id. *)
LEMMA CycleKept ==
    ASSUME NEW l \in Lineages, NEW l2 \in Lineages, Keeps(l, l2), NEW i \in Ids, NEW c \in Cycles,
           CycleSound(l, c, i), ~Known(l, i) => ~Known(l2, i)
    PROVE  CycleSound(l2, c, i)
  <1>1. i >= l2.next_id => c.phase = "Unborn"
    <2>1. l.next_id \in Int /\ l2.next_id \in Int /\ i \in Int
      BY DEF Lineages, Ids
    <2> QED
      BY <2>1 DEF CycleSound, Keeps
  <1>2. ASSUME c.approval # None
        PROVE  c.approval.incumbent \in Ids \cup {None}
    BY <1>2 DEF Cycles, Approvals
  <1>3. ApprovalSound(l2, c, i)
    BY <1>2, AgainstKept DEF CycleSound, ApprovalSound
  <1> QED
    BY <1>1, <1>3 DEF CycleSound

(* The promotions stay sound when nothing or another event is recorded. *)
LEMMA RecordKept ==
    ASSUME NEW l \in Lineages, NEW l2 \in Lineages, Keeps(l, l2), RecordSound(l),
           \/ l2.events = l.events
           \/ \E e \in Events : /\ l2.events = Append(l.events, e)
                               /\ PromotionSound(l2, e)
    PROVE  RecordSound(l2)
  <1>0. l.events \in Seq(Events)
    BY DEF Lineages
  <1>1. ASSUME NEW e \in Events, PromotionSound(l, e)
        PROVE  PromotionSound(l2, e)
    <2>1. e.generation \in Ids /\ e.other \in Ids \cup {None}
      BY DEF Events
    <2> QED
      BY <1>1, <2>1, AgainstKept DEF PromotionSound, Keeps
  <1>2. \A p \in 1 .. Len(l.events) : PromotionSound(l2, l.events[p])
    BY <1>0, <1>1 DEF RecordSound
  <1>3. CASE l2.events = l.events
    BY <1>2, <1>3 DEF RecordSound
  <1>4. ASSUME NEW e \in Events, l2.events = Append(l.events, e), PromotionSound(l2, e)
        PROVE  RecordSound(l2)
    <2>1. ASSUME NEW p \in 1 .. Len(l2.events)
          PROVE  PromotionSound(l2, l2.events[p])
      <3>1. p \in 1 .. Len(l.events) \/ p = Len(l.events) + 1
        BY <1>0, <1>4, AppendedEvent
      <3> QED
        BY <3>1, <1>0, <1>2, <1>4, AppendedEvent
    <2> QED
      BY <2>1 DEF RecordSound
  <1> QED
    BY <1>3, <1>4

-----------------------------------------------------------------------------
(* One lemma per action: it preserves the invariant. *)

(* Cycle::propose hands out an id whose cycle is untouched. *)
LEMMA ProposeSound ==
    ASSUME IInv, NEW parent \in Ids \cup {None}, NEW artifact \in Artifacts,
           Propose(parent, artifact)
    PROVE  IInv'
  <1> DEFINE n == lin.next_id
             g == [parent |-> parent, artifact |-> artifact, measured |-> None]
             c == [Unborn EXCEPT !.phase = "Proposed", !.candidate = g]
  <1>1. lin \in Lineages /\ cycles \in [Ids -> Cycles]
    BY DEF IInv, TypeOK
  <1>2. n < MaxId /\ lin' = TakeId(lin) /\ cycles' = [cycles EXCEPT ![n] = c]
        /\ gate' = gate /\ store' = store
    BY DEF Propose
  <1>3. n \in 0 .. MaxId /\ n \in Ids
    BY <1>1, <1>2, MaxIdAssumption DEF Lineages, Ids
  <1>4. g \in Generations
    BY DEF Generations
  <1>5. c \in Cycles /\ c.phase = "Proposed" /\ c.approval = None
    <2> HIDE DEF g
    <2> QED
      BY <1>4, UnbornTyped DEF Cycles, Phases
  <1>6. /\ lin' \in Lineages /\ lin'.next_id = n + 1 /\ lin'.data = lin.data
        /\ lin'.status = lin.status /\ lin'.champion = lin.champion
        /\ lin'.events = lin.events
    BY <1>1, <1>2, TakeIdFields
  <1> HIDE DEF c, g
  <1>7. TypeOK'
    BY <1>1, <1>2, <1>3, <1>5, <1>6 DEF TypeOK, IInv
  <1>8. Explained(lin')
    BY <1>6 DEF IInv, Explained, Moves, PreviouslyDemoted
  <1>9. Keeps(lin, lin')
    BY <1>3, <1>6 DEF Keeps, Known
  <1>10. RecordSound(lin')
    BY <1>1, <1>6, <1>9, RecordKept DEF IInv
  <1>11. ASSUME NEW i \in Ids PROVE CycleSound(lin', cycles'[i], i)
    <2>1. CASE i # n
      <3>1. cycles'[i] = cycles[i] /\ cycles[i] \in Cycles
        BY <2>1, <1>1, <1>2
      <3>2. ~Known(lin, i) => ~Known(lin', i)
        BY <1>6 DEF Known
      <3> QED
        BY <3>1, <3>2, <1>1, <1>6, <1>9, CycleKept DEF IInv
    <2>2. CASE i = n
      <3>1. cycles'[i] = c
        BY <2>2, <1>1, <1>2, <1>3
      <3>2. ~(i >= lin'.next_id)
        BY <2>2, <1>3, <1>6
      <3>3. cycles[i].phase = "Unborn"
        BY <2>2, <1>3 DEF IInv, CycleSound
      <3>4. ~Known(lin', i)
        BY <3>3, <1>6 DEF IInv, CycleSound, Unsettled, Known
      <3> QED
        BY <3>1, <3>2, <3>4, <1>5 DEF CycleSound, ApprovalSound
    <2> QED
      BY <2>1, <2>2
  <1> QED
    BY <1>7, <1>8, <1>10, <1>11 DEF IInv

(* A step of one cycle that leaves the lineage alone and the cycle sound. *)
LEMMA CycleStepSound ==
    ASSUME IInv, NEW id \in Ids, NEW c \in Cycles, CycleSound(lin, c, id),
           cycles' = [cycles EXCEPT ![id] = c],
           lin' = lin, gate' = gate, store' = store
    PROVE  IInv'
  <1>1. cycles \in [Ids -> Cycles]
    BY DEF IInv, TypeOK
  <1>2. TypeOK'
    BY <1>1 DEF IInv, TypeOK
  <1>3. \A i \in Ids : cycles'[i] = IF i = id THEN c ELSE cycles[i]
    BY <1>1
  <1>4. \A i \in Ids : CycleSound(lin', cycles'[i], i)
    BY <1>3 DEF IInv
  <1>5. Explained(lin') /\ RecordSound(lin')
    BY DEF IInv
  <1> QED
    BY <1>2, <1>4, <1>5 DEF IInv

(* Before the verdict a cycle holds no approval and its generation is not  *)
(* in the lineage, and its id was handed out.                              *)
LEMMA BeforeVerdict ==
    ASSUME IInv, NEW id \in Ids, cycles[id].phase \in {"Proposed", "Evaluated", "Shadowing"}
    PROVE  /\ cycles[id] \in Cycles
           /\ cycles[id].approval = None /\ ~Known(lin, id) /\ ~(id >= lin.next_id)
  BY DEF IInv, TypeOK, CycleSound, ApprovalSound, Unsettled

(* Cycle::evaluate. *)
LEMMA EvaluateSound ==
    ASSUME IInv, NEW id \in Ids, NEW m \in Evidence, Evaluate(id, m)
    PROVE  IInv'
  <1> DEFINE o == cycles[id]
             g == Measured(o.candidate, m)
             c == [o EXCEPT !.phase = "Evaluated", !.candidate = g]
  <1>1. o \in Cycles /\ o.approval = None /\ ~Known(lin, id) /\ ~(id >= lin.next_id)
    BY BeforeVerdict DEF Evaluate
  <1>2. g \in Generations
    <2>1. o.candidate \in Generations /\ m \in Measurements
      BY <1>1, EvidenceAssumption DEF Cycles
    <2> QED
      BY <2>1 DEF Measured, Generations
  <1>3. cycles' = [cycles EXCEPT ![id] = c] /\ lin' = lin /\ gate' = gate /\ store' = store
    BY DEF Evaluate, IInv, TypeOK
  <1> HIDE DEF o, g
  <1>4. c \in Cycles /\ c.phase = "Evaluated" /\ c.approval = None
    BY <1>1, <1>2 DEF Cycles, Phases
  <1> HIDE DEF c
  <1>5. CycleSound(lin, c, id)
    BY <1>1, <1>4 DEF CycleSound, ApprovalSound
  <1> QED
    BY <1>3, <1>4, <1>5, CycleStepSound

(* Cycle::shadow. *)
LEMMA ShadowSound ==
    ASSUME IInv, NEW id \in Ids, NEW success \in BOOLEAN, Shadow(id, success)
    PROVE  IInv'
  <1> DEFINE o == cycles[id]
             n == IF success THEN o.shadow_successes + 1 ELSE o.shadow_successes
             c == [o EXCEPT !.phase = "Shadowing", !.shadow_successes = n]
  <1>1. o \in Cycles /\ o.approval = None /\ ~Known(lin, id) /\ ~(id >= lin.next_id)
    BY BeforeVerdict DEF Shadow
  <1>2. n \in 0 .. MaxShadow
    <2>1. o.shadow_successes \in 0 .. MaxShadow
      BY <1>1 DEF Cycles
    <2>2. success => o.shadow_successes < MaxShadow
      BY DEF Shadow
    <2> QED
      BY <2>1, <2>2, MaxShadowAssumption
  <1>3. cycles' = [cycles EXCEPT ![id] = c] /\ lin' = lin /\ gate' = gate /\ store' = store
    BY DEF Shadow, IInv, TypeOK
  <1> HIDE DEF o, n
  <1>4. c \in Cycles /\ c.phase = "Shadowing" /\ c.approval = None
    BY <1>1, <1>2 DEF Cycles, Phases
  <1> HIDE DEF c
  <1>5. CycleSound(lin, c, id)
    BY <1>1, <1>4 DEF CycleSound, ApprovalSound
  <1> QED
    BY <1>3, <1>4, <1>5, CycleStepSound

(* The champion, where there is one, is a generation of the lineage. *)
LEMMA ChampionKnown ==
    ASSUME IInv
    PROVE  /\ lin.champion \in Ids \cup {None}
           /\ lin.champion # None => Known(lin, lin.champion)
  <1>1. lin.champion \in Ids \cup {None}
    BY DEF IInv, TypeOK, Lineages
  <1> QED
    BY <1>1 DEF IInv, Explained, Known

(* Cycle::adjudicate mints only approvals that are earned. *)
LEMMA AdjudicateSound ==
    ASSUME IInv, NEW id \in Ids, AdjudicateCycle(id)
    PROVE  IInv'
  <1> DEFINE o == cycles[id]
             ok == Adjudicate(gate, id, o.candidate, lin, o.shadow_successes, store) = {}
             v == IF ok THEN "Promote" ELSE "Reject"
             a == IF ok THEN Approval(id, lin) ELSE None
             c == [o EXCEPT !.phase = "Adjudicated", !.verdict = v, !.approval = a]
  <1>1. o \in Cycles /\ o.approval = None /\ ~Known(lin, id) /\ ~(id >= lin.next_id)
    BY BeforeVerdict DEF AdjudicateCycle
  <1>2. v \in {None, "Promote", "Reject"} /\ a \in Approvals \cup {None}
    BY ChampionKnown DEF Approval, Approvals
  <1>3. cycles' = [cycles EXCEPT ![id] = c] /\ lin' = lin /\ gate' = gate /\ store' = store
    BY DEF AdjudicateCycle, IInv, TypeOK
  <1>4. ASSUME a # None
        PROVE  /\ a.generation = id /\ a.incumbent = lin.champion /\ v = "Promote"
               /\ EarnedAgainst(o.candidate, Against(lin, lin.champion))
    <2>1. ok
      BY <1>4
    <2>2. lin \in Lineages
      BY DEF IInv, TypeOK
    <2> QED
      BY <2>1, <2>2, ChampionKnown, ApprovedIsEarned DEF Approval
  <1> HIDE DEF o, v, a
  <1>5. /\ c \in Cycles /\ c.phase = "Adjudicated" /\ c.approval = a
        /\ c.candidate = o.candidate /\ c.verdict = v
    BY <1>1, <1>2 DEF Cycles, Phases
  <1> HIDE DEF c
  <1>6. ApprovalSound(lin, c, id)
    BY <1>4, <1>5, ChampionKnown DEF ApprovalSound
  <1>7. CycleSound(lin, c, id)
    BY <1>1, <1>6 DEF CycleSound
  <1> QED
    BY <1>3, <1>5, <1>7, CycleStepSound

(* A step of the lineage that adds no generation and records no promotion. *)
LEMMA LineageStepSound ==
    ASSUME IInv, NEW e \in Events, lin' \in Lineages, Explained(lin'), Keeps(lin, lin'),
           lin'.events = Append(lin.events, e), e.event # "Promoted",
           \A i \in Ids : ~Known(lin, i) => ~Known(lin', i),
           cycles' \in [Ids -> Cycles],
           \A i \in Ids : CycleSound(lin, cycles'[i], i),
           gate' = gate, store' = store
    PROVE  IInv'
  <1>1. lin \in Lineages /\ RecordSound(lin)
    BY DEF IInv, TypeOK
  <1>2. TypeOK'
    BY DEF IInv, TypeOK
  <1>3. PromotionSound(lin', e)
    BY DEF PromotionSound
  <1>4. RecordSound(lin')
    BY <1>1, <1>3, RecordKept
  <1>5. \A i \in Ids : CycleSound(lin', cycles'[i], i)
    BY <1>1, CycleKept
  <1> QED
    BY <1>2, <1>4, <1>5 DEF IInv

(* Cycle::commit of a refusal. *)
LEMMA CommitRefusedSound ==
    ASSUME IInv, NEW id \in Ids, CommitRefused(id)
    PROVE  IInv'
  <1> DEFINE o == cycles[id]
             c == [o EXCEPT !.phase = "Refused"]
             e == Event("Refused", id, None)
  <1>1. lin \in Lineages /\ cycles \in [Ids -> Cycles] /\ o \in Cycles
    BY DEF IInv, TypeOK
  <1>2. lin' = Refuse(lin, id) /\ cycles' = [cycles EXCEPT ![id] = c]
        /\ gate' = gate /\ store' = store
        /\ o.phase = "Adjudicated" /\ o.verdict = "Reject"
    BY <1>1 DEF CommitRefused
  <1>3. e \in Events /\ e.event = "Refused"
    BY EventTyped DEF EventKinds, Event
  <1>4. /\ lin' \in Lineages /\ lin'.next_id = lin.next_id /\ lin'.data = lin.data
        /\ lin'.status = lin.status /\ lin'.events = Append(lin.events, e)
    BY <1>1, <1>2, RefuseFields
  <1>5. Explained(lin')
    BY <1>1, <1>2, RefuseExplained DEF IInv
  <1>6. c \in Cycles /\ c.phase = "Refused" /\ c.approval = o.approval
    <2> HIDE DEF o
    <2> QED
      BY <1>1 DEF Cycles, Phases
  <1>7. Keeps(lin, lin') /\ \A i \in Ids : ~Known(lin, i) => ~Known(lin', i)
    <2>1. lin.next_id \in Int
      BY <1>1 DEF Lineages
    <2> QED
      BY <2>1, <1>4 DEF Keeps, Known
  <1> HIDE DEF e, c
  <1>8. cycles' \in [Ids -> Cycles]
    BY <1>1, <1>2, <1>6
  <1>9. ASSUME NEW i \in Ids PROVE CycleSound(lin, cycles'[i], i)
    <2>1. CASE i # id
      BY <2>1, <1>1, <1>2 DEF IInv
    <2>2. CASE i = id
      <3>1. cycles'[i] = c
        BY <2>2, <1>1, <1>2
      <3>2. c.approval = None /\ ~(i >= lin.next_id)
        BY <2>2, <1>2, <1>6 DEF IInv, CycleSound, ApprovalSound
      <3> QED
        BY <3>1, <3>2, <1>6 DEF CycleSound, ApprovalSound, Unsettled
    <2> QED
      BY <2>1, <2>2
  <1> QED
    BY <1>2, <1>3, <1>4, <1>5, <1>7, <1>8, <1>9, LineageStepSound

(* Cycle::commit of an approval: the generation is new to the lineage, so  *)
(* nothing recorded changes, and only a fresh approval moves authority.    *)
LEMMA CommitApprovedSound ==
    ASSUME IInv, NEW id \in Ids, CommitApproved(id)
    PROVE  IInv'
  <1> DEFINE o == cycles[id]
             g == o.candidate
             a == o.approval
             l1 == Add(lin, id, g)
             ph == IF MayPromote(l1, a) THEN "Promoted" ELSE o.phase
             c == [o EXCEPT !.approval = None, !.phase = ph]
  <1>1. lin \in Lineages /\ cycles \in [Ids -> Cycles] /\ o \in Cycles
    BY DEF IInv, TypeOK
  <1>2. /\ o.phase = "Adjudicated" /\ a # None /\ lin' = Promote(l1, a)
        /\ cycles' = [cycles EXCEPT ![id] = c] /\ gate' = gate /\ store' = store
    BY <1>1 DEF CommitApproved
  <1>3. g \in Generations /\ a \in Approvals
    BY <1>1, <1>2 DEF Cycles
  <1>4. /\ ~Known(lin, id) /\ ~(id >= lin.next_id) /\ a.generation = id
        /\ a.incumbent # None => Known(lin, a.incumbent)
        /\ EarnedAgainst(g, Against(lin, a.incumbent))
    BY <1>2 DEF IInv, CycleSound, ApprovalSound, Unsettled
  <1>5. /\ l1 \in Lineages /\ l1.order = Append(lin.order, id)
        /\ l1.next_id = IF lin.next_id > id THEN lin.next_id ELSE id + 1
        /\ l1.data = [lin.data EXCEPT ![id] = g]
        /\ l1.status = [lin.status EXCEPT ![id] = "Candidate"]
        /\ l1.champion = lin.champion /\ l1.events = lin.events
    BY <1>1, <1>3, AddFields
  <1>6. /\ lin.data \in [Ids -> Generations] /\ lin.next_id \in Int /\ id \in Int
        /\ lin.status \in [Ids -> Statuses \cup {"Absent"}]
    BY <1>1 DEF Lineages, Ids
  <1>7. c \in Cycles /\ c.phase = ph /\ c.approval = None
        /\ c.phase \in {"Adjudicated", "Promoted"}
    <2>1. ph \in {"Adjudicated", "Promoted"}
      BY <1>2
    <2> HIDE DEF o, ph
    <2> QED
      BY <1>1, <2>1 DEF Cycles, Phases
  <1> HIDE DEF o, g, a, l1, ph, c
  <1>8. /\ Keeps(lin, l1)
        /\ \A i \in Ids : i # id /\ ~Known(lin, i) => ~Known(l1, i)
        /\ Known(l1, id) /\ l1.data[id] = g
    BY <1>4, <1>5, <1>6 DEF Keeps, Known
  <1>9. Explained(l1)
    BY <1>1, <1>3, <1>4, AddExplained DEF IInv, Known, l1
  <1>10. RecordSound(l1)
    BY <1>1, <1>5, <1>8, RecordKept DEF IInv
  <1>11. \A i \in Ids : i # id => CycleSound(l1, cycles[i], i)
    BY <1>1, <1>5, <1>8, CycleKept DEF IInv
  <1>12. cycles' \in [Ids -> Cycles] /\ \A i \in Ids : cycles'[i] = IF i = id THEN c ELSE cycles[i]
    BY <1>1, <1>2, <1>7
  <1>13. ASSUME NEW l2 \in Lineages, Keeps(l1, l2),
                \A i \in Ids : ~Known(l1, i) => ~Known(l2, i)
         PROVE  \A i \in Ids : CycleSound(l2, cycles'[i], i)
    <2>1. CycleSound(l1, c, id)
      <3>1. ~(id >= l1.next_id)
        BY <1>4, <1>5, <1>6
      <3> QED
        BY <3>1, <1>7 DEF CycleSound, ApprovalSound, Unsettled
    <2>2. \A i \in Ids : CycleSound(l1, cycles'[i], i)
      BY <2>1, <1>11, <1>12
    <2> QED
      BY <2>2, <1>5, <1>12, <1>13, CycleKept
  <1>14. CASE ~MayPromote(l1, a)
    <2>1. lin' = l1
      BY <1>2, <1>14 DEF Promote
    <2>2. Keeps(l1, l1)
      BY <1>5 DEF Keeps, Lineages
    <2>3. \A i \in Ids : CycleSound(lin', cycles'[i], i)
      BY <2>1, <2>2, <1>5, <1>13
    <2>4. TypeOK'
      BY <2>1, <1>2, <1>5, <1>12 DEF IInv, TypeOK
    <2> QED
      BY <2>1, <2>3, <2>4, <1>9, <1>10 DEF IInv
  <1>15. CASE MayPromote(l1, a)
    <2> DEFINE e == Event("Promoted", id, l1.champion)
    <2>1. lin' = Install(l1, id) /\ a.incumbent = l1.champion
      BY <1>2, <1>4, <1>15 DEF Promote, MayPromote
    <2>2. /\ lin' \in Lineages /\ lin'.next_id = l1.next_id /\ lin'.data = l1.data
          /\ lin'.status = [SetStatus(l1, l1.champion, "Retired") EXCEPT ![id] = "Champion"]
          /\ lin'.events = Append(l1.events, e)
      BY <2>1, <1>5, InstallFields
    <2>3. /\ l1.champion \in Ids \cup {None} /\ l1.next_id \in Int
          /\ l1.status \in [Ids -> Statuses \cup {"Absent"}]
      <3>1. l1 \in Lineages
        BY <1>5
      <3> QED
        BY <3>1 DEF Lineages
    <2>4. e \in Events /\ e.event = "Promoted" /\ e.generation = id /\ e.other = l1.champion
      BY <2>3, EventTyped DEF EventKinds, Event
    <2> HIDE DEF e
    <2>5. l1.champion # None => Known(l1, l1.champion)
      BY <2>3, <1>9 DEF Explained, Known
    <2>6. Keeps(l1, lin') /\ \A i \in Ids : ~Known(l1, i) => ~Known(lin', i)
      <3>1. \A i \in Ids : Known(lin', i) <=> Known(l1, i)
        <4>1. CASE l1.champion = None
          BY <4>1, <2>2, <2>3, <1>8 DEF SetStatus, Known
        <4>2. CASE l1.champion \in Ids
          BY <4>2, <2>2, <2>3, <2>5, <1>8, NoneIsNoId DEF SetStatus, Known
        <4> QED
          BY <4>1, <4>2, <2>3
      <3> QED
        BY <3>1, <2>2, <2>3 DEF Keeps
    <2>7. Explained(lin')
      BY <2>1, <1>5, <1>6, <1>9, InstallExplained DEF Statuses
    <2>8. PromotionSound(lin', e)
      <3>1. /\ Against(l1, l1.champion) = Against(lin, a.incumbent)
            /\ Against(lin', l1.champion) = Against(l1, l1.champion)
            /\ l1.champion # None => Known(lin', l1.champion)
        BY <2>1, <2>3, <2>5, <2>6, <1>4, <1>8, AgainstKept
      <3>2. Known(lin', id) /\ lin'.data[id] = g
        BY <2>2, <2>6, <1>8 DEF Keeps
      <3> QED
        BY <3>1, <3>2, <2>4, <1>4 DEF PromotionSound
    <2>9. RecordSound(lin')
      BY <2>2, <2>4, <2>6, <2>8, <1>5, <1>10, RecordKept
    <2>10. \A i \in Ids : CycleSound(lin', cycles'[i], i)
      BY <2>2, <2>6, <1>13
    <2>11. TypeOK'
      BY <2>2, <1>2, <1>12 DEF IInv, TypeOK
    <2> QED
      BY <2>7, <2>9, <2>10, <2>11 DEF IInv
  <1> QED
    BY <1>14, <1>15

(* A demotion to a retired generation. *)
LEMMA DemotionKeeps ==
    ASSUME NEW l \in Lineages, NEW c \in Ids, NEW t \in Ids, Explained(l),
           l.champion = c, l.status[t] = "Retired"
    PROVE  /\ ApplyDemotion(l, c, t) \in Lineages
           /\ Explained(ApplyDemotion(l, c, t))
           /\ Keeps(l, ApplyDemotion(l, c, t))
           /\ \A i \in Ids : ~Known(l, i) => ~Known(ApplyDemotion(l, c, t), i)
           /\ ApplyDemotion(l, c, t).events = Append(l.events, Event("Demoted", c, t))
  <1> DEFINE l2 == ApplyDemotion(l, c, t)
  <1>1. /\ l2 \in Lineages /\ l2.next_id = l.next_id /\ l2.data = l.data
        /\ \A i \in Ids : l2.status[i] =
             IF i = t THEN "Champion" ELSE IF i = c THEN "Quarantined" ELSE l.status[i]
        /\ l2.events = Append(l.events, Event("Demoted", c, t))
    BY DemotionFields
  <1>2. Explained(l2)
    BY DemotionExplained DEF Explained
  <1> HIDE DEF l2
  <1>3. l.next_id \in Int /\ l.status \in [Ids -> Statuses \cup {"Absent"}]
    BY DEF Lineages
  <1>4. Known(l, c) /\ Known(l, t)
    BY DEF Explained, Known
  <1>5. Keeps(l, l2) /\ \A i \in Ids : ~Known(l, i) => ~Known(l2, i)
    BY <1>1, <1>3, <1>4 DEF Keeps, Known
  <1> QED
    BY <1>1, <1>2, <1>5 DEF l2

(* A rollback to a known generation that is not in quarantine. *)
LEMMA RollbackKeeps ==
    ASSUME NEW l \in Lineages, NEW c \in Ids, NEW t \in Ids, Explained(l),
           l.champion = c, Known(l, t), l.status[t] # "Quarantined"
    PROVE  /\ ApplyRollback(l, c, t) \in Lineages
           /\ Explained(ApplyRollback(l, c, t))
           /\ Keeps(l, ApplyRollback(l, c, t))
           /\ \A i \in Ids : ~Known(l, i) => ~Known(ApplyRollback(l, c, t), i)
           /\ ApplyRollback(l, c, t).events = Append(l.events, Event("RolledBack", c, t))
  <1> DEFINE l2 == ApplyRollback(l, c, t)
  <1>1. /\ l2 \in Lineages /\ l2.next_id = l.next_id /\ l2.data = l.data
        /\ \A i \in Ids : l2.status[i] =
             IF i = t THEN "Champion" ELSE IF i = c THEN "Retired" ELSE l.status[i]
        /\ l2.events = Append(l.events, Event("RolledBack", c, t))
    BY RollbackFields
  <1>2. Explained(l2)
    BY RollbackExplained
  <1> HIDE DEF l2
  <1>3. l.next_id \in Int /\ l.status \in [Ids -> Statuses \cup {"Absent"}]
    BY DEF Lineages
  <1>4. Known(l, c) /\ Known(l, t)
    BY DEF Explained, Known
  <1>5. Keeps(l, l2) /\ \A i \in Ids : ~Known(l, i) => ~Known(l2, i)
    BY <1>1, <1>3, <1>4 DEF Keeps, Known
  <1> QED
    BY <1>1, <1>2, <1>5 DEF l2

(* demote_champion. *)
LEMMA DemoteSound ==
    ASSUME IInv, Demote
    PROVE  IInv'
  <1> DEFINE k == lin.champion
             t == FallbackTarget(lin, store)
             e == Event("Demoted", k, t)
  <1>1. lin \in Lineages /\ cycles \in [Ids -> Cycles] /\ Explained(lin)
    BY DEF IInv, TypeOK
  <1>2. k \in Ids /\ HasFallback(lin, store) /\ lin' = ApplyDemotion(lin, k, t)
        /\ cycles' = cycles /\ gate' = gate /\ store' = store
    BY ChampionKnown DEF Demote, MayDemote, DemoteChampion
  <1>3. t \in Ids /\ lin.status[t] = "Retired"
    BY <1>1, <1>2, FallbackFits
  <1> HIDE DEF k, t
  <1>4. e \in Events /\ e.event = "Demoted"
    BY <1>2, <1>3, EventTyped DEF EventKinds, Event
  <1>5. /\ lin' \in Lineages /\ Explained(lin') /\ Keeps(lin, lin')
        /\ \A i \in Ids : ~Known(lin, i) => ~Known(lin', i)
        /\ lin'.events = Append(lin.events, e)
    BY <1>1, <1>2, <1>3, DemotionKeeps DEF k
  <1> HIDE DEF e
  <1> QED
    BY <1>1, <1>2, <1>4, <1>5, LineageStepSound DEF IInv

(* roll_back_to. *)
LEMMA RollBackSound ==
    ASSUME IInv, NEW t \in Ids, RollBack(t)
    PROVE  IInv'
  <1> DEFINE k == lin.champion
             e == Event("RolledBack", k, t)
  <1>1. lin \in Lineages /\ cycles \in [Ids -> Cycles] /\ Explained(lin)
    BY DEF IInv, TypeOK
  <1>2. k \in Ids /\ lin' = ApplyRollback(lin, k, t)
        /\ cycles' = cycles /\ gate' = gate /\ store' = store
    BY ChampionKnown DEF RollBack, MayRollBack, RollBackTo
  <1>3. Known(lin, t) /\ lin.status[t] # "Quarantined"
    BY DEF RollBack, MayRollBack
  <1> HIDE DEF k
  <1>4. e \in Events /\ e.event = "RolledBack"
    BY <1>2, <1>3, EventTyped DEF EventKinds, Event
  <1>5. /\ lin' \in Lineages /\ Explained(lin') /\ Keeps(lin, lin')
        /\ \A i \in Ids : ~Known(lin, i) => ~Known(lin', i)
        /\ lin'.events = Append(lin.events, e)
    BY <1>1, <1>2, <1>3, RollbackKeeps DEF k
  <1> HIDE DEF e
  <1> QED
    BY <1>1, <1>2, <1>4, <1>5, LineageStepSound DEF IInv

-----------------------------------------------------------------------------
(* Every step keeps the invariant. *)
LEMMA NextSound == IInv /\ [Next]_vars => IInv'
  <1> SUFFICES ASSUME IInv, [Next]_vars PROVE IInv'
    OBVIOUS
  <1>1. ASSUME NEW p \in Population(lin) \cup {lin.champion}, NEW a \in Artifacts,
               Propose(p, a)
        PROVE  IInv'
    <2>1. p \in Ids \cup {None}
      BY ChampionKnown DEF Population
    <2> QED
      BY <2>1, <1>1, ProposeSound
  <1>2. ASSUME NEW id \in Ids, NEW m \in Evidence, Evaluate(id, m) PROVE IInv'
    BY <1>2, EvaluateSound
  <1>3. ASSUME NEW id \in Ids, NEW success \in BOOLEAN, Shadow(id, success) PROVE IInv'
    BY <1>3, ShadowSound
  <1>4. ASSUME NEW id \in Ids, AdjudicateCycle(id) PROVE IInv'
    BY <1>4, AdjudicateSound
  <1>5. ASSUME NEW id \in Ids, CommitRefused(id) PROVE IInv'
    BY <1>5, CommitRefusedSound
  <1>6. ASSUME NEW id \in Ids, CommitApproved(id) PROVE IInv'
    BY <1>6, CommitApprovedSound
  <1>7. ASSUME Demote PROVE IInv'
    BY <1>7, DemoteSound
  <1>8. ASSUME NEW id \in Ids, RollBack(id) PROVE IInv'
    BY <1>8, RollBackSound
  <1>9. ASSUME NEW g \in LiveGates, EditGate(g) PROVE IInv'
    BY <1>9, LiveGatesAssumption DEF EditGate, IInv, TypeOK
  <1>10. ASSUME NEW a \in Artifacts, StoreChanges(a) PROVE IInv'
    <2>1. TypeOK'
      BY <1>10 DEF StoreChanges, IInv, TypeOK
    <2> QED
      BY <2>1, <1>10 DEF StoreChanges, IInv
  <1>11. ASSUME UNCHANGED vars PROVE IInv'
    BY <1>11 DEF vars, IInv, TypeOK
  <1> QED
    BY <1>1, <1>2, <1>3, <1>4, <1>5, <1>6, <1>7, <1>8, <1>9, <1>10, <1>11 DEF Next

(* The invariant holds throughout. *)
THEOREM Inductive == Spec => []IInv
  BY InitSound, NextSound, PTL DEF Spec

(* The state of cycles, lineage, live gate and store keeps its types.      *)
THEOREM TypeCorrect == Spec => []TypeOK
  <1>1. IInv => TypeOK
    BY DEF IInv
  <1> QED
    BY <1>1, Inductive, PTL

(* Whatever the cycles, the supervisor and the operator do, and in what    *)
(* order, the lineage's events account for its champion, for the one       *)
(* generation marked Champion and for every quarantined one.               *)
THEOREM AuthorityExplained == Spec => []RecordExplainsAuthority
  <1>1. IInv => RecordExplainsAuthority
    BY DEF IInv, RecordExplainsAuthority
  <1> QED
    BY <1>1, Inductive, PTL

(* Every promotion on record was earned against the champion it displaced, *)
(* under the registered gate, suite and evaluator.                         *)
THEOREM AllPromotionsEarned == Spec => []PromotionsEarned
  <1>1. IInv => PromotionsEarned
    BY DEF IInv, RecordSound, PromotionSound, PromotionsEarned, PromotionEvents, Against
  <1> QED
    BY <1>1, Inductive, PTL

-----------------------------------------------------------------------------
(* History. *)

(* One step of the lineage, whatever the action: at most one event and one *)
(* generation more at the end, everything known kept, nothing known that   *)
(* was not appended, and the record an account of authority throughout.    *)
Grows(l, l2) ==
    /\ l2.events = l.events \/ \E e \in Events : l2.events = Append(l.events, e)
    /\ l2.order = l.order \/ \E i \in Ids : l2.order = Append(l.order, i)
    /\ Keeps(l, l2)
    /\ \A i \in Ids : Known(l2, i) => Known(l, i) \/ l2.order = Append(l.order, i)
    /\ Explained(l) /\ Explained(l2)

(* A sequence is a prefix of itself and of itself with one element more. *)
LEMMA PrefixOfAppend ==
    ASSUME NEW S, NEW s \in Seq(S), NEW t \in Seq(S),
           t = s \/ \E e \in S : t = Append(s, e)
    PROVE  IsPrefix(s, t)
  <1>1. Len(s) \in Nat /\ Len(s) <= Len(t)
    OBVIOUS
  <1>2. \A i \in 1 .. Len(s) : t[i] = s[i]
    OBVIOUS
  <1>3. SubSeq(s, 1, Len(s)) = SubSeq(t, 1, Len(s))
    BY <1>1, <1>2
  <1> QED
    BY <1>1, <1>3 DEF IsPrefix

(* Quarantine is final because events are: a quarantined generation is one *)
(* with a Demoted event.                                                   *)
LEMMA GrowsKeepsHistory ==
    ASSUME NEW l \in Lineages, NEW l2 \in Lineages, Grows(l, l2)
    PROVE  /\ IsPrefix(l.events, l2.events)
           /\ IsPrefix(l.order, l2.order)
           /\ l.next_id <= l2.next_id
           /\ \A i \in Ids : Known(l, i) =>
                /\ l2.data[i] = l.data[i]
                /\ Known(l2, i)
                /\ l.status[i] = "Quarantined" => l2.status[i] = "Quarantined"
  <1>1. /\ l.events \in Seq(Events) /\ l2.events \in Seq(Events)
        /\ l.order \in Seq(Ids) /\ l2.order \in Seq(Ids)
    BY DEF Lineages
  <1>2. IsPrefix(l.events, l2.events) /\ IsPrefix(l.order, l2.order)
    BY <1>1, PrefixOfAppend DEF Grows
  <1>3. ASSUME NEW i \in Ids, PreviouslyDemoted(l, i)
        PROVE  PreviouslyDemoted(l2, i)
    <2>1. CASE l2.events = l.events
      BY <2>1, <1>3 DEF PreviouslyDemoted
    <2>2. CASE \E e \in Events : l2.events = Append(l.events, e)
      BY <2>2, <1>3, DemotedAppend
    <2> QED
      BY <2>1, <2>2 DEF Grows
  <1>4. \A i \in Ids : l.status[i] = "Quarantined" => l2.status[i] = "Quarantined"
    BY <1>3 DEF Grows, Explained
  <1> QED
    BY <1>2, <1>4 DEF Grows, Keeps

(* A step that leaves the lineage alone. *)
LEMMA SameGrows ==
    ASSUME NEW l \in Lineages, Explained(l)
    PROVE  Grows(l, l)
  <1>1. l.next_id \in Int
    BY DEF Lineages
  <1> QED
    BY <1>1 DEF Grows, Keeps

(* Cycle::commit adds a generation the lineage does not know, then promotes *)
(* it or leaves it a Candidate.                                             *)
LEMMA CommitGrows ==
    ASSUME NEW l \in Lineages, Explained(l), NEW id \in Ids, ~Known(l, id),
           NEW g \in Generations, NEW a, a.generation = id,
           NEW l2, l2 = Promote(Add(l, id, g), a), Explained(l2)
    PROVE  Grows(l, l2)
  <1> DEFINE l1 == Add(l, id, g)
  <1>1. /\ l1 \in Lineages /\ l1.order = Append(l.order, id)
        /\ l1.next_id = IF l.next_id > id THEN l.next_id ELSE id + 1
        /\ l1.data = [l.data EXCEPT ![id] = g]
        /\ l1.status = [l.status EXCEPT ![id] = "Candidate"]
        /\ l1.events = l.events /\ l1.champion = l.champion
    BY ONLY AddFields DEF l1
  <1>2. /\ l.data \in [Ids -> Generations] /\ l.next_id \in Int /\ id \in Int
        /\ l.status \in [Ids -> Statuses \cup {"Absent"}]
    BY DEF Lineages, Ids
  <1>3. l2 = l1 \/ l2 = Install(l1, id)
    BY DEF Promote
  <1> HIDE DEF l1
  <1>4. Keeps(l, l1) /\ \A i \in Ids : Known(l1, i) => Known(l, i) \/ i = id
    BY <1>1, <1>2 DEF Keeps, Known
  <1>5. CASE l2 = l1
    BY <1>1, <1>4, <1>5 DEF Grows
  <1>6. CASE l2 = Install(l1, id)
    <2>0. l1 \in Lineages
      BY <1>1
    <2> DEFINE l3 == Install(l1, id)
    <2>i. /\ l3.next_id = l1.next_id /\ l3.order = l1.order /\ l3.data = l1.data
          /\ l3.status = [SetStatus(l1, l1.champion, "Retired") EXCEPT ![id] = "Champion"]
          /\ l3.events = Append(l1.events, Event("Promoted", id, l1.champion))
      BY ONLY <2>0, InstallFields
    <2>1. /\ l2.next_id = l1.next_id /\ l2.order = l1.order /\ l2.data = l1.data
          /\ l2.status = [SetStatus(l1, l1.champion, "Retired") EXCEPT ![id] = "Champion"]
          /\ l2.events = Append(l1.events, Event("Promoted", id, l1.champion))
      BY <2>i, <1>6
    <2>2. l1.champion \in Ids \cup {None} /\ l1.status \in [Ids -> Statuses \cup {"Absent"}]
      BY <2>0 DEF Lineages
    <2>3. Event("Promoted", id, l1.champion) \in Events
      BY <2>2, EventTyped DEF EventKinds
    <2>4. \A i \in Ids : Known(l1, i) => Known(l2, i)
      BY <2>1, <2>2 DEF SetStatus, Known
    <2>5. Keeps(l, l2)
      BY <2>1, <2>4, <1>4 DEF Keeps
    <2>6. l1.champion # None => Known(l, l1.champion)
      BY <2>2, <1>1, NoneIsNoId DEF Explained, Known
    <2>7. \A i \in Ids : Known(l2, i) => Known(l, i) \/ i = id
      BY <2>1, <2>2, <2>6, <1>4 DEF SetStatus, Known
    <2> QED
      BY <2>1, <2>3, <2>5, <2>7, <1>1 DEF Grows
  <1> QED
    BY <1>3, <1>5, <1>6

(* A demotion and a rollback leave the generations in their order. *)
LEMMA MoveGrows ==
    ASSUME NEW l \in Lineages, NEW l2 \in Lineages, Explained(l), Explained(l2),
           Keeps(l, l2), \A i \in Ids : ~Known(l, i) => ~Known(l2, i), l2.order = l.order,
           NEW e \in Events, l2.events = Append(l.events, e)
    PROVE  Grows(l, l2)
  BY DEF Grows

(* Every action of the machine grows the lineage or leaves it alone. *)
LEMMA StepGrows ==
    ASSUME IInv, IInv', [Next]_vars
    PROVE  Grows(lin, lin')
  <1>1. /\ lin \in Lineages /\ lin' \in Lineages /\ cycles \in [Ids -> Cycles]
        /\ Explained(lin) /\ Explained(lin')
    BY DEF IInv, TypeOK
  <1>2. CASE lin' = lin
    BY <1>1, <1>2, SameGrows
  <1>3. ASSUME NEW p, NEW a, Propose(p, a) PROVE Grows(lin, lin')
    <2>1. lin.next_id < MaxId /\ lin' = TakeId(lin)
      BY <1>3 DEF Propose
    <2>2. lin.next_id \in Int
      BY <1>1 DEF Lineages
    <2> QED
      BY <2>1, <2>2, <1>1, TakeIdFields DEF Grows, Keeps, Known
  <1>4. ASSUME NEW id \in Ids, CommitRefused(id) PROVE Grows(lin, lin')
    <2>1. lin' = Refuse(lin, id)
      BY <1>4 DEF CommitRefused
    <2>2. Event("Refused", id, None) \in Events /\ lin.next_id \in Int
      BY <1>1, EventTyped DEF EventKinds, Lineages
    <2>3. /\ lin'.next_id = lin.next_id /\ lin'.order = lin.order
          /\ lin'.data = lin.data /\ lin'.status = lin.status
          /\ lin'.events = Append(lin.events, Event("Refused", id, None))
      BY <2>1, <1>1, RefuseFields
    <2>4. Keeps(lin, lin') /\ \A i \in Ids : ~Known(lin, i) => ~Known(lin', i)
      BY <2>2, <2>3 DEF Keeps, Known
    <2> QED
      BY <2>2, <2>3, <2>4, <1>1, MoveGrows
  <1>5. ASSUME NEW id \in Ids, CommitApproved(id) PROVE Grows(lin, lin')
    <2>1. /\ cycles[id].approval # None /\ cycles[id] \in Cycles
          /\ lin' = Promote(Add(lin, id, cycles[id].candidate), cycles[id].approval)
      BY <1>1, <1>5 DEF CommitApproved
    <2>2. cycles[id].candidate \in Generations
      BY <2>1 DEF Cycles
    <2>3. ~Known(lin, id) /\ cycles[id].approval.generation = id
      BY <2>1 DEF IInv, CycleSound, ApprovalSound, Unsettled
    <2> QED
      BY <2>1, <2>2, <2>3, <1>1, CommitGrows
  <1>6. ASSUME Demote PROVE Grows(lin, lin')
    <2> DEFINE t == FallbackTarget(lin, store)
    <2>1. /\ lin.champion \in Ids /\ HasFallback(lin, store)
          /\ lin' = ApplyDemotion(lin, lin.champion, t)
      BY <1>6, ChampionKnown DEF Demote, MayDemote, DemoteChampion
    <2>2. t \in Ids /\ lin.status[t] = "Retired"
      BY <2>1, <1>1, FallbackFits
    <2> HIDE DEF t
    <2>3. Event("Demoted", lin.champion, t) \in Events
      BY <2>1, <2>2, EventTyped DEF EventKinds
    <2>4. lin'.order = lin.order
      BY <2>1, <2>2, <1>1, DemotionFields
    <2>5. /\ Keeps(lin, lin') /\ \A i \in Ids : ~Known(lin, i) => ~Known(lin', i)
          /\ lin'.events = Append(lin.events, Event("Demoted", lin.champion, t))
      BY <2>1, <2>2, <1>1, DemotionKeeps
    <2> QED
      BY <2>3, <2>4, <2>5, <1>1, MoveGrows
  <1>7. ASSUME NEW t \in Ids, RollBack(t) PROVE Grows(lin, lin')
    <2>1. /\ lin.champion \in Ids /\ lin' = ApplyRollback(lin, lin.champion, t)
          /\ Known(lin, t) /\ lin.status[t] # "Quarantined"
      BY <1>7, ChampionKnown DEF RollBack, MayRollBack, RollBackTo
    <2>2. Event("RolledBack", lin.champion, t) \in Events
      BY <2>1, EventTyped DEF EventKinds
    <2>3. lin'.order = lin.order
      BY <2>1, <1>1, RollbackFields
    <2>4. /\ Keeps(lin, lin') /\ \A i \in Ids : ~Known(lin, i) => ~Known(lin', i)
          /\ lin'.events = Append(lin.events, Event("RolledBack", lin.champion, t))
      BY <2>1, <1>1, RollbackKeeps
    <2> QED
      BY <2>2, <2>3, <2>4, <1>1, MoveGrows
  <1>8. ASSUME NEW id \in Ids,
               \/ \E m \in Evidence : Evaluate(id, m)
               \/ \E success \in BOOLEAN : Shadow(id, success)
               \/ AdjudicateCycle(id)
        PROVE  Grows(lin, lin')
    BY <1>2, <1>8 DEF Evaluate, Shadow, AdjudicateCycle
  <1>9. ASSUME \/ \E g \in LiveGates : EditGate(g)
               \/ \E a \in Artifacts : StoreChanges(a)
               \/ UNCHANGED vars
        PROVE  Grows(lin, lin')
    BY <1>2, <1>9 DEF EditGate, StoreChanges, vars
  <1> QED
    BY <1>3, <1>4, <1>5, <1>6, <1>7, <1>8, <1>9 DEF Next

(* No step of any cycle, demotion or rollback drops or reorders an event   *)
(* or a generation, rewrites what was measured, ends a quarantine or hands *)
(* an id out again.                                                        *)
THEOREM HistoryOnlyGrows == Spec => HistoryAppendOnly
  <1>1. ASSUME IInv, IInv', [Next]_vars
        PROVE  /\ IsPrefix(lin.events, lin'.events)
               /\ IsPrefix(lin.order, lin'.order)
               /\ lin.next_id <= lin'.next_id
               /\ \A i \in Ids : Known(lin, i) =>
                    /\ lin'.data[i] = lin.data[i]
                    /\ Known(lin', i)
                    /\ lin.status[i] = "Quarantined" => lin'.status[i] = "Quarantined"
    <2>1. lin \in Lineages /\ lin' \in Lineages
      BY <1>1 DEF IInv, TypeOK
    <2> QED
      BY <1>1, <2>1, StepGrows, GrowsKeepsHistory
  <1> QED
    BY <1>1, Inductive, PTL DEF Spec, HistoryAppendOnly

-----------------------------------------------------------------------------
(* The lineage implements Authority. *)

(* A step in which nobody gains or loses authority. *)
LEMMA SameAuthority ==
    ASSUME lin'.champion = lin.champion, HeldIn(lin') = HeldIn(lin),
           FallenIn(lin') = FallenIn(lin)
    PROVE  UNCHANGED AuthorityView!vars
  BY DEF AuthorityView!vars, HeldIn, FallenIn

(* Every step of the machine is a step of Authority or leaves it alone. *)
LEMMA StepRefines ==
    ASSUME IInv, IInv', [Next]_vars
    PROVE  [AuthorityView!Next]_(AuthorityView!vars)
  <1>1. /\ lin \in Lineages /\ lin' \in Lineages /\ cycles \in [Ids -> Cycles]
        /\ Explained(lin) /\ Explained(lin')
    BY DEF IInv, TypeOK
  <1> DEFINE Goal == [AuthorityView!Next]_(AuthorityView!vars)
  <1>g. ASSUME NEW id \in Ids, id \notin HeldIn(lin), lin'.champion = id,
               HeldIn(lin') = HeldIn(lin) \cup {id}, FallenIn(lin') = FallenIn(lin)
        PROVE  Goal
    BY <1>g DEF AuthorityView!Next, AuthorityView!Grant, HeldIn, FallenIn
  <1>r. ASSUME NEW id \in Ids, id \in HeldIn(lin), id \notin FallenIn(lin),
               lin'.champion = id,
               HeldIn(lin') = HeldIn(lin), FallenIn(lin') = FallenIn(lin)
        PROVE  Goal
    BY <1>r DEF AuthorityView!Next, AuthorityView!Return, HeldIn, FallenIn
  <1>d. ASSUME NEW id \in Ids, lin.champion # None, lin'.champion = id,
               id \in HeldIn(lin) \ (FallenIn(lin) \cup {lin.champion}),
               HeldIn(lin') = HeldIn(lin), FallenIn(lin') = FallenIn(lin) \cup {lin.champion}
        PROVE  Goal
    BY <1>d DEF AuthorityView!Next, AuthorityView!Demote, HeldIn, FallenIn
  <1>s. ASSUME lin'.champion = lin.champion, lin'.status = lin.status
        PROVE  Goal
    BY <1>s, SameAuthority DEF HeldIn, FallenIn
  <1> HIDE DEF Goal
  <1>3. ASSUME NEW p, NEW a, Propose(p, a) PROVE Goal
    BY <1>1, <1>3, <1>s, TakeIdFields DEF Propose
  <1>4. ASSUME NEW id \in Ids, CommitRefused(id) PROVE Goal
    BY <1>1, <1>4, <1>s, RefuseFields DEF CommitRefused
  <1>6. ASSUME Demote PROVE Goal
    <2> DEFINE t == FallbackTarget(lin, store)
    <2>1. /\ lin.champion \in Ids /\ HasFallback(lin, store)
          /\ lin' = ApplyDemotion(lin, lin.champion, t)
      BY <1>6, ChampionKnown DEF Demote, MayDemote, DemoteChampion
    <2>2. t \in Ids /\ lin.status[t] = "Retired"
      BY <2>1, <1>1, FallbackFits
    <2> HIDE DEF t
    <2>3. /\ t \in HeldIn(lin) \ (FallenIn(lin) \cup {lin.champion}) /\ lin'.champion = t
          /\ HeldIn(lin') = HeldIn(lin)
          /\ FallenIn(lin') = FallenIn(lin) \cup {lin.champion}
      BY <2>1, <2>2, <1>1, DemotionReturns
    <2> QED
      BY <2>1, <2>2, <2>3, <1>d, NoneIsNoId
  <1>7. ASSUME NEW t \in Ids, RollBack(t) PROVE Goal
    <2>1. /\ lin.champion \in Ids /\ lin' = ApplyRollback(lin, lin.champion, t)
          /\ Known(lin, t) /\ lin.status[t] # "Quarantined"
      BY <1>7, ChampionKnown DEF RollBack, MayRollBack, RollBackTo
    <2>2. /\ t \notin FallenIn(lin) /\ lin'.champion = t
          /\ HeldIn(lin') = HeldIn(lin) \cup {t} /\ FallenIn(lin') = FallenIn(lin)
      BY <2>1, <1>1, RollbackMoves
    <2>3. CASE t \in HeldIn(lin)
      BY <2>2, <2>3, <1>r
    <2>4. CASE t \notin HeldIn(lin)
      BY <2>2, <2>4, <1>g
    <2> QED
      BY <2>3, <2>4
  <1>5. ASSUME NEW id \in Ids, CommitApproved(id) PROVE Goal
    <2> DEFINE g == cycles[id].candidate
               a == cycles[id].approval
               l1 == Add(lin, id, g)
    <2>1. a # None /\ cycles[id] \in Cycles /\ lin' = Promote(l1, a)
      BY <1>1, <1>5 DEF CommitApproved
    <2>2. g \in Generations
      BY <2>1 DEF Cycles
    <2>3. ~Known(lin, id) /\ a.generation = id
      BY <2>1 DEF IInv, CycleSound, ApprovalSound, Unsettled
    <2>4. /\ l1 \in Lineages /\ l1.champion = lin.champion
          /\ l1.status = [lin.status EXCEPT ![id] = "Candidate"]
      BY <2>2, <1>1, AddFields
    <2>5. Explained(l1)
      BY <2>2, <2>3, <1>1, AddExplained DEF Known
    <2>6. lin' = l1 \/ lin' = Install(l1, id)
      BY <2>1, <2>3 DEF Promote
    <2>7. lin.status \in [Ids -> Statuses \cup {"Absent"}]
      BY <1>1 DEF Lineages
    <2> HIDE DEF l1, a, g
    <2>8. HeldIn(l1) = HeldIn(lin) /\ FallenIn(l1) = FallenIn(lin)
          /\ l1.status[id] = "Candidate"
      BY <2>3, <2>4, <2>7 DEF HeldIn, FallenIn, Known
    <2>9. CASE lin' = l1
      BY <2>4, <2>8, <2>9, SameAuthority DEF Goal
    <2>10. CASE lin' = Install(l1, id)
      <3>1. /\ id \notin HeldIn(l1) /\ lin'.champion = id
            /\ HeldIn(lin') = HeldIn(l1) \cup {id} /\ FallenIn(lin') = FallenIn(l1)
        BY <2>4, <2>5, <2>8, <2>10, <1>1, PromotionGrants
      <3> QED
        BY <3>1, <2>8, <1>g
    <2> QED
      BY <2>6, <2>9, <2>10
  <1>8. ASSUME NEW id \in Ids,
               \/ \E m \in Evidence : Evaluate(id, m)
               \/ \E success \in BOOLEAN : Shadow(id, success)
               \/ AdjudicateCycle(id)
        PROVE  Goal
    BY <1>s, <1>8 DEF Evaluate, Shadow, AdjudicateCycle
  <1>9. ASSUME \/ \E g \in LiveGates : EditGate(g)
               \/ \E a \in Artifacts : StoreChanges(a)
               \/ UNCHANGED vars
        PROVE  Goal
    BY <1>s, <1>9 DEF EditGate, StoreChanges, vars
  <1>10. Goal
    BY <1>3, <1>4, <1>5, <1>6, <1>7, <1>8, <1>9 DEF Next
  <1> QED
    BY <1>10 DEF Goal

(* The succession machine implements Authority: one holder at a time, a    *)
(* failure is final, and authority otherwise goes to a generation new to   *)
(* it or back to one that has held it and not failed.                      *)
THEOREM ImplementsAuthority == Spec => RefinesAuthority
  <1>1. Init => AuthorityView!Init
    BY DEF Init, EmptyLineage, AuthorityView!Init
  <1> QED
    BY <1>1, StepRefines, Inductive, PTL DEF Spec, RefinesAuthority, AuthorityView!Spec

-----------------------------------------------------------------------------
(* Fallback. *)

(* A generation that get() finds is somewhere in the vector. *)
Ordered(l) == \A i \in Ids : Known(l, i) => i \in ToSet(l.order)

(* What is in a sequence stays in it, and an appended element is in it. *)
LEMMA AppendedElement ==
    ASSUME NEW S, NEW s \in Seq(S), NEW e \in S
    PROVE  ToSet(s) \subseteq ToSet(Append(s, e)) /\ e \in ToSet(Append(s, e))
  <1>1. /\ DOMAIN s = 1 .. Len(s) /\ Len(s) \in Nat
        /\ DOMAIN Append(s, e) = 1 .. Len(s) + 1
        /\ Append(s, e)[Len(s) + 1] = e
        /\ \A p \in 1 .. Len(s) : Append(s, e)[p] = s[p]
    OBVIOUS
  <1>2. DOMAIN s \subseteq DOMAIN Append(s, e) /\ Len(s) + 1 \in DOMAIN Append(s, e)
    BY <1>1
  <1> QED
    BY <1>1, <1>2 DEF ToSet

(* The vector keeps up with the growth of the lineage. *)
LEMMA GrowsOrdered ==
    ASSUME NEW l \in Lineages, NEW l2 \in Lineages, Grows(l, l2), Ordered(l)
    PROVE  Ordered(l2)
  <1>1. l.order \in Seq(Ids)
    BY DEF Lineages
  <1>2. ToSet(l.order) \subseteq ToSet(l2.order)
    BY <1>1, AppendedElement DEF Grows
  <1>3. ASSUME NEW i \in Ids, Known(l2, i) PROVE i \in ToSet(l2.order)
    <2>1. CASE Known(l, i)
      BY <2>1, <1>2 DEF Ordered
    <2>2. CASE l2.order = Append(l.order, i)
      BY <2>2, <1>1, AppendedElement
    <2> QED
      BY <2>1, <2>2, <1>3 DEF Grows
  <1> QED
    BY <1>3 DEF Ordered

(* demote_champion and roll_back_to move authority to a generation of the  *)
(* vector that runs and is not in quarantine.                              *)
LEMMA StepFallsBack ==
    ASSUME IInv, IInv', Ordered(lin), [Next]_vars, lin'.champion # lin.champion,
           Last(lin'.events).event \in {"Demoted", "RolledBack"}
    PROVE  /\ lin'.champion \in ToSet(lin.order)
           /\ ~PreviouslyDemoted(lin', lin'.champion)
           /\ lin.data[lin'.champion].artifact \in store
  <1>1. /\ lin \in Lineages /\ lin' \in Lineages /\ cycles \in [Ids -> Cycles]
        /\ Explained(lin) /\ Explained(lin')
    BY DEF IInv, TypeOK
  <1>2. lin'.champion \in Ids => ~PreviouslyDemoted(lin', lin'.champion)
    BY <1>1 DEF Explained
  <1> DEFINE Goal == /\ lin'.champion \in ToSet(lin.order)
                     /\ ~PreviouslyDemoted(lin', lin'.champion)
                     /\ lin.data[lin'.champion].artifact \in store
  <1>g. ASSUME NEW t \in Ids, lin'.champion = t, Known(lin, t),
               lin.data[t].artifact \in store
        PROVE  Goal
    BY <1>g, <1>2 DEF Ordered
  <1> HIDE DEF Goal
  <1>3. ASSUME NEW p, NEW a, Propose(p, a) PROVE FALSE
    BY <1>1, <1>3, TakeIdFields DEF Propose
  <1>4. ASSUME NEW id \in Ids, CommitRefused(id) PROVE FALSE
    BY <1>1, <1>4, RefuseFields DEF CommitRefused
  <1>5. ASSUME NEW id \in Ids, CommitApproved(id) PROVE FALSE
    <2> DEFINE g == cycles[id].candidate
               a == cycles[id].approval
               l1 == Add(lin, id, g)
    <2>1. a # None /\ cycles[id] \in Cycles /\ lin' = Promote(l1, a)
      BY <1>1, <1>5 DEF CommitApproved
    <2>2. g \in Generations
      BY <2>1 DEF Cycles
    <2>3. a.generation = id
      BY <2>1 DEF IInv, CycleSound, ApprovalSound
    <2>4. l1 \in Lineages /\ l1.champion = lin.champion
      BY <2>2, <1>1, AddFields
    <2>5. lin' = l1 \/ lin' = Install(l1, id)
      BY <2>1, <2>3 DEF Promote
    <2> HIDE DEF l1, a, g
    <2>6. lin' = Install(l1, id)
      BY <2>4, <2>5
    <2> DEFINE e == Event("Promoted", id, l1.champion)
    <2>7. lin'.events = Append(l1.events, e)
      BY <2>4, <2>6, InstallFields
    <2>8. l1.champion \in Ids \cup {None} /\ l1.events \in Seq(Events)
      BY <2>4 DEF Lineages
    <2>9. e \in Events /\ e.event = "Promoted"
      BY <2>8, EventTyped DEF EventKinds, Event
    <2> HIDE DEF e
    <2>10. Last(lin'.events) = e
      BY <2>7, <2>8, <2>9, AppendedEvent DEF Last
    <2> QED
      BY <2>9, <2>10
  <1>6. ASSUME Demote PROVE Goal
    <2> DEFINE t == FallbackTarget(lin, store)
    <2>1. /\ lin.champion \in Ids /\ HasFallback(lin, store)
          /\ lin' = ApplyDemotion(lin, lin.champion, t)
      BY <1>6, ChampionKnown DEF Demote, MayDemote, DemoteChampion
    <2>2. t \in Ids /\ lin.status[t] = "Retired" /\ lin.data[t].artifact \in store
      BY <2>1, <1>1, FallbackFits
    <2> HIDE DEF t
    <2>3. lin'.champion = t
      BY <2>1, <2>2, <1>1, DemotionFields
    <2> QED
      BY <2>2, <2>3, <1>g DEF Known
  <1>7. ASSUME NEW t \in Ids, RollBack(t) PROVE Goal
    <2>1. /\ lin.champion \in Ids /\ lin' = ApplyRollback(lin, lin.champion, t)
          /\ Known(lin, t) /\ lin.data[t].artifact \in store
      BY <1>7, ChampionKnown DEF RollBack, MayRollBack, RollBackTo
    <2>2. lin'.champion = t
      BY <2>1, <1>1, RollbackFields
    <2> QED
      BY <2>1, <2>2, <1>g
  <1>8. ASSUME NEW id \in Ids,
               \/ \E m \in Evidence : Evaluate(id, m)
               \/ \E success \in BOOLEAN : Shadow(id, success)
               \/ AdjudicateCycle(id)
        PROVE  FALSE
    BY <1>8 DEF Evaluate, Shadow, AdjudicateCycle
  <1>9. ASSUME \/ \E g \in LiveGates : EditGate(g)
               \/ \E a \in Artifacts : StoreChanges(a)
               \/ UNCHANGED vars
        PROVE  FALSE
    BY <1>9 DEF EditGate, StoreChanges, vars
  <1>10. Goal
    BY <1>3, <1>4, <1>5, <1>6, <1>7, <1>8, <1>9 DEF Next
  <1> QED
    BY <1>10 DEF Goal

(* The lineage of the current state lists every generation it knows. *)
VectorComplete == Ordered(lin)

(* Whatever is lost from the store and whatever the cycles do meanwhile, a *)
(* demotion or a rollback gives authority to a generation of the lineage   *)
(* that has not failed and whose artifact is in the store at that moment.  *)
THEOREM FallbackRuns == Spec => FallbackIsRunnable
  <1>1. Init => VectorComplete
    BY DEF Init, EmptyLineage, Ordered, Known, VectorComplete
  <1>2. ASSUME IInv, IInv', VectorComplete, [Next]_vars
        PROVE  VectorComplete'
    <2>1. lin \in Lineages /\ lin' \in Lineages
      BY <1>2 DEF IInv, TypeOK
    <2> QED
      BY <1>2, <2>1, StepGrows, GrowsOrdered DEF VectorComplete
  <1>3. ASSUME IInv, IInv', VectorComplete, [Next]_vars
        PROVE  lin'.champion # lin.champion
                    /\ Last(lin'.events).event \in {"Demoted", "RolledBack"}
                => /\ lin'.champion \in ToSet(lin.order)
                   /\ ~PreviouslyDemoted(lin', lin'.champion)
                   /\ lin.data[lin'.champion].artifact \in store
    BY <1>3, StepFallsBack DEF VectorComplete
  <1> QED
    BY <1>1, <1>2, <1>3, Inductive, PTL DEF Spec, FallbackIsRunnable
-----------------------------------------------------------------------------
(* The ratchet. *)

(* A generation descends from one the lineage has. *)
ParentKnown(l, g) == g.parent # None => g.parent \in Ids /\ Known(l, g.parent)

(* g is not below the line of root on a guard axis by more than the tolerance. *)
AboveLine(l, g, root) ==
    \A x \in GuardAxes : \A mark \in Marks(l, root, x) :
        g.measured.fitness[x] >= mark - RegisteredGate.guard_tolerance

(* A cycle's candidate descends from a known generation, and is above the  *)
(* line of its parent once it is approved.                                 *)
LineSound(l, c) ==
    /\ ParentKnown(l, c.candidate)
    /\ c.approval # None /\ c.candidate.parent # None =>
         AboveLine(l, c.candidate, c.candidate.parent)

(* With the cycles' approvals, the ratchet is inductive: what an approval  *)
(* was measured against is still the line of the parent at the commit.     *)
LinesSound ==
    /\ \A i \in Ids : Known(lin, i) => ParentKnown(lin, lin.data[i])
    /\ \A i \in Ids : LineSound(lin, cycles[i])
    /\ AncestryRatchet

(* The chain of a known generation does not change as the lineage grows:   *)
(* what is added descends from it, never the other way round.              *)
LEMMA OldChain ==
    ASSUME NEW l, NEW l2, Keeps(l, l2), NEW root \in Ids, Known(l, root),
           \A i \in Ids : Known(l, i) => ParentKnown(l, l.data[i])
    PROVE  Chain(l2, root) \subseteq Chain(l, root)
  <1> SUFFICES ASSUME NEW a \in Chain(l2, root)
               PROVE  a \in Chain(l, root)
    OBVIOUS
  <1>1. ASSUME NEW S \in SUBSET Ids, root \in S, ParentClosed(l, S)
        PROVE  a \in S /\ Known(l, a)
    <2> DEFINE T == {s \in S : Known(l, s)}
    <2>1. ParentClosed(l2, T)
      BY <1>1 DEF ParentClosed, Keeps, ParentKnown
    <2>2. T \in SUBSET Ids /\ root \in T
      BY <1>1
    <2>3. a \in T
      BY <2>1, <2>2 DEF Chain
    <2> QED
      BY <2>3
  <1>2. Ids \in SUBSET Ids /\ ParentClosed(l, Ids)
    BY DEF ParentClosed, ParentKnown
  <1>3. a \in Ids /\ Known(l, a)
    BY <1>1, <1>2
  <1> QED
    BY <1>1, <1>3 DEF Chain

(* What is above the line of a known generation stays above it. *)
LEMMA LineKept ==
    ASSUME NEW l, NEW l2, Keeps(l, l2), NEW root \in Ids, Known(l, root),
           \A i \in Ids : Known(l, i) => ParentKnown(l, l.data[i]),
           NEW g, AboveLine(l, g, root)
    PROVE  AboveLine(l2, g, root)
  <1>1. Chain(l2, root) \subseteq Chain(l, root)
    BY OldChain
  <1>2. \A c \in Chain(l, root) : c \in Ids /\ l2.data[c] = l.data[c]
    BY DEF Chain, Keeps
  <1>3. ASSUME NEW x \in GuardAxes
        PROVE  Marks(l2, root, x) \subseteq Marks(l, root, x)
    BY <1>1, <1>2 DEF Marks
  <1> QED
    BY <1>3 DEF AboveLine

(* A chain is its head and the chain of the head's parent. *)
LEMMA ChainOfParent ==
    ASSUME NEW l, NEW id \in Ids, Known(l, id), NEW a \in Chain(l, id), a # id,
           ParentKnown(l, l.data[id])
    PROVE  l.data[id].parent # None /\ a \in Chain(l, l.data[id].parent)
  <1> DEFINE p == l.data[id].parent
  <1>1. ASSUME p = None PROVE FALSE
    <2>1. {id} \in SUBSET Ids /\ ParentClosed(l, {id})
      BY <1>1 DEF ParentClosed
    <2>2. a \in {id}
      BY <2>1 DEF Chain
    <2> QED
      BY <2>2
  <1>2. ASSUME NEW S \in SUBSET Ids, p \in S, ParentClosed(l, S)
        PROVE  a \in S
    <2> DEFINE T == S \cup {id}
    <2>1. ParentClosed(l, T)
      BY <1>2 DEF ParentClosed
    <2>2. T \in SUBSET Ids /\ id \in T
      OBVIOUS
    <2>3. a \in T
      BY <2>1, <2>2 DEF Chain
    <2> QED
      BY <2>3
  <1>3. a \in Ids /\ Known(l, a)
    BY DEF Chain
  <1> QED
    BY <1>1, <1>2, <1>3 DEF Chain

(* What is above the line of its parent is above its own. *)
LEMMA LineExtended ==
    ASSUME NEW l \in Lineages, NEW id \in Ids, Known(l, id), NEW g, l.data[id] = g,
           ParentKnown(l, g), g.parent # None => AboveLine(l, g, g.parent)
    PROVE  AboveLine(l, g, id)
  <1> SUFFICES ASSUME NEW x \in GuardAxes, NEW c \in Chain(l, id), HasAxis(l.data[c], x)
               PROVE  g.measured.fitness[x]
                        >= l.data[c].measured.fitness[x] - RegisteredGate.guard_tolerance
    BY DEF AboveLine, Marks
  <1>1. RegisteredGate.guard_tolerance \in Nat
    BY GateAssumption DEF Gates
  <1>2. CASE c = id
    <2>1. g \in Generations /\ HasAxis(g, x) /\ x \in Axes
      BY <1>2, AxesAssumption DEF Lineages
    <2>2. g.measured.fitness[x] \in Nat
      BY <2>1 DEF Generations, Measurements, FitnessVectors, HasAxis, HasHeldout
    <2> QED
      BY <1>1, <1>2, <2>2
  <1>3. CASE c # id
    <2>1. g.parent # None /\ c \in Chain(l, g.parent)
      BY <1>3, ChainOfParent
    <2>2. l.data[c].measured.fitness[x] \in Marks(l, g.parent, x)
      BY <2>1 DEF Marks
    <2> QED
      BY <2>1, <2>2 DEF AboveLine
  <1> QED
    BY <1>2, <1>3
(* The approval of a challenger says that it is above its parent's line.   *)
LEMMA ApprovedIsAbove ==
    ASSUME NEW l, NEW g, NEW id, NEW chal, NEW n, NEW st,
           Adjudicate(g, id, chal, l, n, st) = {}, chal.parent # None
    PROVE  AboveLine(l, chal, chal.parent)
  <1>1. g = RegisteredGate /\ CheckEvidence(g, chal, l) = {}
    BY DEF Adjudicate
  <1>2. CheckFitness(g, chal, l) = {}
    BY <1>1 DEF CheckEvidence
  <1>3. \A x \in GuardAxes : HasAxis(chal, x) /\ HoldsGuard(g, chal, l, x)
    BY <1>2 DEF CheckFitness
  <1>4. \A x \in GuardAxes : Marks(l, chal.parent, x) \subseteq HighWater(chal, l, x)
    BY DEF HighWater
  <1> QED
    BY <1>1, <1>3, <1>4 DEF HoldsGuard, AboveLine

(* What is sound about a cycle's line stays so in a lineage that keeps     *)
(* its generations.                                                        *)
LEMMA LineSoundKept ==
    ASSUME NEW l, NEW l2, Keeps(l, l2), NEW c, LineSound(l, c),
           \A i \in Ids : Known(l, i) => ParentKnown(l, l.data[i])
    PROVE  LineSound(l2, c)
  <1>1. ParentKnown(l2, c.candidate)
    BY DEF LineSound, ParentKnown, Keeps
  <1>2. ASSUME c.approval # None, c.candidate.parent # None
        PROVE  AboveLine(l2, c.candidate, c.candidate.parent)
    <2>1. c.candidate.parent \in Ids /\ Known(l, c.candidate.parent)
      BY <1>2 DEF LineSound, ParentKnown
    <2>2. AboveLine(l, c.candidate, c.candidate.parent)
      BY <1>2 DEF LineSound
    <2> QED
      BY <2>1, <2>2, LineKept
  <1> QED
    BY <1>1, <1>2 DEF LineSound

(* AncestryRatchet of a lineage, by the line of each promoted generation. *)
Ratchet(l) ==
    \A p \in PromotionEvents(l) :
        AboveLine(l, l.data[l.events[p].generation], l.events[p].generation)

LEMMA RatchetRestated == AncestryRatchet <=> Ratchet(lin)
  BY DEF AncestryRatchet, Ratchet, AboveLine

(* The promotions on record keep to the ratchet, and so does one more that *)
(* is above its line.                                                      *)
LEMMA RatchetKept ==
    ASSUME NEW l \in Lineages, NEW l2 \in Lineages, Keeps(l, l2), Ratchet(l),
           RecordSound(l), \A i \in Ids : Known(l, i) => ParentKnown(l, l.data[i]),
           \/ l2.events = l.events
           \/ \E e \in Events :
                /\ l2.events = Append(l.events, e)
                /\ e.event = "Promoted" => AboveLine(l2, l2.data[e.generation], e.generation)
    PROVE  Ratchet(l2)
  <1>1. l.events \in Seq(Events) /\ l2.events \in Seq(Events)
    BY DEF Lineages
  <1>2. ASSUME NEW p \in PromotionEvents(l), l2.events[p] = l.events[p]
        PROVE  AboveLine(l2, l2.data[l2.events[p].generation], l2.events[p].generation)
    <2> DEFINE i == l.events[p].generation
    <2>1. p \in 1 .. Len(l.events) /\ l.events[p].event = "Promoted"
      BY DEF PromotionEvents
    <2>2. i \in Ids
      <3>1. l.events[p] \in Events
        BY <2>1, <1>1
      <3> QED
        BY <3>1 DEF Events
    <2>3. Known(l, i)
      BY <2>1 DEF RecordSound, PromotionSound
    <2>4. AboveLine(l, l.data[i], i)
      BY DEF Ratchet
    <2>5. AboveLine(l2, l.data[i], i) /\ l2.data[i] = l.data[i]
      <3> HIDE DEF i
      <3>1. l2.data[i] = l.data[i]
        BY <2>2, <2>3 DEF Keeps
      <3>2. PICK g : g = l.data[i]
        OBVIOUS
      <3>3. AboveLine(l2, g, i)
        BY <2>2, <2>3, <2>4, <3>2, LineKept
      <3> QED
        BY <3>1, <3>2, <3>3
    <2> QED
      BY <2>5, <1>2
  <1>3. CASE l2.events = l.events
    BY <1>2, <1>3 DEF Ratchet, PromotionEvents
  <1>4. ASSUME NEW e \in Events, l2.events = Append(l.events, e),
               e.event = "Promoted" => AboveLine(l2, l2.data[e.generation], e.generation)
        PROVE  Ratchet(l2)
    <2>1. /\ Len(l2.events) = Len(l.events) + 1 /\ Len(l.events) \in Nat
          /\ \A p \in 1 .. Len(l.events) : l2.events[p] = l.events[p]
          /\ l2.events[Len(l.events) + 1] = e
      BY <1>1, <1>4
    <2>2. ASSUME NEW p \in PromotionEvents(l2)
          PROVE  AboveLine(l2, l2.data[l2.events[p].generation], l2.events[p].generation)
      <3>1. p \in 1 .. Len(l2.events) /\ l2.events[p].event = "Promoted"
        BY DEF PromotionEvents
      <3>2. CASE p \in 1 .. Len(l.events)
        BY <3>1, <3>2, <2>1, <1>2 DEF PromotionEvents
      <3>3. CASE p = Len(l.events) + 1
        BY <3>1, <3>3, <2>1, <1>4
      <3> QED
        BY <3>1, <3>2, <3>3, <2>1
    <2> QED
      BY <2>2 DEF Ratchet
  <1> QED
    BY <1>3, <1>4

(* A step by which the lineage knows no more generations than before and   *)
(* records no promotion.                                                   *)
LEMMA LineStep ==
    ASSUME IInv, IInv', LinesSound, Keeps(lin, lin'),
           \A i \in Ids : Known(lin', i) => Known(lin, i),
           \/ lin'.events = lin.events
           \/ \E e \in Events : lin'.events = Append(lin.events, e) /\ e.event # "Promoted",
           \A i \in Ids : LineSound(lin, cycles'[i])
    PROVE  LinesSound'
  <1>1. lin \in Lineages /\ lin' \in Lineages /\ RecordSound(lin)
    BY DEF IInv, TypeOK
  <1>2. \A i \in Ids : Known(lin, i) => ParentKnown(lin, lin.data[i])
    BY DEF LinesSound
  <1>3. \A i \in Ids : Known(lin', i) => ParentKnown(lin', lin'.data[i])
    BY <1>2 DEF Keeps, ParentKnown
  <1>4. \A i \in Ids : LineSound(lin', cycles'[i])
    BY <1>2, LineSoundKept
  <1>5. Ratchet(lin)
    BY RatchetRestated DEF LinesSound
  <1>6. Ratchet(lin')
    BY <1>1, <1>2, <1>5, RatchetKept
  <1>7. AncestryRatchet'
    BY <1>6 DEF AncestryRatchet, Ratchet, AboveLine
  <1> QED
    BY <1>3, <1>4, <1>7 DEF LinesSound

(* Cycle::commit: the line of the parent is the one the approval measured. *)
LEMMA CommitLine ==
    ASSUME IInv, IInv', LinesSound, NEW id \in Ids, CommitApproved(id)
    PROVE  LinesSound'
  <1> DEFINE o == cycles[id]
             g == o.candidate
             l1 == Add(lin, id, g)
  <1>1. /\ lin \in Lineages /\ lin' \in Lineages /\ RecordSound(lin)
        /\ cycles \in [Ids -> Cycles] /\ o \in Cycles /\ g \in Generations
    BY DEF IInv, TypeOK, Cycles
  <1>2. o.approval # None /\ ~Known(lin, id) /\ o.approval.generation = id
    BY DEF CommitApproved, IInv, CycleSound, ApprovalSound, Unsettled
  <1>3. Grows(lin, lin')
    BY StepGrows DEF Next
  <1>4. lin' = l1 \/ lin' = Install(l1, id)
    BY <1>2 DEF CommitApproved, Promote
  <1>5. /\ l1 \in Lineages /\ l1.data = [lin.data EXCEPT ![id] = g]
        /\ l1.status = [lin.status EXCEPT ![id] = "Candidate"] /\ l1.events = lin.events
    BY <1>1, AddFields
  <1> HIDE DEF l1, g, o
  <1>6. /\ lin'.data = l1.data
        /\ \/ lin'.events = lin.events
           \/ /\ lin'.events = Append(lin.events, Event("Promoted", id, l1.champion))
              /\ Event("Promoted", id, l1.champion) \in Events
    <2>1. CASE lin' = l1
      BY <2>1, <1>5
    <2>2. CASE lin' = Install(l1, id)
      <3>1. /\ Install(l1, id).data = l1.data
            /\ Install(l1, id).events = Append(l1.events, Event("Promoted", id, l1.champion))
        BY <1>5, InstallFields
      <3>2. l1.champion \in Ids \cup {None}
        BY <1>5 DEF Lineages
      <3> QED
        BY <2>2, <3>1, <3>2, <1>5, EventTyped DEF EventKinds
    <2> QED
      BY <1>4, <2>1, <2>2
  <1>7. lin'.data[id] = g /\ Keeps(lin, lin')
    BY <1>1, <1>3, <1>5, <1>6 DEF Lineages, Grows
  <1>8. \A i \in Ids : Known(lin', i) => Known(lin, i) \/ i = id
    <2>1. lin'.order = l1.order /\ l1.order = Append(lin.order, id)
      <3>1. l1.order = Append(lin.order, id)
        BY <1>1, AddFields DEF l1
      <3>2. Install(l1, id).order = l1.order
        BY <1>5, InstallFields
      <3> QED
        BY <3>1, <3>2, <1>4
    <2>2. lin.order \in Seq(Ids)
      BY <1>1 DEF Lineages
    <2> QED
      BY <2>1, <2>2, <1>3 DEF Grows
  <1>9. \A i \in Ids : Known(lin, i) => ParentKnown(lin, lin.data[i])
    BY DEF LinesSound
  <1>10. LineSound(lin, o) /\ ParentKnown(lin, g)
    BY DEF LinesSound, LineSound, o, g
  <1>11. \A i \in Ids : Known(lin', i) => ParentKnown(lin', lin'.data[i])
    BY <1>7, <1>8, <1>9, <1>10 DEF Keeps, ParentKnown
  <1>12. \A i \in Ids : LineSound(lin', cycles'[i])
    <2>1. ASSUME NEW i \in Ids, i # id PROVE LineSound(lin, cycles'[i])
      BY <2>1, <1>1 DEF CommitApproved, LinesSound
    <2>2. cycles'[id].approval = None /\ cycles'[id].candidate = g
      BY <1>1 DEF CommitApproved, Cycles, o, g
    <2>3. LineSound(lin, cycles'[id])
      BY <2>2, <1>10 DEF LineSound
    <2> QED
      BY <2>1, <2>3, <1>7, <1>9, LineSoundKept
  <1>13. ASSUME Known(lin', id) PROVE AboveLine(lin', g, id)
    <2>1. ParentKnown(lin', g)
      BY <1>7, <1>10 DEF ParentKnown, Keeps
    <2>2. ASSUME g.parent # None PROVE AboveLine(lin', g, g.parent)
      <3>1. AboveLine(lin, g, g.parent) /\ g.parent \in Ids /\ Known(lin, g.parent)
        BY <2>2, <1>2, <1>10 DEF LineSound, ParentKnown, o, g
      <3> QED
        BY <3>1, <1>7, <1>9, LineKept
    <2> QED
      BY <2>1, <2>2, <1>1, <1>7, <1>13, LineExtended
  <1>14. Known(lin', id)
    <2>1. Known(l1, id)
      BY <1>1, <1>5 DEF Known, Lineages
    <2>2. ASSUME lin' = Install(l1, id) PROVE Known(lin', id)
      <3>1. Install(l1, id).status = [SetStatus(l1, l1.champion, "Retired") EXCEPT ![id] = "Champion"]
        BY <1>5, InstallFields
      <3>2. l1.status \in [Ids -> Statuses \cup {"Absent"}]
        BY <1>5 DEF Lineages
      <3> QED
        BY <2>2, <3>1, <3>2 DEF Known, SetStatus
    <2> QED
      BY <1>4, <2>1, <2>2
  <1>15. Ratchet(lin)
    BY RatchetRestated DEF LinesSound
  <1>16. Ratchet(lin')
    <2>1. PICK e : e = Event("Promoted", id, l1.champion)
      OBVIOUS
    <2>2. e.generation = id
      BY <2>1 DEF Event
    <2> QED
      BY <2>1, <2>2, <1>1, <1>6, <1>7, <1>9, <1>13, <1>14, <1>15, RatchetKept
  <1>17. AncestryRatchet'
    BY <1>16 DEF AncestryRatchet, Ratchet, AboveLine
  <1> QED
    BY <1>11, <1>12, <1>17 DEF LinesSound
(* Every action keeps the lines of the candidates and the ratchet.         *)
LEMMA StepKeepsLines ==
    ASSUME IInv, IInv', LinesSound, [Next]_vars
    PROVE  LinesSound'
  <1>1. /\ lin \in Lineages /\ lin' \in Lineages /\ cycles \in [Ids -> Cycles]
        /\ \A i \in Ids : LineSound(lin, cycles[i]) /\ cycles[i] \in Cycles
        /\ Keeps(lin, lin')
    BY StepGrows DEF IInv, TypeOK, LinesSound, Grows
  <1>2. ASSUME NEW p \in Population(lin) \cup {lin.champion}, NEW a \in Artifacts,
               Propose(p, a)
        PROVE  LinesSound'
    <2>1. lin.next_id \in Ids /\ lin' = TakeId(lin)
      BY <1>1, <1>2, MaxIdAssumption DEF Propose, Lineages, Ids
    <2>2. /\ \A i \in Ids : Known(lin', i) => Known(lin, i)
          /\ lin'.events = lin.events
      BY <1>1, <1>2, <2>1, TakeIdFields DEF Propose, Known
    <2>3. p # None => p \in Ids /\ Known(lin, p)
      BY ChampionKnown DEF Population
    <2> DEFINE c == [Unborn EXCEPT !.phase = "Proposed",
                        !.candidate = [parent |-> p, artifact |-> a, measured |-> None]]
    <2>4. c.candidate.parent = p /\ c.approval = None
      BY DEF Unborn
    <2>5. cycles' = [cycles EXCEPT ![lin.next_id] = c]
      BY <1>2 DEF Propose
    <2> HIDE DEF c
    <2>6. LineSound(lin, c)
      BY <2>3, <2>4 DEF LineSound, ParentKnown
    <2>7. \A i \in Ids : LineSound(lin, cycles'[i])
      BY <1>1, <2>1, <2>5, <2>6
    <2> QED
      BY <1>1, <2>2, <2>7, LineStep
  <1>3. ASSUME NEW id \in Ids, NEW c, lin' = lin,
               cycles' = [cycles EXCEPT ![id] = c], LineSound(lin, c)
        PROVE  LinesSound'
    <2>1. \A i \in Ids : LineSound(lin, cycles'[i])
      BY <1>1, <1>3
    <2> QED
      BY <1>1, <1>3, <2>1, LineStep
  <1>4. ASSUME NEW id \in Ids, NEW m \in Evidence, Evaluate(id, m)
        PROVE  LinesSound'
    <2> DEFINE c == [cycles[id] EXCEPT !.phase = "Evaluated",
                                       !.candidate = Measured(@, m)]
    <2>1. lin' = lin /\ cycles' = [cycles EXCEPT ![id] = c]
      BY <1>1, <1>4 DEF Evaluate
    <2>2. cycles[id].approval = None
      BY <1>4, BeforeVerdict DEF Evaluate
    <2>3. c.approval = None /\ c.candidate.parent = cycles[id].candidate.parent
      BY <1>1, <2>2 DEF Cycles, Generations, Measured
    <2> HIDE DEF c
    <2>4. LineSound(lin, c)
      BY <1>1, <2>3 DEF LineSound, ParentKnown
    <2> QED
      BY <1>3, <2>1, <2>4
  <1>5. ASSUME NEW id \in Ids, NEW success \in BOOLEAN, Shadow(id, success)
        PROVE  LinesSound'
    <2> DEFINE n == IF success THEN cycles[id].shadow_successes + 1
                    ELSE cycles[id].shadow_successes
               c == [cycles[id] EXCEPT !.phase = "Shadowing", !.shadow_successes = n]
    <2>1. lin' = lin /\ cycles' = [cycles EXCEPT ![id] = c]
      BY <1>1, <1>5 DEF Shadow
    <2>2. cycles[id].approval = None
      BY <1>5, BeforeVerdict DEF Shadow
    <2> HIDE DEF n
    <2>3. c.approval = None /\ c.candidate = cycles[id].candidate
      BY <1>1, <2>2 DEF Cycles
    <2> HIDE DEF c
    <2>4. LineSound(lin, c)
      BY <1>1, <2>3 DEF LineSound
    <2> QED
      BY <1>3, <2>1, <2>4
  <1>6. ASSUME NEW id \in Ids, AdjudicateCycle(id)
        PROVE  LinesSound'
    <2> DEFINE o == cycles[id]
               ok == Adjudicate(gate, id, o.candidate, lin, o.shadow_successes, store) = {}
               v == IF ok THEN "Promote" ELSE "Reject"
               a == IF ok THEN Approval(id, lin) ELSE None
               c == [o EXCEPT !.phase = "Adjudicated", !.verdict = v, !.approval = a]
    <2>1. lin' = lin /\ cycles' = [cycles EXCEPT ![id] = c]
      BY <1>1, <1>6 DEF AdjudicateCycle
    <2>2. a # None /\ o.candidate.parent # None =>
            AboveLine(lin, o.candidate, o.candidate.parent)
      BY ApprovedIsAbove
    <2> HIDE DEF a, v
    <2>3. c.candidate = o.candidate /\ c.approval = a
      BY <1>1 DEF Cycles
    <2> HIDE DEF c
    <2>4. LineSound(lin, c)
      BY <1>1, <2>2, <2>3 DEF LineSound
    <2> QED
      BY <1>3, <2>1, <2>4
  <1>7. ASSUME NEW id \in Ids, CommitRefused(id)
        PROVE  LinesSound'
    <2>1. lin' = Refuse(lin, id) /\ Event("Refused", id, None) \in Events
      BY <1>7, EventTyped DEF CommitRefused, EventKinds
    <2>2. lin'.status = lin.status /\ lin'.events = Append(lin.events, Event("Refused", id, None))
      BY <1>1, <2>1, RefuseFields
    <2>3. \A i \in Ids : LineSound(lin, cycles'[i])
      <3> DEFINE c == [cycles[id] EXCEPT !.phase = "Refused"]
      <3>1. cycles' = [cycles EXCEPT ![id] = c]
        BY <1>1, <1>7 DEF CommitRefused
      <3>2. c.candidate = cycles[id].candidate /\ c.approval = cycles[id].approval
        BY <1>1 DEF Cycles
      <3> HIDE DEF c
      <3>3. LineSound(lin, c)
        BY <1>1, <3>2 DEF LineSound
      <3> QED
        BY <1>1, <3>1, <3>3
    <2>4. Event("Refused", id, None).event = "Refused"
      BY DEF Event
    <2> QED
      BY <1>1, <2>1, <2>2, <2>3, <2>4, LineStep DEF Known
  <1>8. ASSUME NEW id \in Ids, CommitApproved(id)
        PROVE  LinesSound'
    BY <1>8, CommitLine
  <1>9. ASSUME NEW e \in Events, e.event # "Promoted", cycles' = cycles,
               lin'.events = Append(lin.events, e),
               \A i \in Ids : ~Known(lin, i) => ~Known(lin', i)
        PROVE  LinesSound'
    BY <1>1, <1>9, LineStep
  <1>10. ASSUME Demote
         PROVE  LinesSound'
    <2> DEFINE t == FallbackTarget(lin, store)
    <2>1. /\ lin.champion \in Ids /\ HasFallback(lin, store) /\ Explained(lin)
          /\ lin' = ApplyDemotion(lin, lin.champion, t) /\ cycles' = cycles
      BY <1>10, ChampionKnown DEF Demote, MayDemote, DemoteChampion, IInv
    <2>2. t \in Ids /\ lin.status[t] = "Retired"
      BY <1>1, <2>1, FallbackFits
    <2> HIDE DEF t
    <2>3. /\ Event("Demoted", lin.champion, t) \in Events
          /\ Event("Demoted", lin.champion, t).event = "Demoted"
      BY <2>1, <2>2, EventTyped DEF EventKinds, Event
    <2>4. /\ \A i \in Ids : ~Known(lin, i) => ~Known(lin', i)
          /\ lin'.events = Append(lin.events, Event("Demoted", lin.champion, t))
      BY <1>1, <2>1, <2>2, DemotionKeeps
    <2> QED
      BY <1>9, <2>1, <2>3, <2>4
  <1>11. ASSUME NEW t \in Ids, RollBack(t)
         PROVE  LinesSound'
    <2>1. /\ lin.champion \in Ids /\ lin' = ApplyRollback(lin, lin.champion, t)
          /\ Known(lin, t) /\ lin.status[t] # "Quarantined" /\ cycles' = cycles
          /\ Explained(lin)
      BY <1>11, ChampionKnown DEF RollBack, MayRollBack, RollBackTo, IInv
    <2>2. /\ Event("RolledBack", lin.champion, t) \in Events
          /\ Event("RolledBack", lin.champion, t).event = "RolledBack"
      BY <2>1, EventTyped DEF EventKinds, Event
    <2>3. /\ \A i \in Ids : ~Known(lin, i) => ~Known(lin', i)
          /\ lin'.events = Append(lin.events, Event("RolledBack", lin.champion, t))
      BY <1>1, <2>1, RollbackKeeps
    <2> QED
      BY <1>9, <2>1, <2>2, <2>3
  <1>12. ASSUME \/ \E g \in LiveGates : EditGate(g)
                \/ \E a \in Artifacts : StoreChanges(a)
                \/ UNCHANGED vars
         PROVE  LinesSound'
    <2>1. lin' = lin /\ cycles' = cycles
      BY <1>12 DEF EditGate, StoreChanges, vars
    <2> QED
      BY <1>1, <2>1, LineStep
  <1> QED
    BY <1>2, <1>4, <1>5, <1>6, <1>7, <1>8, <1>10, <1>11, <1>12 DEF Next

(* However many promotions an ancestry has, and whatever was rolled back,  *)
(* demoted or committed late in between, none is below any of its          *)
(* ancestors on a guard axis by more than the registered tolerance.        *)
THEOREM LossesNeverAddUp == Spec => []AncestryRatchet
  <1>1. Init => LinesSound
    <2> SUFFICES ASSUME Init PROVE LinesSound
      OBVIOUS
    <2>1. PromotionEvents(lin) = {} /\ \A i \in Ids : ~Known(lin, i)
      BY DEF Init, EmptyLineage, PromotionEvents, Known
    <2>2. ASSUME NEW i \in Ids PROVE LineSound(lin, cycles[i])
      BY DEF Init, Unborn, NewGeneration, LineSound, ParentKnown
    <2> QED
      BY <2>1, <2>2 DEF LinesSound, AncestryRatchet
  <1>2. IInv /\ IInv' /\ LinesSound /\ [Next]_vars => LinesSound'
    BY StepKeepsLines
  <1>3. LinesSound => AncestryRatchet
    BY DEF LinesSound
  <1> QED
    BY <1>1, <1>2, <1>3, Inductive, PTL DEF Spec
=============================================================================
