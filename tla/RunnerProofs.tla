------------------------------ MODULE RunnerProofs ------------------------------
(***************************************************************************)
(* Proofs about Runner, for every value of its constants: any lineage the  *)
(* operator starts from, any workload, any number of cycles, restarts and  *)
(* lost appends.  The argument is about the value replay has of the journal*)
(* at every moment, which each entry changes in step with what the live run*)
(* did before it wrote the entry.                                          *)
(***************************************************************************)
EXTENDS Runner, LineageProofs

-----------------------------------------------------------------------------
(* What replay keeps, entry by entry.                                        *)

Resumes == [lin : Lineages, pending : [Ids -> Generations \cup {None}],
            proposals : Nat, trailing : Nat, record : [samples : Nat, total : Nat],
            ok : BOOLEAN]

(* A generation that was proposed and not decided has an id that is taken    *)
(* and is not in the lineage.                                                *)
ReplaySound(r) ==
    /\ r \in Resumes
    /\ Explained(r.lin) /\ IdsTaken(r.lin)
    /\ \A i \in Ids : r.pending[i] # None => i < r.lin.next_id /\ ~Known(r.lin, i)

(* The entries that a run writes. *)
RunEntry(e) ==
    \/ \E i \in Ids, g \in Generations : e = Proposed(i, g)
    \/ \E i \in Ids, m \in Measurements : e = Evaluated(i, m)
    \/ \E i \in Ids, approved \in BOOLEAN : e = Adjudicated(i, approved)
    \/ \E score \in Nat, trust \in [samples : Nat, total : Nat] : e = Calibrated(score, trust)
    \/ \E i \in Ids, o \in Ids \cup {None} : e = Succession(Event("Promoted", i, o))
    \/ \E i \in Ids : e = Succession(Event("Refused", i, None))
    \/ \E c, t \in Ids : e = Succession(Event("Demoted", c, t))
    \/ \E i \in Ids : e = Failure(i)
    \/ e \in {CycleRefused, Note}

(* Which rule of replay an entry meets. *)
LEMMA ReplayRules ==
    ASSUME NEW r
    PROVE  /\ ~r.ok => \A e : ReplayEntry(r, e) = r
           /\ r.ok =>
                /\ \A i, g : ReplayEntry(r, Proposed(i, g)) = ReplayProposed(r, Proposed(i, g))
                /\ \A i, m : ReplayEntry(r, Evaluated(i, m)) = ReplayEvaluated(r, Evaluated(i, m))
                /\ \A i, b : ReplayEntry(r, Adjudicated(i, b)) = r
                /\ \A s, t : ReplayEntry(r, Calibrated(s, t)) = ReplayCalibrated(r, Calibrated(s, t))
                /\ \A i, o : ReplayEntry(r, Succession(Event("Promoted", i, o)))
                               = ReplayPromoted(r, Event("Promoted", i, o))
                /\ \A i, o : ReplayEntry(r, Succession(Event("Refused", i, o)))
                               = ReplayRefused(r, Event("Refused", i, o))
                /\ \A i, o : ReplayEntry(r, Succession(Event("Demoted", i, o)))
                               = ReplayDemoted(r, Event("Demoted", i, o))
                /\ \A i : ReplayEntry(r, Failure(i)) = r
                /\ ReplayEntry(r, CycleRefused) = ReplayCycleRefused(r)
                /\ ReplayEntry(r, Note) = r
  <1>1. /\ \A i, g : Proposed(i, g).kind = "Proposed"
        /\ \A i, m : Evaluated(i, m).kind = "Evaluated"
        /\ \A i, b : Adjudicated(i, b).kind = "Adjudicated"
        /\ \A s, t : Calibrated(s, t).kind = "Calibrated"
        /\ \A e : Succession(e).kind = "Succession" /\ Succession(e).event = e
        /\ \A i : Failure(i).kind = "Failure"
        /\ CycleRefused.kind = "CycleRefused" /\ Note.kind = "Note"
        /\ \A k, i, o : Event(k, i, o).event = k
    BY DEF Proposed, Evaluated, Adjudicated, Calibrated, Succession, Failure, CycleRefused,
           Note, Event
  <1>2. \A i, o : /\ ReplaySuccession(r, Event("Promoted", i, o))
                       = ReplayPromoted(r, Event("Promoted", i, o))
                  /\ ReplaySuccession(r, Event("Refused", i, o))
                       = ReplayRefused(r, Event("Refused", i, o))
                  /\ ReplaySuccession(r, Event("Demoted", i, o))
                       = ReplayDemoted(r, Event("Demoted", i, o))
    BY <1>1 DEF ReplaySuccession
  <1>3. ~r.ok => \A e : ReplayEntry(r, e) = r
    BY DEF ReplayEntry
  <1>4. ASSUME r.ok
        PROVE  /\ \A e : e.kind = "Proposed" => ReplayEntry(r, e) = ReplayProposed(r, e)
               /\ \A e : e.kind = "Evaluated" => ReplayEntry(r, e) = ReplayEvaluated(r, e)
               /\ \A e : e.kind = "Calibrated" => ReplayEntry(r, e) = ReplayCalibrated(r, e)
               /\ \A e : e.kind = "Succession" =>
                            ReplayEntry(r, e) = ReplaySuccession(r, e.event)
               /\ \A e : e.kind = "CycleRefused" => ReplayEntry(r, e) = ReplayCycleRefused(r)
               /\ \A e : e.kind \in {"Adjudicated", "Failure", "Note"} => ReplayEntry(r, e) = r
    BY <1>4 DEF ReplayEntry
  <1> QED
    BY <1>1, <1>2, <1>3, <1>4

(* The record explains authority as long as its events, the champion and the *)
(* statuses are the same.                                                    *)
LEMMA SameAccount ==
    ASSUME NEW l, NEW l2, Explained(l), l2.events = l.events, l2.champion = l.champion,
           l2.status = l.status
    PROVE  Explained(l2)
  BY DEF Explained, Moves, PreviouslyDemoted

LEMMA BumpIdFields ==
    ASSUME NEW l \in Lineages, NEW id \in Ids
    PROVE  /\ BumpId(l, id) \in Lineages
           /\ BumpId(l, id).next_id = IF l.next_id > id THEN l.next_id ELSE id + 1
           /\ BumpId(l, id).order = l.order
           /\ BumpId(l, id).data = l.data
           /\ BumpId(l, id).status = l.status
           /\ BumpId(l, id).champion = l.champion
           /\ BumpId(l, id).events = l.events
  <1> DEFINE n == IF l.next_id > id THEN l.next_id ELSE id + 1
  <1>1. n \in 0 .. MaxId
    <2>1. l.next_id \in 0 .. MaxId
      BY DEF Lineages
    <2> QED
      BY <2>1, MaxIdAssumption DEF Ids
  <1>2. BumpId(l, id) = [l EXCEPT !.next_id = n]
    BY DEF BumpId
  <1> HIDE DEF n
  <1>3. /\ BumpId(l, id) \in Lineages
        /\ BumpId(l, id).next_id = n
        /\ BumpId(l, id).order = l.order
        /\ BumpId(l, id).data = l.data
        /\ BumpId(l, id).status = l.status
        /\ BumpId(l, id).champion = l.champion
        /\ BumpId(l, id).events = l.events
    BY <1>1, <1>2 DEF Lineages
  <1> QED
    BY <1>3 DEF n

LEMMA InconsistentSound ==
    ASSUME NEW r, ReplaySound(r)
    PROVE  /\ ReplaySound(Inconsistent(r)) /\ Inconsistent(r).ok = FALSE
           /\ Inconsistent(r).lin = r.lin
  <1>1. r \in Resumes
    BY DEF ReplaySound
  <1>2. /\ Inconsistent(r) \in Resumes /\ Inconsistent(r).ok = FALSE
        /\ Inconsistent(r).lin = r.lin /\ Inconsistent(r).pending = r.pending
    BY <1>1 DEF Inconsistent, Resumes
  <1> QED
    BY <1>2 DEF ReplaySound

(* A proposal reserves its id and keeps its candidate in hand. *)
LEMMA ProposalFields ==
    ASSUME NEW r, ReplaySound(r), NEW i \in Ids, NEW g \in Generations,
           ~Known(r.lin, i), r.pending[i] = None,
           NEW q, q = ReplayProposed(r, Proposed(i, g))
    PROVE  /\ q \in Resumes /\ ReplaySound(q) /\ q.ok = r.ok
           /\ q.lin = BumpId(r.lin, i)
           /\ q.pending = [r.pending EXCEPT ![i] = Measured(g, None)]
           /\ q.proposals = r.proposals + 1 /\ q.trailing = r.trailing /\ q.record = r.record
  <1>1. r \in Resumes
    BY DEF ReplaySound
  <1>2. Measured(g, None) \in Generations
    BY DEF Measured, Generations
  <1>3. q = [r EXCEPT !.lin = BumpId(r.lin, i),
                      !.pending = [r.pending EXCEPT ![i] = Measured(g, None)],
                      !.proposals = r.proposals + 1]
    BY DEF ReplayProposed, Proposed
  <1>4. r.lin \in Lineages /\ BumpId(r.lin, i) \in Lineages
    BY <1>1, BumpIdFields DEF Resumes
  <1>5. [r.pending EXCEPT ![i] = Measured(g, None)] \in [Ids -> Generations \cup {None}]
    BY <1>1, <1>2 DEF Resumes
  <1>6. /\ q \in Resumes /\ q.ok = r.ok
        /\ q.lin = BumpId(r.lin, i)
        /\ q.pending = [r.pending EXCEPT ![i] = Measured(g, None)]
        /\ q.proposals = r.proposals + 1 /\ q.trailing = r.trailing /\ q.record = r.record
    <2>1. PICK l, p, n : /\ l = BumpId(r.lin, i) /\ n = r.proposals + 1
                         /\ p = [r.pending EXCEPT ![i] = Measured(g, None)]
      OBVIOUS
    <2>2. l \in Lineages /\ p \in [Ids -> Generations \cup {None}] /\ n \in Nat
      BY <1>1, <1>4, <1>5, <2>1 DEF Resumes
    <2>3. q = [r EXCEPT !.lin = l, !.pending = p, !.proposals = n]
      BY <1>3, <2>1
    <2>4. /\ q \in Resumes /\ q.ok = r.ok /\ q.lin = l /\ q.pending = p
          /\ q.proposals = n /\ q.trailing = r.trailing /\ q.record = r.record
      BY <1>1, <2>2, <2>3 DEF Resumes
    <2> QED
      BY <2>1, <2>4
  <1>7. ReplaySound(q)
    <2>1. /\ q.lin.next_id = IF r.lin.next_id > i THEN r.lin.next_id ELSE i + 1
          /\ q.lin.status = r.lin.status /\ q.lin.champion = r.lin.champion
          /\ q.lin.events = r.lin.events
      BY <1>4, <1>6, BumpIdFields
    <2>2. Explained(q.lin)
      BY <2>1, SameAccount DEF ReplaySound
    <2>3. r.lin.next_id \in Int
      BY <1>4 DEF Lineages
    <2>4. IdsTaken(q.lin)
      BY <2>1, <2>3 DEF ReplaySound, IdsTaken, Known, Ids
    <2>5. ASSUME NEW j \in Ids, q.pending[j] # None
          PROVE  j < q.lin.next_id /\ ~Known(q.lin, j)
      <3>1. r.pending \in [Ids -> Generations \cup {None}]
        BY <1>1 DEF Resumes
      <3>2. CASE j = i
        BY <2>1, <2>3, <3>2 DEF Known, Ids
      <3>3. CASE j # i
        <4>1. r.pending[j] # None
          BY <1>6, <2>5, <3>1, <3>3
        <4>2. j < r.lin.next_id /\ ~Known(r.lin, j)
          BY <4>1 DEF ReplaySound
        <4> QED
          BY <2>1, <2>3, <4>2 DEF Known, Ids
      <3> QED
        BY <3>2, <3>3
    <2> QED
      BY <1>6, <2>2, <2>4, <2>5 DEF ReplaySound
  <1> QED
    BY <1>6, <1>7

LEMMA ProposedSound ==
    ASSUME NEW r, ReplaySound(r), NEW i \in Ids, NEW g \in Generations
    PROVE  ReplaySound(ReplayProposed(r, Proposed(i, g)))
  <1>1. CASE ~Known(r.lin, i) /\ r.pending[i] = None
    BY <1>1, ProposalFields
  <1>2. CASE ~(~Known(r.lin, i) /\ r.pending[i] = None)
    <2>1. ReplayProposed(r, Proposed(i, g)) = Inconsistent(r)
      BY <1>2 DEF ReplayProposed, Proposed
    <2> QED
      BY <2>1, InconsistentSound
  <1> QED
    BY <1>1, <1>2

(* An evaluation completes the candidate in hand. *)
LEMMA EvaluationFields ==
    ASSUME NEW r, ReplaySound(r), NEW i \in Ids, NEW m \in Measurements,
           r.pending[i] # None, NEW q, q = ReplayEvaluated(r, Evaluated(i, m))
    PROVE  /\ ReplaySound(q) /\ q.ok = r.ok /\ q.lin = r.lin
           /\ q.pending = [r.pending EXCEPT ![i] = Measured(r.pending[i], m)]
           /\ q.proposals = r.proposals /\ q.trailing = r.trailing /\ q.record = r.record
  <1>1. r \in Resumes /\ r.pending \in [Ids -> Generations \cup {None}]
    BY DEF ReplaySound, Resumes
  <1>2. Measured(r.pending[i], m) \in Generations
    BY <1>1 DEF Measured, Generations
  <1>3. PICK p : p = [r.pending EXCEPT ![i] = Measured(r.pending[i], m)]
    OBVIOUS
  <1>4. p \in [Ids -> Generations \cup {None}]
    BY <1>1, <1>2, <1>3
  <1>5. q = [r EXCEPT !.pending = p]
    BY <1>3 DEF ReplayEvaluated, Evaluated
  <1>6. /\ q \in Resumes /\ q.ok = r.ok /\ q.lin = r.lin /\ q.pending = p
        /\ q.proposals = r.proposals /\ q.trailing = r.trailing /\ q.record = r.record
    BY <1>1, <1>4, <1>5 DEF Resumes
  <1>7. \A j \in Ids : q.pending[j] # None => r.pending[j] # None
    BY <1>1, <1>3, <1>6
  <1>8. ReplaySound(q)
    BY <1>6, <1>7 DEF ReplaySound
  <1> QED
    BY <1>3, <1>6, <1>8

LEMMA EvaluatedSound ==
    ASSUME NEW r, ReplaySound(r), NEW i \in Ids, NEW m \in Measurements
    PROVE  /\ ReplaySound(ReplayEvaluated(r, Evaluated(i, m)))
           /\ ReplayEvaluated(r, Evaluated(i, m)).lin = r.lin
  <1>1. CASE r.pending[i] # None
    <2>1. PICK q : q = ReplayEvaluated(r, Evaluated(i, m))
      OBVIOUS
    <2>2. ReplaySound(q)
      BY <1>1, <2>1, EvaluationFields
    <2>3. q.lin = r.lin
      BY <2>1 DEF ReplayEvaluated, ReplaySound, Resumes, Inconsistent
    <2> QED
      BY <2>1, <2>2, <2>3
  <1>2. CASE r.pending[i] = None
    <2>1. ReplayEvaluated(r, Evaluated(i, m)) = Inconsistent(r)
      BY <1>2 DEF ReplayEvaluated, Evaluated
    <2> QED
      BY <2>1, InconsistentSound
  <1> QED
    BY <1>1, <1>2

(* A promotion that replay accepts adds the candidate in hand and gives it   *)
(* authority for the first time.                                             *)
LEMMA PromotionFields ==
    ASSUME NEW r, ReplaySound(r), NEW i \in Ids,
           r.pending[i] # None, HasHeldout(r.pending[i]),
           NEW q, q = ReplayPromoted(r, Event("Promoted", i, r.lin.champion))
    PROVE  /\ ReplaySound(q) /\ q.ok = r.ok
           /\ q.lin = Install(Add(r.lin, i, r.pending[i]), i)
           /\ q.proposals = r.proposals /\ q.trailing = 0 /\ q.record = r.record
           /\ i \notin HeldIn(r.lin) /\ q.lin.champion = i
           /\ HeldIn(q.lin) = HeldIn(r.lin) \cup {i} /\ FallenIn(q.lin) = FallenIn(r.lin)
  <1>1. r \in Resumes /\ r.pending \in [Ids -> Generations \cup {None}] /\ r.lin \in Lineages
    BY DEF ReplaySound, Resumes
  <1>2. PICK g : g = r.pending[i]
    OBVIOUS
  <1>3. g \in Generations /\ r.lin.status[i] = "Absent" /\ i < r.lin.next_id
    BY <1>1, <1>2 DEF ReplaySound, Known
  <1>4. PICK l1 : l1 = Add(r.lin, i, g)
    OBVIOUS
  <1>5. /\ l1 \in Lineages /\ l1.champion = r.lin.champion
        /\ l1.status = [r.lin.status EXCEPT ![i] = "Candidate"]
        /\ l1.next_id = r.lin.next_id
    BY <1>1, <1>3, <1>4, AddFields
  <1>6. Explained(l1)
    BY <1>1, <1>3, <1>4, AddExplained DEF ReplaySound
  <1>7. r.lin.status \in [Ids -> Statuses \cup {"Absent"}] /\ l1.status[i] = "Candidate"
    BY <1>1, <1>5 DEF Lineages
  <1>8. PICK l : l = Install(l1, i)
    OBVIOUS
  <1>9. /\ l \in Lineages /\ l.next_id = l1.next_id /\ l.champion = i
        /\ l.status = [SetStatus(l1, l1.champion, "Retired") EXCEPT ![i] = "Champion"]
    BY <1>5, <1>8, InstallFields
  <1>10. Explained(l)
    BY <1>5, <1>6, <1>7, <1>8, InstallExplained
  <1>11. PICK p : p = [r.pending EXCEPT ![i] = None]
    OBVIOUS
  <1>12. q = [r EXCEPT !.lin = l, !.pending = p, !.trailing = 0]
    BY <1>2, <1>4, <1>8, <1>11 DEF ReplayPromoted, Event
  <1>13. p \in [Ids -> Generations \cup {None}]
    BY <1>1, <1>11
  <1>14. /\ q \in Resumes /\ q.ok = r.ok /\ q.lin = l /\ q.pending = p
         /\ q.proposals = r.proposals /\ q.trailing = 0 /\ q.record = r.record
    <2>1. l \in Lineages
      BY <1>9
    <2>2. PICK z : z = 0
      OBVIOUS
    <2>3. z \in Nat /\ q = [r EXCEPT !.lin = l, !.pending = p, !.trailing = z]
      BY <1>12, <2>2
    <2>4. /\ q \in Resumes /\ q.ok = r.ok /\ q.lin = l /\ q.pending = p
          /\ q.proposals = r.proposals /\ q.trailing = z /\ q.record = r.record
      BY <1>1, <1>13, <2>1, <2>3 DEF Resumes
    <2> QED
      BY <2>2, <2>4
  <1>15. \A j \in Ids : Known(l, j) => Known(r.lin, j) \/ j = i
    <2>1. l1.champion \in Ids \cup {None} /\ l1.status \in [Ids -> Statuses \cup {"Absent"}]
      BY <1>5 DEF Lineages
    <2>2. r.lin.champion # None => Known(r.lin, r.lin.champion)
      BY <1>5, <2>1 DEF ReplaySound, Explained, Known
    <2>3. \A j \in Ids : j # i /\ j # l1.champion => l.status[j] = l1.status[j]
      BY <1>9, <2>1, NoneIsNoId DEF SetStatus
    <2>4. \A j \in Ids : j # i => l1.status[j] = r.lin.status[j]
      BY <1>5, <1>7
    <2>5. ASSUME NEW j \in Ids, Known(l, j), j # i
          PROVE  Known(r.lin, j)
      <3>1. CASE j = l1.champion
        BY <1>5, <2>2, <3>1, NoneIsNoId
      <3>2. CASE j # l1.champion
        BY <2>3, <2>4, <2>5, <3>2 DEF Known
      <3> QED
        BY <3>1, <3>2
    <2> QED
      BY <2>5
  <1>16. ReplaySound(q)
    <2>1. IdsTaken(l)
      BY <1>3, <1>5, <1>9, <1>15 DEF ReplaySound, IdsTaken
    <2>2. ASSUME NEW j \in Ids, q.pending[j] # None
          PROVE  j < q.lin.next_id /\ ~Known(q.lin, j)
      <3>1. j # i /\ r.pending[j] # None
        BY <1>1, <1>11, <1>14, <2>2
      <3> QED
        BY <1>5, <1>9, <1>14, <1>15, <3>1 DEF ReplaySound
    <2> QED
      BY <1>10, <1>14, <2>1, <2>2 DEF ReplaySound
  <1>17. /\ i \notin HeldIn(l1)
         /\ HeldIn(l) = HeldIn(l1) \cup {i} /\ FallenIn(l) = FallenIn(l1)
    BY <1>5, <1>6, <1>7, <1>8, <1>9, PromotionGrants
  <1>18. HeldIn(l1) = HeldIn(r.lin) /\ FallenIn(l1) = FallenIn(r.lin)
    BY <1>3, <1>5, <1>7 DEF HeldIn, FallenIn
  <1> QED
    BY <1>2, <1>4, <1>8, <1>9, <1>14, <1>16, <1>17, <1>18

LEMMA PromotedSound ==
    ASSUME NEW r, ReplaySound(r), NEW i \in Ids, NEW o
    PROVE  ReplaySound(ReplayPromoted(r, Event("Promoted", i, o)))
  <1>1. CASE o = r.lin.champion /\ r.pending[i] # None /\ HasHeldout(r.pending[i])
    BY <1>1, PromotionFields
  <1>2. CASE ~(o = r.lin.champion /\ r.pending[i] # None /\ HasHeldout(r.pending[i]))
    <2>1. ReplayPromoted(r, Event("Promoted", i, o)) = Inconsistent(r)
      BY <1>2 DEF ReplayPromoted, Event
    <2> QED
      BY <2>1, InconsistentSound
  <1> QED
    BY <1>1, <1>2

(* A refusal decides the candidate and adds an event. *)
LEMMA RefusalFields ==
    ASSUME NEW r, ReplaySound(r), NEW i \in Ids,
           NEW q, q = ReplayRefused(r, Event("Refused", i, None))
    PROVE  /\ ReplaySound(q) /\ q.ok = r.ok
           /\ q.lin = Refuse(r.lin, i)
           /\ q.proposals = r.proposals /\ q.trailing = r.trailing + 1 /\ q.record = r.record
           /\ q.lin.champion = r.lin.champion
           /\ HeldIn(q.lin) = HeldIn(r.lin) /\ FallenIn(q.lin) = FallenIn(r.lin)
  <1>1. r \in Resumes /\ r.pending \in [Ids -> Generations \cup {None}] /\ r.lin \in Lineages
    BY DEF ReplaySound, Resumes
  <1>2. PICK l, p, t : /\ l = Refuse(r.lin, i) /\ p = [r.pending EXCEPT ![i] = None]
                       /\ t = r.trailing + 1
    OBVIOUS
  <1>3. /\ l \in Lineages /\ l.next_id = r.lin.next_id /\ l.status = r.lin.status
        /\ l.champion = r.lin.champion
    BY <1>1, <1>2, RefuseFields
  <1>4. p \in [Ids -> Generations \cup {None}] /\ t \in Nat
    BY <1>1, <1>2 DEF Resumes
  <1>5. q = [r EXCEPT !.lin = l, !.pending = p, !.trailing = t]
    BY <1>2 DEF ReplayRefused, Event
  <1>6. /\ q \in Resumes /\ q.ok = r.ok /\ q.lin = l /\ q.pending = p
        /\ q.proposals = r.proposals /\ q.trailing = t /\ q.record = r.record
    BY <1>1, <1>3, <1>4, <1>5 DEF Resumes
  <1>7. Explained(l)
    BY <1>1, <1>2, RefuseExplained DEF ReplaySound
  <1>8. \A j \in Ids : q.pending[j] # None => r.pending[j] # None
    BY <1>1, <1>2, <1>6
  <1>9. ReplaySound(q)
    BY <1>3, <1>6, <1>7, <1>8 DEF ReplaySound, IdsTaken, Known
  <1>10. HeldIn(l) = HeldIn(r.lin) /\ FallenIn(l) = FallenIn(r.lin)
    BY <1>3 DEF HeldIn, FallenIn
  <1> QED
    BY <1>2, <1>3, <1>6, <1>9, <1>10

(* A demotion that replay accepts returns authority. *)
LEMMA DemotionReplayed ==
    ASSUME NEW r, ReplaySound(r), NEW c \in Ids, NEW t \in Ids,
           r.lin.champion = c, r.lin.status[t] = "Retired",
           NEW q, q = ReplayDemoted(r, Event("Demoted", c, t))
    PROVE  /\ ReplaySound(q) /\ q.ok = r.ok
           /\ q.lin = ApplyDemotion(r.lin, c, t)
           /\ q.proposals = r.proposals /\ q.trailing = r.trailing /\ q.record = r.record
           /\ t \in HeldIn(r.lin) \ (FallenIn(r.lin) \cup {c}) /\ q.lin.champion = t
           /\ HeldIn(q.lin) = HeldIn(r.lin) /\ FallenIn(q.lin) = FallenIn(r.lin) \cup {c}
  <1>1. r \in Resumes /\ r.lin \in Lineages
    BY DEF ReplaySound, Resumes
  <1>2. PICK l : l = ApplyDemotion(r.lin, c, t)
    OBVIOUS
  <1>3. /\ l \in Lineages /\ l.next_id = r.lin.next_id /\ l.champion = t
        /\ \A i \in Ids : l.status[i] =
             IF i = t THEN "Champion" ELSE IF i = c THEN "Quarantined" ELSE r.lin.status[i]
    <2>1. PICK d \in Lineages : d = r.lin
      BY <1>1
    <2>2. /\ ApplyDemotion(d, c, t) \in Lineages
          /\ ApplyDemotion(d, c, t).next_id = d.next_id
          /\ ApplyDemotion(d, c, t).champion = t
          /\ \A i \in Ids : ApplyDemotion(d, c, t).status[i] =
                IF i = t THEN "Champion" ELSE IF i = c THEN "Quarantined" ELSE d.status[i]
      BY DemotionFields
    <2> QED
      BY <1>2, <2>1, <2>2
  <1>4. q = [r EXCEPT !.lin = l]
    BY <1>2 DEF ReplayDemoted, Event
  <1>5. /\ q \in Resumes /\ q.ok = r.ok /\ q.lin = l /\ q.pending = r.pending
        /\ q.proposals = r.proposals /\ q.trailing = r.trailing /\ q.record = r.record
    BY <1>1, <1>3, <1>4 DEF Resumes
  <1>6. r.lin.status[c] = "Champion" /\ t # c
    BY DEF ReplaySound, Explained
  <1>7. Explained(l)
    BY <1>1, <1>2, <1>6, DemotionExplained DEF ReplaySound
  <1>8. \A j \in Ids : Known(l, j) <=> Known(r.lin, j)
    BY <1>3, <1>6 DEF Known
  <1>9. ReplaySound(q)
    BY <1>3, <1>5, <1>7, <1>8 DEF ReplaySound, IdsTaken
  <1>10. /\ t \in HeldIn(r.lin) \ (FallenIn(r.lin) \cup {c})
         /\ HeldIn(l) = HeldIn(r.lin) /\ FallenIn(l) = FallenIn(r.lin) \cup {c}
    BY <1>1, <1>2, DemotionReturns DEF ReplaySound
  <1> QED
    BY <1>2, <1>3, <1>5, <1>9, <1>10

LEMMA DemotedSound ==
    ASSUME NEW r, ReplaySound(r), NEW c \in Ids, NEW t \in Ids
    PROVE  ReplaySound(ReplayDemoted(r, Event("Demoted", c, t)))
  <1>1. CASE r.lin.champion = c /\ r.lin.status[t] = "Retired"
    BY <1>1, DemotionReplayed
  <1>2. CASE ~(r.lin.champion = c /\ r.lin.status[t] = "Retired")
    <2>1. ReplayDemoted(r, Event("Demoted", c, t)) = Inconsistent(r)
      BY <1>2 DEF ReplayDemoted, Event
    <2> QED
      BY <2>1, InconsistentSound
  <1> QED
    BY <1>1, <1>2

(* A score that carries the trust it gives. *)
LEMMA CalibrationFields ==
    ASSUME NEW r, ReplaySound(r), NEW score \in Nat, NEW trust
    PROVE  /\ ReplaySound(ReplayCalibrated(r, Calibrated(score, trust)))
           /\ ReplayCalibrated(r, Calibrated(score, trust)).lin = r.lin
           /\ ReplayCalibrated(r, Calibrated(score, trust)).pending = r.pending
           /\ ReplayCalibrated(r, Calibrated(score, trust)).proposals = r.proposals
           /\ ReplayCalibrated(r, Calibrated(score, trust)).trailing = r.trailing
           /\ trust = Trust(Scored(r.record, score)) =>
                /\ ReplayCalibrated(r, Calibrated(score, trust)).ok = r.ok
                /\ ReplayCalibrated(r, Calibrated(score, trust)).record
                      = Scored(r.record, score)
  <1>1. r \in Resumes
    BY DEF ReplaySound
  <1>2. PICK d : d = Scored(r.record, score)
    OBVIOUS
  <1>3. d \in [samples : Nat, total : Nat]
    BY <1>1, <1>2 DEF Resumes, Scored
  <1>4. PICK q : q = ReplayCalibrated(r, Calibrated(score, trust))
    OBVIOUS
  <1>5. CASE SameTrust(Trust(d), trust)
    <2>1. q = [r EXCEPT !.record = d]
      BY <1>2, <1>4, <1>5 DEF ReplayCalibrated, Calibrated
    <2>2. /\ q \in Resumes /\ q.ok = r.ok /\ q.lin = r.lin /\ q.pending = r.pending
          /\ q.proposals = r.proposals /\ q.trailing = r.trailing /\ q.record = d
      BY <1>1, <1>3, <2>1 DEF Resumes
    <2>3. ReplaySound(q)
      BY <2>2 DEF ReplaySound
    <2> QED
      BY <1>2, <1>4, <2>2, <2>3
  <1>6. CASE ~SameTrust(Trust(d), trust)
    <2>1. trust # Trust(d)
      <3>1. Trust(d) \in [samples : Nat, total : Nat]
        BY <1>3 DEF Trust
      <3> QED
        BY <1>6, <3>1 DEF SameTrust
    <2>2. q = Inconsistent(r)
      BY <1>2, <1>4, <1>6 DEF ReplayCalibrated, Calibrated
    <2>3. /\ q.lin = r.lin /\ q.pending = r.pending
          /\ q.proposals = r.proposals /\ q.trailing = r.trailing
      BY <1>1, <2>2 DEF Inconsistent, Resumes
    <2>4. ReplaySound(q)
      BY <2>2, InconsistentSound
    <2> QED
      BY <1>2, <1>4, <2>1, <2>3, <2>4
  <1> QED
    BY <1>5, <1>6

LEMMA RefusedCycleFields ==
    ASSUME NEW r, ReplaySound(r), NEW q, q = ReplayCycleRefused(r)
    PROVE  /\ ReplaySound(q) /\ q.ok = r.ok /\ q.lin = r.lin /\ q.pending = r.pending
           /\ q.proposals = r.proposals + 1 /\ q.trailing = r.trailing + 1
           /\ q.record = r.record
  <1>1. r \in Resumes
    BY DEF ReplaySound
  <1>2. /\ q \in Resumes /\ q.ok = r.ok /\ q.lin = r.lin /\ q.pending = r.pending
        /\ q.proposals = r.proposals + 1 /\ q.trailing = r.trailing + 1
        /\ q.record = r.record
    <2>1. PICK n, t : n = r.proposals + 1 /\ t = r.trailing + 1
      OBVIOUS
    <2>2. n \in Nat /\ t \in Nat /\ q = [r EXCEPT !.proposals = n, !.trailing = t]
      BY <1>1, <2>1 DEF ReplayCycleRefused, Resumes
    <2>3. /\ q \in Resumes /\ q.ok = r.ok /\ q.lin = r.lin /\ q.pending = r.pending
          /\ q.proposals = n /\ q.trailing = t /\ q.record = r.record
      BY <1>1, <2>2 DEF Resumes
    <2> QED
      BY <2>1, <2>3
  <1> QED
    BY <1>2 DEF ReplaySound

(* Replay of any entry that a run writes keeps what it rebuilds sound. *)
LEMMA EntrySound ==
    ASSUME NEW r, ReplaySound(r), NEW e, RunEntry(e)
    PROVE  ReplaySound(ReplayEntry(r, e))
  <1>1. CASE ~r.ok
    BY <1>1, ReplayRules
  <1>2. CASE r.ok
    <2>1. CASE \E i \in Ids, g \in Generations : e = Proposed(i, g)
      BY <1>2, <2>1, ReplayRules, ProposedSound
    <2>2. CASE \E i \in Ids, m \in Measurements : e = Evaluated(i, m)
      BY <1>2, <2>2, ReplayRules, EvaluatedSound
    <2>3. CASE \/ \E i \in Ids, approved \in BOOLEAN : e = Adjudicated(i, approved)
               \/ \E i \in Ids : e = Failure(i)
               \/ e = Note
      BY <1>2, <2>3, ReplayRules
    <2>4. CASE \E score \in Nat, trust \in [samples : Nat, total : Nat] :
                  e = Calibrated(score, trust)
      BY <1>2, <2>4, ReplayRules, CalibrationFields
    <2>5. CASE \E i \in Ids, o \in Ids \cup {None} : e = Succession(Event("Promoted", i, o))
      BY <1>2, <2>5, ReplayRules, PromotedSound
    <2>6. CASE \E i \in Ids : e = Succession(Event("Refused", i, None))
      BY <1>2, <2>6, ReplayRules, RefusalFields
    <2>7. CASE \E c, t \in Ids : e = Succession(Event("Demoted", c, t))
      BY <1>2, <2>7, ReplayRules, DemotedSound
    <2>8. CASE e = CycleRefused
      BY <1>2, <2>8, ReplayRules, RefusedCycleFields
    <2> QED
      BY <2>1, <2>2, <2>3, <2>4, <2>5, <2>6, <2>7, <2>8 DEF RunEntry
  <1> QED
    BY <1>1, <1>2 DEF ReplaySound, Resumes

(* What an entry may do to authority as replay sees it. *)
SameHolders(l, l2) ==
    l2.champion = l.champion /\ HeldIn(l2) = HeldIn(l) /\ FallenIn(l2) = FallenIn(l)

Granted(l, l2) ==
    \E g \in Ids \ HeldIn(l) :
        l2.champion = g /\ HeldIn(l2) = HeldIn(l) \cup {g} /\ FallenIn(l2) = FallenIn(l)

FallenBack(l, l2) ==
    /\ l.champion \in Ids
    /\ \E g \in HeldIn(l) \ (FallenIn(l) \cup {l.champion}) :
          /\ l2.champion = g /\ HeldIn(l2) = HeldIn(l)
          /\ FallenIn(l2) = FallenIn(l) \cup {l.champion}

LEMMA EntryMoves ==
    ASSUME NEW r, ReplaySound(r), NEW e, RunEntry(e), NEW q, q = ReplayEntry(r, e)
    PROVE  \/ SameHolders(r.lin, q.lin)
           \/ Granted(r.lin, q.lin)
           \/ FallenBack(r.lin, q.lin)
  <1>0. r \in Resumes /\ r.lin \in Lineages
    BY DEF ReplaySound, Resumes
  <1>1. ASSUME q.lin = r.lin
        PROVE  SameHolders(r.lin, q.lin)
    BY <1>1 DEF SameHolders
  <1>2. ASSUME q = Inconsistent(r)
        PROVE  SameHolders(r.lin, q.lin)
    BY <1>1, <1>2, InconsistentSound
  <1>3. CASE ~r.ok
    BY <1>1, <1>3, ReplayRules
  <1>4. CASE r.ok
    <2>1. CASE \E i \in Ids, g \in Generations : e = Proposed(i, g)
      <3>1. PICK i \in Ids, g \in Generations : e = Proposed(i, g)
        BY <2>1
      <3>2. q = ReplayProposed(r, Proposed(i, g))
        BY <1>4, <3>1, ReplayRules
      <3>3. CASE ~Known(r.lin, i) /\ r.pending[i] = None
        <4>1. q.lin = BumpId(r.lin, i)
          BY <1>0, <3>2, <3>3 DEF ReplayProposed, Proposed, Resumes
        <4>2. q.lin.champion = r.lin.champion /\ q.lin.status = r.lin.status
          BY <1>0, <4>1, BumpIdFields
        <4> QED
          BY <4>2 DEF SameHolders, HeldIn, FallenIn
      <3>4. CASE ~(~Known(r.lin, i) /\ r.pending[i] = None)
        <4>1. q = Inconsistent(r)
          BY <3>2, <3>4 DEF ReplayProposed, Proposed
        <4> QED
          BY <1>2, <4>1
      <3> QED
        BY <3>3, <3>4
    <2>2. CASE \E i \in Ids, m \in Measurements : e = Evaluated(i, m)
      BY <1>1, <1>4, <2>2, ReplayRules, EvaluatedSound
    <2>3. CASE \/ \E i \in Ids, approved \in BOOLEAN : e = Adjudicated(i, approved)
               \/ \E i \in Ids : e = Failure(i)
               \/ e = Note
      BY <1>1, <1>4, <2>3, ReplayRules
    <2>4. CASE \E score \in Nat, trust \in [samples : Nat, total : Nat] :
                  e = Calibrated(score, trust)
      BY <1>1, <1>4, <2>4, ReplayRules, CalibrationFields
    <2>5. CASE \E i \in Ids, o \in Ids \cup {None} : e = Succession(Event("Promoted", i, o))
      <3>1. PICK i \in Ids, o \in Ids \cup {None} : e = Succession(Event("Promoted", i, o))
        BY <2>5
      <3>2. q = ReplayPromoted(r, Event("Promoted", i, o))
        BY <1>4, <3>1, ReplayRules
      <3>3. CASE o = r.lin.champion /\ r.pending[i] # None /\ HasHeldout(r.pending[i])
        <4>1. /\ i \notin HeldIn(r.lin) /\ q.lin.champion = i
              /\ HeldIn(q.lin) = HeldIn(r.lin) \cup {i} /\ FallenIn(q.lin) = FallenIn(r.lin)
          BY <3>2, <3>3, PromotionFields
        <4> QED
          BY <4>1 DEF Granted
      <3>4. CASE ~(o = r.lin.champion /\ r.pending[i] # None /\ HasHeldout(r.pending[i]))
        <4>1. q = Inconsistent(r)
          BY <3>2, <3>4 DEF ReplayPromoted, Event
        <4> QED
          BY <1>2, <4>1
      <3> QED
        BY <3>3, <3>4
    <2>6. CASE \E i \in Ids : e = Succession(Event("Refused", i, None))
      <3>1. PICK i \in Ids : e = Succession(Event("Refused", i, None))
        BY <2>6
      <3>2. q = ReplayRefused(r, Event("Refused", i, None))
        BY <1>4, <3>1, ReplayRules
      <3> QED
        BY <3>2, RefusalFields DEF SameHolders
    <2>7. CASE \E c, t \in Ids : e = Succession(Event("Demoted", c, t))
      <3>1. PICK c \in Ids, t \in Ids : e = Succession(Event("Demoted", c, t))
        BY <2>7
      <3>2. q = ReplayDemoted(r, Event("Demoted", c, t))
        BY <1>4, <3>1, ReplayRules
      <3>3. CASE r.lin.champion = c /\ r.lin.status[t] = "Retired"
        <4>1. /\ t \in HeldIn(r.lin) \ (FallenIn(r.lin) \cup {c}) /\ q.lin.champion = t
              /\ HeldIn(q.lin) = HeldIn(r.lin) /\ FallenIn(q.lin) = FallenIn(r.lin) \cup {c}
          BY <3>2, <3>3, DemotionReplayed
        <4> QED
          BY <3>3, <4>1 DEF FallenBack
      <3>4. CASE ~(r.lin.champion = c /\ r.lin.status[t] = "Retired")
        <4>1. q = Inconsistent(r)
          BY <3>2, <3>4 DEF ReplayDemoted, Event
        <4> QED
          BY <1>2, <4>1
      <3> QED
        BY <3>3, <3>4
    <2>8. CASE e = CycleRefused
      BY <1>1, <1>4, <2>8, ReplayRules, RefusedCycleFields
    <2> QED
      BY <2>1, <2>2, <2>3, <2>4, <2>5, <2>6, <2>7, <2>8 DEF RunEntry
  <1> QED
    BY <1>0, <1>3, <1>4 DEF Resumes

-----------------------------------------------------------------------------
(* The transitions of the live lineage, each with the event it ends in.      *)

LEMMA LastEvent ==
    ASSUME NEW s \in Seq(Events), NEW e \in Events
    PROVE  Last(Append(s, e)) = e /\ Front(Append(s, e)) = s
  <1>1. /\ Append(s, e) \in Seq(Events) /\ Len(Append(s, e)) = Len(s) + 1 /\ Len(s) \in Nat
        /\ Append(s, e)[Len(s) + 1] = e
        /\ \A p \in 1 .. Len(s) : Append(s, e)[p] = s[p]
    OBVIOUS
  <1>2. Front(Append(s, e)) = SubSeq(Append(s, e), 1, Len(s))
    BY <1>1 DEF Front
  <1>3. SubSeq(Append(s, e), 1, Len(s)) = s
    BY <1>1
  <1> QED
    BY <1>1, <1>2, <1>3 DEF Last

LEMMA TakeIdKeeps ==
    ASSUME NEW l \in Lineages, l.next_id < MaxId, Explained(l), IdsTaken(l)
    PROVE  /\ TakeId(l) \in Lineages /\ Explained(TakeId(l)) /\ IdsTaken(TakeId(l))
           /\ l.next_id \in Ids /\ TakeId(l).next_id = l.next_id + 1
           /\ ~Known(TakeId(l), l.next_id) /\ TakeId(l).champion = l.champion
           /\ TakeId(l).status = l.status /\ TakeId(l).events = l.events
  <1>1. /\ TakeId(l) \in Lineages /\ TakeId(l).next_id = l.next_id + 1
        /\ TakeId(l).status = l.status /\ TakeId(l).champion = l.champion
        /\ TakeId(l).events = l.events
    BY TakeIdFields
  <1>2. Explained(TakeId(l))
    BY <1>1, SameAccount
  <1>3. l.next_id \in Ids
    <2>1. l.next_id \in 0 .. MaxId
      BY DEF Lineages
    <2> QED
      BY <2>1, MaxIdAssumption DEF Ids
  <1>4. IdsTaken(TakeId(l)) /\ ~Known(TakeId(l), l.next_id)
    BY <1>1, <1>3 DEF IdsTaken, Known, Ids
  <1> QED
    BY <1>1, <1>2, <1>3, <1>4

(* commit() of an approved candidate that is new to the lineage. *)
LEMMA CommitKeeps ==
    ASSUME NEW l \in Lineages, NEW id \in Ids, NEW g \in Generations,
           Explained(l), IdsTaken(l), ~Known(l, id), id < l.next_id,
           NEW l2, l2 = Promote(Add(l, id, g), Approval(id, l))
    PROVE  /\ l2 \in Lineages /\ Explained(l2) /\ IdsTaken(l2)
           /\ l2 = Install(Add(l, id, g), id) /\ l2.champion = id
           /\ Last(l2.events) = Event("Promoted", id, l.champion)
           /\ l2.events = Append(l.events, Event("Promoted", id, l.champion))
           /\ l2.next_id = l.next_id
  <1>1. PICK a : a = Add(l, id, g)
    OBVIOUS
  <1>2. /\ a \in Lineages /\ a.champion = l.champion /\ a.next_id = l.next_id
        /\ a.status = [l.status EXCEPT ![id] = "Candidate"] /\ a.events = l.events
    BY <1>1, AddFields
  <1>3. /\ l.status \in [Ids -> Statuses \cup {"Absent"}] /\ a.status[id] = "Candidate"
        /\ l.champion \in Ids \cup {None} /\ l.events \in Seq(Events)
    BY <1>2 DEF Lineages
  <1>4. Explained(a)
    BY <1>1, AddExplained DEF Known
  <1>5. l2 = Install(a, id)
    BY <1>1, <1>2, <1>3 DEF Promote, MayPromote, Approval, Known
  <1>6. /\ l2 \in Lineages /\ l2.champion = id /\ l2.next_id = a.next_id
        /\ l2.status = [SetStatus(a, a.champion, "Retired") EXCEPT ![id] = "Champion"]
        /\ l2.events = Append(a.events, Event("Promoted", id, a.champion))
    BY <1>2, <1>5, InstallFields
  <1>7. Explained(l2)
    BY <1>2, <1>3, <1>4, <1>5, InstallExplained
  <1>8. Last(l2.events) = Event("Promoted", id, l.champion)
    <2>1. Event("Promoted", id, l.champion) \in Events
      BY <1>3, EventTyped DEF EventKinds
    <2> QED
      BY <1>2, <1>3, <1>6, <2>1, LastEvent
  <1>9. IdsTaken(l2)
    <2>1. l.champion # None => Known(l, l.champion)
      BY <1>3 DEF Explained, Known
    <2>2. \A j \in Ids : j # id /\ j # l.champion => l2.status[j] = l.status[j]
      BY <1>2, <1>3, <1>6, NoneIsNoId DEF SetStatus
    <2>3. ASSUME NEW j \in Ids, Known(l2, j)
          PROVE  j < l.next_id
      <3>1. CASE j = id
        BY <3>1
      <3>2. CASE j = l.champion /\ j # id
        BY <2>1, <3>2, NoneIsNoId DEF IdsTaken
      <3>3. CASE j # l.champion /\ j # id
        BY <2>2, <2>3, <3>3 DEF IdsTaken, Known
      <3> QED
        BY <3>1, <3>2, <3>3
    <2> QED
      BY <1>2, <1>6, <2>3 DEF IdsTaken
  <1> QED
    BY <1>1, <1>2, <1>5, <1>6, <1>7, <1>8, <1>9

LEMMA RefuseKeeps ==
    ASSUME NEW l \in Lineages, NEW id \in Ids, Explained(l), IdsTaken(l)
    PROVE  /\ Refuse(l, id) \in Lineages /\ Explained(Refuse(l, id)) /\ IdsTaken(Refuse(l, id))
           /\ Last(Refuse(l, id).events) = Event("Refused", id, None)
           /\ Refuse(l, id).champion = l.champion
  <1>1. /\ Refuse(l, id) \in Lineages /\ Refuse(l, id).champion = l.champion
        /\ Refuse(l, id).status = l.status /\ Refuse(l, id).next_id = l.next_id
        /\ Refuse(l, id).events = Append(l.events, Event("Refused", id, None))
    BY RefuseFields
  <1>2. Explained(Refuse(l, id))
    BY RefuseExplained
  <1>3. IdsTaken(Refuse(l, id))
    BY <1>1 DEF IdsTaken, Known
  <1>4. Last(Refuse(l, id).events) = Event("Refused", id, None)
    <2>1. Event("Refused", id, None) \in Events /\ l.events \in Seq(Events)
      BY EventTyped DEF EventKinds, Lineages
    <2> QED
      BY <1>1, <2>1, LastEvent
  <1> QED
    BY <1>1, <1>2, <1>3, <1>4

(* demote_champion() returns authority to a retired generation. *)
LEMMA DemoteKeeps ==
    ASSUME NEW l \in Lineages, NEW store, Explained(l), IdsTaken(l), MayDemote(l, store)
    PROVE  \E t \in Ids :
             /\ DemoteChampion(l, store) = ApplyDemotion(l, l.champion, t)
             /\ l.champion \in Ids /\ l.status[t] = "Retired" /\ t # l.champion
             /\ DemoteChampion(l, store) \in Lineages
             /\ Explained(DemoteChampion(l, store)) /\ IdsTaken(DemoteChampion(l, store))
             /\ DemoteChampion(l, store).champion = t
             /\ DemoteChampion(l, store).events
                   = Append(l.events, Event("Demoted", l.champion, t))
             /\ Last(DemoteChampion(l, store).events) = Event("Demoted", l.champion, t)
  <1>1. l.champion \in Ids /\ HasFallback(l, store)
    BY DEF MayDemote, Lineages
  <1>2. PICK t \in Ids : t = FallbackTarget(l, store) /\ l.status[t] = "Retired"
    BY <1>1, FallbackFits
  <1>3. PICK c \in Ids : c = l.champion
    BY <1>1
  <1>4. PICK l2 : l2 = ApplyDemotion(l, c, t)
    OBVIOUS
  <1>5. DemoteChampion(l, store) = l2
    BY <1>2, <1>3, <1>4 DEF DemoteChampion
  <1>6. l.status[c] = "Champion" /\ t # c
    BY <1>2, <1>3 DEF Explained
  <1>7. /\ l2 \in Lineages /\ l2.champion = t /\ l2.next_id = l.next_id
        /\ l2.events = Append(l.events, Event("Demoted", c, t))
    BY <1>4, DemotionFields
  <1>8. \A i \in Ids : l2.status[i] =
           IF i = t THEN "Champion" ELSE IF i = c THEN "Quarantined" ELSE l.status[i]
    <2>1. \A i \in Ids : ApplyDemotion(l, c, t).status[i] =
             IF i = t THEN "Champion" ELSE IF i = c THEN "Quarantined" ELSE l.status[i]
      BY DemotionFields
    <2> QED
      BY <1>4, <2>1
  <1>9. Explained(l2)
    BY <1>2, <1>3, <1>4, <1>6, DemotionExplained
  <1>10. IdsTaken(l2)
    BY <1>2, <1>6, <1>7, <1>8 DEF IdsTaken, Known
  <1>11. Last(l2.events) = Event("Demoted", c, t)
    <2>1. Event("Demoted", c, t) \in Events /\ l.events \in Seq(Events)
      BY EventTyped DEF EventKinds, Lineages
    <2> QED
      BY <1>7, <2>1, LastEvent
  <1> QED
    BY <1>2, <1>3, <1>4, <1>5, <1>6, <1>7, <1>9, <1>10, <1>11

LEMMA ApprovedIsMeasured ==
    ASSUME NEW g, NEW id, NEW chal, NEW l, NEW n, NEW st,
           Adjudicate(g, id, chal, l, n, st) = {}
    PROVE  HasHeldout(chal)
  BY DEF Adjudicate, CheckEvidence

-----------------------------------------------------------------------------
(* Types.                                                                    *)

LEMMA SupervisorTyped ==
    /\ NewSupervisor(0) \in Supervisors
    /\ \A s \in Supervisors, sample \in HealthSamples : Push(s, sample) \in Supervisors
  <1>1. NewSupervisor(0) \in Supervisors
    BY DEF NewSupervisor, Supervisors, Tally
  <1>2. ASSUME NEW s \in Supervisors, NEW sample \in HealthSamples
        PROVE  Push(s, sample) \in Supervisors
    <2>1. sample \in Samples(Int)
      BY RunnerAssumption
    <2>2. sample.success \in BOOLEAN /\ sample.heldout \in Int \cup {NoScore}
            /\ sample.optimized \in Int \cup {NoScore}
      BY <2>1 DEF Samples
    <2>3. \A t \in Tally, x \in Int \cup {NoScore} : Count(t, x) \in Tally
      BY DEF Tally, Count
    <2>4. PICK h, o : h = Count(s.heldout, sample.heldout) /\ o = Count(s.optimized, sample.optimized)
      OBVIOUS
    <2>5. h \in Tally /\ o \in Tally
      BY <2>2, <2>3, <2>4 DEF Supervisors
    <2>6. PICK n, f : n = s.observed + 1
                        /\ f = IF sample.success THEN s.failures ELSE s.failures + 1
      OBVIOUS
    <2>7. n \in Nat /\ f \in Nat
      BY <2>2, <2>6 DEF Supervisors
    <2>8. Push(s, sample) = [s EXCEPT !.observed = n, !.failures = f, !.heldout = h,
                                      !.optimized = o]
      BY <2>4, <2>6 DEF Push
    <2> QED
      BY <2>5, <2>7, <2>8 DEF Supervisors
  <1> QED
    BY <1>1, <1>2

-----------------------------------------------------------------------------
(* What every step keeps: the journal replays to a sound lineage, the live   *)
(* lineage accounts for its authority and for its ids, and an event that is  *)
(* not yet on disk is the last one of the live lineage.                      *)

Proposing == {"proposed", "evaluated", "calibrated", "adjudicated"}

Logged == \E S : journal \in Seq(S)

LiveSound ==
    /\ Explained(lin) /\ IdsTaken(lin)
    /\ pc \in Proposing => cand.id \in Ids /\ cand.id < lin.next_id /\ ~Known(lin, cand.id)
    /\ pc = "proposed" => cand.generation.measured \in Measurements
    /\ (pc = "adjudicated" /\ cand.approved) \/ pc = "promoted" => HasHeldout(cand.generation)
    /\ pc \in {"granted", "supervise", "failing"} => lin.champion # None

EventPending ==
    /\ pc = "refused" => cand.id \in Ids /\ Last(lin.events) = Event("Refused", cand.id, None)
    /\ pc = "promoted" =>
         /\ cand.id \in Ids /\ lin.champion = cand.id
         /\ \E o \in Ids \cup {None} : Last(lin.events) = Event("Promoted", cand.id, o)
    /\ pc = "demoted" => \E c, t \in Ids : Last(lin.events) = Event("Demoted", c, t)

Sound ==
    /\ TypeOK /\ Logged
    /\ ReplaySound(disk)
    /\ LiveSound /\ EventPending

(* What one append does to a journal. *)
LEMMA JournalGrows ==
    ASSUME NEW j, \E S : j \in Seq(S), NEW e
    PROVE  /\ \E S : Append(j, e) \in Seq(S)
           /\ Len(j) \in Nat /\ Len(Append(j, e)) = Len(j) + 1
           /\ \A p \in 1 .. Len(j) : Append(j, e)[p] = j[p]
           /\ Append(j, e)[Len(j) + 1] = e
  <1>1. PICK S : j \in Seq(S)
    OBVIOUS
  <1>2. j \in Seq(S \cup {e})
    BY <1>1
  <1>3. PICK R : R = S \cup {e}
    OBVIOUS
  <1>4. j \in Seq(R) /\ e \in R
    BY <1>2, <1>3
  <1>5. /\ Append(j, e) \in Seq(R)
        /\ Len(j) \in Nat /\ Len(Append(j, e)) = Len(j) + 1
        /\ \A p \in 1 .. Len(j) : Append(j, e)[p] = j[p]
        /\ Append(j, e)[Len(j) + 1] = e
    BY <1>4
  <1> QED
    BY <1>5

(* A write that fails changes nothing on disk. *)
LEMMA WriteSound ==
    ASSUME NEW e, NEW ok \in BOOLEAN, RunEntry(e), Logged, ReplaySound(disk), faults \in Nat,
           Write(e, ok)
    PROVE  ReplaySound(disk') /\ Logged' /\ faults' \in Nat
  <1>1. /\ faults' = IF ok THEN faults ELSE faults + 1
        /\ journal' = IF ok THEN Append(journal, e) ELSE journal
        /\ disk' = IF ok THEN ReplayEntry(disk, e) ELSE disk
    BY DEF Write
  <1>2. faults' \in Nat
    BY <1>1
  <1>3. ReplaySound(ReplayEntry(disk, e))
    BY EntrySound
  <1>4. ReplaySound(disk')
    BY <1>1, <1>3
  <1>5. \E S : journal' \in Seq(S)
    <2>1. \E S : journal \in Seq(S)
      BY DEF Logged
    <2>2. \E S : Append(journal, e) \in Seq(S)
      BY <2>1, JournalGrows
    <2> QED
      BY <1>1, <2>1, <2>2
  <1> QED
    BY <1>2, <1>4, <1>5 DEF Logged

(* A Note is on disk and replays to nothing. *)
LEMMA NoteKeeps ==
    ASSUME NEW ok \in BOOLEAN, Write(Note, ok)
    PROVE  disk' = disk
  <1>1. ReplayEntry(disk, Note) = disk
    BY ReplayRules
  <1> QED
    BY <1>1 DEF Write

(* Where no cycle is open and no event is pending, the lineage is enough. *)
Quiet == {"start", "cycle", "stalled", "failed", "halted", "down"}

LEMMA QuietSound ==
    ASSUME Explained(lin'), IdsTaken(lin'), pc' \in Quiet
    PROVE  LiveSound' /\ EventPending'
  BY DEF LiveSound, EventPending, Quiet, Proposing

LEMMA InitSound == Init => Sound
  <1> SUFFICES ASSUME Init PROVE Sound
    OBVIOUS
  <1>1. lin = Genesis /\ Explained(lin) /\ IdsTaken(lin) /\ lin \in Lineages
    BY GenesisAssumption DEF Init
  <1>2. NewSupervisor(0) \in Supervisors
    BY SupervisorTyped
  <1>3. NoCycle \in [id : Ids \cup {None}, generation : Generations, approved : BOOLEAN]
    BY DEF NoCycle, NewGeneration, Generations
  <1>4. NoRecord \in [samples : Nat, total : Nat]
    BY DEF NoRecord
  <1>5. NoReport \in [halt : Halts \cup {"Running"}, head : Nat]
    BY DEF NoReport
  <1>6. TypeOK
    BY <1>1, <1>2, <1>3, <1>4, <1>5, RunnerAssumption DEF Init, TypeOK, Points
  <1>7. Logged
    <2>1. <<>> \in Seq({})
      OBVIOUS
    <2> QED
      BY <2>1 DEF Logged, Init
  <1>8. ReplaySound(disk)
    <2>1. disk = ReplayStart(lin)
      BY DEF Init
    <2>2. disk \in Resumes /\ disk.lin = lin /\ \A i \in Ids : disk.pending[i] = None
      BY <1>1, <1>4, <2>1 DEF ReplayStart, Resumes
    <2> QED
      BY <1>1, <2>2 DEF ReplaySound
  <1>9. LiveSound /\ EventPending
    BY <1>1 DEF LiveSound, EventPending, Proposing, Init
  <1> QED
    BY <1>6, <1>7, <1>8, <1>9 DEF Sound

(* The steps that only note something, or end a run or a cycle. *)
LEMMA NotedSound ==
    ASSUME Sound, NEW ok \in BOOLEAN,
           \/ Open(ok) \/ Finish(ok) \/ WorkloadFails(ok) \/ Stall(ok)
           \/ \E store \in SUBSET Artifacts : NoFallback(store, ok)
    PROVE  Sound'
  <1>1. Write(Note, ok) /\ lin' = lin /\ pc' \in {"cycle", "halted"}
    BY DEF Open, Finish, WorkloadFails, Stall, NoFallback, Halt, memory
  <1>2. ReplaySound(disk') /\ Logged' /\ faults' \in Nat
    <2>1. RunEntry(Note)
      BY DEF RunEntry
    <2> QED
      BY <1>1, <2>1, WriteSound DEF Sound, TypeOK
  <1>3. Explained(lin') /\ IdsTaken(lin')
    BY <1>1 DEF Sound, LiveSound
  <1>4. LiveSound' /\ EventPending'
    BY <1>1, <1>3, QuietSound DEF Quiet
  <1>5. Len(journal') \in Nat
    BY <1>2 DEF Logged
  <1>6. report' \in [halt : Halts \cup {"Running"}, head : Nat]
    BY <1>5 DEF Open, Finish, WorkloadFails, Stall, NoFallback, Halt, Halts, memory, Sound, TypeOK
  <1>7. TypeOK'
    BY <1>1, <1>2, <1>6 DEF Open, Finish, WorkloadFails, Stall, NoFallback, Halt, memory,
       Sound, TypeOK, Points
  <1> QED
    BY <1>2, <1>4, <1>7 DEF Sound

LEMMA RefuseCycleSound ==
    ASSUME Sound, NEW ok \in BOOLEAN, RefuseCycle(ok)
    PROVE  Sound'
  <1>1. Write(CycleRefused, ok) /\ lin' = lin /\ pc' \in {"cycle", "stalled", "failed"}
    BY DEF RefuseCycle, NextCycle, Fail
  <1>2. ReplaySound(disk') /\ Logged' /\ faults' \in Nat
    <2>1. RunEntry(CycleRefused)
      BY DEF RunEntry
    <2> QED
      BY <1>1, <2>1, WriteSound DEF Sound, TypeOK
  <1>3. LiveSound' /\ EventPending'
    BY <1>1, QuietSound DEF Quiet, Sound, LiveSound
  <1>4. index' \in Nat /\ refusals' \in Nat
    BY DEF RefuseCycle, NextCycle, Sound, TypeOK
  <1>5. TypeOK'
    BY <1>1, <1>2, <1>4 DEF RefuseCycle, Sound, TypeOK, Points
  <1> QED
    BY <1>2, <1>3, <1>5 DEF Sound

(* Measured first, then given the next id. *)
LEMMA ProposeSound ==
    ASSUME Sound, NEW ok \in BOOLEAN, NEW p \in Population(lin) \cup {lin.champion},
           NEW a \in Artifacts, NEW m \in Evidence, ProposeCandidate(p, a, m, ok)
    PROVE  Sound'
  <1>1. PICK g : g = [parent |-> p, artifact |-> a, measured |-> m]
    OBVIOUS
  <1>2. g \in Generations
    BY <1>1, RunnerAssumption DEF Sound, TypeOK, Population, Lineages, Generations
  <1>3. /\ lin \in Lineages /\ lin.next_id < MaxId /\ Explained(lin) /\ IdsTaken(lin)
        /\ lin' = TakeId(lin)
    BY DEF Sound, TypeOK, LiveSound, ProposeCandidate
  <1>4. /\ lin' \in Lineages /\ Explained(lin') /\ IdsTaken(lin')
        /\ lin.next_id \in Ids /\ lin'.next_id = lin.next_id + 1 /\ ~Known(lin', lin.next_id)
    BY <1>3, TakeIdKeeps
  <1>5. PICK id \in Ids : id = lin.next_id
    BY <1>4
  <1>6. /\ Write(Proposed(id, g), ok)
        /\ cand' = [id |-> id, generation |-> g, approved |-> FALSE]
        /\ pc' \in {"proposed", "failed"}
    BY <1>1, <1>5 DEF ProposeCandidate, Fail
  <1>7. ReplaySound(disk') /\ Logged' /\ faults' \in Nat
    <2>1. RunEntry(Proposed(id, g))
      BY <1>2 DEF RunEntry
    <2> QED
      BY <1>6, <2>1, WriteSound DEF Sound, TypeOK
  <1>8. cand'.id = id /\ cand'.approved = FALSE
        /\ cand' \in [id : Ids \cup {None}, generation : Generations, approved : BOOLEAN]
    BY <1>2, <1>6
  <1>9. LiveSound' /\ EventPending'
    <2>1. id < lin'.next_id /\ ~Known(lin', id)
      BY <1>3, <1>4, <1>5 DEF Lineages
    <2>2. cand'.generation.measured \in Measurements
      BY <1>1, <1>6, RunnerAssumption
    <2> QED
      BY <1>4, <1>6, <1>8, <2>1, <2>2 DEF LiveSound, EventPending, Proposing
  <1>10. TypeOK'
    BY <1>4, <1>6, <1>7, <1>8 DEF ProposeCandidate, Sound, TypeOK, Points
  <1> QED
    BY <1>7, <1>9, <1>10 DEF Sound

(* The open cycle records what it has. *)
LEMMA EvaluateSound ==
    ASSUME Sound, NEW ok \in BOOLEAN, EvaluateCandidate(ok)
    PROVE  Sound'
  <1>1. PICK id \in Ids : id = cand.id
    BY DEF EvaluateCandidate, Sound, LiveSound, Proposing
  <1>2. PICK m \in Measurements : m = cand.generation.measured
    BY DEF EvaluateCandidate, Sound, LiveSound
  <1>3. Write(Evaluated(id, m), ok) /\ pc' \in {"evaluated", "failed"} /\ lin' = lin /\ cand' = cand
    BY <1>1, <1>2 DEF EvaluateCandidate, Fail, memory
  <1>4. ReplaySound(disk') /\ Logged' /\ faults' \in Nat
    <2>1. RunEntry(Evaluated(id, m))
      BY DEF RunEntry
    <2> QED
      BY <1>3, <2>1, WriteSound DEF Sound, TypeOK
  <1>5. LiveSound' /\ EventPending'
    BY <1>3 DEF EvaluateCandidate, Sound, LiveSound, EventPending, Proposing
  <1>6. TypeOK'
    BY <1>3, <1>4 DEF EvaluateCandidate, memory, Sound, TypeOK, Points
  <1> QED
    BY <1>4, <1>5, <1>6 DEF Sound

(* The record of the proposer counts the score, written or not. *)
LEMMA CalibrateSound ==
    ASSUME Sound, NEW ok \in BOOLEAN, NEW score \in Scores, Calibrate(score, ok)
    PROVE  Sound'
  <1>1. PICK r : r = Scored(record, score)
    OBVIOUS
  <1>2. r \in [samples : Nat, total : Nat] /\ Trust(r) \in [samples : Nat, total : Nat]
    BY <1>1, RunnerAssumption DEF Scored, Trust, Sound, TypeOK
  <1>3. PICK trust \in [samples : Nat, total : Nat] : trust = Trust(r)
    BY <1>2
  <1>4. /\ record' = r /\ Write(Calibrated(score, trust), ok)
        /\ pc' = "calibrated" /\ lin' = lin /\ cand' = cand
    BY <1>1, <1>3 DEF Calibrate, memory, Trust
  <1>5. ReplaySound(disk') /\ Logged' /\ faults' \in Nat
    <2>1. RunEntry(Calibrated(score, trust))
      BY RunnerAssumption DEF RunEntry
    <2> QED
      BY <1>4, <2>1, WriteSound DEF Sound, TypeOK
  <1>6. LiveSound' /\ EventPending'
    BY <1>4 DEF Calibrate, Sound, LiveSound, EventPending, Proposing
  <1>7. TypeOK'
    BY <1>2, <1>4, <1>5 DEF Calibrate, memory, Sound, TypeOK, Points
  <1> QED
    BY <1>5, <1>6, <1>7 DEF Sound

(* An approved challenger has held-out evidence. *)
LEMMA AdjudicateSound ==
    ASSUME Sound, NEW ok \in BOOLEAN, NEW n \in 0 .. ShadowRuns, NEW store \in SUBSET Artifacts,
           AdjudicateCandidate(n, store, ok)
    PROVE  Sound'
  <1>1. PICK b \in BOOLEAN : b = (Adjudicate(RegisteredGate, cand.id, cand.generation, lin, n,
                                             store) = {})
    OBVIOUS
  <1>2. PICK id \in Ids : id = cand.id
    BY DEF AdjudicateCandidate, Sound, LiveSound, Proposing
  <1>3. /\ Write(Adjudicated(id, b), ok) /\ cand' = [cand EXCEPT !.approved = b]
        /\ pc' \in {"adjudicated", "failed"} /\ lin' = lin
    BY <1>1, <1>2 DEF AdjudicateCandidate, Fail
  <1>4. /\ cand' \in [id : Ids \cup {None}, generation : Generations, approved : BOOLEAN]
        /\ cand'.id = cand.id /\ cand'.generation = cand.generation /\ cand'.approved = b
    BY <1>3 DEF Sound, TypeOK
  <1>5. ReplaySound(disk') /\ Logged' /\ faults' \in Nat
    <2>1. RunEntry(Adjudicated(id, b))
      BY DEF RunEntry
    <2> QED
      BY <1>3, <2>1, WriteSound DEF Sound, TypeOK
  <1>6. cand'.approved => HasHeldout(cand'.generation)
    BY <1>1, <1>4, ApprovedIsMeasured
  <1>7. LiveSound' /\ EventPending'
    BY <1>3, <1>4, <1>6 DEF AdjudicateCandidate, Sound, LiveSound, EventPending, Proposing
  <1>8. TypeOK'
    BY <1>3, <1>4, <1>5 DEF AdjudicateCandidate, Sound, TypeOK, Points
  <1> QED
    BY <1>5, <1>7, <1>8 DEF Sound

(* The lineage moves first; the event it appends is still to be written. *)
LEMMA CommitSound ==
    ASSUME Sound, Commit
    PROVE  Sound'
  <1>1. PICK id \in Ids, g \in Generations :
           id = cand.id /\ g = cand.generation /\ id < lin.next_id /\ ~Known(lin, id)
    BY DEF Commit, Sound, LiveSound, Proposing, TypeOK
  <1>2. lin \in Lineages /\ Explained(lin) /\ IdsTaken(lin)
    BY DEF Sound, LiveSound, TypeOK
  <1>3. ReplaySound(disk') /\ Logged' /\ faults' \in Nat /\ cand' = cand
    BY DEF Commit, Sound, TypeOK, ReplaySound, Logged
  <1>4. CASE cand.approved
    <2>1. lin' = Promote(Add(lin, id, g), Approval(id, lin)) /\ pc' = "promoted"
      BY <1>1, <1>4 DEF Commit
    <2>2. /\ lin' \in Lineages /\ Explained(lin') /\ IdsTaken(lin') /\ lin'.champion = id
          /\ Last(lin'.events) = Event("Promoted", id, lin.champion)
      BY <1>1, <1>2, <2>1, CommitKeeps
    <2>3. lin.champion \in Ids \cup {None}
      BY <1>2 DEF Lineages
    <2>4. LiveSound' /\ EventPending'
      BY <1>1, <1>3, <1>4, <2>1, <2>2, <2>3 DEF Commit, Sound, LiveSound, EventPending, Proposing
    <2>5. TypeOK'
      BY <1>3, <2>1, <2>2 DEF Commit, Sound, TypeOK, Points
    <2> QED
      BY <1>3, <2>4, <2>5 DEF Sound
  <1>5. CASE ~cand.approved
    <2>1. lin' = Refuse(lin, id) /\ pc' = "refused"
      BY <1>1, <1>5 DEF Commit
    <2>2. /\ lin' \in Lineages /\ Explained(lin') /\ IdsTaken(lin')
          /\ Last(lin'.events) = Event("Refused", id, None)
      BY <1>2, <2>1, RefuseKeeps
    <2>3. LiveSound' /\ EventPending'
      BY <1>1, <1>3, <2>1, <2>2 DEF LiveSound, EventPending, Proposing
    <2>4. TypeOK'
      BY <1>3, <2>1, <2>2 DEF Commit, Sound, TypeOK, Points
    <2> QED
      BY <1>3, <2>3, <2>4 DEF Sound
  <1> QED
    BY <1>4, <1>5

(* The pending event is an entry of the run. *)
LEMMA PendingEntry ==
    ASSUME Sound, pc \in {"refused", "promoted", "demoted"}
    PROVE  RunEntry(Succession(Last(lin.events)))
  <1>1. CASE pc = "refused"
    BY <1>1 DEF Sound, EventPending, RunEntry
  <1>2. CASE pc = "promoted"
    BY <1>2 DEF Sound, EventPending, RunEntry
  <1>3. CASE pc = "demoted"
    BY <1>3 DEF Sound, EventPending, RunEntry
  <1> QED
    BY <1>1, <1>2, <1>3

LEMMA JournalRefusalSound ==
    ASSUME Sound, NEW ok \in BOOLEAN, JournalRefusal(ok)
    PROVE  Sound'
  <1>1. PICK e : e = Succession(Last(lin.events))
    OBVIOUS
  <1>2. Write(e, ok) /\ lin' = lin /\ pc' \in {"cycle", "stalled"}
    BY <1>1 DEF JournalRefusal, NextCycle
  <1>3. ReplaySound(disk') /\ Logged' /\ faults' \in Nat
    <2>1. RunEntry(e)
      BY <1>1, PendingEntry DEF JournalRefusal
    <2> QED
      BY <1>2, <2>1, WriteSound DEF Sound, TypeOK
  <1>4. LiveSound' /\ EventPending'
    BY <1>2, QuietSound DEF Quiet, Sound, LiveSound
  <1>5. index' \in Nat /\ refusals' \in Nat
    BY DEF JournalRefusal, NextCycle, Sound, TypeOK
  <1>6. TypeOK'
    BY <1>2, <1>3, <1>5 DEF JournalRefusal, Sound, TypeOK, Points
  <1> QED
    BY <1>3, <1>4, <1>6 DEF Sound

LEMMA JournalPromotionSound ==
    ASSUME Sound, NEW ok \in BOOLEAN, JournalPromotion(ok)
    PROVE  Sound'
  <1>1. PICK e : e = Succession(Last(lin.events))
    OBVIOUS
  <1>2. Write(e, ok) /\ lin' = lin /\ pc' \in {"granted", "failed"}
    BY <1>1 DEF JournalPromotion, Fail, memory
  <1>3. ReplaySound(disk') /\ Logged' /\ faults' \in Nat
    <2>1. RunEntry(e)
      BY <1>1, PendingEntry DEF JournalPromotion
    <2> QED
      BY <1>2, <2>1, WriteSound DEF Sound, TypeOK
  <1>4. LiveSound' /\ EventPending'
    BY <1>2, NoneIsNoId DEF JournalPromotion, Sound, LiveSound, EventPending, Proposing
  <1>5. TypeOK'
    BY <1>2, <1>3 DEF JournalPromotion, memory, Sound, TypeOK, Points
  <1> QED
    BY <1>3, <1>4, <1>5 DEF Sound

LEMMA JournalGrantSound ==
    ASSUME Sound, NEW ok \in BOOLEAN, JournalGrant(ok)
    PROVE  Sound'
  <1>1. Write(Note, ok) /\ lin' = lin /\ pc' \in {"supervise", "failed"}
    BY DEF JournalGrant, Fail
  <1>2. ReplaySound(disk') /\ Logged' /\ faults' \in Nat
    <2>1. RunEntry(Note)
      BY DEF RunEntry
    <2> QED
      BY <1>1, <2>1, WriteSound DEF Sound, TypeOK
  <1>3. sup' \in Supervisors
    BY SupervisorTyped DEF JournalGrant, Sound, TypeOK
  <1>4. LiveSound' /\ EventPending'
    BY <1>1 DEF JournalGrant, Sound, LiveSound, EventPending, Proposing
  <1>5. TypeOK'
    BY <1>1, <1>2, <1>3 DEF JournalGrant, Sound, TypeOK, Points
  <1> QED
    BY <1>2, <1>4, <1>5 DEF Sound

(* A failure is recorded, or the window ends, or supervision goes on. *)
LEMMA ObserveSound ==
    ASSUME Sound, NEW ok \in BOOLEAN, NEW sample \in HealthSamples, Observe(sample, ok)
    PROVE  Sound'
  <1>1. PICK c \in Ids : c = lin.champion
    BY DEF Observe, Sound, LiveSound, TypeOK, Lineages
  <1>2. /\ \/ Write(Failure(c), ok) /\ pc' = "failing"
           \/ journal' = journal /\ disk' = disk /\ faults' = faults
                /\ pc' \in {"cycle", "stalled", "supervise"}
        /\ lin' = lin
    BY <1>1 DEF Observe, NextCycle
  <1>3. ReplaySound(disk') /\ Logged' /\ faults' \in Nat
    <2>1. RunEntry(Failure(c))
      BY DEF RunEntry
    <2>2. CASE Write(Failure(c), ok)
      BY <2>1, <2>2, WriteSound DEF Sound, TypeOK
    <2>3. CASE journal' = journal /\ disk' = disk /\ faults' = faults
      BY <2>3 DEF Sound, TypeOK, ReplaySound, Logged
    <2> QED
      BY <1>2, <2>2, <2>3
  <1>4. LiveSound' /\ EventPending'
    BY <1>2 DEF Observe, Sound, LiveSound, EventPending, Proposing
  <1>5. sup' \in Supervisors
    BY SupervisorTyped DEF Observe, Sound, TypeOK
  <1>6. index' \in Nat /\ refusals' \in Nat /\ validated' \subseteq Ids
    BY <1>1 DEF Observe, NextCycle, Sound, TypeOK
  <1>7. TypeOK'
    BY <1>2, <1>3, <1>5, <1>6 DEF Observe, Sound, TypeOK, Points
  <1> QED
    BY <1>3, <1>4, <1>7 DEF Sound

LEMMA DemoteFailedSound ==
    ASSUME Sound, NEW store \in SUBSET Artifacts, DemoteFailed(store)
    PROVE  Sound'
  <1>1. lin \in Lineages /\ Explained(lin) /\ IdsTaken(lin) /\ MayDemote(lin, store)
    BY DEF Sound, LiveSound, TypeOK, DemoteFailed
  <1>2. lin' = DemoteChampion(lin, store) /\ pc' = "demoted"
    BY DEF DemoteFailed
  <1>3. /\ lin' \in Lineages /\ Explained(lin') /\ IdsTaken(lin')
        /\ \E c, t \in Ids : Last(lin'.events) = Event("Demoted", c, t)
    <2>1. \E t \in Ids :
             /\ lin.champion \in Ids
             /\ DemoteChampion(lin, store) \in Lineages
             /\ Explained(DemoteChampion(lin, store)) /\ IdsTaken(DemoteChampion(lin, store))
             /\ Last(DemoteChampion(lin, store).events) = Event("Demoted", lin.champion, t)
      BY <1>1, DemoteKeeps
    <2> QED
      BY <1>2, <2>1
  <1>4. ReplaySound(disk') /\ Logged' /\ faults' \in Nat
    BY DEF DemoteFailed, Sound, TypeOK, ReplaySound, Logged
  <1>5. LiveSound' /\ EventPending'
    BY <1>2, <1>3 DEF LiveSound, EventPending, Proposing
  <1>6. TypeOK'
    BY <1>2, <1>3, <1>4 DEF DemoteFailed, Sound, TypeOK, Points
  <1> QED
    BY <1>4, <1>5, <1>6 DEF Sound

LEMMA JournalDemotionSound ==
    ASSUME Sound, NEW ok \in BOOLEAN, JournalDemotion(ok)
    PROVE  Sound'
  <1>1. PICK e : e = Succession(Last(lin.events))
    OBVIOUS
  <1>2. Write(e, ok) /\ lin' = lin /\ pc' = "halted"
    BY <1>1 DEF JournalDemotion, Halt
  <1>3. ReplaySound(disk') /\ Logged' /\ faults' \in Nat
    <2>1. RunEntry(e)
      BY <1>1, PendingEntry DEF JournalDemotion
    <2> QED
      BY <1>2, <2>1, WriteSound DEF Sound, TypeOK
  <1>4. LiveSound' /\ EventPending'
    BY <1>2, QuietSound DEF Quiet, Sound, LiveSound
  <1>5. Len(journal') \in Nat
    BY <1>3 DEF Logged
  <1>6. report' \in [halt : Halts \cup {"Running"}, head : Nat]
    BY <1>5 DEF JournalDemotion, Halt, Halts
  <1>7. TypeOK'
    BY <1>2, <1>3, <1>6 DEF JournalDemotion, Sound, TypeOK, Points
  <1> QED
    BY <1>3, <1>4, <1>7 DEF Sound

(* A restart takes the lineage replay has; a crash leaves none in memory. *)
LEMMA RestartSound ==
    ASSUME Sound, Crash \/ Resume
    PROVE  Sound'
  <1>1. NewSupervisor(0) \in Supervisors
    BY SupervisorTyped
  <1>2. NoCycle \in [id : Ids \cup {None}, generation : Generations, approved : BOOLEAN]
    BY DEF NoCycle, NewGeneration, Generations
  <1>3. NoRecord \in [samples : Nat, total : Nat]
    BY DEF NoRecord
  <1>4. NoReport \in [halt : Halts \cup {"Running"}, head : Nat]
    BY DEF NoReport
  <1>5. disk \in Resumes /\ Explained(disk.lin) /\ IdsTaken(disk.lin)
    BY DEF Sound, ReplaySound
  <1>6. /\ disk.lin \in Lineages /\ disk.proposals \in Nat /\ disk.trailing \in Nat
        /\ disk.record \in [samples : Nat, total : Nat]
    BY <1>5 DEF Resumes
  <1>7. ReplaySound(disk') /\ Logged' /\ faults' \in Nat
    BY DEF Crash, Resume, Sound, TypeOK, ReplaySound, Logged
  <1>8. /\ lin' \in Lineages /\ Explained(lin') /\ IdsTaken(lin')
        /\ pc' \in {"down", "start"}
    BY <1>5, <1>6, GenesisAssumption DEF Crash, Resume
  <1>9. LiveSound' /\ EventPending'
    BY <1>8, QuietSound DEF Quiet
  <1>10. {index', limit', refusals', restarts'} \subseteq Nat
    BY <1>6, RunnerAssumption DEF Crash, Resume, Sound, TypeOK
  <1>11. /\ record' \in [samples : Nat, total : Nat] /\ cand' = NoCycle
         /\ sup' = NewSupervisor(0) /\ report' = NoReport /\ validated' = validated
    BY <1>3, <1>6 DEF Crash, Resume
  <1>12. TypeOK'
    BY <1>1, <1>2, <1>4, <1>7, <1>8, <1>10, <1>11 DEF Sound, TypeOK, Points
  <1> QED
    BY <1>7, <1>9, <1>12 DEF Sound

LEMMA StutterSound ==
    ASSUME Sound, UNCHANGED vars
    PROVE  Sound'
  BY DEF Sound, TypeOK, Logged, ReplaySound, LiveSound, EventPending, vars, memory

LEMMA NextSound == Sound /\ [Next]_vars => Sound'
  <1> SUFFICES ASSUME Sound, [Next]_vars PROVE Sound'
    OBVIOUS
  <1>1. CASE Step
    <2>1. PICK ok \in BOOLEAN :
            \/ Open(ok) \/ Finish(ok) \/ WorkloadFails(ok) \/ RefuseCycle(ok)
            \/ \E p \in Population(lin) \cup {lin.champion}, a \in Artifacts, m \in Evidence :
                  ProposeCandidate(p, a, m, ok)
            \/ EvaluateCandidate(ok)
            \/ \E score \in Scores : Calibrate(score, ok)
            \/ \E n \in 0 .. ShadowRuns, store \in SUBSET Artifacts :
                  AdjudicateCandidate(n, store, ok)
            \/ Commit
            \/ JournalRefusal(ok) \/ JournalPromotion(ok) \/ JournalGrant(ok)
            \/ \E sample \in HealthSamples : Observe(sample, ok)
            \/ \E store \in SUBSET Artifacts : DemoteFailed(store)
            \/ \E store \in SUBSET Artifacts : NoFallback(store, ok)
            \/ JournalDemotion(ok) \/ Stall(ok)
      BY <1>1 DEF Step
    <2>2. CASE \/ Open(ok) \/ Finish(ok) \/ WorkloadFails(ok) \/ Stall(ok)
               \/ \E store \in SUBSET Artifacts : NoFallback(store, ok)
      BY <2>2, NotedSound
    <2>3. CASE RefuseCycle(ok)
      BY <2>3, RefuseCycleSound
    <2>4. CASE \E p \in Population(lin) \cup {lin.champion}, a \in Artifacts, m \in Evidence :
                  ProposeCandidate(p, a, m, ok)
      BY <2>4, ProposeSound
    <2>5. CASE EvaluateCandidate(ok)
      BY <2>5, EvaluateSound
    <2>6. CASE \E score \in Scores : Calibrate(score, ok)
      BY <2>6, CalibrateSound
    <2>7. CASE \E n \in 0 .. ShadowRuns, store \in SUBSET Artifacts :
                  AdjudicateCandidate(n, store, ok)
      BY <2>7, AdjudicateSound
    <2>8. CASE Commit
      BY <2>8, CommitSound
    <2>9. CASE JournalRefusal(ok)
      BY <2>9, JournalRefusalSound
    <2>10. CASE JournalPromotion(ok)
      BY <2>10, JournalPromotionSound
    <2>11. CASE JournalGrant(ok)
      BY <2>11, JournalGrantSound
    <2>12. CASE \E sample \in HealthSamples : Observe(sample, ok)
      BY <2>12, ObserveSound
    <2>13. CASE \E store \in SUBSET Artifacts : DemoteFailed(store)
      BY <2>13, DemoteFailedSound
    <2>14. CASE JournalDemotion(ok)
      BY <2>14, JournalDemotionSound
    <2> QED
      BY <2>1, <2>2, <2>3, <2>4, <2>5, <2>6, <2>7, <2>8, <2>9, <2>10, <2>11, <2>12, <2>13,
         <2>14
  <1>2. CASE Crash \/ Resume
    BY <1>2, RestartSound
  <1>3. CASE UNCHANGED vars
    BY <1>3, StutterSound
  <1> QED
    BY <1>1, <1>2, <1>3 DEF Next

(* Every reachable state of a run is sound, however appends fail and however *)
(* often the process dies.                                                   *)
THEOREM RunsAreSound == Spec => []Sound
  BY InitSound, NextSound, PTL DEF Spec

(* The state of a run and what it takes from its journal have their types.   *)
THEOREM RunnerTypeCorrect == Spec => []TypeOK
  <1>1. Sound => TypeOK
    BY DEF Sound
  <1> QED
    BY <1>1, RunsAreSound, PTL

-----------------------------------------------------------------------------
(* A step leaves the disk alone or appends one entry of the run to it, and   *)
(* each action has its own kind of entry.                                    *)

Wrote(e) == journal' = Append(journal, e) /\ disk' = ReplayEntry(disk, e)

Adds(kind) ==
    \/ journal' = journal /\ disk' = disk
    \/ \E e : RunEntry(e) /\ Wrote(e) /\ e.kind = kind

AddsEvent(event) ==
    \/ journal' = journal /\ disk' = disk
    \/ \E e : RunEntry(e) /\ Wrote(e) /\ e.kind = "Succession" /\ e.event.event = event

LEMMA OneWrite ==
    ASSUME NEW e, NEW ok, RunEntry(e), Write(e, ok)
    PROVE  \/ journal' = journal /\ disk' = disk
           \/ Wrote(e)
  BY DEF Write, Wrote

LEMMA NotesAdd ==
    ASSUME Sound, NEW ok \in BOOLEAN,
           \/ Open(ok) \/ Finish(ok) \/ WorkloadFails(ok) \/ Stall(ok) \/ JournalGrant(ok)
           \/ \E store \in SUBSET Artifacts : NoFallback(store, ok)
    PROVE  Adds("Note")
  <1>1. RunEntry(Note) /\ Write(Note, ok) /\ Note.kind = "Note"
    BY DEF RunEntry, Open, Finish, WorkloadFails, Stall, JournalGrant, NoFallback, Note
  <1> QED
    BY <1>1, OneWrite DEF Adds

LEMMA RefuseCycleAdds ==
    ASSUME Sound, NEW ok \in BOOLEAN, RefuseCycle(ok)
    PROVE  Adds("CycleRefused")
  <1>1. /\ RunEntry(CycleRefused) /\ Write(CycleRefused, ok)
        /\ CycleRefused.kind = "CycleRefused"
    BY DEF RunEntry, RefuseCycle, CycleRefused
  <1> QED
    BY <1>1, OneWrite DEF Adds

LEMMA ProposalAdds ==
    ASSUME Sound, NEW ok \in BOOLEAN, NEW p \in Population(lin) \cup {lin.champion},
           NEW a \in Artifacts, NEW m \in Evidence, ProposeCandidate(p, a, m, ok)
    PROVE  \/ journal' = journal /\ disk' = disk
           \/ \E e : /\ RunEntry(e) /\ Wrote(e) /\ e.kind = "Proposed"
                     /\ e.generation = lin.next_id /\ e.generation \in Ids
  <1>1. PICK g, id : g = [parent |-> p, artifact |-> a, measured |-> m] /\ id = lin.next_id
    OBVIOUS
  <1>2. g \in Generations
    BY <1>1, RunnerAssumption DEF Sound, TypeOK, Population, Lineages, Generations
  <1>3. id \in Ids
    BY <1>1, TakeIdKeeps DEF ProposeCandidate, Sound, TypeOK, LiveSound
  <1>4. RunEntry(Proposed(id, g)) /\ Write(Proposed(id, g), ok)
    BY <1>1, <1>2, <1>3 DEF RunEntry, ProposeCandidate
  <1>5. Proposed(id, g).kind = "Proposed" /\ Proposed(id, g).generation = id
    BY DEF Proposed
  <1> QED
    BY <1>1, <1>3, <1>4, <1>5, OneWrite

LEMMA EvaluationAdds ==
    ASSUME Sound, NEW ok \in BOOLEAN, EvaluateCandidate(ok)
    PROVE  \/ journal' = journal /\ disk' = disk
           \/ \E e : /\ RunEntry(e) /\ Wrote(e) /\ e.kind = "Evaluated"
                     /\ e.generation = cand.id
  <1>1. PICK id, m : id = cand.id /\ m = cand.generation.measured
    OBVIOUS
  <1>2. id \in Ids /\ m \in Measurements
    BY <1>1 DEF EvaluateCandidate, Sound, LiveSound, Proposing
  <1>3. RunEntry(Evaluated(id, m)) /\ Write(Evaluated(id, m), ok)
    BY <1>1, <1>2 DEF RunEntry, EvaluateCandidate
  <1>4. Evaluated(id, m).kind = "Evaluated" /\ Evaluated(id, m).generation = id
    BY DEF Evaluated
  <1> QED
    BY <1>1, <1>3, <1>4, OneWrite

LEMMA CalibrationAdds ==
    ASSUME Sound, NEW ok \in BOOLEAN, NEW score \in Scores, Calibrate(score, ok)
    PROVE  Adds("Calibrated")
  <1>1. PICK r, trust : r = Scored(record, score) /\ trust = Trust(r)
    OBVIOUS
  <1>2. trust \in [samples : Nat, total : Nat]
    BY <1>1, RunnerAssumption DEF Scored, Trust, Sound, TypeOK
  <1>3. Write(Calibrated(score, trust), ok)
    BY <1>1 DEF Calibrate, Trust
  <1>4. RunEntry(Calibrated(score, trust))
    BY <1>2, RunnerAssumption DEF RunEntry
  <1>5. Calibrated(score, trust).kind = "Calibrated"
    BY DEF Calibrated
  <1> QED
    BY <1>3, <1>4, <1>5, OneWrite DEF Adds

LEMMA VerdictAdds ==
    ASSUME Sound, NEW ok \in BOOLEAN, NEW n \in 0 .. ShadowRuns, NEW store \in SUBSET Artifacts,
           AdjudicateCandidate(n, store, ok)
    PROVE  \/ journal' = journal /\ disk' = disk
           \/ \E e : /\ RunEntry(e) /\ Wrote(e) /\ e.kind = "Adjudicated"
                     /\ e.generation = cand.id /\ e.approved = cand'.approved
  <1>1. PICK id, b : /\ id = cand.id
                     /\ b = (Adjudicate(RegisteredGate, cand.id, cand.generation, lin, n,
                                        store) = {})
    OBVIOUS
  <1>2. id \in Ids /\ b \in BOOLEAN
    BY <1>1 DEF AdjudicateCandidate, Sound, LiveSound, Proposing
  <1>3. Write(Adjudicated(id, b), ok) /\ cand'.approved = b
    BY <1>1 DEF AdjudicateCandidate, Sound, TypeOK
  <1>4. RunEntry(Adjudicated(id, b))
    BY <1>2 DEF RunEntry
  <1>5. /\ Adjudicated(id, b).kind = "Adjudicated" /\ Adjudicated(id, b).generation = id
        /\ Adjudicated(id, b).approved = b
    BY DEF Adjudicated
  <1> QED
    BY <1>1, <1>3, <1>4, <1>5, OneWrite

LEMMA EventAdds ==
    ASSUME Sound, NEW ok \in BOOLEAN
    PROVE  /\ JournalRefusal(ok) => AddsEvent("Refused")
           /\ JournalDemotion(ok) => AddsEvent("Demoted")
           /\ JournalPromotion(ok) =>
                \/ journal' = journal /\ disk' = disk
                \/ \E e : /\ RunEntry(e) /\ Wrote(e) /\ e.kind = "Succession"
                          /\ e.event.event = "Promoted" /\ e.event.generation = cand.id
  <1>1. PICK v, e : v = Last(lin.events) /\ e = Succession(v)
    OBVIOUS
  <1>2. e.kind = "Succession" /\ e.event = v
    BY <1>1 DEF Succession
  <1>3. ASSUME JournalRefusal(ok) \/ JournalDemotion(ok) \/ JournalPromotion(ok)
        PROVE  RunEntry(e) /\ (Wrote(e) \/ (journal' = journal /\ disk' = disk))
    <2>1. RunEntry(e)
      BY <1>1, <1>3, PendingEntry DEF JournalRefusal, JournalPromotion, JournalDemotion
    <2>2. Write(e, ok)
      BY <1>1, <1>3 DEF JournalRefusal, JournalPromotion, JournalDemotion
    <2> QED
      BY <2>1, <2>2, OneWrite
  <1>4. /\ JournalRefusal(ok) => v.event = "Refused"
        /\ JournalDemotion(ok) => v.event = "Demoted"
        /\ JournalPromotion(ok) => v.event = "Promoted" /\ v.generation = cand.id
    <2>1. \A k, i, o : Event(k, i, o).event = k /\ Event(k, i, o).generation = i
      BY DEF Event
    <2>2. JournalRefusal(ok) => v.event = "Refused"
      BY <1>1, <2>1 DEF JournalRefusal, Sound, EventPending
    <2>3. JournalDemotion(ok) => v.event = "Demoted"
      BY <1>1, <2>1 DEF JournalDemotion, Sound, EventPending
    <2>4. JournalPromotion(ok) => v.event = "Promoted" /\ v.generation = cand.id
      BY <1>1, <2>1 DEF JournalPromotion, Sound, EventPending
    <2> QED
      BY <2>2, <2>3, <2>4
  <1> QED
    BY <1>2, <1>3, <1>4 DEF AddsEvent

LEMMA ObservationAdds ==
    ASSUME Sound, NEW ok \in BOOLEAN, NEW sample \in HealthSamples, Observe(sample, ok)
    PROVE  \/ journal' = journal /\ disk' = disk
           \/ \E e : /\ RunEntry(e) /\ Wrote(e) /\ e.kind = "Failure"
                     /\ e.generation = lin.champion /\ pc' = "failing"
  <1>1. PICK c \in Ids : c = lin.champion
    BY DEF Observe, Sound, LiveSound, TypeOK, Lineages
  <1>2. (Write(Failure(c), ok) /\ pc' = "failing") \/ (journal' = journal /\ disk' = disk)
    BY <1>1 DEF Observe
  <1>3. RunEntry(Failure(c)) /\ Failure(c).kind = "Failure" /\ Failure(c).generation = c
    BY DEF RunEntry, Failure
  <1> QED
    BY <1>1, <1>2, <1>3, OneWrite

LEMMA QuietAdds ==
    ASSUME \/ Commit \/ \E store \in SUBSET Artifacts : DemoteFailed(store)
           \/ Crash \/ Resume \/ UNCHANGED vars
    PROVE  journal' = journal /\ disk' = disk
  BY DEF Commit, DemoteFailed, Crash, Resume, vars

LEMMA StepWrites ==
    ASSUME Sound, [Next]_vars
    PROVE  \/ journal' = journal /\ disk' = disk
           \/ \E e : RunEntry(e) /\ Wrote(e)
  BY NotesAdd, RefuseCycleAdds, ProposalAdds, EvaluationAdds, CalibrationAdds, VerdictAdds,
     EventAdds, ObservationAdds, QuietAdds DEF Next, Step, Adds, AddsEvent

(* Authority as the disk records it moves as module Authority promises:      *)
(* whatever is lost and whenever the process dies, no entry of a run grants  *)
(* authority to a generation that has failed, or takes it without a failure  *)
(* or an approved successor.                                                 *)
LEMMA DiskRefines ==
    ASSUME Sound, Sound', [Next]_vars
    PROVE  [DurableView!Next]_(DurableView!vars)
  <1> DEFINE Goal == [DurableView!Next]_(DurableView!vars)
  <1>1. ASSUME SameHolders(disk.lin, disk'.lin) PROVE Goal
    BY <1>1 DEF SameHolders, DurableView!vars, HeldIn, FallenIn
  <1>2. ASSUME Granted(disk.lin, disk'.lin) PROVE Goal
    BY <1>2 DEF Granted, DurableView!Next, DurableView!Grant, HeldIn, FallenIn
  <1>3. ASSUME FallenBack(disk.lin, disk'.lin) PROVE Goal
    BY <1>3, NoneIsNoId DEF FallenBack, DurableView!Next, DurableView!Demote, HeldIn, FallenIn
  <1> HIDE DEF Goal
  <1>4. ASSUME disk' = disk PROVE Goal
    BY <1>1, <1>4 DEF SameHolders
  <1>5. ASSUME \E e : RunEntry(e) /\ Wrote(e) PROVE Goal
    <2>1. PICK e : RunEntry(e) /\ disk' = ReplayEntry(disk, e)
      BY <1>5 DEF Wrote
    <2>2. PICK r, q : r = disk /\ q = disk'
      OBVIOUS
    <2>3. ReplaySound(r) /\ q = ReplayEntry(r, e)
      BY <2>1, <2>2 DEF Sound
    <2>4. SameHolders(r.lin, q.lin) \/ Granted(r.lin, q.lin) \/ FallenBack(r.lin, q.lin)
      BY <2>1, <2>3, EntryMoves
    <2> QED
      BY <1>1, <1>2, <1>3, <2>2, <2>4
  <1>6. Goal
    BY <1>4, <1>5, StepWrites
  <1> QED
    BY <1>6 DEF Goal

(* The durable authority implements Authority, crashes included.             *)
THEOREM DiskKeepsAuthority == Spec => DurableAuthority
  BY DiskRefines, RunsAreSound, PTL DEF Spec, DurableAuthority

-----------------------------------------------------------------------------
(* The head a run publishes is the end of its journal: once it has halted,   *)
(* nothing is written before the run is resumed.                             *)
LEMMA HeadsKeep ==
    ASSUME ReportAnchorsJournal, [Next]_vars
    PROVE  ReportAnchorsJournal'
  BY DEF ReportAnchorsJournal, Next, Step, Open, Finish, WorkloadFails, RefuseCycle,
     ProposeCandidate, EvaluateCandidate, Calibrate, AdjudicateCandidate, Commit, JournalRefusal,
     JournalPromotion, JournalGrant, Observe, DemoteFailed, NoFallback, JournalDemotion, Stall,
     Crash, Resume, Halt, Fail, NextCycle, vars, memory

(* A published head anchors the whole journal.                              *)
THEOREM ReportsAnchor == Spec => []ReportAnchorsJournal
  <1>1. Init => ReportAnchorsJournal
    BY DEF Init, ReportAnchorsJournal
  <1> QED
    BY <1>1, HeadsKeep, PTL DEF Spec

-----------------------------------------------------------------------------
(* Replay follows the live run.  In the steady states the lineage on disk    *)
(* agrees with the live one; where an event is pending, the live lineage is  *)
(* what replay will make of it.  A failed append leaves the two apart until  *)
(* the process dies, and only the event log may differ after a refusal.      *)

Agree(l, d) ==
    /\ l.order = d.order /\ l.data = d.data /\ l.status = d.status
    /\ l.champion = d.champion /\ l.next_id = d.next_id

Steady == {"start", "cycle", "refused", "granted", "supervise", "failing", "stalled"} \cup Proposing

Promoting ==
    /\ disk.pending[cand.id] = cand.generation
    /\ Last(lin.events) = Event("Promoted", cand.id, disk.lin.champion)
    /\ Agree(lin, Install(Add(disk.lin, cand.id, cand.generation), cand.id))

Demoting ==
    /\ disk.lin.champion \in Ids
    /\ \E t \in Ids :
          /\ disk.lin.status[t] = "Retired"
          /\ Last(lin.events) = Event("Demoted", disk.lin.champion, t)
          /\ Agree(lin, ApplyDemotion(disk.lin, disk.lin.champion, t))

Synced ==
    disk.ok =>
        /\ pc \in Steady => Agree(lin, disk.lin)
        /\ pc = "proposed" => disk.pending[cand.id] = Measured(cand.generation, None)
        /\ pc \in Proposing \ {"proposed"} => disk.pending[cand.id] = cand.generation
        /\ pc = "promoted" => Promoting
        /\ pc = "demoted" => Demoting

(* With no append lost, the event logs and the counters agree as well. *)
Faultless ==
    faults = 0 =>
        /\ pc # "failed"
        /\ pc # "down" /\ ~InFlight => disk.lin.events = lin.events
        /\ InFlight => lin.events = Append(disk.lin.events, Last(lin.events))
        /\ pc = "halted" => Agree(lin, disk.lin)
        /\ pc # "down" => disk.record = record
        /\ pc \in {"start", "cycle"} => disk.proposals = index /\ disk.trailing = refusals
        /\ pc \in Proposing \cup {"refused", "promoted"} =>
              disk.proposals = index + 1 /\ disk.trailing = refusals
        /\ pc \in {"granted", "supervise"} => disk.proposals = index + 1 /\ disk.trailing = 0

(* Trust is the one thing an entry carries that a lost entry makes wrong. *)
Rebuilt == Scores = {} \/ faults = 0 => disk.ok

Follows == Synced /\ Faultless /\ Rebuilt

(* The three ways an append may go. *)
LEMMA WriteCases ==
    ASSUME NEW e, NEW ok \in BOOLEAN, Write(e, ok), disk.ok \in BOOLEAN
    PROVE  \/ ~disk.ok /\ disk' = disk /\ faults' \in {faults, faults + 1}
           \/ disk.ok /\ ~ok /\ disk' = disk /\ faults' = faults + 1
           \/ disk.ok /\ ok /\ disk' = ReplayEntry(disk, e) /\ faults' = faults
  <1>1. ~disk.ok => ReplayEntry(disk, e) = disk
    BY ReplayRules
  <1> QED
    BY <1>1 DEF Write

(* A journal that does not replay stays that way, and owes nothing. *)
LEMMA StuckFollows ==
    ASSUME Follows, faults \in Nat, ~disk.ok, disk' = disk, faults' \in {faults, faults + 1}
    PROVE  Follows'
  BY DEF Follows, Synced, Faultless, Rebuilt

(* After a lost append only the shape of the lineage is owed. *)
LEMMA FaultFollows ==
    ASSUME Follows, faults \in Nat, disk' = disk, faults' = faults + 1, Synced'
    PROVE  Follows'
  BY DEF Follows, Faultless, Rebuilt

LEMMA OkTyped ==
    ASSUME Sound
    PROVE  /\ disk.ok \in BOOLEAN /\ faults \in Nat /\ disk \in Resumes
           /\ disk.lin \in Lineages /\ lin \in Lineages
           /\ disk.pending \in [Ids -> Generations \cup {None}]
  BY DEF Sound, TypeOK, ReplaySound, Resumes

(* A note changes nothing on disk, whether or not it is written. *)
LEMMA NotedFollows ==
    ASSUME Sound, Follows, NEW ok \in BOOLEAN,
           \/ Open(ok) \/ Finish(ok) \/ WorkloadFails(ok) \/ Stall(ok) \/ JournalGrant(ok)
           \/ \E store \in SUBSET Artifacts : NoFallback(store, ok)
    PROVE  Follows'
  <1>1. Write(Note, ok) /\ lin' = lin /\ cand' = cand /\ index' = index
          /\ refusals' = refusals /\ record' = record
    BY DEF Open, Finish, WorkloadFails, Stall, JournalGrant, NoFallback, memory
  <1>2. disk' = disk /\ faults' = (IF ok THEN faults ELSE faults + 1)
    BY <1>1, NoteKeeps DEF Write
  <1>3. \/ pc = "start" /\ pc' = "cycle"
        \/ pc \in {"cycle", "failed", "stalled", "failing"} /\ pc' = "halted"
        \/ pc = "granted" /\ ok /\ pc' = "supervise"
        \/ pc = "granted" /\ ~ok /\ pc' = "failed"
    BY DEF Open, Finish, WorkloadFails, Stall, JournalGrant, NoFallback, Halt, Fail
  <1>4. faults' = 0 => faults = 0 /\ ok
    BY <1>2, OkTyped
  <1>5. Synced'
    BY <1>1, <1>2, <1>3 DEF Follows, Synced, Steady, Proposing
  <1>6. Faultless'
    BY <1>1, <1>2, <1>3, <1>4 DEF Follows, Faultless, Rebuilt, Synced, Steady, Proposing, InFlight
  <1>7. Rebuilt'
    BY <1>2, <1>4 DEF Follows, Rebuilt
  <1> QED
    BY <1>5, <1>6, <1>7 DEF Follows

LEMMA RefuseCycleFollows ==
    ASSUME Sound, Follows, NEW ok \in BOOLEAN, RefuseCycle(ok)
    PROVE  Follows'
  <1>1. Write(CycleRefused, ok) /\ lin' = lin /\ cand' = cand /\ record' = record /\ pc = "cycle"
    BY DEF RefuseCycle
  <1>2. disk.ok \in BOOLEAN /\ faults \in Nat
    BY OkTyped
  <1>3. CASE ~disk.ok /\ disk' = disk /\ faults' \in {faults, faults + 1}
    BY <1>2, <1>3, StuckFollows
  <1>4. CASE disk.ok /\ ~ok /\ disk' = disk /\ faults' = faults + 1
    <2>1. pc' = "failed"
      BY <1>4 DEF RefuseCycle, Fail
    <2>2. Synced'
      BY <2>1 DEF Synced, Steady, Proposing
    <2> QED
      BY <1>2, <1>4, <2>2, FaultFollows
  <1>5. CASE disk.ok /\ ok /\ disk' = ReplayEntry(disk, CycleRefused) /\ faults' = faults
    <2>1. disk' = ReplayCycleRefused(disk)
      BY <1>5, ReplayRules
    <2>2. /\ disk'.ok = disk.ok /\ disk'.lin = disk.lin /\ disk'.pending = disk.pending
          /\ disk'.proposals = disk.proposals + 1 /\ disk'.trailing = disk.trailing + 1
          /\ disk'.record = disk.record
      <3>1. PICK r, q : r = disk /\ q = disk'
        OBVIOUS
      <3>2. ReplaySound(r) /\ q = ReplayCycleRefused(r)
        BY <2>1, <3>1 DEF Sound
      <3> QED
        BY <3>1, <3>2, RefusedCycleFields
    <2>3. pc' \in {"cycle", "stalled"} /\ index' = index + 1 /\ refusals' = refusals + 1
      BY <1>5 DEF RefuseCycle, NextCycle
    <2>4. Synced'
      BY <1>1, <1>5, <2>2, <2>3 DEF Follows, Synced, Steady, Proposing
    <2>5. Faultless'
      BY <1>1, <1>5, <2>2, <2>3 DEF Follows, Faultless, Proposing, InFlight
    <2>6. Rebuilt'
      BY <1>5, <2>2 DEF Rebuilt
    <2> QED
      BY <2>4, <2>5, <2>6 DEF Follows
  <1> QED
    BY <1>1, <1>2, <1>3, <1>4, <1>5, WriteCases

(* The next id is free on disk as it is in memory. *)
LEMMA ProposeFollows ==
    ASSUME Sound, Follows, NEW ok \in BOOLEAN, NEW p \in Population(lin) \cup {lin.champion},
           NEW a \in Artifacts, NEW m \in Evidence, ProposeCandidate(p, a, m, ok)
    PROVE  Follows'
  <1>1. PICK g, id : g = [parent |-> p, artifact |-> a, measured |-> m] /\ id = lin.next_id
    OBVIOUS
  <1>2. g \in Generations
    BY <1>1, RunnerAssumption DEF Sound, TypeOK, Population, Lineages, Generations
  <1>3. /\ lin \in Lineages /\ lin.next_id < MaxId /\ lin' = TakeId(lin)
        /\ Explained(lin) /\ IdsTaken(lin)
    BY DEF ProposeCandidate, Sound, LiveSound, TypeOK
  <1>4. /\ lin'.next_id = id + 1 /\ lin'.order = lin.order /\ lin'.data = lin.data
        /\ lin'.status = lin.status /\ lin'.champion = lin.champion /\ lin'.events = lin.events
        /\ id \in Ids
    BY <1>1, <1>3, TakeIdKeeps DEF TakeId, Lineages
  <1>5. /\ Write(Proposed(id, g), ok) /\ pc = "cycle" /\ cand'.id = id /\ cand'.generation = g
        /\ index' = index /\ refusals' = refusals /\ record' = record
    BY <1>1 DEF ProposeCandidate
  <1>6. disk.ok \in BOOLEAN /\ faults \in Nat
    BY OkTyped
  <1>7. CASE ~disk.ok /\ disk' = disk /\ faults' \in {faults, faults + 1}
    BY <1>6, <1>7, StuckFollows
  <1>8. CASE disk.ok /\ ~ok /\ disk' = disk /\ faults' = faults + 1
    <2>1. pc' = "failed"
      BY <1>8 DEF ProposeCandidate, Fail
    <2>2. Synced'
      BY <2>1 DEF Synced, Steady, Proposing
    <2> QED
      BY <1>6, <1>8, <2>2, FaultFollows
  <1>9. CASE disk.ok /\ ok /\ disk' = ReplayEntry(disk, Proposed(id, g)) /\ faults' = faults
    <2>1. pc' = "proposed"
      BY <1>9 DEF ProposeCandidate
    <2>2. PICK r, q : r = disk /\ q = disk'
      OBVIOUS
    <2>3. ReplaySound(r) /\ r \in Resumes /\ r.lin \in Lineages /\ Agree(lin, r.lin)
      BY <1>5, <1>9, <2>2, OkTyped DEF Sound, Follows, Synced, Steady
    <2>4. ~Known(r.lin, id) /\ r.pending[id] = None
      <3>1. r.lin.next_id = id
        BY <1>1, <2>3 DEF Agree
      <3>2. id \in Int
        BY <1>4 DEF Ids
      <3> QED
        BY <1>4, <2>3, <3>1, <3>2 DEF ReplaySound, IdsTaken
    <2>5. q = ReplayProposed(r, Proposed(id, g))
      BY <1>9, <2>2, ReplayRules
    <2>6. /\ q.ok = r.ok /\ q.lin = BumpId(r.lin, id)
          /\ q.pending = [r.pending EXCEPT ![id] = Measured(g, None)]
          /\ q.proposals = r.proposals + 1 /\ q.trailing = r.trailing /\ q.record = r.record
      BY <1>2, <1>4, <2>3, <2>4, <2>5, ProposalFields
    <2>7. /\ q.lin.next_id = id + 1 /\ q.lin.order = r.lin.order /\ q.lin.data = r.lin.data
          /\ q.lin.status = r.lin.status /\ q.lin.champion = r.lin.champion
          /\ q.lin.events = r.lin.events
      <3>1. r.lin.next_id = id /\ id \in Int
        BY <1>1, <1>4, <2>3 DEF Agree, Ids
      <3>2. BumpId(r.lin, id).next_id = IF r.lin.next_id > id THEN r.lin.next_id ELSE id + 1
        BY <1>4, <2>3, BumpIdFields
      <3>3. BumpId(r.lin, id).next_id = id + 1
        BY <3>1, <3>2
      <3> QED
        BY <1>4, <2>3, <2>6, <3>3, BumpIdFields
    <2>8. q.pending[id] = Measured(g, None)
      BY <1>4, <2>3, <2>6 DEF Resumes
    <2>9. Agree(lin', q.lin)
      BY <1>4, <2>3, <2>7 DEF Agree
    <2>10. Synced'
      BY <1>5, <2>1, <2>2, <2>8, <2>9 DEF Synced, Steady, Proposing
    <2>11. Faultless'
      BY <1>4, <1>5, <1>9, <2>1, <2>2, <2>6, <2>7 DEF Follows, Faultless, Proposing, InFlight
    <2>12. Rebuilt'
      BY <1>9, <2>2, <2>6 DEF Rebuilt
    <2> QED
      BY <2>10, <2>11, <2>12 DEF Follows
  <1> QED
    BY <1>5, <1>6, <1>7, <1>8, <1>9, WriteCases

(* A candidate that gets its measurement back is whole again. *)
LEMMA MeasuredAgain ==
    ASSUME NEW g \in Generations
    PROVE  /\ Measured(g, None) \in Generations
           /\ Measured(Measured(g, None), g.measured) = g
  BY DEF Measured, Generations

LEMMA EvaluateFollows ==
    ASSUME Sound, Follows, NEW ok \in BOOLEAN, EvaluateCandidate(ok)
    PROVE  Follows'
  <1>1. PICK id, g, m : id = cand.id /\ g = cand.generation /\ m = g.measured
    OBVIOUS
  <1>2. id \in Ids /\ g \in Generations /\ m \in Measurements
    BY <1>1 DEF EvaluateCandidate, Sound, LiveSound, Proposing, TypeOK
  <1>3. /\ Write(Evaluated(id, m), ok) /\ pc = "proposed" /\ cand' = cand /\ lin' = lin
        /\ index' = index /\ refusals' = refusals /\ record' = record
    BY <1>1 DEF EvaluateCandidate, memory
  <1>4. disk.ok \in BOOLEAN /\ faults \in Nat
    BY OkTyped
  <1>5. CASE ~disk.ok /\ disk' = disk /\ faults' \in {faults, faults + 1}
    BY <1>4, <1>5, StuckFollows
  <1>6. CASE disk.ok /\ ~ok /\ disk' = disk /\ faults' = faults + 1
    <2>1. pc' = "failed"
      BY <1>6 DEF EvaluateCandidate, Fail
    <2>2. Synced'
      BY <2>1 DEF Synced, Steady, Proposing
    <2> QED
      BY <1>4, <1>6, <2>2, FaultFollows
  <1>7. CASE disk.ok /\ ok /\ disk' = ReplayEntry(disk, Evaluated(id, m)) /\ faults' = faults
    <2>1. pc' = "evaluated"
      BY <1>7 DEF EvaluateCandidate
    <2>2. PICK r, q : r = disk /\ q = disk'
      OBVIOUS
    <2>3. ReplaySound(r) /\ r.pending[id] = Measured(g, None) /\ Agree(lin, r.lin)
            /\ r.pending \in [Ids -> Generations \cup {None}]
      BY <1>1, <1>3, <1>7, <2>2, OkTyped DEF Sound, Follows, Synced, Steady, Proposing
    <2>4. r.pending[id] # None /\ Measured(r.pending[id], m) = g
      BY <1>1, <1>2, <2>3, MeasuredAgain, NoneAssumption
    <2>5. q = ReplayEvaluated(r, Evaluated(id, m))
      BY <1>7, <2>2, ReplayRules
    <2>6. /\ q.ok = r.ok /\ q.lin = r.lin
          /\ q.pending = [r.pending EXCEPT ![id] = Measured(r.pending[id], m)]
          /\ q.proposals = r.proposals /\ q.trailing = r.trailing /\ q.record = r.record
      BY <1>2, <2>3, <2>4, <2>5, EvaluationFields
    <2>7. q.pending[id] = g
      BY <1>2, <2>3, <2>4, <2>6
    <2>8. Synced'
      BY <1>1, <1>3, <2>1, <2>2, <2>3, <2>6, <2>7 DEF Synced, Steady, Proposing
    <2>9. Faultless'
      BY <1>3, <1>7, <2>1, <2>2, <2>6 DEF Follows, Faultless, Proposing, InFlight
    <2>10. Rebuilt'
      BY <1>7, <2>2, <2>6 DEF Rebuilt
    <2> QED
      BY <2>8, <2>9, <2>10 DEF Follows
  <1> QED
    BY <1>3, <1>4, <1>5, <1>6, <1>7, WriteCases

(* The one entry that may spoil the journal: the trust it carries is the one *)
(* of the live record, which is replay's as long as no score was lost.       *)
LEMMA CalibrateFollows ==
    ASSUME Sound, Follows, NEW ok \in BOOLEAN, NEW score \in Scores, Calibrate(score, ok)
    PROVE  Follows'
  <1>1. PICK old, rec, trust :
           old = record /\ rec = Scored(old, score) /\ trust = Trust(rec)
    OBVIOUS
  <1>2. /\ Write(Calibrated(score, trust), ok) /\ pc = "evaluated" /\ pc' = "calibrated"
        /\ cand' = cand /\ lin' = lin /\ index' = index /\ refusals' = refusals
        /\ record' = rec
    BY <1>1 DEF Calibrate, memory, Trust
  <1>3. disk.ok \in BOOLEAN /\ faults \in Nat /\ score \in Nat /\ Scores # {}
    BY OkTyped, RunnerAssumption
  <1>4. CASE ~disk.ok /\ disk' = disk /\ faults' \in {faults, faults + 1}
    BY <1>3, <1>4, StuckFollows
  <1>5. CASE disk.ok /\ ~ok /\ disk' = disk /\ faults' = faults + 1
    <2>1. Synced'
      BY <1>2, <1>5 DEF Follows, Synced, Steady, Proposing
    <2> QED
      BY <1>3, <1>5, <2>1, FaultFollows
  <1>6. CASE disk.ok /\ ok /\ disk' = ReplayEntry(disk, Calibrated(score, trust))
             /\ faults' = faults
    <2>1. PICK r, q : r = disk /\ q = disk'
      OBVIOUS
    <2>2. ReplaySound(r) /\ q = ReplayCalibrated(r, Calibrated(score, trust))
      BY <1>6, <2>1, ReplayRules DEF Sound
    <2>3. /\ q.lin = r.lin /\ q.pending = r.pending
          /\ q.proposals = r.proposals /\ q.trailing = r.trailing
          /\ trust = Trust(Scored(r.record, score)) =>
                q.ok = r.ok /\ q.record = Scored(r.record, score)
      BY <1>3, <2>2, CalibrationFields
    <2>4. faults = 0 => q.ok /\ q.record = rec
      <3>1. faults = 0 => r.record = old
        BY <1>1, <1>2, <2>1 DEF Follows, Faultless
      <3> QED
        BY <1>1, <1>6, <2>1, <2>3, <3>1
    <2>5. Synced'
      BY <1>2, <1>6, <2>1, <2>3 DEF Follows, Synced, Steady, Proposing
    <2>6. Faultless'
      BY <1>2, <1>6, <2>1, <2>3, <2>4 DEF Follows, Faultless, Proposing, InFlight
    <2>7. Rebuilt'
      BY <1>3, <1>6, <2>1, <2>4 DEF Rebuilt
    <2> QED
      BY <2>5, <2>6, <2>7 DEF Follows
  <1> QED
    BY <1>2, <1>3, <1>4, <1>5, <1>6, WriteCases

LEMMA AdjudicateFollows ==
    ASSUME Sound, Follows, NEW ok \in BOOLEAN, NEW n \in 0 .. ShadowRuns,
           NEW store \in SUBSET Artifacts, AdjudicateCandidate(n, store, ok)
    PROVE  Follows'
  <1>1. PICK id, b : /\ id = cand.id
                     /\ b = (Adjudicate(RegisteredGate, cand.id, cand.generation, lin, n,
                                        store) = {})
    OBVIOUS
  <1>2. /\ Write(Adjudicated(id, b), ok) /\ pc \in {"evaluated", "calibrated"}
        /\ cand'.id = cand.id /\ cand'.generation = cand.generation /\ lin' = lin
        /\ index' = index /\ refusals' = refusals /\ record' = record
    BY <1>1 DEF AdjudicateCandidate, Sound, TypeOK
  <1>3. disk.ok \in BOOLEAN /\ faults \in Nat
    BY OkTyped
  <1>4. CASE ~disk.ok /\ disk' = disk /\ faults' \in {faults, faults + 1}
    BY <1>3, <1>4, StuckFollows
  <1>5. CASE disk.ok /\ ~ok /\ disk' = disk /\ faults' = faults + 1
    <2>1. pc' = "failed"
      BY <1>5 DEF AdjudicateCandidate, Fail
    <2>2. Synced'
      BY <2>1 DEF Synced, Steady, Proposing
    <2> QED
      BY <1>3, <1>5, <2>2, FaultFollows
  <1>6. CASE disk.ok /\ ok /\ disk' = ReplayEntry(disk, Adjudicated(id, b)) /\ faults' = faults
    <2>1. pc' = "adjudicated" /\ disk' = disk
      BY <1>6, ReplayRules DEF AdjudicateCandidate
    <2>2. Synced'
      BY <1>2, <1>6, <2>1 DEF Follows, Synced, Steady, Proposing
    <2>3. Faultless'
      BY <1>2, <1>6, <2>1 DEF Follows, Faultless, Proposing, InFlight
    <2> QED
      BY <1>6, <2>1, <2>2, <2>3 DEF Follows, Rebuilt
  <1> QED
    BY <1>2, <1>3, <1>4, <1>5, <1>6, WriteCases

(* Lineages that agree still agree after the same transition. *)
LEMMA InstallAgrees ==
    ASSUME NEW a \in Lineages, NEW b \in Lineages, Agree(a, b), NEW i \in Ids,
           NEW g \in Generations
    PROVE  Agree(Install(Add(a, i, g), i), Install(Add(b, i, g), i))
  <1>1. PICK a1, b1 : a1 = Add(a, i, g) /\ b1 = Add(b, i, g)
    OBVIOUS
  <1>2. a1 \in Lineages /\ b1 \in Lineages /\ Agree(a1, b1)
    <2>1. ASSUME NEW x \in Lineages
          PROVE  /\ Add(x, i, g) \in Lineages
                 /\ Add(x, i, g).order = Append(x.order, i)
                 /\ Add(x, i, g).data = [x.data EXCEPT ![i] = g]
                 /\ Add(x, i, g).status = [x.status EXCEPT ![i] = "Candidate"]
                 /\ Add(x, i, g).champion = x.champion
      BY AddFields, ZenonT(30)
    <2>3. Add(a, i, g).next_id = Add(b, i, g).next_id
      <3>1. PICK n : n = IF a.next_id > i THEN a.next_id ELSE i + 1
        OBVIOUS
      <3>2. BumpId(a, i) = [a EXCEPT !.next_id = n] /\ BumpId(b, i) = [b EXCEPT !.next_id = n]
        BY <3>1 DEF BumpId, Agree
      <3>3. /\ Add(a, i, g).next_id = BumpId(a, i).next_id
            /\ Add(b, i, g).next_id = BumpId(b, i).next_id
        BY DEF Add, BumpId, Lineages
      <3> QED
        BY <3>2, <3>3 DEF Lineages
    <2>4. /\ a1 \in Lineages /\ a1.champion = a.champion
          /\ a1.order = Append(a.order, i)
          /\ a1.data = [a.data EXCEPT ![i] = g]
          /\ a1.status = [a.status EXCEPT ![i] = "Candidate"]
      BY <1>1, <2>1
    <2>5. /\ b1 \in Lineages /\ b1.champion = b.champion
          /\ b1.order = Append(b.order, i)
          /\ b1.data = [b.data EXCEPT ![i] = g]
          /\ b1.status = [b.status EXCEPT ![i] = "Candidate"]
      BY <1>1, <2>1
    <2> QED
      BY <1>1, <2>3, <2>4, <2>5 DEF Agree
  <1>3. SetStatus(a1, a1.champion, "Retired") = SetStatus(b1, b1.champion, "Retired")
    BY <1>2 DEF SetStatus, Agree
  <1>4. Agree(Install(a1, i), Install(b1, i))
    <2>1. /\ Install(a1, i).next_id = a1.next_id
          /\ Install(a1, i).order = a1.order
          /\ Install(a1, i).data = a1.data
          /\ Install(a1, i).status = [SetStatus(a1, a1.champion, "Retired") EXCEPT ![i] = "Champion"]
          /\ Install(a1, i).champion = i
      BY <1>2, InstallFields, Zenon
    <2>2. /\ Install(b1, i).next_id = b1.next_id
          /\ Install(b1, i).order = b1.order
          /\ Install(b1, i).data = b1.data
          /\ Install(b1, i).status = [SetStatus(b1, b1.champion, "Retired") EXCEPT ![i] = "Champion"]
          /\ Install(b1, i).champion = i
      BY <1>2, InstallFields, Zenon
    <2> QED
      BY <1>2, <1>3, <2>1, <2>2 DEF Agree
  <1> QED
    BY <1>1, <1>4

LEMMA DemotionAgrees ==
    ASSUME NEW l \in Lineages, NEW d \in Lineages, Agree(l, d), NEW c \in Ids, NEW t \in Ids
    PROVE  Agree(ApplyDemotion(l, c, t), ApplyDemotion(d, c, t))
  <1>1. PICK s : s = [l.status EXCEPT ![c] = "Quarantined", ![t] = "Champion"]
    OBVIOUS
  <1>2. ApplyDemotion(l, c, t).status = s /\ ApplyDemotion(d, c, t).status = s
    <2>1. s = [d.status EXCEPT ![c] = "Quarantined", ![t] = "Champion"]
      BY <1>1 DEF Agree
    <2>2. PICK ev, fv : /\ ev = Append(l.events, Event("Demoted", c, t))
                        /\ fv = Append(d.events, Event("Demoted", c, t))
      OBVIOUS
    <2>3. /\ ApplyDemotion(l, c, t) = [l EXCEPT !.status = s, !.champion = t, !.events = ev]
          /\ ApplyDemotion(d, c, t) = [d EXCEPT !.status = s, !.champion = t, !.events = fv]
      BY <1>1, <2>1, <2>2 DEF ApplyDemotion
    <2> QED
      BY <2>3 DEF Lineages
  <1> QED
    BY <1>2, DemotionFields DEF Agree

LEMMA CommitFollows ==
    ASSUME Sound, Follows, Commit
    PROVE  Follows'
  <1>1. PICK id \in Ids, g \in Generations :
           id = cand.id /\ g = cand.generation /\ id < lin.next_id /\ ~Known(lin, id)
    BY DEF Commit, Sound, LiveSound, Proposing, TypeOK
  <1>2. lin \in Lineages /\ Explained(lin) /\ IdsTaken(lin) /\ disk.lin \in Lineages
    BY OkTyped DEF Sound, LiveSound
  <1>3. /\ disk' = disk /\ faults' = faults /\ cand' = cand /\ pc = "adjudicated"
        /\ index' = index /\ refusals' = refusals /\ record' = record
    BY DEF Commit
  <1>4. disk.ok => Agree(lin, disk.lin) /\ disk.pending[id] = g
    BY <1>1, <1>3 DEF Follows, Synced, Steady, Proposing
  <1>5. faults = 0 => disk.lin.events = lin.events
    BY <1>3 DEF Follows, Faultless, InFlight
  <1>6. CASE cand.approved
    <2>1. lin' = Promote(Add(lin, id, g), Approval(id, lin)) /\ pc' = "promoted"
      BY <1>1, <1>6 DEF Commit
    <2>2. PICK e : e = Event("Promoted", id, lin.champion)
      OBVIOUS
    <2>3. /\ lin' = Install(Add(lin, id, g), id)
          /\ Last(lin'.events) = e /\ lin'.events = Append(lin.events, e)
      BY <1>1, <1>2, <2>1, <2>2, CommitKeeps
    <2>4. disk.ok => Agree(lin', Install(Add(disk.lin, id, g), id)) /\ lin.champion = disk.lin.champion
      <3>1. ASSUME disk.ok
            PROVE  Agree(Install(Add(lin, id, g), id), Install(Add(disk.lin, id, g), id))
        BY <1>2, <1>4, <3>1, InstallAgrees
      <3> QED
        BY <1>4, <2>3, <3>1 DEF Agree
    <2>5. Synced'
      BY <1>1, <1>3, <1>4, <2>1, <2>2, <2>3, <2>4 DEF Synced, Promoting, Steady, Proposing
    <2>6. Faultless'
      BY <1>3, <1>5, <2>1, <2>3 DEF Follows, Faultless, InFlight, Proposing
    <2> QED
      BY <1>3, <2>5, <2>6 DEF Follows, Rebuilt
  <1>7. CASE ~cand.approved
    <2>1. lin' = Refuse(lin, id) /\ pc' = "refused"
      BY <1>1, <1>7 DEF Commit
    <2>2. PICK e : e = Event("Refused", id, None)
      OBVIOUS
    <2>3. Last(lin'.events) = e /\ lin'.events = Append(lin.events, e) /\ Agree(lin', lin)
      BY <1>2, <2>1, <2>2, RefuseFields, RefuseKeeps DEF Agree
    <2>4. Synced'
      BY <1>3, <1>4, <2>1, <2>3 DEF Synced, Agree, Steady, Proposing
    <2>5. Faultless'
      BY <1>3, <1>5, <2>1, <2>3 DEF Follows, Faultless, InFlight, Proposing
    <2> QED
      BY <1>3, <2>4, <2>5 DEF Follows, Rebuilt
  <1> QED
    BY <1>6, <1>7

(* A refusal that is not written costs the log an entry and nothing else. *)
LEMMA JournalRefusalFollows ==
    ASSUME Sound, Follows, NEW ok \in BOOLEAN, JournalRefusal(ok)
    PROVE  Follows'
  <1>1. PICK id, e : id = cand.id /\ e = Event("Refused", id, None)
    OBVIOUS
  <1>2. id \in Ids /\ Last(lin.events) = e
    BY <1>1 DEF JournalRefusal, Sound, EventPending
  <1>3. /\ Write(Succession(e), ok) /\ pc = "refused" /\ pc' \in {"cycle", "stalled"}
        /\ cand' = cand /\ lin' = lin /\ index' = index + 1 /\ refusals' = refusals + 1
        /\ record' = record
    BY <1>2 DEF JournalRefusal, NextCycle
  <1>4. disk.ok \in BOOLEAN /\ faults \in Nat
    BY OkTyped
  <1>5. CASE ~disk.ok /\ disk' = disk /\ faults' \in {faults, faults + 1}
    BY <1>4, <1>5, StuckFollows
  <1>6. CASE disk.ok /\ ~ok /\ disk' = disk /\ faults' = faults + 1
    <2>1. Synced'
      BY <1>3, <1>6 DEF Follows, Synced, Steady, Proposing
    <2> QED
      BY <1>4, <1>6, <2>1, FaultFollows
  <1>7. CASE disk.ok /\ ok /\ disk' = ReplayEntry(disk, Succession(e)) /\ faults' = faults
    <2>1. PICK r, q : r = disk /\ q = disk'
      OBVIOUS
    <2>2. ReplaySound(r) /\ r.lin \in Lineages /\ q = ReplayRefused(r, Event("Refused", id, None))
      BY <1>1, <1>7, <2>1, ReplayRules, OkTyped DEF Sound
    <2>3. /\ q.ok = r.ok /\ q.lin = Refuse(r.lin, id)
          /\ q.proposals = r.proposals /\ q.trailing = r.trailing + 1 /\ q.record = r.record
      BY <1>2, <2>2, RefusalFields
    <2>4. q.lin.events = Append(r.lin.events, e) /\ Agree(q.lin, r.lin)
      BY <1>1, <1>2, <2>2, <2>3, RefuseFields DEF Agree
    <2>5. Synced'
      BY <1>3, <1>7, <2>1, <2>4 DEF Follows, Synced, Agree, Steady, Proposing
    <2>6. Faultless'
      BY <1>2, <1>3, <1>7, <2>1, <2>3, <2>4 DEF Follows, Faultless, Proposing, InFlight
    <2>7. Rebuilt'
      BY <1>7, <2>1, <2>3 DEF Rebuilt
    <2> QED
      BY <2>5, <2>6, <2>7 DEF Follows
  <1> QED
    BY <1>3, <1>4, <1>5, <1>6, <1>7, WriteCases

LEMMA JournalPromotionFollows ==
    ASSUME Sound, Follows, NEW ok \in BOOLEAN, JournalPromotion(ok)
    PROVE  Follows'
  <1>1. PICK id, g, e : id = cand.id /\ g = cand.generation /\ e = Last(lin.events)
    OBVIOUS
  <1>2. /\ Write(Succession(e), ok) /\ pc = "promoted" /\ pc' = (IF ok THEN "granted" ELSE "failed")
        /\ cand' = cand /\ lin' = lin /\ index' = index /\ refusals' = refusals
        /\ record' = record
    BY <1>1 DEF JournalPromotion, Fail, memory
  <1>3. id \in Ids /\ g \in Generations /\ HasHeldout(g)
    BY <1>1, <1>2 DEF Sound, EventPending, LiveSound, TypeOK
  <1>4. disk.ok \in BOOLEAN /\ faults \in Nat
    BY OkTyped
  <1>5. CASE ~disk.ok /\ disk' = disk /\ faults' \in {faults, faults + 1}
    BY <1>4, <1>5, StuckFollows
  <1>6. CASE disk.ok /\ ~ok /\ disk' = disk /\ faults' = faults + 1
    <2>1. Synced'
      BY <1>2, <1>6 DEF Synced, Steady, Proposing
    <2> QED
      BY <1>4, <1>6, <2>1, FaultFollows
  <1>7. CASE disk.ok /\ ok /\ disk' = ReplayEntry(disk, Succession(e)) /\ faults' = faults
    <2>1. PICK r, q : r = disk /\ q = disk'
      OBVIOUS
    <2>2. /\ ReplaySound(r) /\ r.lin \in Lineages
          /\ r.pending[id] = g /\ e = Event("Promoted", id, r.lin.champion)
          /\ Agree(lin, Install(Add(r.lin, id, g), id))
      BY <1>1, <1>2, <1>7, <2>1, OkTyped DEF Sound, Follows, Synced, Promoting
    <2>3. q = ReplayPromoted(r, Event("Promoted", id, r.lin.champion))
      BY <1>7, <2>1, <2>2, ReplayRules
    <2>4. r.pending[id] # None /\ HasHeldout(r.pending[id])
      BY <1>3, <2>2, NoneAssumption
    <2>5. /\ q.ok = r.ok /\ q.lin = Install(Add(r.lin, id, g), id)
          /\ q.proposals = r.proposals /\ q.trailing = 0 /\ q.record = r.record
      BY <1>3, <2>2, <2>3, <2>4, PromotionFields
    <2>6. q.lin.events = Append(r.lin.events, e)
      <3>1. PICK l0, l1 : l0 = r.lin /\ l1 = Add(l0, id, g)
        OBVIOUS
      <3>2. l1 \in Lineages /\ l1.events = r.lin.events /\ l1.champion = r.lin.champion
        <4>1. ASSUME NEW x \in Lineages
              PROVE  /\ Add(x, id, g) \in Lineages
                     /\ Add(x, id, g).events = x.events
                     /\ Add(x, id, g).champion = x.champion
          BY <1>3, AddFields, Zenon
        <4>2. l0 \in Lineages
          BY <2>2, <3>1
        <4> QED
          BY <3>1, <4>1, <4>2
      <3>3. Install(l1, id).events = Append(l1.events, Event("Promoted", id, l1.champion))
        BY <1>3, <3>2, InstallFields, Zenon
      <3> QED
        BY <2>2, <2>5, <3>1, <3>2, <3>3
    <2>7. Synced'
      BY <1>2, <1>7, <2>1, <2>2, <2>5 DEF Synced, Steady, Proposing
    <2>8. Faultless'
      BY <1>1, <1>2, <1>7, <2>1, <2>5, <2>6 DEF Follows, Faultless, Proposing, InFlight
    <2>9. Rebuilt'
      BY <1>7, <2>1, <2>5 DEF Rebuilt
    <2> QED
      BY <2>7, <2>8, <2>9 DEF Follows
  <1> QED
    BY <1>2, <1>4, <1>5, <1>6, <1>7, WriteCases

LEMMA ObserveFollows ==
    ASSUME Sound, Follows, NEW ok \in BOOLEAN, NEW sample \in HealthSamples, Observe(sample, ok)
    PROVE  Follows'
  <1>1. PICK c : c = lin.champion
    OBVIOUS
  <1>2. /\ pc = "supervise" /\ cand' = cand /\ lin' = lin /\ record' = record
        /\ \/ Write(Failure(c), ok) /\ pc' = "failing" /\ index' = index /\ refusals' = refusals
           \/ /\ disk' = disk /\ faults' = faults
              /\ \/ pc' = "supervise" /\ index' = index /\ refusals' = refusals
                 \/ pc' \in {"cycle", "stalled"} /\ index' = index + 1 /\ refusals' = 0
    BY <1>1 DEF Observe, NextCycle
  <1>3. disk.ok \in BOOLEAN /\ faults \in Nat
    BY OkTyped
  <1>4. disk' = disk /\ faults' \in {faults, faults + 1}
    <2>1. ReplayEntry(disk, Failure(c)) = disk
      BY <1>3, ReplayRules
    <2> QED
      BY <1>2, <2>1 DEF Write
  <1>5. Synced'
    BY <1>2, <1>4 DEF Follows, Synced, Steady, Proposing
  <1>6. faults' = 0 => faults = 0
    BY <1>3, <1>4
  <1>7. Faultless'
    BY <1>2, <1>4, <1>6 DEF Follows, Faultless, Proposing, InFlight
  <1>8. Rebuilt'
    BY <1>4, <1>6 DEF Follows, Rebuilt
  <1> QED
    BY <1>5, <1>7, <1>8 DEF Follows

LEMMA DemoteFailedFollows ==
    ASSUME Sound, Follows, NEW store \in SUBSET Artifacts, DemoteFailed(store)
    PROVE  Follows'
  <1>1. /\ lin \in Lineages /\ Explained(lin) /\ IdsTaken(lin) /\ MayDemote(lin, store)
        /\ disk.lin \in Lineages
    BY OkTyped DEF Sound, LiveSound, DemoteFailed
  <1>2. /\ lin' = DemoteChampion(lin, store) /\ pc = "failing" /\ pc' = "demoted"
        /\ disk' = disk /\ faults' = faults /\ cand' = cand /\ record' = record
    BY DEF DemoteFailed
  <1>3. PICK t \in Ids :
           /\ DemoteChampion(lin, store) = ApplyDemotion(lin, lin.champion, t)
           /\ lin.champion \in Ids /\ lin.status[t] = "Retired"
           /\ DemoteChampion(lin, store).events
                 = Append(lin.events, Event("Demoted", lin.champion, t))
           /\ Last(DemoteChampion(lin, store).events) = Event("Demoted", lin.champion, t)
    BY <1>1, DemoteKeeps
  <1>4. PICK c \in Ids : c = lin.champion
    BY <1>3
  <1>5. PICK e : e = Event("Demoted", c, t)
    OBVIOUS
  <1>6. /\ lin' = ApplyDemotion(lin, c, t) /\ lin'.events = Append(lin.events, e)
        /\ Last(lin'.events) = e
    BY <1>2, <1>3, <1>4, <1>5
  <1>7. Synced'
    <2>1. ASSUME disk.ok
          PROVE  /\ disk.lin.champion = c /\ disk.lin.status[t] = "Retired"
                 /\ Agree(lin', ApplyDemotion(disk.lin, c, t))
      <3>1. Agree(lin, disk.lin)
        BY <1>2, <2>1 DEF Follows, Synced, Steady
      <3>2. Agree(ApplyDemotion(lin, c, t), ApplyDemotion(disk.lin, c, t))
        BY <1>1, <3>1, DemotionAgrees
      <3> QED
        BY <1>3, <1>4, <1>6, <3>1, <3>2 DEF Agree
    <2>2. disk.ok => Demoting'
      BY <1>2, <1>5, <1>6, <2>1 DEF Demoting
    <2> QED
      BY <1>2, <2>2 DEF Synced, Steady, Proposing
  <1>8. Faultless'
    BY <1>2, <1>6 DEF Follows, Faultless, InFlight, Proposing
  <1> QED
    BY <1>2, <1>7, <1>8 DEF Follows, Rebuilt

LEMMA JournalDemotionFollows ==
    ASSUME Sound, Follows, NEW ok \in BOOLEAN, JournalDemotion(ok)
    PROVE  Follows'
  <1>1. PICK e : e = Last(lin.events)
    OBVIOUS
  <1>2. /\ Write(Succession(e), ok) /\ pc = "demoted" /\ pc' = "halted"
        /\ cand' = cand /\ lin' = lin /\ record' = record
    BY <1>1 DEF JournalDemotion, Halt
  <1>3. disk.ok \in BOOLEAN /\ faults \in Nat
    BY OkTyped
  <1>4. CASE ~disk.ok /\ disk' = disk /\ faults' \in {faults, faults + 1}
    BY <1>3, <1>4, StuckFollows
  <1>5. CASE disk.ok /\ ~ok /\ disk' = disk /\ faults' = faults + 1
    <2>1. Synced'
      BY <1>2, <1>5 DEF Synced, Steady, Proposing
    <2> QED
      BY <1>3, <1>5, <2>1, FaultFollows
  <1>6. CASE disk.ok /\ ok /\ disk' = ReplayEntry(disk, Succession(e)) /\ faults' = faults
    <2>1. PICK r, q, c : r = disk /\ q = disk' /\ c = disk.lin.champion
      OBVIOUS
    <2>2. /\ c \in Ids
          /\ \E u \in Ids :
                /\ r.lin.status[u] = "Retired" /\ e = Event("Demoted", c, u)
                /\ Agree(lin, ApplyDemotion(r.lin, c, u))
      BY <1>1, <1>2, <1>6, <2>1 DEF Follows, Synced, Demoting
    <2>3. PICK t \in Ids : /\ r.lin.status[t] = "Retired" /\ e = Event("Demoted", c, t)
                           /\ Agree(lin, ApplyDemotion(r.lin, c, t))
      BY <2>2
    <2>4. ReplaySound(r) /\ r.lin \in Lineages /\ r.lin.champion = c
      BY <2>1, OkTyped DEF Sound
    <2>5. q = ReplayDemoted(r, Event("Demoted", c, t))
      BY <1>6, <2>1, <2>3, ReplayRules
    <2>6. q.ok = r.ok /\ q.lin = ApplyDemotion(r.lin, c, t) /\ q.record = r.record
      BY <2>2, <2>3, <2>4, <2>5, DemotionReplayed
    <2>7. q.lin.events = Append(r.lin.events, e)
      <3>1. PICK l \in Lineages : l = r.lin
        BY <2>4
      <3>2. PICK i \in Ids : i = c
        BY <2>2
      <3>3. ApplyDemotion(l, i, t).events = Append(l.events, Event("Demoted", i, t))
        BY DemotionFields
      <3> QED
        BY <2>3, <2>6, <3>1, <3>2, <3>3
    <2>8. Synced'
      BY <1>2 DEF Synced, Steady, Proposing
    <2>9. Faultless'
      BY <1>1, <1>2, <1>6, <2>1, <2>3, <2>6, <2>7 DEF Follows, Faultless, Proposing, InFlight
    <2>10. Rebuilt'
      BY <1>6, <2>1, <2>6 DEF Rebuilt
    <2> QED
      BY <2>8, <2>9, <2>10 DEF Follows
  <1> QED
    BY <1>2, <1>3, <1>4, <1>5, <1>6, WriteCases

(* A restart makes the live lineage and the counters those of the journal. *)
LEMMA RestartFollows ==
    ASSUME Sound, Follows, Crash \/ Resume
    PROVE  Follows'
  <1>1. /\ disk' = disk /\ faults' = faults
        /\ \/ pc' = "down"
           \/ /\ pc' = "start" /\ lin' = disk.lin /\ record' = disk.record
              /\ index' = disk.proposals /\ refusals' = disk.trailing
    BY DEF Crash, Resume
  <1>2. Synced'
    BY <1>1 DEF Synced, Agree, Steady, Proposing
  <1>3. Faultless'
    BY <1>1 DEF Faultless, Proposing, InFlight
  <1> QED
    BY <1>1, <1>2, <1>3 DEF Follows, Rebuilt

LEMMA StutterFollows ==
    ASSUME Follows, UNCHANGED vars
    PROVE  Follows'
  BY DEF Follows, Synced, Promoting, Demoting, Faultless, Rebuilt, InFlight, vars, memory

LEMMA InitFollows == Init => Follows
  <1> SUFFICES ASSUME Init PROVE Follows
    OBVIOUS
  <1>1. /\ pc = "start" /\ disk.lin = lin /\ disk.proposals = 0 /\ disk.trailing = 0
        /\ disk.record = record /\ disk.ok /\ index = 0 /\ refusals = 0
    BY DEF Init, ReplayStart
  <1>2. Synced
    BY <1>1 DEF Synced, Agree, Proposing
  <1>3. Faultless
    BY <1>1 DEF Faultless, Proposing, InFlight
  <1> QED
    BY <1>1, <1>2, <1>3 DEF Follows, Rebuilt

LEMMA NextFollows == Sound /\ Follows /\ [Next]_vars => Follows'
  <1> SUFFICES ASSUME Sound, Follows, [Next]_vars PROVE Follows'
    OBVIOUS
  <1>1. CASE Step
    <2>1. PICK ok \in BOOLEAN :
            \/ Open(ok) \/ Finish(ok) \/ WorkloadFails(ok) \/ RefuseCycle(ok)
            \/ \E p \in Population(lin) \cup {lin.champion}, a \in Artifacts, m \in Evidence :
                  ProposeCandidate(p, a, m, ok)
            \/ EvaluateCandidate(ok)
            \/ \E score \in Scores : Calibrate(score, ok)
            \/ \E n \in 0 .. ShadowRuns, store \in SUBSET Artifacts :
                  AdjudicateCandidate(n, store, ok)
            \/ Commit
            \/ JournalRefusal(ok) \/ JournalPromotion(ok) \/ JournalGrant(ok)
            \/ \E sample \in HealthSamples : Observe(sample, ok)
            \/ \E store \in SUBSET Artifacts : DemoteFailed(store)
            \/ \E store \in SUBSET Artifacts : NoFallback(store, ok)
            \/ JournalDemotion(ok) \/ Stall(ok)
      BY <1>1 DEF Step
    <2>2. CASE \/ Open(ok) \/ Finish(ok) \/ WorkloadFails(ok) \/ Stall(ok) \/ JournalGrant(ok)
               \/ \E store \in SUBSET Artifacts : NoFallback(store, ok)
      BY <2>2, NotedFollows
    <2>3. CASE RefuseCycle(ok)
      BY <2>3, RefuseCycleFollows
    <2>4. CASE \E p \in Population(lin) \cup {lin.champion}, a \in Artifacts, m \in Evidence :
                  ProposeCandidate(p, a, m, ok)
      BY <2>4, ProposeFollows
    <2>5. CASE EvaluateCandidate(ok)
      BY <2>5, EvaluateFollows
    <2>6. CASE \E score \in Scores : Calibrate(score, ok)
      BY <2>6, CalibrateFollows
    <2>7. CASE \E n \in 0 .. ShadowRuns, store \in SUBSET Artifacts :
                  AdjudicateCandidate(n, store, ok)
      BY <2>7, AdjudicateFollows
    <2>8. CASE Commit
      BY <2>8, CommitFollows
    <2>9. CASE JournalRefusal(ok)
      BY <2>9, JournalRefusalFollows
    <2>10. CASE JournalPromotion(ok)
      BY <2>10, JournalPromotionFollows
    <2>11. CASE \E sample \in HealthSamples : Observe(sample, ok)
      BY <2>11, ObserveFollows
    <2>12. CASE \E store \in SUBSET Artifacts : DemoteFailed(store)
      BY <2>12, DemoteFailedFollows
    <2>13. CASE JournalDemotion(ok)
      BY <2>13, JournalDemotionFollows
    <2> QED
      BY <2>1, <2>2, <2>3, <2>4, <2>5, <2>6, <2>7, <2>8, <2>9, <2>10, <2>11, <2>12, <2>13
  <1>2. CASE Crash \/ Resume
    BY <1>2, RestartFollows
  <1>3. CASE UNCHANGED vars
    BY <1>3, StutterFollows
  <1> QED
    BY <1>1, <1>2, <1>3 DEF Next

(* The lineage on disk is the live one between two transitions, and one      *)
(* promotion or demotion behind it inside one; without lost appends so are   *)
(* the events, the counters of the loop and the trust in the proposer.       *)
THEOREM JournalsFollowRuns == Spec => []Follows
  BY InitFollows, NextFollows, RunsAreSound, PTL DEF Spec

(* With the built-in search, whatever appends are lost and wherever the run  *)
(* dies, what it wrote replays; with an external proposer, as long as no     *)
(* append is lost (a lost score makes the trust of the next entry wrong).    *)
THEOREM JournalsReplay == Spec => [](Scores = {} \/ faults = 0 => JournalReplays)
  <1>1. Follows => (Scores = {} \/ faults = 0 => JournalReplays)
    BY DEF Follows, Rebuilt, JournalReplays
  <1> QED
    BY <1>1, JournalsFollowRuns, PTL

(* As long as no append is lost, replay gives the live lineage back, event   *)
(* log included, short of the one event that is still to be written.         *)
LEMMA FollowsIsLive ==
    ASSUME Sound, Follows, faults = 0
    PROVE  ReplayFollowsLive
  <1>1. disk.ok /\ disk.lin \in Lineages /\ lin \in Lineages /\ pc \in Points /\ pc # "failed"
    BY OkTyped DEF Sound, TypeOK, Follows, Rebuilt, Faultless
  <1>2. ASSUME pc # "down", ~InFlight
        PROVE  disk.lin = lin
    <2>1. pc \in Steady \cup {"halted"}
      BY <1>1, <1>2 DEF Points, Steady, Proposing, InFlight
    <2>2. Agree(lin, disk.lin)
      BY <1>1, <2>1 DEF Follows, Synced, Faultless
    <2>3. disk.lin.events = lin.events
      BY <1>2 DEF Follows, Faultless
    <2>4. PICK a, b : a = lin /\ b = disk.lin
      OBVIOUS
    <2>5. /\ a \in Lineages /\ b \in Lineages /\ a.order = b.order /\ a.data = b.data
          /\ a.status = b.status /\ a.champion = b.champion /\ a.next_id = b.next_id
          /\ a.events = b.events
      BY <1>1, <2>2, <2>3, <2>4 DEF Agree
    <2>6. a = b
      BY <2>5 DEF Lineages
    <2> QED
      BY <2>4, <2>6
  <1>3. ASSUME InFlight
        PROVE  disk.lin.events = Front(lin.events)
    <2>1. PICK d, e : d = disk.lin.events /\ e = Last(lin.events)
      OBVIOUS
    <2>2. lin.events = Append(d, e) /\ d \in Seq(Events)
      BY <1>1, <1>3, <2>1 DEF Follows, Faultless, Lineages
    <2>3. e \in Events
      <3>1. lin.champion \in Ids \cup {None}
        BY <1>1 DEF Lineages
      <3> QED
        BY <1>3, <2>1, EventTyped DEF InFlight, Sound, EventPending, EventKinds
    <2> QED
      BY <2>1, <2>2, <2>3, LastEvent
  <1> QED
    BY <1>2, <1>3 DEF ReplayFollowsLive

(* As long as no append is lost, what replay rebuilds is what the live run   *)
(* has, but for the one event whose append is still to come.                 *)
THEOREM ReplayIsLive == Spec => [](faults = 0 => ReplayFollowsLive)
  <1>1. Sound /\ Follows => (faults = 0 => ReplayFollowsLive)
    BY FollowsIsLive
  <1> QED
    BY <1>1, RunsAreSound, JournalsFollowRuns, PTL

(* So are the counters of the loop and the trust in the proposer. *)
THEOREM TalliesSurvive == Spec => [](faults = 0 => TallySurvives)
  <1>1. Follows => (faults = 0 => TallySurvives)
    BY DEF Follows, Faultless, TallySurvives, CountersSurvive, TrustSurvives
  <1> QED
    BY <1>1, JournalsFollowRuns, PTL

-----------------------------------------------------------------------------
(* The paper trail.  What a journal says of one generation, and that appends *)
(* that do not propose it again leave what it says as it was.                *)

Where(j, kind, id) == {p \in 1 .. Len(j) : j[p].kind = kind /\ j[p].generation = id}

(* Exactly one proposal; then an evaluation; then a verdict. *)
Begun(j, id) == \E a \in Where(j, "Proposed", id) : Where(j, "Proposed", id) = {a}

Weighed(j, id) ==
    \E a \in Where(j, "Proposed", id), b \in Where(j, "Evaluated", id) :
        Where(j, "Proposed", id) = {a} /\ a < b

Ruled(j, id, approved, p) ==
    \E a \in Where(j, "Proposed", id), b \in Where(j, "Evaluated", id),
       c \in Where(j, "Adjudicated", id) :
          /\ Where(j, "Proposed", id) = {a}
          /\ a < b /\ b < c /\ c < p
          /\ j[c].approved = approved

LEMMA WhereGrows ==
    ASSUME NEW j, \E S : j \in Seq(S), NEW e, NEW kind, NEW id
    PROVE  /\ Where(j, kind, id) \subseteq 1 .. Len(j)
           /\ e.kind = kind /\ e.generation = id =>
                Where(Append(j, e), kind, id) = Where(j, kind, id) \cup {Len(j) + 1}
           /\ ~(e.kind = kind /\ e.generation = id) =>
                Where(Append(j, e), kind, id) = Where(j, kind, id)
  <1>1. /\ Len(j) \in Nat /\ Len(Append(j, e)) = Len(j) + 1
        /\ \A p \in 1 .. Len(j) : Append(j, e)[p] = j[p]
        /\ Append(j, e)[Len(j) + 1] = e
    BY JournalGrows
  <1>2. \A p : p \in 1 .. Len(Append(j, e)) <=> p \in 1 .. Len(j) \/ p = Len(j) + 1
    BY <1>1
  <1> QED
    BY <1>1, <1>2 DEF Where

LEMMA TrailGrows ==
    ASSUME NEW j, \E S : j \in Seq(S), NEW e, NEW id,
           ~(e.kind = "Proposed" /\ e.generation = id)
    PROVE  /\ Begun(j, id) => Begun(Append(j, e), id)
           /\ Weighed(j, id) => Weighed(Append(j, e), id)
           /\ \A approved, p : Ruled(j, id, approved, p) => Ruled(Append(j, e), id, approved, p)
  <1>1. PICK k : k = Append(j, e)
    OBVIOUS
  <1>2. Where(k, "Proposed", id) = Where(j, "Proposed", id)
    BY <1>1, WhereGrows
  <1>3. /\ Where(j, "Evaluated", id) \subseteq Where(k, "Evaluated", id)
        /\ Where(j, "Adjudicated", id) \subseteq Where(k, "Adjudicated", id)
        /\ Where(j, "Adjudicated", id) \subseteq 1 .. Len(j)
    <2>1. \A p \in 1 .. Len(j) : k[p] = j[p] /\ p \in 1 .. Len(k)
      BY <1>1, JournalGrows
    <2> QED
      BY <2>1 DEF Where
  <1>4. \A p \in 1 .. Len(j) : k[p] = j[p]
    BY <1>1, JournalGrows
  <1> QED
    BY <1>1, <1>2, <1>3, <1>4 DEF Begun, Weighed, Ruled

(* The next entry of an open cycle. *)
LEMMA TrailAdvances ==
    ASSUME NEW j, \E S : j \in Seq(S), NEW e
    PROVE  /\ e.kind = "Proposed" /\ Where(j, "Proposed", e.generation) = {} =>
                Begun(Append(j, e), e.generation)
           /\ e.kind = "Evaluated" /\ Begun(j, e.generation) =>
                Weighed(Append(j, e), e.generation)
           /\ e.kind = "Adjudicated" /\ Weighed(j, e.generation) =>
                Ruled(Append(j, e), e.generation, e.approved, Len(j) + 2)
  <1>1. PICK k, n, id : k = Append(j, e) /\ n = Len(j) + 1 /\ id = e.generation
    OBVIOUS
  <1>2. Len(j) \in Nat /\ k[n] = e
    BY <1>1, JournalGrows
  <1>3. \A kind : /\ Where(j, kind, id) \subseteq 1 .. Len(j)
                  /\ e.kind = kind => Where(k, kind, id) = Where(j, kind, id) \cup {n}
                  /\ e.kind # kind => Where(k, kind, id) = Where(j, kind, id)
    <2> SUFFICES ASSUME NEW kind
                 PROVE  /\ Where(j, kind, id) \subseteq 1 .. Len(j)
                        /\ e.kind = kind => Where(k, kind, id) = Where(j, kind, id) \cup {n}
                        /\ e.kind # kind => Where(k, kind, id) = Where(j, kind, id)
      OBVIOUS
    <2>1. /\ Len(k) = n /\ n = Len(j) + 1 /\ Len(j) \in Nat /\ k[n] = e
          /\ \A p \in 1 .. Len(j) : k[p] = j[p]
      BY <1>1, JournalGrows
    <2>2. \A p : p \in 1 .. Len(k) <=> p \in 1 .. Len(j) \/ p = n
      BY <2>1
    <2> QED
      BY <1>1, <2>1, <2>2 DEF Where
  <1>4. ASSUME e.kind = "Proposed", Where(j, "Proposed", id) = {}
        PROVE  Begun(k, id)
    <2>1. Where(k, "Proposed", id) = {n}
      BY <1>3, <1>4
    <2> QED
      BY <2>1 DEF Begun
  <1>5. ASSUME e.kind = "Evaluated", Begun(j, id)
        PROVE  Weighed(k, id)
    <2>1. PICK a \in Where(j, "Proposed", id) : Where(j, "Proposed", id) = {a}
      BY <1>5 DEF Begun
    <2>2. Where(k, "Proposed", id) = {a} /\ n \in Where(k, "Evaluated", id) /\ a < n
      BY <1>1, <1>2, <1>3, <1>5, <2>1
    <2> QED
      BY <2>2 DEF Weighed
  <1>6. ASSUME e.kind = "Adjudicated", Weighed(j, id)
        PROVE  Ruled(k, id, e.approved, Len(j) + 2)
    <2>1. PICK a \in Where(j, "Proposed", id), b \in Where(j, "Evaluated", id) :
             Where(j, "Proposed", id) = {a} /\ a < b
      BY <1>6 DEF Weighed
    <2>2. /\ Where(k, "Proposed", id) = {a} /\ b \in Where(k, "Evaluated", id)
          /\ n \in Where(k, "Adjudicated", id) /\ b < n /\ n < Len(j) + 2
      BY <1>1, <1>2, <1>3, <1>6, <2>1
    <2> QED
      BY <1>2, <2>1, <2>2 DEF Ruled
  <1> QED
    BY <1>1, <1>4, <1>5, <1>6

(* Replay never hands out an id again. *)
LEMMA EntryIds ==
    ASSUME NEW r, ReplaySound(r), NEW e, RunEntry(e), NEW q, q = ReplayEntry(r, e), q.ok
    PROVE  /\ r.ok /\ q.lin.next_id >= r.lin.next_id
           /\ e.kind = "Proposed" => e.generation < q.lin.next_id
  <1>1. r.ok
    BY ReplayRules
  <1>2. r \in Resumes /\ r.lin \in Lineages /\ r.lin.next_id \in Int /\ r.ok = TRUE
    BY <1>1 DEF ReplaySound, Resumes, Lineages
  <1>3. Inconsistent(r).ok = FALSE
    BY InconsistentSound
  <1>4. ASSUME q.lin.next_id = r.lin.next_id, e.kind # "Proposed"
        PROVE  q.lin.next_id >= r.lin.next_id /\ e.kind # "Proposed"
    BY <1>2, <1>4
  <1>5. CASE \E i \in Ids, g \in Generations : e = Proposed(i, g)
    <2>1. PICK i \in Ids, g \in Generations : e = Proposed(i, g)
      BY <1>5
    <2>2. q = ReplayProposed(r, Proposed(i, g)) /\ e.generation = i
      BY <1>1, <2>1, ReplayRules DEF Proposed
    <2>3. ~Known(r.lin, i) /\ r.pending[i] = None
      BY <1>3, <2>2 DEF ReplayProposed, Proposed
    <2>4. q.lin = BumpId(r.lin, i)
      BY <1>2, <2>2, <2>3 DEF ReplayProposed, Proposed, Resumes
    <2>5. q.lin.next_id = IF r.lin.next_id > i THEN r.lin.next_id ELSE i + 1
      BY <1>2, <2>4, BumpIdFields
    <2> QED
      BY <1>1, <1>2, <2>2, <2>5 DEF Ids
  <1>6. CASE \E i \in Ids, m \in Measurements : e = Evaluated(i, m)
    <2>1. q.lin = r.lin /\ e.kind = "Evaluated"
      BY <1>1, <1>6, ReplayRules, EvaluatedSound DEF Evaluated
    <2> QED
      BY <1>1, <1>4, <2>1
  <1>7. CASE \/ \E i \in Ids, approved \in BOOLEAN : e = Adjudicated(i, approved)
             \/ \E i \in Ids : e = Failure(i)
             \/ e = Note
    <2>1. q = r /\ e.kind # "Proposed"
      BY <1>1, <1>7, ReplayRules DEF Adjudicated, Failure, Note
    <2> QED
      BY <1>1, <1>4, <2>1
  <1>8. CASE \E score \in Nat, trust \in [samples : Nat, total : Nat] :
                e = Calibrated(score, trust)
    <2>1. q.lin = r.lin /\ e.kind = "Calibrated"
      BY <1>1, <1>8, ReplayRules, CalibrationFields DEF Calibrated
    <2> QED
      BY <1>1, <1>4, <2>1
  <1>9. CASE \E i \in Ids, o \in Ids \cup {None} : e = Succession(Event("Promoted", i, o))
    <2>1. PICK i \in Ids, o \in Ids \cup {None} : e = Succession(Event("Promoted", i, o))
      BY <1>9
    <2>2. q = ReplayPromoted(r, Event("Promoted", i, o)) /\ e.kind = "Succession"
      BY <1>1, <2>1, ReplayRules DEF Succession
    <2>3. o = r.lin.champion /\ r.pending[i] # None /\ HasHeldout(r.pending[i])
      BY <1>3, <2>2 DEF ReplayPromoted, Event
    <2>4. q.lin = Install(Add(r.lin, i, r.pending[i]), i)
      BY <2>2, <2>3, PromotionFields
    <2>5. r.pending[i] \in Generations /\ i < r.lin.next_id
      BY <1>2, <2>3 DEF ReplaySound, Resumes
    <2>6. PICK l \in Lineages : l = Add(r.lin, i, r.pending[i])
      BY <1>2, <2>5, AddFields
    <2>7. l.next_id = IF r.lin.next_id > i THEN r.lin.next_id ELSE i + 1
      BY <1>2, <2>5, <2>6, AddFields
    <2>8. Install(l, i).next_id = l.next_id
      BY InstallFields
    <2> QED
      BY <1>1, <1>4, <2>2, <2>4, <2>5, <2>6, <2>7, <2>8
  <1>10. CASE \E i \in Ids : e = Succession(Event("Refused", i, None))
    <2>1. PICK i \in Ids : e = Succession(Event("Refused", i, None))
      BY <1>10
    <2>2. q = ReplayRefused(r, Event("Refused", i, None)) /\ e.kind = "Succession"
      BY <1>1, <2>1, ReplayRules DEF Succession
    <2>3. q.lin = Refuse(r.lin, i)
      BY <2>2, RefusalFields
    <2> QED
      BY <1>1, <1>2, <1>4, <2>2, <2>3, RefuseFields
  <1>11. CASE \E c, t \in Ids : e = Succession(Event("Demoted", c, t))
    <2>1. PICK c \in Ids, t \in Ids : e = Succession(Event("Demoted", c, t))
      BY <1>11
    <2>2. q = ReplayDemoted(r, Event("Demoted", c, t)) /\ e.kind = "Succession"
      BY <1>1, <2>1, ReplayRules DEF Succession
    <2>3. r.lin.champion = c /\ r.lin.status[t] = "Retired"
      BY <1>3, <2>2 DEF ReplayDemoted, Event
    <2>4. q.lin = ApplyDemotion(r.lin, c, t)
      BY <2>2, <2>3, DemotionReplayed
    <2>5. ApplyDemotion(r.lin, c, t).next_id = r.lin.next_id
      BY <1>2, DemotionFields
    <2> QED
      BY <1>1, <1>4, <2>2, <2>4, <2>5
  <1>12. CASE e = CycleRefused
    <2>1. q.lin = r.lin /\ e.kind = "CycleRefused"
      BY <1>1, <1>12, ReplayRules, RefusedCycleFields DEF CycleRefused
    <2> QED
      BY <1>1, <1>4, <2>1
  <1> QED
    BY <1>5, <1>6, <1>7, <1>8, <1>9, <1>10, <1>11, <1>12 DEF RunEntry

(* What the entry of a step may be. *)
LEMMA StepAdds ==
    ASSUME Sound, Step
    PROVE  \/ journal' = journal /\ disk' = disk
           \/ \E e :
                /\ RunEntry(e) /\ Wrote(e)
                /\ e.kind = "Proposed" =>
                     e.generation = lin.next_id /\ lin'.next_id = lin.next_id + 1
                /\ e.kind = "Succession" /\ e.event.event = "Promoted" =>
                     pc = "promoted" /\ e.event.generation = cand.id
                /\ e.kind = "Failure" =>
                     e.generation = lin.champion /\ pc = "supervise" /\ pc' = "failing"
  <1> DEFINE Fits(e) ==
                /\ RunEntry(e) /\ Wrote(e)
                /\ e.kind = "Proposed" =>
                     e.generation = lin.next_id /\ lin'.next_id = lin.next_id + 1
                /\ e.kind = "Succession" /\ e.event.event = "Promoted" =>
                     pc = "promoted" /\ e.event.generation = cand.id
                /\ e.kind = "Failure" =>
                     e.generation = lin.champion /\ pc = "supervise" /\ pc' = "failing"
             Goal == \/ journal' = journal /\ disk' = disk
                     \/ \E e : Fits(e)
  <1>1. ASSUME journal' = journal /\ disk' = disk PROVE Goal
    BY <1>1
  <1>2. ASSUME NEW kind \in {"Note", "CycleRefused", "Evaluated", "Calibrated", "Adjudicated"},
               NEW e, RunEntry(e), Wrote(e), e.kind = kind
        PROVE  Goal
    BY <1>2
  <1>3. ASSUME NEW event \in {"Refused", "Demoted"}, NEW e, RunEntry(e), Wrote(e),
               e.kind = "Succession", e.event.event = event
        PROVE  Goal
    BY <1>3
  <1>4. ASSUME NEW ok \in BOOLEAN, NEW p \in Population(lin) \cup {lin.champion},
               NEW a \in Artifacts, NEW m \in Evidence, ProposeCandidate(p, a, m, ok)
        PROVE  Goal
    <2>1. lin'.next_id = lin.next_id + 1
      BY <1>4, TakeIdKeeps DEF ProposeCandidate, Sound, TypeOK, LiveSound
    <2> QED
      BY <1>4, <2>1, ProposalAdds
  <1>5. ASSUME NEW ok \in BOOLEAN, JournalPromotion(ok) PROVE Goal
    <2>1. pc = "promoted"
      BY <1>5 DEF JournalPromotion
    <2> QED
      BY <1>5, <2>1, EventAdds
  <1>6. ASSUME NEW ok \in BOOLEAN, NEW sample \in HealthSamples, Observe(sample, ok) PROVE Goal
    <2>1. pc = "supervise"
      BY <1>6 DEF Observe
    <2> QED
      BY <1>6, <2>1, ObservationAdds
  <1> HIDE DEF Goal
  <1>7. ASSUME NEW ok \in BOOLEAN,
               \/ Open(ok) \/ Finish(ok) \/ WorkloadFails(ok) \/ Stall(ok) \/ JournalGrant(ok)
               \/ \E store \in SUBSET Artifacts : NoFallback(store, ok)
        PROVE  Goal
    BY <1>1, <1>2, <1>7, NotesAdd DEF Adds
  <1>8. ASSUME NEW ok \in BOOLEAN, RefuseCycle(ok) PROVE Goal
    BY <1>1, <1>2, <1>8, RefuseCycleAdds DEF Adds
  <1>9. ASSUME NEW ok \in BOOLEAN, EvaluateCandidate(ok) PROVE Goal
    BY <1>1, <1>2, <1>9, EvaluationAdds
  <1>10. ASSUME NEW ok \in BOOLEAN, NEW score \in Scores, Calibrate(score, ok) PROVE Goal
    BY <1>1, <1>2, <1>10, CalibrationAdds DEF Adds
  <1>11. ASSUME NEW ok \in BOOLEAN, NEW n \in 0 .. ShadowRuns, NEW store \in SUBSET Artifacts,
                AdjudicateCandidate(n, store, ok)
         PROVE  Goal
    BY <1>1, <1>2, <1>11, VerdictAdds
  <1>12. ASSUME NEW ok \in BOOLEAN, JournalRefusal(ok) \/ JournalDemotion(ok) PROVE Goal
    BY <1>1, <1>3, <1>12, EventAdds DEF AddsEvent
  <1>13. ASSUME Commit \/ \E store \in SUBSET Artifacts : DemoteFailed(store) PROVE Goal
    BY <1>1, <1>13, QuietAdds
  <1>14. Goal
    BY <1>4, <1>5, <1>6, <1>7, <1>8, <1>9, <1>10, <1>11, <1>12, <1>13 DEF Step
  <1> QED
    BY <1>14 DEF Goal

(* A live run never forgets an id either. *)
LEMMA LiveIds ==
    ASSUME Sound, Step
    PROVE  /\ pc # "down" /\ pc' # "down"
           /\ lin.next_id \in Int /\ lin'.next_id \in Int /\ lin'.next_id >= lin.next_id
  <1>1. lin \in Lineages /\ lin.next_id \in Int /\ Explained(lin) /\ IdsTaken(lin)
    BY DEF Sound, TypeOK, LiveSound, Lineages
  <1>2. pc # "down" /\ pc' # "down"
    BY DEF Step, Open, Finish, WorkloadFails, RefuseCycle, ProposeCandidate, EvaluateCandidate,
       Calibrate, AdjudicateCandidate, Commit, JournalRefusal, JournalPromotion, JournalGrant,
       Observe, DemoteFailed, NoFallback, JournalDemotion, Stall, Halt, Fail, NextCycle
  <1>3. \/ lin' = lin
        \/ lin' = TakeId(lin) /\ lin.next_id < MaxId
        \/ Commit
        \/ \E store \in SUBSET Artifacts : DemoteFailed(store)
    BY DEF Step, Open, Finish, WorkloadFails, RefuseCycle, ProposeCandidate, EvaluateCandidate,
       Calibrate, AdjudicateCandidate, JournalRefusal, JournalPromotion, JournalGrant,
       Observe, NoFallback, JournalDemotion, Stall, memory
  <1>4. CASE lin' = lin
    BY <1>1, <1>2, <1>4
  <1>5. CASE lin' = TakeId(lin) /\ lin.next_id < MaxId
    BY <1>1, <1>2, <1>5, TakeIdKeeps
  <1>6. CASE Commit
    <2>1. PICK id \in Ids, g \in Generations :
             id = cand.id /\ g = cand.generation /\ id < lin.next_id /\ ~Known(lin, id)
      BY <1>6 DEF Commit, Sound, LiveSound, Proposing, TypeOK
    <2>2. \/ lin' = Promote(Add(lin, id, g), Approval(id, lin))
          \/ lin' = Refuse(lin, id)
      BY <1>6, <2>1 DEF Commit
    <2>3. lin'.next_id = lin.next_id
      BY <1>1, <2>1, <2>2, CommitKeeps, RefuseFields
    <2> QED
      BY <1>1, <1>2, <2>3
  <1>7. CASE \E store \in SUBSET Artifacts : DemoteFailed(store)
    <2>1. PICK store \in SUBSET Artifacts : DemoteFailed(store)
      BY <1>7
    <2>2. MayDemote(lin, store) /\ lin' = DemoteChampion(lin, store)
      BY <2>1 DEF DemoteFailed
    <2>3. PICK c \in Ids, t \in Ids : lin' = ApplyDemotion(lin, c, t)
      BY <1>1, <2>2, DemoteKeeps
    <2>4. lin'.next_id = lin.next_id
      BY <1>1, <2>3, DemotionFields
    <2> QED
      BY <1>1, <1>2, <2>4
  <1> QED
    BY <1>3, <1>4, <1>5, <1>6, <1>7

(* The ids of the proposals on disk are spent, in memory and for replay.     *)
IdsSpent ==
    \A p \in 1 .. Len(journal) :
        journal[p].kind = "Proposed" =>
            /\ journal[p].generation \in Int
            /\ pc # "down" => journal[p].generation < lin.next_id
            /\ disk.ok => journal[p].generation < disk.lin.next_id

PromotionsTrail ==
    \A p \in 1 .. Len(journal) :
        journal[p].kind = "Succession" /\ journal[p].event.event = "Promoted" =>
            Ruled(journal, journal[p].event.generation, TRUE, p)

OpenTrail ==
    /\ pc = "proposed" => Begun(journal, cand.id)
    /\ pc \in {"evaluated", "calibrated"} => Weighed(journal, cand.id)
    /\ pc \in {"adjudicated", "promoted"} =>
          Ruled(journal, cand.id, cand.approved, Len(journal) + 1)
    /\ pc = "promoted" => cand.approved

Trail == IdsSpent /\ OpenTrail /\ PromotionsTrail

(* Appending leaves the earlier positions alone. *)
LEMMA WroteGrows ==
    ASSUME Sound, NEW e, Wrote(e)
    PROVE  /\ Len(journal) \in Nat /\ Len(journal') = Len(journal) + 1
           /\ \A p \in 1 .. Len(journal) : journal'[p] = journal[p]
           /\ journal'[Len(journal) + 1] = e
           /\ \A p \in 1 .. Len(journal') : p \in 1 .. Len(journal) \/ p = Len(journal) + 1
  <1>1. \E S : journal \in Seq(S)
    BY DEF Sound, Logged
  <1>2. /\ Len(journal) \in Nat /\ Len(Append(journal, e)) = Len(journal) + 1
        /\ \A p \in 1 .. Len(journal) : Append(journal, e)[p] = journal[p]
        /\ Append(journal, e)[Len(journal) + 1] = e
    BY <1>1, JournalGrows
  <1> QED
    BY <1>2 DEF Wrote

LEMMA SpentKept ==
    ASSUME Sound, Sound', IdsSpent, [Next]_vars
    PROVE  IdsSpent'
  <1>1. lin.next_id \in Int /\ disk.lin.next_id \in Int /\ disk'.lin.next_id \in Int
    BY OkTyped DEF Sound, ReplaySound, Resumes, Lineages
  <1>2. CASE Crash \/ Resume
    <2>1. /\ journal' = journal /\ disk' = disk
          /\ pc' = "down" \/ (lin' = disk.lin /\ disk.ok)
      BY <1>2 DEF Crash, Resume
    <2> QED
      BY <2>1 DEF IdsSpent
  <1>3. CASE UNCHANGED vars
    BY <1>3 DEF IdsSpent, vars, memory
  <1>4. CASE Step
    <2>1. pc # "down" /\ lin'.next_id \in Int /\ lin'.next_id >= lin.next_id
      BY <1>4, LiveIds
    <2>2. \A p \in 1 .. Len(journal) : journal[p].kind = "Proposed" =>
             /\ journal[p].generation \in Int
             /\ journal[p].generation < lin.next_id
             /\ journal[p].generation < lin'.next_id
             /\ disk.ok => journal[p].generation < disk.lin.next_id
      BY <1>1, <2>1 DEF IdsSpent
    <2>3. CASE journal' = journal /\ disk' = disk
      BY <2>2, <2>3 DEF IdsSpent
    <2>4. CASE ~(journal' = journal /\ disk' = disk)
      <3>1. PICK e :
               /\ RunEntry(e) /\ Wrote(e)
               /\ e.kind = "Proposed" =>
                    e.generation = lin.next_id /\ lin'.next_id = lin.next_id + 1
        BY <1>4, <2>4, StepAdds
      <3>2. disk'.ok => /\ disk.ok /\ disk'.lin.next_id >= disk.lin.next_id
                        /\ e.kind = "Proposed" => e.generation < disk'.lin.next_id
        <4>1. PICK r, q : r = disk /\ q = disk'
          OBVIOUS
        <4>2. ReplaySound(r) /\ q = ReplayEntry(r, e) /\ RunEntry(e)
          BY <3>1, <4>1 DEF Sound, Wrote
        <4> QED
          BY <4>1, <4>2, EntryIds
      <3>3. ASSUME NEW p \in 1 .. Len(journal'), journal'[p].kind = "Proposed"
            PROVE  /\ journal'[p].generation \in Int
                   /\ journal'[p].generation < lin'.next_id
                   /\ disk'.ok => journal'[p].generation < disk'.lin.next_id
        <4>1. CASE p \in 1 .. Len(journal)
          <5>1. journal'[p] = journal[p]
            BY <3>1, <4>1, WroteGrows
          <5> QED
            BY <1>1, <2>2, <3>2, <3>3, <4>1, <5>1
        <4>2. CASE p = Len(journal) + 1
          <5>1. journal'[p] = e
            BY <3>1, <4>2, WroteGrows
          <5> QED
            BY <1>1, <3>1, <3>2, <3>3, <5>1
        <4> QED
          BY <3>1, <4>1, <4>2, WroteGrows
      <3> QED
        BY <3>3 DEF IdsSpent
    <2> QED
      BY <2>3, <2>4
  <1> QED
    BY <1>2, <1>3, <1>4 DEF Next

LEMMA RuledIsProposed ==
    ASSUME NEW j, NEW id, NEW b, NEW p, Ruled(j, id, b, p)
    PROVE  \E a \in 1 .. Len(j) : j[a].kind = "Proposed" /\ j[a].generation = id
  BY DEF Ruled, Where

(* A promotion finds the trail of its cycle complete, and no later proposal  *)
(* has the id of a generation that was promoted.                             *)
LEMMA PromotionsKept ==
    ASSUME Sound, Sound', Trail, [Next]_vars
    PROVE  PromotionsTrail'
  <1>1. CASE journal' = journal
    BY <1>1 DEF Trail, PromotionsTrail
  <1>2. CASE journal' # journal
    <2>1. Step
      BY <1>2, QuietAdds DEF Next
    <2>2. PICK e :
             /\ RunEntry(e) /\ Wrote(e)
             /\ e.kind = "Proposed" =>
                  e.generation = lin.next_id /\ lin'.next_id = lin.next_id + 1
             /\ e.kind = "Succession" /\ e.event.event = "Promoted" =>
                  pc = "promoted" /\ e.event.generation = cand.id
      BY <1>2, <2>1, StepAdds
    <2>3. /\ \E S : journal \in Seq(S)
          /\ journal' = Append(journal, e) /\ pc # "down"
          /\ lin.next_id \in Int
      BY <2>1, <2>2, LiveIds DEF Sound, Logged, Wrote
    <2>4. ASSUME NEW id, NEW b, NEW p, Ruled(journal, id, b, p)
          PROVE  Ruled(journal', id, b, p)
      <3>1. PICK a \in 1 .. Len(journal) :
               journal[a].kind = "Proposed" /\ journal[a].generation = id
        BY <2>4, RuledIsProposed
      <3>2. id \in Int /\ id < lin.next_id
        BY <2>3, <3>1 DEF Trail, IdsSpent
      <3>3. ~(e.kind = "Proposed" /\ e.generation = id)
        BY <2>2, <2>3, <3>2
      <3> QED
        BY <2>3, <2>4, <3>3, TrailGrows
    <2>5. ASSUME NEW p \in 1 .. Len(journal'), journal'[p].kind = "Succession",
                 journal'[p].event.event = "Promoted"
          PROVE  Ruled(journal', journal'[p].event.generation, TRUE, p)
      <3>1. CASE p \in 1 .. Len(journal)
        <4>1. journal'[p] = journal[p]
          BY <2>2, <3>1, WroteGrows
        <4>2. Ruled(journal, journal[p].event.generation, TRUE, p)
          BY <2>5, <3>1, <4>1 DEF Trail, PromotionsTrail
        <4> QED
          BY <2>4, <4>1, <4>2
      <3>2. CASE p = Len(journal) + 1
        <4>1. journal'[p] = e
          BY <2>2, <3>2, WroteGrows
        <4>2. pc = "promoted" /\ journal'[p].event.generation = cand.id
          BY <2>2, <2>5, <4>1
        <4>3. cand.approved = TRUE
          BY <4>2 DEF Trail, OpenTrail, Sound, TypeOK
        <4>4. Ruled(journal, cand.id, TRUE, p)
          BY <3>2, <4>2, <4>3 DEF Trail, OpenTrail
        <4> QED
          BY <2>4, <4>2, <4>4
      <3> QED
        BY <2>2, <3>1, <3>2, WroteGrows
    <2> QED
      BY <2>5 DEF PromotionsTrail
  <1> QED
    BY <1>1, <1>2

(* The steps of a cycle lay the trail, one entry after the other. *)
LEMMA OpenTrailKept ==
    ASSUME Sound, Sound', Trail, [Next]_vars
    PROVE  OpenTrail'
  <1>0. \E S : journal \in Seq(S)
    BY DEF Sound, Logged
  <1>1. ASSUME NEW ok \in BOOLEAN, NEW p \in Population(lin) \cup {lin.champion},
               NEW a \in Artifacts, NEW m \in Evidence, ProposeCandidate(p, a, m, ok)
        PROVE  OpenTrail'
    <2>1. PICK g, id, e : /\ g = [parent |-> p, artifact |-> a, measured |-> m]
                          /\ id = lin.next_id /\ e = Proposed(id, g)
      OBVIOUS
    <2>2. /\ Write(e, ok) /\ pc = "cycle" /\ cand'.id = id
          /\ pc' = (IF ok THEN "proposed" ELSE "failed")
      BY <1>1, <2>1 DEF ProposeCandidate, Fail
    <2>3. CASE ~ok
      BY <2>2, <2>3 DEF OpenTrail
    <2>4. CASE ok
      <3>1. journal' = Append(journal, e)
        BY <2>2, <2>4 DEF Write
      <3>2. e.kind = "Proposed" /\ e.generation = id
        BY <2>1 DEF Proposed
      <3>3. Where(journal, "Proposed", id) = {}
        <4>1. id \in Int
          BY <2>1, OkTyped DEF Lineages
        <4>2. \A q \in 1 .. Len(journal) : journal[q].kind = "Proposed" =>
                 journal[q].generation \in Int /\ journal[q].generation < id
          BY <2>1, <2>2 DEF Trail, IdsSpent
        <4> QED
          BY <4>1, <4>2 DEF Where
      <3>4. Begun(journal', id)
        BY <1>0, <3>1, <3>2, <3>3, TrailAdvances
      <3> QED
        BY <2>2, <2>4, <3>4 DEF OpenTrail
    <2> QED
      BY <2>3, <2>4
  <1>2. ASSUME NEW ok \in BOOLEAN, EvaluateCandidate(ok)
        PROVE  OpenTrail'
    <2>1. PICK id, e : id = cand.id /\ e = Evaluated(id, cand.generation.measured)
      OBVIOUS
    <2>2. /\ Write(e, ok) /\ pc = "proposed" /\ cand' = cand
          /\ pc' = (IF ok THEN "evaluated" ELSE "failed")
      BY <1>2, <2>1 DEF EvaluateCandidate, Fail, memory
    <2>3. CASE ~ok
      BY <2>2, <2>3 DEF OpenTrail
    <2>4. CASE ok
      <3>1. journal' = Append(journal, e)
        BY <2>2, <2>4 DEF Write
      <3>2. e.kind = "Evaluated" /\ e.generation = id
        BY <2>1 DEF Evaluated
      <3>3. Begun(journal, id)
        BY <2>1, <2>2 DEF Trail, OpenTrail
      <3>4. Weighed(journal', id)
        BY <1>0, <3>1, <3>2, <3>3, TrailAdvances
      <3> QED
        BY <2>1, <2>2, <2>4, <3>4 DEF OpenTrail
    <2> QED
      BY <2>3, <2>4
  <1>3. ASSUME NEW ok \in BOOLEAN, NEW score \in Scores, Calibrate(score, ok)
        PROVE  OpenTrail'
    <2>1. pc = "evaluated" /\ pc' = "calibrated" /\ cand' = cand /\ Weighed(journal, cand.id)
      BY <1>3 DEF Calibrate, memory, Trail, OpenTrail
    <2>2. Weighed(journal', cand.id)
      <3>1. Adds("Calibrated")
        BY <1>3, CalibrationAdds
      <3>2. CASE journal' = journal
        BY <2>1, <3>2
      <3>3. CASE journal' # journal
        <4>1. PICK e : e.kind = "Calibrated" /\ journal' = Append(journal, e)
          BY <3>1, <3>3 DEF Adds, Wrote
        <4>2. PICK id : id = cand.id
          OBVIOUS
        <4>3. Weighed(Append(journal, e), id)
          BY <1>0, <2>1, <4>1, <4>2, TrailGrows
        <4> QED
          BY <4>1, <4>2, <4>3
      <3> QED
        BY <3>2, <3>3
    <2> QED
      BY <2>1, <2>2 DEF OpenTrail
  <1>4. ASSUME NEW ok \in BOOLEAN, NEW n \in 0 .. ShadowRuns, NEW store \in SUBSET Artifacts,
               AdjudicateCandidate(n, store, ok)
        PROVE  OpenTrail'
    <2>1. PICK id, b, e : /\ id = cand.id /\ e = Adjudicated(id, b)
                          /\ b = (Adjudicate(RegisteredGate, cand.id, cand.generation, lin, n,
                                             store) = {})
      OBVIOUS
    <2>2. /\ Write(e, ok) /\ pc \in {"evaluated", "calibrated"}
          /\ cand'.id = id /\ cand'.approved = b
          /\ pc' = (IF ok THEN "adjudicated" ELSE "failed")
      BY <1>4, <2>1 DEF AdjudicateCandidate, Fail, Sound, TypeOK
    <2>3. CASE ~ok
      BY <2>2, <2>3 DEF OpenTrail
    <2>4. CASE ok
      <3>1. journal' = Append(journal, e)
        BY <2>2, <2>4 DEF Write
      <3>2. e.kind = "Adjudicated" /\ e.generation = id /\ e.approved = b
        BY <2>1 DEF Adjudicated
      <3>3. Weighed(journal, id)
        BY <2>1, <2>2 DEF Trail, OpenTrail
      <3>4. Ruled(Append(journal, e), id, b, Len(journal) + 2)
        BY <1>0, <3>2, <3>3, TrailAdvances
      <3>5. Len(journal) + 2 = Len(journal') + 1
        BY <1>0, <3>1, JournalGrows
      <3> QED
        BY <2>2, <2>4, <3>1, <3>4, <3>5 DEF OpenTrail
    <2> QED
      BY <2>3, <2>4
  <1>5. CASE Commit
    BY <1>5 DEF Commit, Trail, OpenTrail
  <1>6. CASE UNCHANGED vars
    BY <1>6 DEF Trail, OpenTrail, vars, memory
  <1>7. ASSUME pc' \notin {"proposed", "evaluated", "calibrated", "adjudicated", "promoted"}
        PROVE  OpenTrail'
    BY <1>7 DEF OpenTrail
  <1>8. ASSUME NEW ok \in BOOLEAN,
               \/ Open(ok) \/ Finish(ok) \/ WorkloadFails(ok) \/ RefuseCycle(ok)
               \/ JournalRefusal(ok) \/ JournalPromotion(ok) \/ JournalGrant(ok)
               \/ \E sample \in HealthSamples : Observe(sample, ok)
               \/ \E store \in SUBSET Artifacts : DemoteFailed(store)
               \/ \E store \in SUBSET Artifacts : NoFallback(store, ok)
               \/ JournalDemotion(ok) \/ Stall(ok) \/ Crash \/ Resume
        PROVE  pc' \notin {"proposed", "evaluated", "calibrated", "adjudicated", "promoted"}
    BY <1>8 DEF Open, Finish, WorkloadFails, RefuseCycle, JournalRefusal, JournalPromotion,
       JournalGrant, Observe, DemoteFailed, NoFallback, JournalDemotion, Stall, Crash, Resume,
       Halt, Fail, NextCycle
  <1> QED
    BY <1>1, <1>2, <1>3, <1>4, <1>5, <1>6, <1>7, <1>8 DEF Next, Step

(* Every id on disk was drawn once, the open cycle has on disk what it did   *)
(* so far, and each promotion on disk has its trail before it.               *)
THEOREM TrailsAreKept == Spec => []Trail
  <1>1. Init => Trail
    BY DEF Init, Trail, IdsSpent, OpenTrail, PromotionsTrail
  <1>2. Sound /\ Sound' /\ Trail /\ [Next]_vars => Trail'
    BY SpentKept, PromotionsKept, OpenTrailKept DEF Trail
  <1> QED
    BY <1>1, <1>2, RunsAreSound, PTL DEF Spec

(* A promotion on disk comes after one proposal, an evaluation and an        *)
(* approving verdict of its generation, whatever was lost and however often  *)
(* the process died.                                                         *)
THEOREM PromotionsDocumented == Spec => []PromotionsHavePaperTrail
  <1>1. Trail => PromotionsHavePaperTrail
    <2>1. ASSUME PromotionsTrail, NEW p \in 1 .. Len(journal), NEW id,
                 journal[p].kind = "Succession", journal[p].event.event = "Promoted",
                 id = journal[p].event.generation
          PROVE  \E a \in At("Proposed", id), b \in At("Evaluated", id),
                    c \in At("Adjudicated", id) :
                       /\ a < b /\ b < c /\ c < p
                       /\ At("Proposed", id) = {a}
                       /\ journal[c].approved
      <3>1. Ruled(journal, id, TRUE, p)
        BY <2>1 DEF PromotionsTrail
      <3> QED
        BY <3>1 DEF Ruled, Where, At
    <2> QED
      BY <2>1 DEF Trail, PromotionsHavePaperTrail
  <1> QED
    BY <1>1, TrailsAreKept, PTL

-----------------------------------------------------------------------------
(* Until the first restart.  A crash forgets which generation was being      *)
(* supervised and which failure was being answered, so these hold of the     *)
(* first life of a run only.                                                 *)

Idle == {"start", "cycle", "refused", "stalled"} \cup Proposing

NoFailures(j) == \A p \in 1 .. Len(j) : j[p].kind # "Failure"

FailuresOf(j, g) ==
    \A p \in 1 .. Len(j) : j[p].kind = "Failure" => j[p].generation = g

FailuresNotOf(j, g) ==
    \A p \in 1 .. Len(j) : j[p].kind = "Failure" => j[p].generation # g

FirstLife ==
    restarts = 0 =>
        /\ pc # "down"
        /\ pc \in Idle => lin.champion \in validated \cup {Genesis.champion}
        /\ pc \notin {"failing", "demoted", "halted"} => NoFailures(journal)
        /\ pc = "failing" => FailuresOf(journal, lin.champion)
        /\ pc = "demoted" => FailuresNotOf(journal, lin.champion)
        /\ pc = "halted" /\ report.halt # "NoFallbackAvailable" =>
              FailuresNotOf(journal, lin.champion)

LEMMA NoFailuresFit ==
    ASSUME NEW j, NoFailures(j)
    PROVE  \A g : FailuresOf(j, g) /\ FailuresNotOf(j, g)
  BY DEF NoFailures, FailuresOf, FailuresNotOf

(* Only supervision writes failures. *)
LEMMA FailuresKept ==
    ASSUME Sound, Step
    PROVE  /\ pc # "supervise" /\ NoFailures(journal) => NoFailures(journal')
           /\ pc # "supervise" => \A g : FailuresOf(journal, g) => FailuresOf(journal', g)
           /\ pc # "supervise" => \A g : FailuresNotOf(journal, g) => FailuresNotOf(journal', g)
           /\ NoFailures(journal) =>
                NoFailures(journal') \/ (pc' = "failing" /\ FailuresOf(journal', lin.champion))
  <1>1. CASE journal' = journal
    BY <1>1
  <1>2. CASE journal' # journal
    <2>1. PICK e :
             /\ Wrote(e)
             /\ e.kind = "Failure" =>
                  e.generation = lin.champion /\ pc = "supervise" /\ pc' = "failing"
      BY <1>2, StepAdds
    <2>2. \A p \in 1 .. Len(journal') :
             \/ p \in 1 .. Len(journal) /\ journal'[p] = journal[p]
             \/ journal'[p] = e
      BY <2>1, WroteGrows
    <2> QED
      BY <2>1, <2>2 DEF NoFailures, FailuresOf, FailuresNotOf
  <1> QED
    BY <1>1, <1>2

(* Authority changes hands at a commit or at a demotion. *)
LEMMA ChampionStays ==
    ASSUME Sound, Step, pc \in Idle, pc' \in Idle
    PROVE  lin'.champion = lin.champion /\ validated' = validated
  <1>1. lin \in Lineages /\ Explained(lin) /\ IdsTaken(lin)
    BY DEF Sound, TypeOK, LiveSound
  <1>2. validated' = validated
    BY DEF Idle, Proposing, Step, Open, Finish, WorkloadFails, RefuseCycle, ProposeCandidate,
       EvaluateCandidate, Calibrate, AdjudicateCandidate, Commit, JournalRefusal,
       JournalPromotion, JournalGrant, Observe, DemoteFailed, NoFallback, JournalDemotion, Stall
  <1>3. \/ lin' = lin
        \/ lin' = TakeId(lin) /\ lin.next_id < MaxId
        \/ Commit /\ ~cand.approved
    BY DEF Idle, Proposing, Step, Open, Finish, WorkloadFails, RefuseCycle, ProposeCandidate,
       EvaluateCandidate, Calibrate, AdjudicateCandidate, Commit, JournalRefusal,
       JournalPromotion, JournalGrant, Observe, DemoteFailed, NoFallback, JournalDemotion, Stall,
       memory
  <1>4. CASE lin' = TakeId(lin) /\ lin.next_id < MaxId
    BY <1>1, <1>2, <1>4, TakeIdKeeps
  <1>5. CASE Commit /\ ~cand.approved
    <2>1. PICK id \in Ids : id = cand.id
      BY <1>5 DEF Commit, Sound, LiveSound, Proposing
    <2>2. lin' = Refuse(lin, id)
      BY <1>5, <2>1 DEF Commit
    <2> QED
      BY <1>1, <1>2, <2>2, RefuseFields
  <1> QED
    BY <1>2, <1>3, <1>4, <1>5

LEMMA FirstLifeKept ==
    ASSUME Sound, Sound', FirstLife, [Next]_vars
    PROVE  FirstLife'
  <1> SUFFICES ASSUME restarts' = 0 PROVE FirstLife'
    BY DEF FirstLife
  <1>1. CASE UNCHANGED vars
    BY <1>1 DEF FirstLife, vars, memory
  <1>2. CASE Crash \/ Resume
    <2>1. restarts \in Nat
      BY DEF Sound, TypeOK
    <2>2. pc = "down" /\ restarts = 0
      BY <1>2, <2>1 DEF Crash, Resume
    <2> QED
      BY <2>2 DEF FirstLife
  <1>3. CASE Step
    <2>0. restarts = 0 /\ pc # "down" /\ pc' # "down"
      <3>1. restarts' = restarts
        BY <1>3 DEF Step, Open, Finish, WorkloadFails, RefuseCycle, ProposeCandidate,
           EvaluateCandidate, Calibrate, AdjudicateCandidate, Commit, JournalRefusal,
           JournalPromotion, JournalGrant, Observe, DemoteFailed, NoFallback, JournalDemotion,
           Stall
      <3> QED
        BY <1>3, <3>1, LiveIds
    <2>1. CASE pc \notin {"supervise", "failing", "demoted"}
      <3>1. NoFailures(journal)
        <4>1. pc # "halted"
          BY <1>3 DEF Step, Open, Finish, WorkloadFails, RefuseCycle, ProposeCandidate,
             EvaluateCandidate, Calibrate, AdjudicateCandidate, Commit, JournalRefusal,
             JournalPromotion, JournalGrant, Observe, DemoteFailed, NoFallback, JournalDemotion,
             Stall
        <4> QED
          BY <2>0, <2>1, <4>1 DEF FirstLife
      <3>2. NoFailures(journal')
        BY <1>3, <2>1, <3>1, FailuresKept
      <3>3. pc' \in Idle => lin'.champion \in validated' \cup {Genesis.champion}
        <4>1. pc' \in Idle => pc \in Idle
          BY <1>3, <2>1 DEF Idle, Proposing, Step, Open, Finish, WorkloadFails, RefuseCycle,
             ProposeCandidate, EvaluateCandidate, Calibrate, AdjudicateCandidate, Commit,
             JournalRefusal, JournalPromotion, JournalGrant, Observe, DemoteFailed, NoFallback,
             JournalDemotion, Stall, Halt, Fail, NextCycle
        <4> QED
          BY <1>3, <2>0, <4>1, ChampionStays DEF FirstLife
      <3> QED
        BY <2>0, <3>2, <3>3, NoFailuresFit DEF FirstLife
    <2>2. CASE pc = "supervise"
      <3>1. PICK ok \in BOOLEAN, sample \in HealthSamples : Observe(sample, ok)
        BY <1>3, <2>2 DEF Step, Open, Finish, WorkloadFails, RefuseCycle, ProposeCandidate,
           EvaluateCandidate, Calibrate, AdjudicateCandidate, Commit, JournalRefusal,
           JournalPromotion, JournalGrant, DemoteFailed, NoFallback, JournalDemotion, Stall
      <3>2. /\ lin' = lin
            /\ pc' \in {"failing", "supervise", "cycle", "stalled"}
            /\ pc' \in Idle => validated' = validated \cup {lin.champion}
        BY <2>2, <3>1 DEF Observe, NextCycle, Idle, Proposing
      <3>3. NoFailures(journal)
        BY <2>0, <2>2 DEF FirstLife
      <3>4. \/ NoFailures(journal')
            \/ pc' = "failing" /\ FailuresOf(journal', lin.champion)
        BY <1>3, <3>3, FailuresKept
      <3> QED
        BY <2>0, <3>2, <3>4, NoFailuresFit DEF FirstLife, Idle, Proposing
    <2>3. CASE pc = "failing"
      <3>1. FailuresOf(journal, lin.champion)
        BY <2>0, <2>3 DEF FirstLife
      <3>2. CASE \E store \in SUBSET Artifacts : DemoteFailed(store)
        <4>1. PICK store \in SUBSET Artifacts : DemoteFailed(store)
          BY <3>2
        <4>2. /\ pc' = "demoted" /\ journal' = journal /\ MayDemote(lin, store)
              /\ lin' = DemoteChampion(lin, store)
          BY <4>1 DEF DemoteFailed
        <4>3. lin'.champion # lin.champion
          BY <4>2, DemoteKeeps DEF Sound, TypeOK, LiveSound
        <4>4. FailuresNotOf(journal', lin'.champion)
          BY <3>1, <4>2, <4>3 DEF FailuresOf, FailuresNotOf
        <4> QED
          BY <2>0, <4>2, <4>4 DEF FirstLife, Idle, Proposing
      <3>3. CASE \E ok \in BOOLEAN, store \in SUBSET Artifacts : NoFallback(store, ok)
        <4>1. pc' = "halted" /\ report'.halt = "NoFallbackAvailable"
          BY <3>3 DEF NoFallback, Halt
        <4> QED
          BY <2>0, <4>1 DEF FirstLife, Idle, Proposing
      <3> QED
        BY <1>3, <2>3, <3>2, <3>3 DEF Step, Open, Finish, WorkloadFails, RefuseCycle,
           ProposeCandidate, EvaluateCandidate, Calibrate, AdjudicateCandidate, Commit,
           JournalRefusal, JournalPromotion, JournalGrant, Observe, JournalDemotion, Stall
    <2>4. CASE pc = "demoted"
      <3>1. pc' = "halted" /\ lin' = lin
        BY <1>3, <2>4 DEF Step, Open, Finish, WorkloadFails, RefuseCycle, ProposeCandidate,
           EvaluateCandidate, Calibrate, AdjudicateCandidate, Commit, JournalRefusal,
           JournalPromotion, JournalGrant, Observe, DemoteFailed, NoFallback, JournalDemotion,
           Stall, Halt
      <3>2. FailuresNotOf(journal, lin.champion)
        BY <2>0, <2>4 DEF FirstLife
      <3>3. FailuresNotOf(journal', lin'.champion)
        <4>1. PICK c : c = lin.champion
          OBVIOUS
        <4>2. FailuresNotOf(journal', c)
          BY <1>3, <2>4, <3>2, <4>1, FailuresKept
        <4> QED
          BY <3>1, <4>1, <4>2
      <3> QED
        BY <2>0, <3>1, <3>3 DEF FirstLife, Idle, Proposing
    <2> QED
      BY <2>1, <2>2, <2>3, <2>4
  <1> QED
    BY <1>1, <1>2, <1>3 DEF Next

LEMMA InitFirstLife == Init => FirstLife
  <1> SUFFICES ASSUME Init PROVE FirstLife
    OBVIOUS
  <1>1. pc = "start" /\ lin.champion = Genesis.champion /\ journal = <<>>
    BY DEF Init
  <1>2. NoFailures(journal)
    BY <1>1 DEF NoFailures
  <1> QED
    BY <1>1, <1>2 DEF FirstLife

(* Until the first restart, a failure on disk is of a generation that lost   *)
(* authority or is about to, and a proposal follows a completed supervision. *)
THEOREM FirstLives == Spec => []FirstLife
  BY InitFirstLife, FirstLifeKept, RunsAreSound, PTL DEF Spec

(* In a run that was never restarted, a failure on record ends the authority *)
(* of the generation that failed, unless the run says there is no fallback.  *)
THEOREM FailuresEndAuthority == Spec => [](restarts = 0 => RecordedFailureEndsAuthority)
  <1>1. FirstLife => (restarts = 0 => RecordedFailureEndsAuthority)
    BY DEF FirstLife, FailuresNotOf, RecordedFailureEndsAuthority, At
  <1> QED
    BY <1>1, FirstLives, PTL

(* In a run that was never restarted, whoever is in authority when a new     *)
(* candidate is proposed has been healthy through a window of observations.  *)
THEOREM SupervisionFirst == Spec => [](restarts = 0 => SupervisedBeforeProposing)
  <1>1. FirstLife => (restarts = 0 => SupervisedBeforeProposing)
    BY DEF FirstLife, SupervisedBeforeProposing, Idle, Proposing
  <1> QED
    BY <1>1, FirstLives, PTL
================================================================================
