----------------------------- MODULE LineageProofs -----------------------------
(***************************************************************************)
(* What the transitions of a lineage do, for every value of the constants: *)
(* the fields each one leaves, and that each keeps the record an account   *)
(* of authority.  The proofs about the machines that apply the transitions *)
(* rest on these lemmas.                                                   *)
(***************************************************************************)
EXTENDS Lineage, TLAPS, WellFoundedInduction

-----------------------------------------------------------------------------
(* None is not an id. *)
LEMMA NoneIsNoId == None \notin Ids
  BY NoneAssumption, MaxIdAssumption DEF Ids

(* An event of a known kind about generations is an Events record. *)

LEMMA EventTyped ==
    ASSUME NEW k \in EventKinds, NEW g \in Ids, NEW o \in Ids \cup {None}
    PROVE  Event(k, g, o) \in Events
  BY DEF Event, Events

(* TakeId, the model of next_id(), moves the counter and nothing else. *)
LEMMA TakeIdFields ==
    ASSUME NEW l \in Lineages, l.next_id < MaxId
    PROVE  /\ TakeId(l) \in Lineages
           /\ TakeId(l).next_id = l.next_id + 1
           /\ TakeId(l).order = l.order
           /\ TakeId(l).data = l.data
           /\ TakeId(l).status = l.status
           /\ TakeId(l).champion = l.champion
           /\ TakeId(l).events = l.events
  <1>1. l.next_id + 1 \in 0 .. MaxId
    <2>1. l.next_id \in 0 .. MaxId
      BY DEF Lineages
    <2> QED
      BY <2>1, MaxIdAssumption
  <1> DEFINE n == l.next_id + 1
  <1>2. TakeId(l) = [l EXCEPT !.next_id = n]
    BY DEF TakeId
  <1>3. n \in 0 .. MaxId
    BY <1>1
  <1> HIDE DEF n
  <1>4. /\ TakeId(l) \in Lineages
        /\ TakeId(l).next_id = n
        /\ TakeId(l).order = l.order
        /\ TakeId(l).data = l.data
        /\ TakeId(l).status = l.status
        /\ TakeId(l).champion = l.champion
        /\ TakeId(l).events = l.events
    BY <1>2, <1>3 DEF Lineages
  <1> QED
    BY <1>4 DEF n

(* Add, the model of Lineage::add, appends a Candidate and moves the counter
   past it; authority and events stay. *)
LEMMA AddFields ==
    ASSUME NEW l \in Lineages, NEW id \in Ids, NEW g \in Generations
    PROVE  /\ Add(l, id, g) \in Lineages
           /\ Add(l, id, g).next_id = IF l.next_id > id THEN l.next_id ELSE id + 1
           /\ Add(l, id, g).order = Append(l.order, id)
           /\ Add(l, id, g).data = [l.data EXCEPT ![id] = g]
           /\ Add(l, id, g).status = [l.status EXCEPT ![id] = "Candidate"]
           /\ Add(l, id, g).champion = l.champion
           /\ Add(l, id, g).events = l.events
  <1> DEFINE n == IF l.next_id > id THEN l.next_id ELSE id + 1
             b == BumpId(l, id)
             o == Append(l.order, id)
             d == [l.data EXCEPT ![id] = g]
             s == [l.status EXCEPT ![id] = "Candidate"]
  <1>1. n \in 0 .. MaxId
    <2>1. l.next_id \in 0 .. MaxId
      BY DEF Lineages
    <2> QED
      BY <2>1, MaxIdAssumption DEF Ids
  <1>2. b = [l EXCEPT !.next_id = n]
    BY DEF BumpId
  <1>3. o \in Seq(Ids) /\ d \in [Ids -> Generations] /\ s \in [Ids -> Statuses \cup {"Absent"}]
    BY DEF Lineages, Statuses
  <1>4. b.order = l.order /\ b.data = l.data /\ b.status = l.status
    BY <1>2 DEF Lineages
  <1>5. Add(l, id, g) = [b EXCEPT !.order = o, !.data = d, !.status = s]
    BY <1>4 DEF Add
  <1> HIDE DEF n, b, o, d, s
  <1>6. /\ Add(l, id, g) \in Lineages
        /\ Add(l, id, g).next_id = n
        /\ Add(l, id, g).order = o
        /\ Add(l, id, g).data = d
        /\ Add(l, id, g).status = s
        /\ Add(l, id, g).champion = l.champion
        /\ Add(l, id, g).events = l.events
    BY <1>1, <1>2, <1>3, <1>5 DEF Lineages
  <1> QED
    BY <1>6 DEF n, o, d, s

(* Install retires the champion, then gives authority to id, and records it. *)
LEMMA InstallFields ==
    ASSUME NEW l \in Lineages, NEW id \in Ids
    PROVE  /\ Install(l, id) \in Lineages
           /\ Install(l, id).next_id = l.next_id
           /\ Install(l, id).order = l.order
           /\ Install(l, id).data = l.data
           /\ Install(l, id).status =
                [SetStatus(l, l.champion, "Retired") EXCEPT ![id] = "Champion"]
           /\ Install(l, id).champion = id
           /\ Install(l, id).events = Append(l.events, Event("Promoted", id, l.champion))
  <1>1. SetStatus(l, l.champion, "Retired") \in [Ids -> Statuses \cup {"Absent"}]
    BY NoneAssumption DEF SetStatus, Lineages, Statuses
  <1>2. Append(l.events, Event("Promoted", id, l.champion)) \in Seq(Events)
    BY EventTyped DEF Lineages, EventKinds
  <1> QED
    BY <1>1, <1>2 DEF Install, Lineages, Statuses

(* Refuse, the model of Lineage::refuse, adds an event and nothing else. *)
LEMMA RefuseFields ==
    ASSUME NEW l \in Lineages, NEW id \in Ids
    PROVE  /\ Refuse(l, id) \in Lineages
           /\ Refuse(l, id).next_id = l.next_id
           /\ Refuse(l, id).order = l.order
           /\ Refuse(l, id).data = l.data
           /\ Refuse(l, id).status = l.status
           /\ Refuse(l, id).champion = l.champion
           /\ Refuse(l, id).events = Append(l.events, Event("Refused", id, None))
  <1>1. Append(l.events, Event("Refused", id, None)) \in Seq(Events)
    BY EventTyped DEF Lineages, EventKinds
  <1> QED
    BY <1>1 DEF Refuse, Lineages

(* ApplyDemotion quarantines one generation and gives authority to another. *)
LEMMA DemotionFields ==
    ASSUME NEW l \in Lineages, NEW c \in Ids, NEW t \in Ids
    PROVE  /\ ApplyDemotion(l, c, t) \in Lineages
           /\ ApplyDemotion(l, c, t).next_id = l.next_id
           /\ ApplyDemotion(l, c, t).order = l.order
           /\ ApplyDemotion(l, c, t).data = l.data
           /\ \A i \in Ids : ApplyDemotion(l, c, t).status[i] =
                IF i = t THEN "Champion" ELSE IF i = c THEN "Quarantined" ELSE l.status[i]
           /\ ApplyDemotion(l, c, t).champion = t
           /\ ApplyDemotion(l, c, t).events = Append(l.events, Event("Demoted", c, t))
  <1>1. Append(l.events, Event("Demoted", c, t)) \in Seq(Events)
    BY EventTyped DEF Lineages, EventKinds
  <1> QED
    BY <1>1 DEF ApplyDemotion, Lineages, Statuses

(* ApplyRollback retires one generation and gives authority to another. *)
LEMMA RollbackFields ==
    ASSUME NEW l \in Lineages, NEW f \in Ids, NEW t \in Ids
    PROVE  /\ ApplyRollback(l, f, t) \in Lineages
           /\ ApplyRollback(l, f, t).next_id = l.next_id
           /\ ApplyRollback(l, f, t).order = l.order
           /\ ApplyRollback(l, f, t).data = l.data
           /\ \A i \in Ids : ApplyRollback(l, f, t).status[i] =
                IF i = t THEN "Champion" ELSE IF i = f THEN "Retired" ELSE l.status[i]
           /\ ApplyRollback(l, f, t).champion = t
           /\ ApplyRollback(l, f, t).events = Append(l.events, Event("RolledBack", f, t))
  <1>1. Append(l.events, Event("RolledBack", f, t)) \in Seq(Events)
    BY EventTyped DEF Lineages, EventKinds
  <1> QED
    BY <1>1 DEF ApplyRollback, Lineages, Statuses

-----------------------------------------------------------------------------
(* Appending an event: where it lands and what becomes of the others. *)
LEMMA AppendedEvent ==
    ASSUME NEW s \in Seq(Events), NEW e \in Events
    PROVE  /\ Len(Append(s, e)) = Len(s) + 1
           /\ Append(s, e)[Len(s) + 1] = e
           /\ \A p \in 1 .. Len(s) : Append(s, e)[p] = s[p]
  OBVIOUS

(* A Refused event moves nothing; any other event is the new last move. *)
LEMMA MovesAppend ==
    ASSUME NEW l \in Lineages, NEW l2 \in Lineages, NEW e \in Events,
           l2.events = Append(l.events, e)
    PROVE  Moves(l2) = IF e.event = "Refused" THEN Moves(l)
                       ELSE Moves(l) \cup {Len(l.events) + 1}
  <1>1. l.events \in Seq(Events)
    BY DEF Lineages
  <1>2. Len(l.events) \in Nat
    BY <1>1
  <1> QED
    BY <1>1, <1>2, AppendedEvent DEF Moves

(* previously_demoted() after one more event: true of the generation a     *)
(* Demoted event names, unchanged for all others.                          *)
LEMMA DemotedAppend ==
    ASSUME NEW l \in Lineages, NEW l2 \in Lineages, NEW e \in Events, NEW i \in Ids,
           l2.events = Append(l.events, e)
    PROVE  PreviouslyDemoted(l2, i)
              <=> PreviouslyDemoted(l, i) \/ (e.event = "Demoted" /\ e.generation = i)
  <1>1. l.events \in Seq(Events)
    BY DEF Lineages
  <1>2. Len(l.events) \in Nat
    BY <1>1
  <1> QED
    BY <1>1, <1>2, AppendedEvent DEF PreviouslyDemoted

-----------------------------------------------------------------------------
(* After a move the champion is the winner of the last move. *)
LEMMA LastMoveRules ==
    ASSUME NEW l \in Lineages, NEW l2 \in Lineages, NEW e \in Events,
           l2.events = Append(l.events, e), e.event # "Refused",
           l2.champion = Winner(e), l2.champion # None
    PROVE  /\ l2.champion = None <=> Moves(l2) = {}
           /\ \A p \in Moves(l2) :
                (\A q \in Moves(l2) : q <= p) => l2.champion = Winner(l2.events[p])
  <1> DEFINE n == Len(l.events) + 1
  <1>1. l.events \in Seq(Events) /\ n \in Nat
    BY DEF Lineages
  <1>2. Moves(l2) = Moves(l) \cup {n}
    BY MovesAppend
  <1>3. \A p \in Moves(l) : p \in Nat /\ p < n
    BY <1>1 DEF Moves
  <1>4. l2.events[n] = e
    BY <1>1, AppendedEvent
  <1> HIDE DEF n
  <1>5. ASSUME NEW p \in Moves(l2), \A q \in Moves(l2) : q <= p
        PROVE  l2.champion = Winner(l2.events[p])
    <2>1. n <= p
      BY <1>2, <1>5
    <2>2. p = n
      BY <2>1, <1>1, <1>2, <1>3
    <2> QED
      BY <2>2, <1>4
  <1> QED
    BY <1>2, <1>5

(* A generation that is neither in authority nor quarantined may be added  *)
(* without making the record a wrong account.                              *)
LEMMA AddExplained ==
    ASSUME NEW l \in Lineages, NEW id \in Ids, NEW g \in Generations,
           Explained(l), l.status[id] = "Absent"
    PROVE  Explained(Add(l, id, g))
  <1> DEFINE l2 == Add(l, id, g)
  <1>1. /\ l2 \in Lineages /\ l2.events = l.events /\ l2.champion = l.champion
        /\ l2.status = [l.status EXCEPT ![id] = "Candidate"]
    BY AddFields
  <1>2. l.status \in [Ids -> Statuses \cup {"Absent"}]
    BY DEF Lineages
  <1> HIDE DEF l2
  <1>3. Moves(l2) = Moves(l) /\ \A i \in Ids : PreviouslyDemoted(l2, i) <=> PreviouslyDemoted(l, i)
    BY <1>1 DEF Moves, PreviouslyDemoted
  <1>4. \A i \in Ids : /\ l2.status[i] = "Champion" <=> l2.champion = i
                       /\ l2.status[i] = "Quarantined" <=> PreviouslyDemoted(l2, i)
    BY <1>1, <1>2, <1>3 DEF Explained
  <1> QED
    BY <1>1, <1>3, <1>4 DEF Explained, l2

(* A refusal leaves the account as it was. *)
LEMMA RefuseExplained ==
    ASSUME NEW l \in Lineages, NEW id \in Ids, Explained(l)
    PROVE  Explained(Refuse(l, id))
  <1> DEFINE l2 == Refuse(l, id)
             e == Event("Refused", id, None)
  <1>1. e \in Events /\ e.event = "Refused"
    BY EventTyped DEF EventKinds, Event
  <1>2. /\ l2 \in Lineages /\ l2.events = Append(l.events, e)
        /\ l2.champion = l.champion /\ l2.status = l.status
    BY RefuseFields
  <1> HIDE DEF l2, e
  <1>3. Moves(l2) = Moves(l)
    BY <1>1, <1>2, MovesAppend
  <1>4. \A i \in Ids : PreviouslyDemoted(l2, i) <=> PreviouslyDemoted(l, i)
    BY <1>1, <1>2, DemotedAppend
  <1>5. \A p \in Moves(l) : l2.events[p] = l.events[p]
    <2>1. l.events \in Seq(Events)
      BY DEF Lineages
    <2> QED
      BY <1>1, <1>2, <2>1, AppendedEvent DEF Moves
  <1> QED
    BY <1>2, <1>3, <1>4, <1>5 DEF Explained, l2

(* install() of a generation that was never quarantined. *)
LEMMA InstallExplained ==
    ASSUME NEW l \in Lineages, NEW id \in Ids, Explained(l),
           l.status[id] # "Quarantined"
    PROVE  Explained(Install(l, id))
  <1> DEFINE l2 == Install(l, id)
             e == Event("Promoted", id, l.champion)
  <1>1. e \in Events /\ e.event = "Promoted" /\ Winner(e) = id
    BY EventTyped DEF EventKinds, Event, Winner, Lineages
  <1>2. /\ l2 \in Lineages /\ l2.events = Append(l.events, e) /\ l2.champion = id
        /\ l2.status = [SetStatus(l, l.champion, "Retired") EXCEPT ![id] = "Champion"]
    BY InstallFields
  <1>3. l.status \in [Ids -> Statuses \cup {"Absent"}] /\ l.champion \in Ids \cup {None}
    BY DEF Lineages
  <1>4. id # None /\ None \notin Ids
    BY NoneAssumption, MaxIdAssumption DEF Ids
  <1> HIDE DEF l2, e
  <1>5. \A i \in Ids : PreviouslyDemoted(l2, i) <=> PreviouslyDemoted(l, i)
    BY <1>1, <1>2, DemotedAppend
  <1>6. \A i \in Ids : /\ l2.status[i] = "Champion" <=> l2.champion = i
                       /\ l2.status[i] = "Quarantined" <=> l.status[i] = "Quarantined"
    <2>1. CASE l.champion = None
      BY <2>1, <1>2, <1>3, <1>4 DEF SetStatus, Explained
    <2>2. CASE l.champion \in Ids
      BY <2>2, <1>2, <1>3, <1>4 DEF SetStatus, Explained
    <2> QED
      BY <2>1, <2>2, <1>3
  <1>7. \A i \in Ids : l2.status[i] = "Quarantined" <=> PreviouslyDemoted(l2, i)
    BY <1>5, <1>6 DEF Explained
  <1>8. /\ l2.champion = None <=> Moves(l2) = {}
        /\ \A p \in Moves(l2) :
             (\A q \in Moves(l2) : q <= p) => l2.champion = Winner(l2.events[p])
    BY <1>1, <1>2, <1>4, LastMoveRules
  <1> QED
    BY <1>6, <1>7, <1>8 DEF Explained, l2

(* apply_demotion() of the champion to another, never demoted generation. *)
LEMMA DemotionExplained ==
    ASSUME NEW l \in Lineages, NEW c \in Ids, NEW t \in Ids, Explained(l),
           l.champion = c, t # c, l.status[t] # "Quarantined"
    PROVE  Explained(ApplyDemotion(l, c, t))
  <1> DEFINE l2 == ApplyDemotion(l, c, t)
             e == Event("Demoted", c, t)
  <1>1. /\ e \in Events /\ e.event = "Demoted" /\ e.generation = c /\ Winner(e) = t
    BY EventTyped DEF EventKinds, Event, Winner
  <1>2. /\ l2 \in Lineages /\ l2.events = Append(l.events, e) /\ l2.champion = t
        /\ \A i \in Ids : l2.status[i] =
             IF i = t THEN "Champion" ELSE IF i = c THEN "Quarantined" ELSE l.status[i]
    BY DemotionFields
  <1>3. l.status \in [Ids -> Statuses \cup {"Absent"}]
    BY DEF Lineages
  <1>4. t # None
    BY NoneAssumption, MaxIdAssumption DEF Ids
  <1> HIDE DEF l2, e
  <1>5. \A i \in Ids : PreviouslyDemoted(l2, i) <=> PreviouslyDemoted(l, i) \/ i = c
    BY <1>1, <1>2, DemotedAppend
  <1>6. \A i \in Ids : /\ l2.status[i] = "Champion" <=> l2.champion = i
                       /\ l2.status[i] = "Quarantined"
                             <=> l.status[i] = "Quarantined" \/ i = c
    BY <1>2, <1>3 DEF Explained
  <1>7. \A i \in Ids : l2.status[i] = "Quarantined" <=> PreviouslyDemoted(l2, i)
    BY <1>5, <1>6 DEF Explained
  <1>8. /\ l2.champion = None <=> Moves(l2) = {}
        /\ \A p \in Moves(l2) :
             (\A q \in Moves(l2) : q <= p) => l2.champion = Winner(l2.events[p])
    BY <1>1, <1>2, <1>4, LastMoveRules
  <1> QED
    BY <1>6, <1>7, <1>8 DEF Explained, l2

(* apply_rollback() from the champion to a generation not in quarantine,   *)
(* the champion itself included.                                           *)
LEMMA RollbackExplained ==
    ASSUME NEW l \in Lineages, NEW c \in Ids, NEW t \in Ids, Explained(l),
           l.champion = c, l.status[t] # "Quarantined"
    PROVE  Explained(ApplyRollback(l, c, t))
  <1> DEFINE l2 == ApplyRollback(l, c, t)
             e == Event("RolledBack", c, t)
  <1>1. /\ e \in Events /\ e.event = "RolledBack" /\ Winner(e) = t
    BY EventTyped DEF EventKinds, Event, Winner
  <1>2. /\ l2 \in Lineages /\ l2.events = Append(l.events, e) /\ l2.champion = t
        /\ \A i \in Ids : l2.status[i] =
             IF i = t THEN "Champion" ELSE IF i = c THEN "Retired" ELSE l.status[i]
    BY RollbackFields
  <1>3. l.status \in [Ids -> Statuses \cup {"Absent"}]
    BY DEF Lineages
  <1>4. t # None
    BY NoneAssumption, MaxIdAssumption DEF Ids
  <1> HIDE DEF l2, e
  <1>5. \A i \in Ids : PreviouslyDemoted(l2, i) <=> PreviouslyDemoted(l, i)
    BY <1>1, <1>2, DemotedAppend
  <1>6. \A i \in Ids : /\ l2.status[i] = "Champion" <=> l2.champion = i
                       /\ l2.status[i] = "Quarantined" <=> l.status[i] = "Quarantined"
    BY <1>2, <1>3 DEF Explained
  <1>7. \A i \in Ids : l2.status[i] = "Quarantined" <=> PreviouslyDemoted(l2, i)
    BY <1>5, <1>6 DEF Explained
  <1>8. /\ l2.champion = None <=> Moves(l2) = {}
        /\ \A p \in Moves(l2) :
             (\A q \in Moves(l2) : q <= p) => l2.champion = Winner(l2.events[p])
    BY <1>1, <1>2, <1>4, LastMoveRules
  <1> QED
    BY <1>6, <1>7, <1>8 DEF Explained, l2

-----------------------------------------------------------------------------
(* A nonempty set of positions has a last one. *)
LEMMA LastPosition ==
    ASSUME NEW n \in Nat, NEW P \in SUBSET (1 .. n), P # {}
    PROVE  \E p \in P : \A q \in P : q <= p
  <1> DEFINE T == {n - p : p \in P}
  <1>0. \A p \in P : p \in Int /\ p <= n /\ n - p \in Nat
    OBVIOUS
  <1>1. T \subseteq Nat /\ T # {}
    <2>1. T \subseteq Nat
      BY <1>0
    <2>2. PICK p : p \in P
      OBVIOUS
    <2>3. n - p \in T
      BY <2>2
    <2> QED
      BY <2>1, <2>3
  <1> DEFINE R == OpToRel(<, Nat)
  <1>r. ASSUME NEW i \in Nat, NEW j \in Nat, ~(<<i, j>> \in R) PROVE ~(i < j)
    BY <1>r DEF OpToRel
  <1>w. IsWellFoundedOn(R, Nat)
    BY NatLessThanWellFounded
  <1> HIDE DEF R
  <1>2. PICK x \in T : \A y \in T : ~(<<y, x>> \in R)
    <2> HIDE DEF T
    <2> QED
      BY <1>1, <1>w, WFMin
  <1>3. PICK p \in P : x = n - p
    BY <1>2
  <1>4. ASSUME NEW q \in P PROVE q <= p
    <2>1. n - q \in T /\ n - q \in Nat /\ n - p \in Nat
      BY <1>0
    <2>2. ~(<<n - q, n - p>> \in R)
      BY <2>1, <1>2, <1>3
    <2>3. ~(n - q < n - p)
      BY <2>1, <2>2, <1>r
    <2> QED
      BY <2>3, <1>0
  <1> QED
    BY <1>4

(* fallback_target() names a retired generation whose artifact runs. *)
LEMMA FallbackFits ==
    ASSUME NEW l \in Lineages, NEW store, HasFallback(l, store)
    PROVE  /\ FallbackTarget(l, store) \in Ids
           /\ l.status[FallbackTarget(l, store)] = "Retired"
           /\ l.data[FallbackTarget(l, store)].artifact \in store
           /\ \E p \in 1 .. Len(l.order) : FallbackTarget(l, store) = l.order[p]
  <1> DEFINE P == FallbackPositions(l, store)
  <1>1. l.order \in Seq(Ids) /\ Len(l.order) \in Nat
    BY DEF Lineages
  <1>2. P \in SUBSET (1 .. Len(l.order)) /\ P # {}
    BY DEF FallbackPositions, HasFallback
  <1>3. \E p \in P : \A q \in P : q <= p
    <2> HIDE DEF P
    <2> QED
      BY <1>1, <1>2, LastPosition
  <1>4. PICK p \in P : FallbackTarget(l, store) = l.order[p]
    BY <1>3 DEF FallbackTarget
  <1> QED
    BY <1>1, <1>4 DEF FallbackPositions

-----------------------------------------------------------------------------
(* A lineage as module Authority sees it: those that ever held authority   *)
(* and those that failed.                                                  *)
HeldIn(l) == {i \in Ids : l.status[i] \in {"Champion", "Retired", "Quarantined"}}

FallenIn(l) == {i \in Ids : l.status[i] = "Quarantined"}

(* Both are sets of generations. *)
LEMMA HeldAreIds ==
    ASSUME NEW l
    PROVE  HeldIn(l) \subseteq Ids /\ FallenIn(l) \subseteq Ids
  BY DEF HeldIn, FallenIn

(* A promotion of a new generation, as Authority sees it: a grant. *)
LEMMA PromotionGrants ==
    ASSUME NEW l \in Lineages, Explained(l), NEW id \in Ids, NEW l2 \in Lineages,
           l.status[id] = "Candidate", l2 = Install(l, id)
    PROVE  /\ id \notin HeldIn(l) /\ l2.champion = id
           /\ HeldIn(l2) = HeldIn(l) \cup {id} /\ FallenIn(l2) = FallenIn(l)
  <1>1. /\ l2.champion = id
        /\ l2.status = [SetStatus(l, l.champion, "Retired") EXCEPT ![id] = "Champion"]
    BY InstallFields
  <1>2. /\ l.champion \in Ids \cup {None}
        /\ l.status \in [Ids -> Statuses \cup {"Absent"}]
    BY DEF Lineages
  <1>3. l.champion # None => l.status[l.champion] = "Champion"
    BY <1>2 DEF Explained
  <1>4. \A i \in Ids : l2.status[i] =
          IF i = id THEN "Champion" ELSE IF i = l.champion THEN "Retired" ELSE l.status[i]
    BY <1>1, <1>2, NoneIsNoId DEF SetStatus
  <1>5. id \notin HeldIn(l)
    BY DEF HeldIn
  <1>6. \A i \in Ids : /\ i \in HeldIn(l2) <=> i \in HeldIn(l) \/ i = id
                       /\ i \in FallenIn(l2) <=> i \in FallenIn(l)
    BY <1>2, <1>3, <1>4, NoneIsNoId DEF HeldIn, FallenIn
  <1> QED
    BY <1>1, <1>5, <1>6, HeldAreIds

(* A demotion ends the champion's authority for good and returns it. *)
LEMMA DemotionReturns ==
    ASSUME NEW l \in Lineages, Explained(l), NEW c \in Ids, NEW t \in Ids,
           l.champion = c, l.status[t] = "Retired"
    PROVE  /\ t \in HeldIn(l) \ (FallenIn(l) \cup {c})
           /\ ApplyDemotion(l, c, t).champion = t
           /\ HeldIn(ApplyDemotion(l, c, t)) = HeldIn(l)
           /\ FallenIn(ApplyDemotion(l, c, t)) = FallenIn(l) \cup {c}
  <1> DEFINE l2 == ApplyDemotion(l, c, t)
  <1>1. /\ l2.champion = t
        /\ \A i \in Ids : l2.status[i] =
             IF i = t THEN "Champion" ELSE IF i = c THEN "Quarantined" ELSE l.status[i]
    BY DemotionFields
  <1> HIDE DEF l2
  <1>2. l.status[c] = "Champion"
    BY DEF Explained
  <1>3. t \in HeldIn(l) /\ t \notin FallenIn(l) /\ t # c
    BY <1>2 DEF HeldIn, FallenIn
  <1>4. \A i \in Ids : /\ i \in HeldIn(l2) <=> i \in HeldIn(l)
                       /\ i \in FallenIn(l2) <=> i \in FallenIn(l) \/ i = c
    BY <1>1, <1>2 DEF HeldIn, FallenIn
  <1> QED
    BY <1>1, <1>3, <1>4, HeldAreIds DEF l2

(* A rollback returns authority, or grants it to a candidate that a stale  *)
(* commit left in the lineage.                                             *)
LEMMA RollbackMoves ==
    ASSUME NEW l \in Lineages, Explained(l), NEW c \in Ids, NEW t \in Ids,
           l.champion = c, Known(l, t), l.status[t] # "Quarantined"
    PROVE  /\ t \notin FallenIn(l)
           /\ ApplyRollback(l, c, t).champion = t
           /\ HeldIn(ApplyRollback(l, c, t)) = HeldIn(l) \cup {t}
           /\ FallenIn(ApplyRollback(l, c, t)) = FallenIn(l)
  <1> DEFINE l2 == ApplyRollback(l, c, t)
  <1>1. /\ l2.champion = t
        /\ \A i \in Ids : l2.status[i] =
             IF i = t THEN "Champion" ELSE IF i = c THEN "Retired" ELSE l.status[i]
    BY RollbackFields
  <1> HIDE DEF l2
  <1>2. l.status[c] = "Champion"
    BY DEF Explained
  <1>3. t \notin FallenIn(l)
    BY DEF FallenIn
  <1>4. \A i \in Ids : /\ i \in HeldIn(l2) <=> i \in HeldIn(l) \/ i = t
                       /\ i \in FallenIn(l2) <=> i \in FallenIn(l)
    BY <1>1, <1>2 DEF HeldIn, FallenIn
  <1> QED
    BY <1>1, <1>3, <1>4, HeldAreIds DEF l2
=============================================================================
