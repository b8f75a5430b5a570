------------------------------- MODULE Lineage -------------------------------
(***************************************************************************)
(* The lineage of germline/src/lineage.rs: the generations, the champion   *)
(* pointer and the append-only events, with the transitions that move      *)
(* authority.  A lineage is a record, a transition is an operator from a   *)
(* lineage to a lineage, so that a live run and a replay of its journal    *)
(* apply the same transitions, as they do in the code.                     *)
(*                                                                         *)
(* `generations` (a Vec<Generation>) is split in three: `order` keeps the  *)
(* positions in the vector, `data` the fields no transition changes        *)
(* (parent, artifact, measured) and `status` the life cycle, "Absent" for  *)
(* an id that `get` does not find.                                         *)
(***************************************************************************)
EXTENDS Integers, FiniteSets, Sequences

CONSTANTS
    MaxId,      \* bound: ids below MaxId are modelled
    Axes,       \* names of fitness axes
    Artifacts,  \* artifact digests
    None        \* Option::None

ASSUME MaxIdAssumption == MaxId \in Nat

Ids == 0 .. MaxId - 1

Statuses == {"Candidate", "Champion", "Retired", "Quarantined"}

EventKinds == {"Promoted", "Demoted", "RolledBack", "Refused"}

(* A fitness vector gives a value to some of the axes, None to the rest. *)
FitnessVectors == [Axes -> Nat \cup {None}]

Measurements == [kind : {"Optimized", "HeldOut"}, suite : STRING,
                 evaluator : STRING, fitness : FitnessVectors]

Generations == [parent : Ids \cup {None}, artifact : Artifacts \cup {None},
                measured : Measurements \cup {None}]

ASSUME NoneAssumption ==
    None \notin Int /\ None \notin Artifacts /\ None \notin Generations

(* Generation::new, before the fields of the candidate are set. *)
NewGeneration == [parent |-> None, artifact |-> None, measured |-> None]

Measured(g, m) == [g EXCEPT !.measured = m]

(* heldout_fitness() is Some; then it is g.measured.fitness. *)
HasHeldout(g) == g.measured # None /\ g.measured.kind = "HeldOut"

HasAxis(g, axis) == HasHeldout(g) /\ g.measured.fitness[axis] # None

MeasuredAxes(g) == {axis \in Axes : HasAxis(g, axis)}

(* `other` is the displaced champion of a promotion, the new champion of a *)
(* demotion or a rollback, None for a refusal.                             *)
Event(kind, generation, other) ==
    [event |-> kind, generation |-> generation, other |-> other]

Events == [event : EventKinds, generation : Ids, other : Ids \cup {None}]

Lineages == [order : Seq(Ids), data : [Ids -> Generations],
             status : [Ids -> Statuses \cup {"Absent"}],
             champion : Ids \cup {None}, next_id : 0 .. MaxId,
             events : Seq(Events)]

EmptyLineage == [order |-> <<>>, data |-> [i \in Ids |-> NewGeneration],
                 status |-> [i \in Ids |-> "Absent"],
                 champion |-> None, next_id |-> 0, events |-> <<>>]

Known(l, id) == l.status[id] # "Absent"

-----------------------------------------------------------------------------
(* next_id() hands out l.next_id and moves the counter past it. *)
TakeId(l) == [l EXCEPT !.next_id = @ + 1]

(* Mutants: max(next_id, id) + 1, and id + 1 whatever next_id was. *)
BumpIdPastMax(l, id) == [l EXCEPT !.next_id = (IF @ > id THEN @ ELSE id) + 1]
BumpIdAlways(l, id) == [l EXCEPT !.next_id = id + 1]

BumpId(l, id) == [l EXCEPT !.next_id = IF @ > id THEN @ ELSE id + 1]

Add(l, id, g) ==
    [BumpId(l, id) EXCEPT !.order = Append(@, id),
                          !.data[id] = g,
                          !.status[id] = "Candidate"]

(* `id` together with its ancestors: the known generations that every set  *)
(* holding id and closed under `parent` holds.  The walk of ancestors()    *)
(* ends where `parent` is None or names a generation get() does not find.  *)
ParentClosed(l, S) ==
    \A s \in S : Known(l, s) /\ l.data[s].parent # None => l.data[s].parent \in S

Chain(l, id) ==
    {a \in Ids : /\ Known(l, a)
                 /\ \A S \in SUBSET Ids : id \in S /\ ParentClosed(l, S) => a \in S}

(* The held-out values on an axis along a chain; best_ancestor() returns   *)
(* the greatest of them, None when there is none.                          *)
Marks(l, id, axis) ==
    {l.data[a].measured.fitness[axis] :
        a \in {c \in Chain(l, id) : HasAxis(l.data[c], axis)}}

SetStatus(l, id, s) == IF id = None THEN l.status ELSE [l.status EXCEPT ![id] = s]

(* Mutants: the displaced champion is forgotten, or treated as failed. *)
InstallOver(l, id) ==
    [l EXCEPT !.status = [@ EXCEPT ![id] = "Champion"],
              !.champion = id,
              !.events = Append(@, Event("Promoted", id, l.champion))]

InstallQuarantining(l, id) ==
    [l EXCEPT !.status = [SetStatus(l, l.champion, "Quarantined") EXCEPT ![id] = "Champion"],
              !.champion = id,
              !.events = Append(@, Event("Promoted", id, l.champion))]

(* install: the displaced champion is retired first, then id takes over. *)
Install(l, id) ==
    [l EXCEPT !.status = [SetStatus(l, l.champion, "Retired") EXCEPT ![id] = "Champion"],
              !.champion = id,
              !.events = Append(@, Event("Promoted", id, l.champion))]

(* Mutant: a stale approval is as good as a fresh one. *)
MayPromoteStale(l, approval) == Known(l, approval.generation)

(* promote: an approval is [generation, incumbent]. *)
MayPromote(l, approval) ==
    Known(l, approval.generation) /\ approval.incumbent = l.champion

Promote(l, approval) ==
    IF MayPromote(l, approval) THEN Install(l, approval.generation) ELSE l

Refuse(l, id) == [l EXCEPT !.events = Append(@, Event("Refused", id, None))]

(* Mutants: the store is not asked, or any generation that did not fail    *)
(* will do.                                                                *)
FallbackPositionsUnasked(l, store) ==
    {p \in 1 .. Len(l.order) : l.status[l.order[p]] = "Retired"}

FallbackPositionsUntried(l, store) ==
    {p \in 1 .. Len(l.order) : /\ l.status[l.order[p]] \in {"Retired", "Candidate"}
                               /\ l.data[l.order[p]].artifact \in store}

(* Positions, from the newest back, of the retired generations that run. *)
FallbackPositions(l, store) ==
    {p \in 1 .. Len(l.order) : /\ l.status[l.order[p]] = "Retired"
                               /\ l.data[l.order[p]].artifact \in store}

HasFallback(l, store) == FallbackPositions(l, store) # {}

FallbackTarget(l, store) ==
    l.order[CHOOSE p \in FallbackPositions(l, store) :
                \A q \in FallbackPositions(l, store) : q <= p]

ApplyDemotion(l, current, target) ==
    [l EXCEPT !.status = [@ EXCEPT ![current] = "Quarantined", ![target] = "Champion"],
              !.champion = target,
              !.events = Append(@, Event("Demoted", current, target))]

(* demote_champion fails with NoFallback where MayDemote is false. *)
MayDemote(l, store) == l.champion # None /\ HasFallback(l, store)

DemoteChampion(l, store) ==
    IF MayDemote(l, store)
    THEN ApplyDemotion(l, l.champion, FallbackTarget(l, store)) ELSE l

(* The target is written last: a rollback to the champion keeps it. *)
ApplyRollback(l, from, target) ==
    [l EXCEPT !.status = [@ EXCEPT ![from] = "Retired", ![target] = "Champion"],
              !.champion = target,
              !.events = Append(@, Event("RolledBack", from, target))]

MayRollBack(l, target, store) ==
    /\ Known(l, target)
    /\ l.status[target] # "Quarantined"
    /\ l.data[target].artifact \in store
    /\ l.champion # None

RollBackTo(l, target, store) ==
    IF MayRollBack(l, target, store)
    THEN ApplyRollback(l, l.champion, target) ELSE l

PreviouslyDemoted(l, id) ==
    \E i \in 1 .. Len(l.events) : /\ l.events[i].event = "Demoted"
                                  /\ l.events[i].generation = id

-----------------------------------------------------------------------------
(* The generation an event leaves in authority. *)
Winner(e) == IF e.event = "Promoted" THEN e.generation ELSE e.other

Moves(l) == {p \in 1 .. Len(l.events) : l.events[p].event # "Refused"}

(* The events of l account for who is in authority and who has failed. *)
Explained(l) ==
    /\ l.champion = None <=> Moves(l) = {}
    /\ \A p \in Moves(l) :
          (\A q \in Moves(l) : q <= p) => l.champion = Winner(l.events[p])
    /\ \A i \in Ids :
          /\ l.status[i] = "Champion" <=> l.champion = i
          /\ l.status[i] = "Quarantined" <=> PreviouslyDemoted(l, i)
=============================================================================
