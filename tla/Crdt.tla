---------------------------------- MODULE Crdt ----------------------------------
(* The merge engine of prototype/src/crdt.rs: replicas apply the stamped      *)
(* operations of several authors, one at a time or in batches, in any order   *)
(* and any number of times, and keep the winner for each target.              *)
EXTENDS Integers, Sequences, FiniteSets, SequencesExt

CONSTANTS
    Replica, Author,
    Target,      \* the values of target_key
    AgentHash,   \* the hash of each author's name, the tie-breaker of clocks
    MaxTime      \* bound: the Lamport times in use

ASSUME CrdtAssumption == AgentHash \in [Author -> Nat] /\ MaxTime \in Nat

VARIABLES
    issued,     \* the operations there are
    history,    \* by replica: which of them it applied, its history as a set
    resolved    \* by replica: the winning operation of each target

crdtVars == <<issued, history, resolved>>

CrdtInit ==
    /\ issued = {}
    /\ history = [r \in Replica |-> {}]
    /\ resolved = [r \in Replica |-> <<>>]

-----------------------------------------------------------------------------
(* Mutant: the time decides alone. *)
NewerByTime(o, p) == o.time > p.time

(* The derived order of LamportClock: the time, then the hash. *)
Newer(o, p) ==
    \/ o.time > p.time
    \/ o.time = p.time /\ AgentHash[o.author] > AgentHash[p.author]

(* apply: the winners once o has met those of before. *)
Merge(winners, o) ==
    IF o.target \in DOMAIN winners /\ ~Newer(o, winners[o.target]) THEN winners
    ELSE [k \in DOMAIN winners \cup {o.target} |-> IF k = o.target THEN o ELSE winners[k]]

(* apply_batch sorts by the clocks, stably: equal ones stay as they came ... *)
Sorted(ops) == \A i, j \in 1 .. Len(ops) : i < j => ~Newer(ops[i], ops[j])

(* ... and applies one after the other. *)
MergeAll(winners, ops) ==
    LET merged[n \in 0 .. Len(ops)] ==
            IF n = 0 THEN winners ELSE Merge(merged[n - 1], ops[n])
    IN merged[Len(ops)]

-----------------------------------------------------------------------------
(* An author stamps with a time after its last one, of its own clock ticked  *)
(* or merged with another's.                                                 *)
Issue(a, time, k) ==
    /\ \A o \in issued : o.author = a => o.time < time
    /\ issued' = issued \cup {[author |-> a, time |-> time, target |-> k]}
    /\ UNCHANGED <<history, resolved>>

Apply(r, o) ==
    /\ history' = [history EXCEPT ![r] = @ \cup {o}]
    /\ resolved' = [resolved EXCEPT ![r] = Merge(@, o)]
    /\ UNCHANGED issued

ApplyBatch(r, ops) ==
    /\ Sorted(ops)
    /\ history' = [history EXCEPT ![r] = @ \cup ToSet(ops)]
    /\ resolved' = [resolved EXCEPT ![r] = MergeAll(@, ops)]
    /\ UNCHANGED issued

CrdtNext ==
    \/ \E a \in Author, time \in 1 .. MaxTime, k \in Target : Issue(a, time, k)
    \/ \E r \in Replica, o \in issued : Apply(r, o)
    \/ \E r \in Replica, batch \in SUBSET issued : \E ops \in SetToSeqs(batch) : ApplyBatch(r, ops)

CrdtSpec == CrdtInit /\ [][CrdtNext]_crdtVars

-----------------------------------------------------------------------------
(* Operations are "commutative, idempotent" (crdt.rs:4-5) and the last writer*)
(* wins: what a replica has resolved depends on which operations it applied  *)
(* and on nothing else, not on their order, repetitions or batches; so two   *)
(* replicas that applied the same ones agree, and neither kept a loser.      *)
ReplicasConverge ==
    /\ \A r, s \in Replica : history[r] = history[s] => resolved[r] = resolved[s]
    /\ \A r \in Replica : \A o \in history[r] :
          LET winner == resolved[r][o.target] IN
             winner \in history[r] /\ winner.target = o.target /\ ~Newer(o, winner)
=============================================================================
