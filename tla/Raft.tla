--------------------------------- MODULE Raft ---------------------------------
(* RaftNode of RecursiveMachineIntelligence/src/distributed/consensus.rs.     *)
(* The library is driven by its caller: a timeout calls start_election, a     *)
(* message is handed to its handler, the answer goes back to the sender.  The *)
(* network may lose, delay, repeat and reorder: a message stays in its set    *)
(* and may be handled any number of times, or never.                          *)
EXTENDS Integers, Sequences, FiniteSets, FiniteSetsExt

CONSTANTS
    Node,       \* the cluster, the same for every node after add_node
    None,       \* no vote
    MaxTerm,    \* bound: elections end here
    MaxElections, \* bound: the elections ever started
    MaxLog,     \* bound: the longest log a leader proposes into
    MaxAppends  \* bound: the AppendEntries messages ever sent

ASSUME NodeAssumption == IsFiniteSet(Node) /\ Node # {} /\ None \notin Node
ASSUME BoundAssumption == {MaxTerm, MaxElections, MaxLog, MaxAppends} \subseteq Nat

VARIABLES
    term,       \* current_term
    votedFor,   \* voted_for
    role,
    log,        \* the terms and commands of the entries; position = index
    commit,     \* commit_index
    voters,     \* votes_received
    nextIndex,
    matchIndex,
    requests,   \* RequestVote messages
    ballots,    \* VoteResponse messages
    appends,    \* AppendEntries messages
    acks        \* AppendResponse messages

electionVars == <<term, votedFor, role, voters>>
leaderVars == <<nextIndex, matchIndex>>
vars == <<electionVars, log, commit, leaderVars, requests, ballots, appends, acks>>

Roles == {"Follower", "Candidate", "Leader"}
Commands == {"Noop", "Set"}
Entries == [term : Nat, command : Commands]

Requests == [term : Nat, candidate : Node, lastIndex : Nat, lastTerm : Nat]
Ballots == [term : Nat, voter : Node, candidate : Node, granted : BOOLEAN]
Appends == [term : Nat, leader : Node, to : Node, prevIndex : Nat, prevTerm : Nat,
            entries : Seq(Entries), commit : Nat]
Acks == [term : Nat, from : Node, to : Node, success : BOOLEAN, match : Nat]

TypeOK ==
    /\ term \in [Node -> Nat]
    /\ votedFor \in [Node -> Node \cup {None}]
    /\ role \in [Node -> Roles]
    /\ log \in [Node -> Seq(Entries)]
    /\ commit \in [Node -> Nat]
    /\ voters \in [Node -> SUBSET Node]
    /\ nextIndex \in [Node -> [Node -> Nat]]
    /\ matchIndex \in [Node -> [Node -> Nat]]
    /\ requests \subseteq Requests
    /\ ballots \subseteq Ballots
    /\ appends \subseteq Appends
    /\ acks \subseteq Acks

Init ==
    /\ term = [n \in Node |-> 0]
    /\ votedFor = [n \in Node |-> None]
    /\ role = [n \in Node |-> "Follower"]
    /\ log = [n \in Node |-> <<>>]
    /\ commit = [n \in Node |-> 0]
    /\ voters = [n \in Node |-> {}]
    /\ nextIndex = [n \in Node |-> [p \in Node |-> 1]]
    /\ matchIndex = [n \in Node |-> [p \in Node |-> 0]]
    /\ requests = {} /\ ballots = {} /\ appends = {} /\ acks = {}

-----------------------------------------------------------------------------
(* Helpers.                                                                  *)

QuorumSize == (Cardinality(Node) \div 2) + 1

LastIndex(n) == Len(log[n])
TermAt(l, i) == IF i \in 1 .. Len(l) THEN l[i].term ELSE 0
LastTerm(n) == TermAt(log[n], Len(log[n]))

(* step_down, when a message shows a higher term. *)
SeenTerm(n, t) == IF t > term[n] THEN t ELSE term[n]
SeenVote(n, t) == IF t > term[n] THEN None ELSE votedFor[n]
SeenRole(n, t) == IF t > term[n] THEN "Follower" ELSE role[n]
SeenVoters(n, t) == IF t > term[n] THEN {} ELSE voters[n]

(* become_leader: next_index is taken before the no-op is pushed.            *)
BecomeLeader(n, t) ==
    /\ nextIndex' = [nextIndex EXCEPT ![n] = [p \in Node |-> Len(log[n]) + 1]]
    /\ matchIndex' = [matchIndex EXCEPT ![n] = [p \in Node |-> 0]]
    /\ log' = [log EXCEPT ![n] = Append(@, [term |-> t, command |-> "Noop"])]

-----------------------------------------------------------------------------
(* Elections.                                                                *)

(* start_election: any node whose timeout elapsed; nothing in the code keeps *)
(* a leader from it.  A node alone is its own quorum.                        *)
StartElection(n) ==
    /\ term[n] < MaxTerm /\ Cardinality(requests) < MaxElections
    /\ term' = [term EXCEPT ![n] = @ + 1]
    /\ votedFor' = [votedFor EXCEPT ![n] = n]
    /\ voters' = [voters EXCEPT ![n] = {n}]
    /\ IF QuorumSize <= 1
       THEN /\ role' = [role EXCEPT ![n] = "Leader"]
            /\ BecomeLeader(n, term[n] + 1)
       ELSE /\ role' = [role EXCEPT ![n] = "Candidate"]
            /\ UNCHANGED <<log, leaderVars>>
    /\ requests' = requests \cup
         {[term |-> term[n] + 1, candidate |-> n,
           lastIndex |-> Len(log'[n]), lastTerm |-> TermAt(log'[n], Len(log'[n]))]}
    /\ UNCHANGED <<commit, ballots, appends, acks>>

UpToDate(n, m) ==
    \/ m.lastTerm > LastTerm(n)
    \/ m.lastTerm = LastTerm(n) /\ m.lastIndex >= LastIndex(n)

(* Mutant: the vote of this term is not looked at. *)
GrantsAgain(n, m) ==
    /\ m.term >= SeenTerm(n, m.term)
    /\ UpToDate(n, m)

Grants(n, m) ==
    /\ m.term >= SeenTerm(n, m.term)
    /\ SeenVote(n, m.term) \in {None, m.candidate}
    /\ UpToDate(n, m)

Answer(n, m) ==
    [term |-> SeenTerm(n, m.term), voter |-> n, candidate |-> m.candidate,
     granted |-> Grants(n, m)]

(* A refusal without a higher term changes nothing at the candidate and is   *)
(* not kept.                                                                 *)
HandleRequestVote(n, m) ==
    /\ m \in requests /\ m.candidate # n
    /\ term' = [term EXCEPT ![n] = SeenTerm(n, m.term)]
    /\ role' = [role EXCEPT ![n] = SeenRole(n, m.term)]
    /\ voters' = [voters EXCEPT ![n] = SeenVoters(n, m.term)]
    /\ votedFor' = [votedFor EXCEPT ![n] =
                        IF Grants(n, m) THEN m.candidate ELSE SeenVote(n, m.term)]
    /\ ballots' = ballots \cup {b \in {Answer(n, m)} : b.granted \/ b.term > m.term}
    /\ UNCHANGED <<log, commit, leaderVars, requests, appends, acks>>

(* handle_vote_response. *)
CountBallot(n, m) ==
    /\ m \in ballots /\ m.candidate = n
    /\ \/ /\ m.term > term[n]
          /\ term' = [term EXCEPT ![n] = m.term]
          /\ role' = [role EXCEPT ![n] = "Follower"]
          /\ votedFor' = [votedFor EXCEPT ![n] = None]
          /\ voters' = [voters EXCEPT ![n] = {}]
          /\ UNCHANGED <<log, leaderVars>>
       \/ /\ m.term = term[n] /\ role[n] = "Candidate" /\ m.granted
          /\ voters' = [voters EXCEPT ![n] = @ \cup {m.voter}]
          /\ IF Cardinality(voters[n] \cup {m.voter}) >= QuorumSize
             THEN /\ role' = [role EXCEPT ![n] = "Leader"]
                  /\ BecomeLeader(n, term[n])
             ELSE UNCHANGED <<role, log, leaderVars>>
          /\ UNCHANGED <<term, votedFor>>
    /\ UNCHANGED <<commit, requests, ballots, appends, acks>>

-----------------------------------------------------------------------------
(* Replication.                                                              *)

(* propose. *)
Propose(n) ==
    /\ role[n] = "Leader" /\ Len(log[n]) < MaxLog
    /\ log' = [log EXCEPT ![n] = Append(@, [term |-> term[n], command |-> "Set"])]
    /\ UNCHANGED <<electionVars, commit, leaderVars, requests, ballots, appends, acks>>

(* create_append_entries: everything from next_index on. *)
SendAppend(n, p) ==
    LET prev == IF nextIndex[n][p] > 0 THEN nextIndex[n][p] - 1 ELSE 0 IN
    /\ role[n] = "Leader" /\ p # n /\ Cardinality(appends) < MaxAppends
    /\ appends' = appends \cup
         {[term |-> term[n], leader |-> n, to |-> p, prevIndex |-> prev,
           prevTerm |-> TermAt(log[n], prev),
           entries |-> SubSeq(log[n], prev + 1, Len(log[n])), commit |-> commit[n]]}
    /\ UNCHANGED <<electionVars, log, commit, leaderVars, requests, ballots, acks>>

(* The loop over the entries cuts the log at the first of them, whether or   *)
(* not it conflicts, and pushes them all; without entries it changes nothing.*)
Overwrite(l, m) ==
    IF m.entries = <<>> THEN l ELSE SubSeq(l, 1, m.prevIndex) \o m.entries

(* Mutant: an old leader's entries are not refused. *)
NeverStale(n, m) == FALSE

Stale(n, m) == m.term < term[n]

Missing(n, m) == m.prevIndex > Len(log[n])
(* Mutant: an entry of another term before the new ones is accepted. *)
NoConflict(n, m) == FALSE

Conflicts(n, m) ==
    m.prevIndex \in 1 .. Len(log[n]) /\ log[n][m.prevIndex].term # m.prevTerm

Ack(n, m, success, match) ==
    [term |-> SeenTerm(n, m.term), from |-> n, to |-> m.leader,
     success |-> success, match |-> match]

HandleAppend(n, m) ==
    /\ m \in appends /\ m.to = n
    /\ term' = [term EXCEPT ![n] = SeenTerm(n, m.term)]
    /\ votedFor' = [votedFor EXCEPT ![n] = SeenVote(n, m.term)]
    /\ voters' = [voters EXCEPT ![n] = SeenVoters(n, m.term)]
    /\ IF Stale(n, m)
       THEN /\ acks' = acks \cup {Ack(n, m, FALSE, 0)}
            /\ UNCHANGED <<role, log, commit>>
       ELSE /\ role' = [role EXCEPT ![n] =
                  IF SeenRole(n, m.term) = "Candidate" THEN "Follower"
                                                       ELSE SeenRole(n, m.term)]
            /\ \/ /\ Conflicts(n, m)
                  /\ log' = [log EXCEPT ![n] = SubSeq(@, 1, m.prevIndex - 1)]
                  /\ acks' = acks \cup {Ack(n, m, FALSE, m.prevIndex - 1)}
                  /\ UNCHANGED commit
               \/ /\ Missing(n, m)
                  /\ acks' = acks \cup {Ack(n, m, FALSE, Len(log[n]))}
                  /\ UNCHANGED <<log, commit>>
               \/ /\ ~Conflicts(n, m) /\ ~Missing(n, m)
                  /\ log' = [log EXCEPT ![n] = Overwrite(@, m)]
                  /\ commit' = [commit EXCEPT ![n] =
                        IF m.commit > @ THEN Min({m.commit, Len(log'[n])}) ELSE @]
                  /\ acks' = acks \cup {Ack(n, m, TRUE, Len(log'[n]))}
    /\ UNCHANGED <<leaderVars, requests, ballots, appends>>

(* try_advance_commit, with the acknowledged indices in match. *)
Replicated(match, n, i) == 1 + Cardinality({p \in Node \ {n} : match[p] >= i})

Committable(match, n) ==
    {i \in commit[n] + 1 .. Len(log[n]) :
        Replicated(match, n, i) >= QuorumSize /\ log[n][i].term = term[n]}

(* Mutant: the walk back does not stop at the first entry. *)
BackUpPastStart(i) == i - 1

(* A refused follower is tried from one entry earlier. *)
BackUp(i) == IF i > 1 THEN i - 1 ELSE i

(* handle_append_response: the term of the answer is not read. *)
HandleAck(n, m) ==
    /\ m \in acks /\ m.to = n /\ role[n] = "Leader"
    /\ \/ /\ m.success
          /\ matchIndex' = [matchIndex EXCEPT ![n][m.from] = m.match]
          /\ nextIndex' = [nextIndex EXCEPT ![n][m.from] = m.match + 1]
          /\ \E c \in {commit[n]} \cup Committable(matchIndex'[n], n) :
                /\ \A i \in Committable(matchIndex'[n], n) : i <= c
                /\ commit' = [commit EXCEPT ![n] = c]
       \/ /\ ~m.success
          /\ nextIndex' = [nextIndex EXCEPT ![n][m.from] = BackUp(@)]
          /\ UNCHANGED <<matchIndex, commit>>
    /\ UNCHANGED <<electionVars, log, requests, ballots, appends, acks>>

Next ==
    \E n \in Node :
        \/ StartElection(n)
        \/ \E m \in requests : HandleRequestVote(n, m)
        \/ \E m \in ballots : CountBallot(n, m)
        \/ Propose(n)
        \/ \E p \in Node : SendAppend(n, p)
        \/ \E m \in appends : HandleAppend(n, m)
        \/ \E m \in acks : HandleAck(n, m)

Spec == Init /\ [][Next]_vars

-----------------------------------------------------------------------------
(* Properties.                                                               *)

(* Election safety ("Each node votes at most once per term", and a quorum is *)
(* needed): two nodes never lead the same term, however ballots are delayed  *)
(* or repeated.                                                              *)
ElectionSafety ==
    \A m, n \in Node :
        role[m] = "Leader" /\ role[n] = "Leader" /\ term[m] = term[n] => m = n

(* Two logs that have an entry of the same term at an index are equal up to  *)
(* it (handle_append_entries' consistency check), whatever old entries       *)
(* arrive late.                                                              *)
LogMatching ==
    \A m, n \in Node : \A i \in 1 .. Min({Len(log[m]), Len(log[n])}) :
        log[m][i].term = log[n][i].term => SubSeq(log[m], 1, i) = SubSeq(log[n], 1, i)

(* A leader never drops or rewrites an entry of its own log while it leads   *)
(* its term.                                                                 *)
LeaderAppendOnly ==
    [][\A n \in Node :
          role[n] = "Leader" /\ role'[n] = "Leader" /\ term'[n] = term[n] =>
              /\ Len(log'[n]) >= Len(log[n])
              /\ SubSeq(log'[n], 1, Len(log[n])) = log[n]]_vars

(* consensus.rs:17-19: the vote rule is "guaranteeing the Leader Completeness*)
(* property".  What a leader has committed in its term is in the log of      *)
(* every leader of a later term.                                             *)
LeaderCompleteness ==
    \A m, n \in Node :
        role[m] = "Leader" /\ role[n] = "Leader" /\ term[m] < term[n] =>
            \A i \in 1 .. Min({commit[m], Len(log[m])}) :
                log[m][i].term = term[m] =>
                    i <= Len(log[n]) /\ log[n][i] = log[m][i]
=============================================================================
