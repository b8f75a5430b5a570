------------------------------ MODULE RaftProofs ------------------------------
(***************************************************************************)
(* Election safety, append-only leaders and log matching of RaftNode, for  *)
(* a cluster of any size, any number of elections, and any loss, delay,    *)
(* repetition or reordering of messages.  The messages ever sent are the   *)
(* history the arguments need: a counted vote is backed by a ballot that   *)
(* was sent, a voter sends one candidate its ballots of a term, and every  *)
(* entry of a log or of a message was written by the one node its term     *)
(* elected.                                                                *)
(***************************************************************************)
EXTENDS Raft, TLAPS, FiniteSetTheorems, WellFoundedInduction

(* A vote that a node has counted was cast for it in its present term. *)
VotesCounted ==
    \A n \in Node : \A v \in voters[n] \ {n} :
        [term |-> term[n], voter |-> v, candidate |-> n, granted |-> TRUE] \in ballots

(* Whoever stands for election or leads has voted for itself. *)
OwnVote == \A n \in Node : role[n] # "Follower" => votedFor[n] = n

(* A granted ballot binds its voter: while the voter is still in the term,  *)
(* voted_for names the candidate.                                           *)
BallotsBind ==
    \A b \in ballots : b.granted =>
        /\ b.candidate # b.voter
        /\ b.term <= term[b.voter]
        /\ b.term = term[b.voter] => votedFor[b.voter] = b.candidate

(* The ballots a voter grants in one term all go to one candidate. *)
OneVote ==
    \A b, c \in ballots :
        b.granted /\ c.granted /\ b.voter = c.voter /\ b.term = c.term
            => b.candidate = c.candidate

LeaderHasQuorum ==
    \A n \in Node : role[n] = "Leader" => Cardinality(voters[n]) >= QuorumSize

Votes == VotesCounted /\ OwnVote /\ BallotsBind /\ OneVote /\ LeaderHasQuorum

-----------------------------------------------------------------------------
(* Arithmetic and typing of the helpers.                                     *)

(* quorum_size is a number, and two quorums are more than the cluster. *)
LEMMA QuorumFacts ==
    /\ Cardinality(Node) \in Nat
    /\ QuorumSize \in Nat
    /\ QuorumSize + QuorumSize > Cardinality(Node)
  <1>1. Cardinality(Node) \in Nat
    BY NodeAssumption, FS_CardinalityType
  <1> DEFINE c == Cardinality(Node)
  <1>2. c \in Nat
    BY <1>1
  <1> HIDE DEF c
  <1>3. c \div 2 \in Nat /\ 2 * (c \div 2) >= c - 1
    BY <1>2
  <1> QED
    BY <1>1, <1>3 DEF QuorumSize, c

(* Two quorums of voters share a node. *)
LEMMA QuorumsIntersect ==
    ASSUME NEW A \in SUBSET Node, NEW B \in SUBSET Node,
           Cardinality(A) >= QuorumSize, Cardinality(B) >= QuorumSize
    PROVE  A \cap B # {}
  <1>1. Cardinality(A) \in Nat /\ Cardinality(B) \in Nat
    BY NodeAssumption, FS_Subset, FS_CardinalityType
  <1>2. Cardinality(A) + Cardinality(B) > Cardinality(Node)
    BY <1>1, QuorumFacts
  <1> QED
    BY <1>2, NodeAssumption, FS_MajoritiesIntersect

(* The smaller of two numbers, as handle_append_entries takes it, is one of  *)
(* them.                                                                     *)
LEMMA MinOfTwo ==
    ASSUME NEW a \in Nat, NEW b \in Nat
    PROVE  Min({a, b}) \in Nat
  <1>1. \E x \in {a, b} : \A y \in {a, b} : x <= y
    OBVIOUS
  <1>2. Min({a, b}) \in {a, b}
    BY <1>1 DEF Min
  <1> QED
    BY <1>2

LEMMA TermAtTyped ==
    ASSUME NEW l \in Seq(Entries), NEW i \in Nat
    PROVE  TermAt(l, i) \in Nat
  <1>1. CASE i \in 1 .. Len(l)
    <2>1. l[i] \in Entries
      BY <1>1
    <2>2. l[i].term \in Nat
      BY <2>1 DEF Entries
    <2> QED
      BY <1>1, <2>2 DEF TermAt
  <1>2. CASE i \notin 1 .. Len(l)
    BY <1>2 DEF TermAt
  <1> QED
    BY <1>1, <1>2

LEMMA PrefixTyped ==
    ASSUME NEW l \in Seq(Entries), NEW a \in Nat \ {0}, NEW b \in Int, b <= Len(l)
    PROVE  SubSeq(l, a, b) \in Seq(Entries)
  OBVIOUS

(* The log a follower is left with is a log. *)
LEMMA OverwriteTyped ==
    ASSUME NEW l \in Seq(Entries), NEW m \in Appends, m.prevIndex <= Len(l)
    PROVE  Overwrite(l, m) \in Seq(Entries)
  <1>1. m.prevIndex \in Nat /\ m.entries \in Seq(Entries)
    BY DEF Appends
  <1>2. SubSeq(l, 1, m.prevIndex) \in Seq(Entries)
    BY <1>1, PrefixTyped
  <1> QED
    BY <1>1, <1>2 DEF Overwrite

LEMMA SeenTyped ==
    ASSUME TypeOK, NEW n \in Node, NEW t \in Nat
    PROVE  /\ SeenTerm(n, t) \in Nat /\ SeenTerm(n, t) >= term[n]
           /\ SeenVote(n, t) \in Node \cup {None}
           /\ SeenRole(n, t) \in Roles
           /\ SeenVoters(n, t) \in SUBSET Node
  BY DEF TypeOK, SeenTerm, SeenVote, SeenRole, SeenVoters, Roles

LEMMA BecomeLeaderTyped ==
    ASSUME TypeOK, NEW n \in Node, NEW t \in Nat, BecomeLeader(n, t)
    PROVE  /\ log' \in [Node -> Seq(Entries)]
           /\ nextIndex' \in [Node -> [Node -> Nat]]
           /\ matchIndex' \in [Node -> [Node -> Nat]]
  <1>1. [term |-> t, command |-> "Noop"] \in Entries
    BY DEF Entries, Commands
  <1>2. log[n] \in Seq(Entries) /\ Len(log[n]) + 1 \in Nat
    BY DEF TypeOK
  <1>3. Append(log[n], [term |-> t, command |-> "Noop"]) \in Seq(Entries)
    BY <1>1, <1>2
  <1> QED
    BY <1>2, <1>3 DEF BecomeLeader, TypeOK

-----------------------------------------------------------------------------
(* Type correctness, one lemma per handler.                                  *)

LEMMA StartElectionTyped ==
    ASSUME TypeOK, NEW n \in Node, StartElection(n)
    PROVE  TypeOK'
  <1>1. term[n] + 1 \in Nat
    BY DEF TypeOK
  <1>2. /\ log' \in [Node -> Seq(Entries)]
        /\ nextIndex' \in [Node -> [Node -> Nat]]
        /\ matchIndex' \in [Node -> [Node -> Nat]]
        /\ role' \in [Node -> Roles]
    <2>1. CASE QuorumSize <= 1
      <3>1. BecomeLeader(n, term[n] + 1) /\ role' = [role EXCEPT ![n] = "Leader"]
        BY <2>1 DEF StartElection
      <3> QED
        BY <3>1, <1>1, BecomeLeaderTyped DEF TypeOK, Roles
    <2>2. CASE ~(QuorumSize <= 1)
      BY <2>2 DEF StartElection, TypeOK, Roles, leaderVars
    <2> QED
      BY <2>1, <2>2
  <1>3. requests' \subseteq Requests
    <2>1. log'[n] \in Seq(Entries) /\ Len(log'[n]) \in Nat
      BY <1>2
    <2>2. TermAt(log'[n], Len(log'[n])) \in Nat
      BY <2>1, TermAtTyped
    <2> QED
      BY <1>1, <2>1, <2>2 DEF StartElection, TypeOK, Requests
  <1>4. /\ term' \in [Node -> Nat] /\ votedFor' \in [Node -> Node \cup {None}]
        /\ voters' \in [Node -> SUBSET Node]
        /\ commit' = commit /\ ballots' = ballots /\ appends' = appends /\ acks' = acks
    BY <1>1 DEF StartElection, TypeOK
  <1> QED
    BY <1>2, <1>3, <1>4 DEF TypeOK

LEMMA HandleRequestVoteTyped ==
    ASSUME TypeOK, NEW n \in Node, NEW m \in requests, HandleRequestVote(n, m)
    PROVE  TypeOK'
  <1>1. m \in Requests /\ m.term \in Nat /\ m.candidate \in Node
    BY DEF TypeOK, Requests
  <1>2. /\ SeenTerm(n, m.term) \in Nat /\ SeenVote(n, m.term) \in Node \cup {None}
        /\ SeenRole(n, m.term) \in Roles /\ SeenVoters(n, m.term) \in SUBSET Node
    BY <1>1, SeenTyped
  <1>3. Grants(n, m) \in BOOLEAN
    BY DEF Grants
  <1>4. Answer(n, m) \in Ballots
    BY <1>1, <1>2, <1>3 DEF Answer, Ballots
  <1>5. ballots' \subseteq Ballots
    BY <1>4 DEF HandleRequestVote, TypeOK
  <1>6. /\ term' \in [Node -> Nat] /\ votedFor' \in [Node -> Node \cup {None}]
        /\ role' \in [Node -> Roles] /\ voters' \in [Node -> SUBSET Node]
    BY <1>1, <1>2 DEF HandleRequestVote, TypeOK
  <1> QED
    BY <1>5, <1>6 DEF HandleRequestVote, TypeOK, leaderVars

LEMMA CountBallotTyped ==
    ASSUME TypeOK, NEW n \in Node, NEW m \in ballots, CountBallot(n, m)
    PROVE  TypeOK'
  <1>1. m.term \in Nat /\ m.voter \in Node /\ term[n] \in Nat
    BY DEF TypeOK, Ballots
  <1>2. UNCHANGED <<commit, requests, ballots, appends, acks>>
    BY DEF CountBallot
  <1>3. CASE m.term > term[n]
    <2>1. m.term # term[n]
      BY <1>1, <1>3
    <2>2. /\ term' = [term EXCEPT ![n] = m.term]
          /\ role' = [role EXCEPT ![n] = "Follower"]
          /\ votedFor' = [votedFor EXCEPT ![n] = None]
          /\ voters' = [voters EXCEPT ![n] = {}]
          /\ UNCHANGED <<log, nextIndex, matchIndex>>
      BY <2>1 DEF CountBallot, leaderVars
    <2> QED
      BY <1>1, <1>2, <2>2 DEF TypeOK, Roles
  <1>4. CASE ~(m.term > term[n])
    <2>1. /\ voters' = [voters EXCEPT ![n] = @ \cup {m.voter}]
          /\ UNCHANGED <<term, votedFor>>
      BY <1>4 DEF CountBallot
    <2>2. /\ log' \in [Node -> Seq(Entries)] /\ role' \in [Node -> Roles]
          /\ nextIndex' \in [Node -> [Node -> Nat]]
          /\ matchIndex' \in [Node -> [Node -> Nat]]
      <3>1. CASE Cardinality(voters[n] \cup {m.voter}) >= QuorumSize
        <4>1. BecomeLeader(n, term[n]) /\ role' = [role EXCEPT ![n] = "Leader"]
          BY <1>4, <3>1 DEF CountBallot
        <4> QED
          BY <4>1, <1>1, BecomeLeaderTyped DEF TypeOK, Roles
      <3>2. CASE ~(Cardinality(voters[n] \cup {m.voter}) >= QuorumSize)
        BY <1>4, <3>2 DEF CountBallot, TypeOK, leaderVars
      <3> QED
        BY <3>1, <3>2
    <2>3. voters' \in [Node -> SUBSET Node]
      BY <1>1, <2>1 DEF TypeOK
    <2> QED
      BY <1>2, <2>1, <2>2, <2>3 DEF TypeOK
  <1> QED
    BY <1>3, <1>4

LEMMA ProposeTyped ==
    ASSUME TypeOK, NEW n \in Node, Propose(n)
    PROVE  TypeOK'
  <1>1. [term |-> term[n], command |-> "Set"] \in Entries
    BY DEF Entries, Commands, TypeOK
  <1>2. log' \in [Node -> Seq(Entries)]
    BY <1>1 DEF Propose, TypeOK
  <1> QED
    BY <1>2 DEF Propose, TypeOK, electionVars, leaderVars

LEMMA SendAppendTyped ==
    ASSUME TypeOK, NEW n \in Node, NEW p \in Node, SendAppend(n, p)
    PROVE  TypeOK'
  <1> DEFINE prev == IF nextIndex[n][p] > 0 THEN nextIndex[n][p] - 1 ELSE 0
             msg == [term |-> term[n], leader |-> n, to |-> p, prevIndex |-> prev,
                     prevTerm |-> TermAt(log[n], prev),
                     entries |-> SubSeq(log[n], prev + 1, Len(log[n])),
                     commit |-> commit[n]]
  <1>1. nextIndex[n][p] \in Nat /\ log[n] \in Seq(Entries)
        /\ term[n] \in Nat /\ commit[n] \in Nat
    BY DEF TypeOK
  <1>2. prev \in Nat
    BY <1>1
  <1>3. appends' = appends \cup {msg}
    BY DEF SendAppend
  <1> HIDE DEF prev
  <1>4. SubSeq(log[n], prev + 1, Len(log[n])) \in Seq(Entries)
    BY <1>1, <1>2, PrefixTyped
  <1>5. TermAt(log[n], prev) \in Nat
    BY <1>1, <1>2, TermAtTyped
  <1>6. msg \in Appends
    BY <1>1, <1>2, <1>4, <1>5 DEF Appends
  <1> HIDE DEF msg
  <1>7. appends' \subseteq Appends
    BY <1>3, <1>6 DEF TypeOK
  <1> QED
    BY <1>7 DEF SendAppend, TypeOK, electionVars, leaderVars

LEMMA HandleAppendTyped ==
    ASSUME TypeOK, NEW n \in Node, NEW m \in appends, HandleAppend(n, m)
    PROVE  TypeOK'
  <1>1. /\ m \in Appends /\ m.term \in Nat /\ m.leader \in Node
        /\ m.prevIndex \in Nat /\ m.commit \in Nat
    BY DEF TypeOK, Appends
  <1>2. /\ SeenTerm(n, m.term) \in Nat /\ SeenVote(n, m.term) \in Node \cup {None}
        /\ SeenRole(n, m.term) \in Roles /\ SeenVoters(n, m.term) \in SUBSET Node
    BY <1>1, SeenTyped
  <1>3. /\ term' \in [Node -> Nat] /\ votedFor' \in [Node -> Node \cup {None}]
        /\ voters' \in [Node -> SUBSET Node]
        /\ UNCHANGED <<nextIndex, matchIndex, requests, ballots, appends>>
    BY <1>2 DEF HandleAppend, TypeOK, leaderVars
  <1>4. \A s \in BOOLEAN, i \in Nat : Ack(n, m, s, i) \in Acks
    BY <1>1, <1>2 DEF Ack, Acks
  <1>5. log[n] \in Seq(Entries) /\ Len(log[n]) \in Nat /\ commit[n] \in Nat
    BY DEF TypeOK
  <1>6. role' \in [Node -> Roles]
    BY <1>2 DEF HandleAppend, TypeOK, Roles
  <1>7. /\ log' \in [Node -> Seq(Entries)] /\ commit' \in [Node -> Nat]
        /\ acks' \subseteq Acks
    <2>1. CASE Stale(n, m)
      BY <2>1, <1>4 DEF HandleAppend, TypeOK
    <2>2. CASE ~Stale(n, m) /\ Conflicts(n, m)
      <3>1. ~Missing(n, m) /\ m.prevIndex - 1 \in Nat /\ m.prevIndex - 1 <= Len(log[n])
        BY <2>2, <1>1, <1>5 DEF Conflicts, Missing
      <3>2. /\ log' = [log EXCEPT ![n] = SubSeq(@, 1, m.prevIndex - 1)]
            /\ acks' = acks \cup {Ack(n, m, FALSE, m.prevIndex - 1)}
            /\ UNCHANGED commit
        BY <2>2, <3>1 DEF HandleAppend
      <3>3. SubSeq(log[n], 1, m.prevIndex - 1) \in Seq(Entries)
        BY <1>5, <3>1, PrefixTyped
      <3> QED
        BY <3>1, <3>2, <3>3, <1>4 DEF TypeOK
    <2>3. CASE ~Stale(n, m) /\ ~Conflicts(n, m) /\ Missing(n, m)
      <3>1. /\ acks' = acks \cup {Ack(n, m, FALSE, Len(log[n]))}
            /\ log' = log /\ commit' = commit
        BY <2>3 DEF HandleAppend
      <3>2. Ack(n, m, FALSE, Len(log[n])) \in Acks
        BY <1>4, <1>5
      <3> QED
        BY <3>1, <3>2 DEF TypeOK
    <2>4. CASE ~Stale(n, m) /\ ~Conflicts(n, m) /\ ~Missing(n, m)
      <3>1. /\ log' = [log EXCEPT ![n] = Overwrite(@, m)]
            /\ commit' = [commit EXCEPT ![n] =
                  IF m.commit > @ THEN Min({m.commit, Len(log'[n])}) ELSE @]
            /\ acks' = acks \cup {Ack(n, m, TRUE, Len(log'[n]))}
        BY <2>4 DEF HandleAppend
      <3>2. m.prevIndex <= Len(log[n])
        BY <2>4, <1>1, <1>5 DEF Missing
      <3>3. Overwrite(log[n], m) \in Seq(Entries)
        BY <1>1, <1>5, <3>2, OverwriteTyped
      <3>4. log' \in [Node -> Seq(Entries)]
        BY <3>1, <3>3 DEF TypeOK
      <3>5. Len(log'[n]) \in Nat
        BY <3>4
      <3>6. Min({m.commit, Len(log'[n])}) \in Nat
        BY <1>1, <3>5, MinOfTwo
      <3>7. commit' \in [Node -> Nat]
        BY <3>1, <3>6 DEF TypeOK
      <3>8. acks' \subseteq Acks
        BY <3>1, <3>5, <1>4 DEF TypeOK
      <3> QED
        BY <3>4, <3>7, <3>8
    <2> QED
      BY <2>1, <2>2, <2>3, <2>4
  <1> QED
    BY <1>3, <1>6, <1>7 DEF TypeOK

LEMMA HandleAckTyped ==
    ASSUME TypeOK, NEW n \in Node, NEW m \in acks, HandleAck(n, m)
    PROVE  TypeOK'
  <1>1. m.from \in Node /\ m.match \in Nat
    BY DEF TypeOK, Acks
  <1>2. UNCHANGED <<term, votedFor, role, voters, log, requests, ballots, appends, acks>>
    BY DEF HandleAck, electionVars
  <1>3. CASE m.success
    <2>1. /\ matchIndex' = [matchIndex EXCEPT ![n][m.from] = m.match]
          /\ nextIndex' = [nextIndex EXCEPT ![n][m.from] = m.match + 1]
          /\ \E c \in {commit[n]} \cup Committable(matchIndex'[n], n) :
                commit' = [commit EXCEPT ![n] = c]
      BY <1>3 DEF HandleAck
    <2>2. Committable(matchIndex'[n], n) \subseteq Nat
      <3>1. commit[n] \in Nat /\ log[n] \in Seq(Entries)
        BY DEF TypeOK
      <3> QED
        BY <3>1 DEF Committable
    <2>3. commit' \in [Node -> Nat]
      <3>1. commit \in [Node -> Nat]
        BY DEF TypeOK
      <3> QED
        BY <2>1, <2>2, <3>1
    <2>4. /\ matchIndex' \in [Node -> [Node -> Nat]]
          /\ nextIndex' \in [Node -> [Node -> Nat]]
      <3>1. m.match + 1 \in Nat
        BY <1>1
      <3>2. /\ matchIndex \in [Node -> [Node -> Nat]]
            /\ nextIndex \in [Node -> [Node -> Nat]]
        BY DEF TypeOK
      <3>3. matchIndex' \in [Node -> [Node -> Nat]]
        BY <1>1, <2>1, <3>2
      <3>4. nextIndex' \in [Node -> [Node -> Nat]]
        BY <1>1, <2>1, <3>1, <3>2
      <3> QED
        BY <3>3, <3>4
    <2> QED
      BY <1>2, <2>3, <2>4 DEF TypeOK
  <1>4. CASE ~m.success
    <2>1. /\ nextIndex' = [nextIndex EXCEPT ![n][m.from] = BackUp(@)]
          /\ UNCHANGED <<matchIndex, commit>>
      BY <1>4 DEF HandleAck
    <2>2. BackUp(nextIndex[n][m.from]) \in Nat
      BY <1>1 DEF BackUp, TypeOK
    <2>3. nextIndex' \in [Node -> [Node -> Nat]]
      BY <1>1, <2>1, <2>2 DEF TypeOK
    <2> QED
      BY <1>2, <2>1, <2>3 DEF TypeOK
  <1> QED
    BY <1>3, <1>4

LEMMA StepTyped == TypeOK /\ [Next]_vars => TypeOK'
  <1> SUFFICES ASSUME TypeOK, [Next]_vars
               PROVE  TypeOK'
    OBVIOUS
  <1>1. CASE UNCHANGED vars
    BY <1>1 DEF TypeOK, vars, electionVars, leaderVars
  <1>2. CASE Next
    <2>1. PICK n \in Node :
              \/ StartElection(n)
              \/ \E m \in requests : HandleRequestVote(n, m)
              \/ \E m \in ballots : CountBallot(n, m)
              \/ Propose(n)
              \/ \E p \in Node : SendAppend(n, p)
              \/ \E m \in appends : HandleAppend(n, m)
              \/ \E m \in acks : HandleAck(n, m)
      BY <1>2 DEF Next
    <2> QED
      BY <2>1, StartElectionTyped, HandleRequestVoteTyped, CountBallotTyped,
         ProposeTyped, SendAppendTyped, HandleAppendTyped, HandleAckTyped
  <1> QED
    BY <1>1, <1>2

LEMMA InitTyped == Init => TypeOK
  BY DEF Init, TypeOK, Roles

(* Every value a node keeps or sends is of its type: next_index stays a      *)
(* number whatever refusals arrive.                                          *)
THEOREM TypeCorrect == Spec => []TypeOK
  BY InitTyped, StepTyped, PTL DEF Spec

-----------------------------------------------------------------------------
(* The votes, one lemma per handler that touches them.                       *)

LEMMA StartElectionVotes ==
    ASSUME TypeOK, Votes, NEW n \in Node, StartElection(n)
    PROVE  Votes'
  <1>1. /\ term' = [term EXCEPT ![n] = @ + 1]
        /\ votedFor' = [votedFor EXCEPT ![n] = n]
        /\ voters' = [voters EXCEPT ![n] = {n}]
        /\ ballots' = ballots
        /\ \A k \in Node \ {n} : role'[k] = role[k]
    BY DEF StartElection, TypeOK
  <1>2. VotesCounted'
    BY <1>1 DEF Votes, VotesCounted, TypeOK
  <1>3. OwnVote'
    BY <1>1 DEF Votes, OwnVote, TypeOK
  <1>4. BallotsBind'
    <2> SUFFICES ASSUME NEW b \in ballots, b.granted
                 PROVE  /\ b.candidate # b.voter
                        /\ b.term <= term'[b.voter]
                        /\ b.term = term'[b.voter] => votedFor'[b.voter] = b.candidate
      BY <1>1 DEF BallotsBind
    <2>1. b.voter \in Node /\ b.term \in Nat /\ term[b.voter] \in Nat
      BY DEF TypeOK, Ballots
    <2>2. /\ b.candidate # b.voter /\ b.term <= term[b.voter]
          /\ b.term = term[b.voter] => votedFor[b.voter] = b.candidate
      BY DEF Votes, BallotsBind
    <2>3. CASE b.voter = n
      BY <1>1, <2>1, <2>2, <2>3 DEF TypeOK
    <2>4. CASE b.voter # n
      BY <1>1, <2>1, <2>2, <2>4 DEF TypeOK
    <2> QED
      BY <2>3, <2>4
  <1>5. OneVote'
    BY <1>1 DEF Votes, OneVote
  <1>6. LeaderHasQuorum'
    <2>1. role'[n] = "Leader" => QuorumSize <= 1
      BY DEF StartElection, TypeOK
    <2>2. Cardinality(voters'[n]) = 1
      BY <1>1, FS_Singleton DEF TypeOK
    <2>3. \A k \in Node \ {n} : role'[k] = role[k] /\ voters'[k] = voters[k]
      BY <1>1 DEF TypeOK
    <2>4. (role'[n] = "Leader") => Cardinality(voters'[n]) >= QuorumSize
      BY <2>1, <2>2, QuorumFacts
    <2> QED
      BY <2>3, <2>4 DEF Votes, LeaderHasQuorum, QuorumSize
  <1> QED
    BY <1>2, <1>3, <1>4, <1>5, <1>6 DEF Votes

LEMMA HandleRequestVoteVotes ==
    ASSUME TypeOK, Votes, NEW n \in Node, NEW m \in requests, HandleRequestVote(n, m)
    PROVE  Votes'
  <1>1. /\ m.term \in Nat /\ m.candidate \in Node /\ m.candidate # n
        /\ m.candidate # None /\ term[n] \in Nat
    BY NodeAssumption DEF TypeOK, Requests, HandleRequestVote
  <1>2. /\ term' = [term EXCEPT ![n] = SeenTerm(n, m.term)]
        /\ role' = [role EXCEPT ![n] = SeenRole(n, m.term)]
        /\ voters' = [voters EXCEPT ![n] = SeenVoters(n, m.term)]
        /\ votedFor' = [votedFor EXCEPT ![n] =
                        IF Grants(n, m) THEN m.candidate ELSE SeenVote(n, m.term)]
        /\ ballots' = ballots \cup {b \in {Answer(n, m)} : b.granted \/ b.term > m.term}
    BY DEF HandleRequestVote
  <1>3. ballots \subseteq ballots'
    BY <1>2
  <1>4. /\ term'[n] = SeenTerm(n, m.term) /\ role'[n] = SeenRole(n, m.term)
        /\ voters'[n] = SeenVoters(n, m.term)
        /\ votedFor'[n] = IF Grants(n, m) THEN m.candidate ELSE SeenVote(n, m.term)
        /\ \A k \in Node \ {n} : /\ term'[k] = term[k] /\ role'[k] = role[k]
                                 /\ voters'[k] = voters[k] /\ votedFor'[k] = votedFor[k]
    BY <1>2 DEF TypeOK
  <1>5. VotesCounted'
    <2> SUFFICES ASSUME NEW k \in Node, NEW v \in voters'[k] \ {k}
                 PROVE  [term |-> term'[k], voter |-> v, candidate |-> k,
                         granted |-> TRUE] \in ballots'
      BY DEF VotesCounted
    <2>1. v \in voters[k] /\ term'[k] = term[k]
      BY <1>1, <1>4 DEF SeenVoters, SeenTerm
    <2> QED
      BY <2>1, <1>3 DEF Votes, VotesCounted
  <1>6. OwnVote'
    <2>1. role'[n] # "Follower" => votedFor'[n] = n
      <3> SUFFICES ASSUME role'[n] # "Follower" PROVE votedFor'[n] = n
        OBVIOUS
      <3>1. ~(m.term > term[n]) /\ role[n] # "Follower"
        BY <1>4 DEF SeenRole
      <3>2. votedFor[n] = n /\ SeenVote(n, m.term) = n
        BY <3>1 DEF Votes, OwnVote, SeenVote
      <3>3. ~Grants(n, m)
        BY <3>2, <1>1, NodeAssumption DEF Grants
      <3> QED
        BY <3>2, <3>3, <1>4
    <2> QED
      BY <2>1, <1>4 DEF Votes, OwnVote
  <1>7. ASSUME NEW b \in ballots, b.granted, b.voter = n
        PROVE  /\ b.term <= term[n]
               /\ b.term = SeenTerm(n, m.term) =>
                     votedFor'[n] = b.candidate /\ ~(m.term > term[n])
    <2>1. /\ b.term \in Nat /\ b.candidate \in Node /\ b.candidate # None
      BY NodeAssumption DEF TypeOK, Ballots
    <2>2. b.term <= term[n] /\ (b.term = term[n] => votedFor[n] = b.candidate)
      BY <1>7 DEF Votes, BallotsBind
    <2>3. ASSUME b.term = SeenTerm(n, m.term)
          PROVE  votedFor'[n] = b.candidate /\ ~(m.term > term[n])
      <3>1. ~(m.term > term[n]) /\ b.term = term[n]
        BY <2>3, <2>1, <2>2, <1>1 DEF SeenTerm
      <3>2. SeenVote(n, m.term) = b.candidate
        BY <3>1, <2>2 DEF SeenVote
      <3>3. Grants(n, m) => m.candidate = b.candidate
        BY <3>2, <2>1 DEF Grants
      <3> QED
        BY <3>1, <3>2, <3>3, <1>4
    <2> QED
      BY <2>2, <2>3
  <1>8. ASSUME NEW b \in ballots' \ ballots, b.granted
        PROVE  /\ b.voter = n /\ b.candidate = m.candidate
               /\ b.term = term'[n] /\ votedFor'[n] = m.candidate
    BY <1>2, <1>4, <1>8 DEF Answer
  <1>9. BallotsBind'
    <2> SUFFICES ASSUME NEW b \in ballots', b.granted
                 PROVE  /\ b.candidate # b.voter
                        /\ b.term <= term'[b.voter]
                        /\ b.term = term'[b.voter] => votedFor'[b.voter] = b.candidate
      BY DEF BallotsBind
    <2>1. CASE b \notin ballots
      <3>1. SeenTerm(n, m.term) \in Nat
        BY <1>1, SeenTyped
      <3> QED
        BY <2>1, <1>8, <1>1, <1>4, <3>1
    <2>2. CASE b \in ballots /\ b.voter = n
      <3>1. b.term \in Nat /\ SeenTerm(n, m.term) \in Nat /\ SeenTerm(n, m.term) >= term[n]
        BY <2>2, <1>1, SeenTyped DEF TypeOK, Ballots
      <3>2. b.candidate # b.voter
        BY <2>2 DEF Votes, BallotsBind
      <3> QED
        BY <2>2, <1>7, <1>1, <1>4, <3>1, <3>2
    <2>3. CASE b \in ballots /\ b.voter # n
      <3>1. b.voter \in Node
        BY <2>3 DEF TypeOK, Ballots
      <3> QED
        BY <2>3, <3>1, <1>4 DEF Votes, BallotsBind
    <2> QED
      BY <2>1, <2>2, <2>3
  <1>10. OneVote'
    <2>1. ASSUME NEW b \in ballots, NEW c \in ballots' \ ballots, b.granted, c.granted,
                 b.voter = c.voter, b.term = c.term
          PROVE  b.candidate = c.candidate
      <3>1. c.voter = n /\ c.candidate = m.candidate /\ c.term = SeenTerm(n, m.term)
            /\ votedFor'[n] = m.candidate
        BY <2>1, <1>8, <1>4
      <3> QED
        BY <2>1, <3>1, <1>7
    <2>2. ASSUME NEW b \in ballots' \ ballots, NEW c \in ballots' \ ballots,
                 b.granted, c.granted
          PROVE  b.candidate = c.candidate
      BY <2>2, <1>8
    <2> QED
      BY <2>1, <2>2 DEF Votes, OneVote
  <1>11. LeaderHasQuorum'
    <2>1. role'[n] = "Leader" => role[n] = "Leader" /\ voters'[n] = voters[n]
      BY <1>4 DEF SeenRole, SeenVoters
    <2> QED
      BY <2>1, <1>4 DEF Votes, LeaderHasQuorum, QuorumSize
  <1> QED
    BY <1>5, <1>6, <1>9, <1>10, <1>11 DEF Votes

(* A step that leaves ballots alone, and at each node either forgets the     *)
(* vote for a higher term or keeps term and vote and at most steps back to   *)
(* Follower, keeps the votes in order.                                       *)
LEMMA StepDownVotes ==
    ASSUME TypeOK, Votes, TypeOK', ballots' = ballots,
           \A n \in Node :
              \/ /\ term'[n] > term[n] /\ voters'[n] = {} /\ role'[n] = "Follower"
              \/ /\ term'[n] = term[n] /\ voters'[n] = voters[n]
                 /\ votedFor'[n] = votedFor[n] /\ role'[n] \in {role[n], "Follower"}
    PROVE  Votes'
  <1>1. VotesCounted'
    BY DEF Votes, VotesCounted
  <1>2. OwnVote'
    BY DEF Votes, OwnVote
  <1>3. BallotsBind'
    <2> SUFFICES ASSUME NEW b \in ballots, b.granted
                 PROVE  /\ b.candidate # b.voter
                        /\ b.term <= term'[b.voter]
                        /\ b.term = term'[b.voter] => votedFor'[b.voter] = b.candidate
      BY DEF BallotsBind
    <2>1. /\ b.voter \in Node /\ b.term \in Nat
          /\ term[b.voter] \in Nat /\ term'[b.voter] \in Nat
      BY DEF TypeOK, Ballots
    <2>2. /\ b.candidate # b.voter /\ b.term <= term[b.voter]
          /\ b.term = term[b.voter] => votedFor[b.voter] = b.candidate
      BY DEF Votes, BallotsBind
    <2> QED
      BY <2>1, <2>2
  <1>4. OneVote'
    BY DEF Votes, OneVote
  <1>5. LeaderHasQuorum'
    BY DEF Votes, LeaderHasQuorum, QuorumSize
  <1> QED
    BY <1>1, <1>2, <1>3, <1>4, <1>5 DEF Votes

LEMMA CountBallotVotes ==
    ASSUME TypeOK, Votes, NEW n \in Node, NEW m \in ballots, CountBallot(n, m)
    PROVE  Votes'
  <1>1. /\ m.term \in Nat /\ m.voter \in Node /\ m.candidate = n
        /\ term[n] \in Nat /\ ballots' = ballots
    BY DEF TypeOK, Ballots, CountBallot
  <1>2. CASE m.term > term[n]
    <2>1. m.term # term[n]
      BY <1>1, <1>2
    <2>2. /\ term' = [term EXCEPT ![n] = m.term]
          /\ role' = [role EXCEPT ![n] = "Follower"]
          /\ votedFor' = [votedFor EXCEPT ![n] = None]
          /\ voters' = [voters EXCEPT ![n] = {}]
      BY <2>1 DEF CountBallot
    <2> QED
      BY <1>1, <1>2, <2>2, CountBallotTyped, StepDownVotes DEF TypeOK
  <1>3. CASE ~(m.term > term[n])
    <2>1. /\ m.term = term[n] /\ role[n] = "Candidate" /\ m.granted
          /\ voters' = [voters EXCEPT ![n] = @ \cup {m.voter}]
          /\ term' = term /\ votedFor' = votedFor
          /\ IF Cardinality(voters[n] \cup {m.voter}) >= QuorumSize
             THEN role' = [role EXCEPT ![n] = "Leader"] ELSE role' = role
      BY <1>3 DEF CountBallot
    <2>2. m = [term |-> term[n], voter |-> m.voter, candidate |-> n, granted |-> TRUE]
      <3>1. m \in Ballots
        BY DEF TypeOK
      <3> QED
        BY <3>1, <1>1, <2>1 DEF Ballots
    <2>3. VotesCounted'
      <3> SUFFICES ASSUME NEW k \in Node, NEW v \in voters'[k] \ {k}
                   PROVE  [term |-> term[k], voter |-> v, candidate |-> k,
                           granted |-> TRUE] \in ballots
        BY <1>1, <2>1 DEF VotesCounted
      <3>1. CASE v \in voters[k]
        BY <3>1 DEF Votes, VotesCounted
      <3>2. CASE v \notin voters[k]
        <4>1. k = n /\ v = m.voter
          BY <3>2, <2>1 DEF TypeOK
        <4> QED
          BY <4>1, <2>2
      <3> QED
        BY <3>1, <3>2
    <2>4. OwnVote'
      <3>1. \A k \in Node : role'[k] # "Follower" => role[k] # "Follower"
        BY <2>1 DEF TypeOK
      <3> QED
        BY <3>1, <2>1 DEF Votes, OwnVote
    <2>5. BallotsBind' /\ OneVote'
      BY <1>1, <2>1 DEF Votes, BallotsBind, OneVote
    <2>6. LeaderHasQuorum'
      <3>1. \A k \in Node \ {n} : role'[k] = role[k] /\ voters'[k] = voters[k]
        BY <2>1 DEF TypeOK
      <3>2. role'[n] = "Leader" => Cardinality(voters'[n]) >= QuorumSize
        BY <2>1 DEF TypeOK
      <3> QED
        BY <3>1, <3>2 DEF Votes, LeaderHasQuorum, QuorumSize
    <2> QED
      BY <2>3, <2>4, <2>5, <2>6 DEF Votes
  <1> QED
    BY <1>2, <1>3

LEMMA HandleAppendVotes ==
    ASSUME TypeOK, Votes, NEW n \in Node, NEW m \in appends, HandleAppend(n, m)
    PROVE  Votes'
  <1>1. m.term \in Nat /\ term[n] \in Nat
    BY DEF TypeOK, Appends
  <1>2. /\ term' = [term EXCEPT ![n] = SeenTerm(n, m.term)]
        /\ votedFor' = [votedFor EXCEPT ![n] = SeenVote(n, m.term)]
        /\ voters' = [voters EXCEPT ![n] = SeenVoters(n, m.term)]
        /\ ballots' = ballots
    BY DEF HandleAppend
  <1>3. /\ \A k \in Node \ {n} : role'[k] = role[k]
        /\ m.term > term[n] => role'[n] = "Follower"
        /\ role'[n] \in {role[n], "Follower"}
    <2>1. CASE Stale(n, m)
      BY <1>1, <2>1 DEF HandleAppend, Stale
    <2>2. CASE ~Stale(n, m)
      BY <1>1, <2>2 DEF HandleAppend, SeenRole, TypeOK
    <2> QED
      BY <2>1, <2>2
  <1> QED
    BY <1>1, <1>2, <1>3, HandleAppendTyped, StepDownVotes
       DEF TypeOK, SeenTerm, SeenVote, SeenVoters

LEMMA StepVotes == TypeOK /\ Votes /\ [Next]_vars => Votes'
  <1> SUFFICES ASSUME TypeOK, Votes, [Next]_vars
               PROVE  Votes'
    OBVIOUS
  <1>1. ASSUME UNCHANGED <<electionVars, ballots>>
        PROVE  Votes'
    BY <1>1 DEF Votes, VotesCounted, OwnVote, BallotsBind, OneVote, LeaderHasQuorum,
                QuorumSize, electionVars
  <1>2. CASE UNCHANGED vars
    BY <1>1, <1>2 DEF vars
  <1>3. CASE Next
    <2>1. PICK n \in Node :
              \/ StartElection(n)
              \/ \E m \in requests : HandleRequestVote(n, m)
              \/ \E m \in ballots : CountBallot(n, m)
              \/ Propose(n)
              \/ \E p \in Node : SendAppend(n, p)
              \/ \E m \in appends : HandleAppend(n, m)
              \/ \E m \in acks : HandleAck(n, m)
      BY <1>3 DEF Next
    <2>2. CASE StartElection(n)
      BY <2>2, StartElectionVotes
    <2>3. CASE \E m \in requests : HandleRequestVote(n, m)
      BY <2>3, HandleRequestVoteVotes
    <2>4. CASE \E m \in ballots : CountBallot(n, m)
      BY <2>4, CountBallotVotes
    <2>5. CASE Propose(n) \/ (\E p \in Node : SendAppend(n, p))
      BY <2>5, <1>1 DEF Propose, SendAppend
    <2>6. CASE \E m \in appends : HandleAppend(n, m)
      BY <2>6, HandleAppendVotes
    <2>7. CASE \E m \in acks : HandleAck(n, m)
      BY <2>7, <1>1 DEF HandleAck
    <2> QED
      BY <2>1, <2>2, <2>3, <2>4, <2>5, <2>6, <2>7
  <1> QED
    BY <1>2, <1>3

LEMMA InitVotes == Init => Votes
  BY DEF Init, Votes, VotesCounted, OwnVote, BallotsBind, OneVote, LeaderHasQuorum

-----------------------------------------------------------------------------

(* Two leaders of one term would share a voter, and that voter voted once. *)
LEMMA VotesElectOne == TypeOK /\ Votes => ElectionSafety
  <1> SUFFICES ASSUME TypeOK, Votes, NEW m \in Node, NEW n \in Node,
                      role[m] = "Leader", role[n] = "Leader", term[m] = term[n]
               PROVE  m = n
    BY DEF ElectionSafety
  <1>1. voters[m] \cap voters[n] # {}
    <2>1. Cardinality(voters[m]) >= QuorumSize /\ Cardinality(voters[n]) >= QuorumSize
      BY DEF Votes, LeaderHasQuorum
    <2>2. voters[m] \in SUBSET Node /\ voters[n] \in SUBSET Node
      BY DEF TypeOK
    <2> QED
      BY <2>1, <2>2, QuorumsIntersect
  <1>2. PICK v \in Node : v \in voters[m] /\ v \in voters[n]
    BY <1>1 DEF TypeOK
  <1>3. votedFor[m] = m /\ votedFor[n] = n
    BY DEF Votes, OwnVote
  <1> DEFINE B(k) == [term |-> term[k], voter |-> v, candidate |-> k, granted |-> TRUE]
  <1>4. \A k \in {m, n} : v # k => B(k) \in ballots
    BY <1>2 DEF Votes, VotesCounted
  <1>5. \A k \in {m, n} : v # k /\ term[k] = term[v] => votedFor[v] = k
    <2> SUFFICES ASSUME NEW k \in {m, n}, v # k, term[k] = term[v]
                 PROVE  votedFor[v] = k
      OBVIOUS
    <2>1. B(k) \in ballots /\ B(k).granted /\ B(k).voter = v /\ B(k).candidate = k
          /\ B(k).term = term[v]
      BY <1>4
    <2> HIDE DEF B
    <2> QED
      BY <2>1 DEF Votes, BallotsBind
  <1>6. CASE v = m \/ v = n
    BY <1>3, <1>5, <1>6
  <1>7. CASE v # m /\ v # n
    <2>1. /\ B(m) \in ballots /\ B(n) \in ballots /\ B(m).granted /\ B(n).granted
          /\ B(m).voter = B(n).voter /\ B(m).term = B(n).term
          /\ B(m).candidate = m /\ B(n).candidate = n
      BY <1>4, <1>7
    <2> HIDE DEF B
    <2> QED
      BY <2>1 DEF Votes, OneVote
  <1> QED
    BY <1>6, <1>7

(* However many nodes there are, and whatever becomes of the messages, no    *)
(* term has two leaders.                                                     *)
THEOREM OneLeaderPerTerm == Spec => []ElectionSafety
  <1>1. Init => TypeOK /\ Votes
    BY InitTyped, InitVotes
  <1>2. (TypeOK /\ Votes) /\ [Next]_vars => (TypeOK /\ Votes)'
    BY StepTyped, StepVotes
  <1>3. TypeOK /\ Votes => ElectionSafety
    BY VotesElectOne
  <1> QED
    BY <1>1, <1>2, <1>3, PTL DEF Spec

-----------------------------------------------------------------------------
(* A leader's log only grows.  A message that could cut it would come from   *)
(* another leader of its term, now or long ago.                              *)

(* The vote for candidate c in term t that the ballots sent show. *)
Cast(t, v, c) == [term |-> t, voter |-> v, candidate |-> c, granted |-> TRUE]

(* Node n was elected in term t, as the ballots ever sent show: a quorum     *)
(* voted for it, and it voted for nobody else in that term.                  *)
Chosen(t, n) ==
    /\ t <= term[n]
    /\ t = term[n] => votedFor[n] = n
    /\ \A b \in ballots : b.granted /\ b.voter = n => b.term # t
    /\ \E Q \in SUBSET Node :
          /\ Cardinality(Q) >= QuorumSize
          /\ \A v \in Q \ {n} : Cast(t, v, n) \in ballots

(* Each AppendEntries ever sent is backed by the election of its sender, who *)
(* is addressing another node.                                               *)
AppendsBacked == \A m \in appends : m.to # m.leader /\ Chosen(m.term, m.leader)

LeadersChosen ==
    \A n \in Node : \A t \in Nat : role[n] = "Leader" /\ t = term[n] => Chosen(t, n)

(* A term elects one node. *)
OneChosen ==
    \A m, n \in Node : \A t \in Nat : Chosen(t, m) /\ Chosen(t, n) => m = n

(* How a step may move the votes: terms do not fall, a vote given stays for  *)
(* its term, ballots are only added, and a new one names the voter's vote.   *)
VotesMoveOn ==
    /\ \A n \in Node :
          \/ term'[n] > term[n]
          \/ term'[n] = term[n] /\ (votedFor[n] # None => votedFor'[n] = votedFor[n])
    /\ ballots \subseteq ballots'
    /\ \A b \in ballots' \ ballots : b.granted =>
          /\ b.voter \in Node /\ b.candidate # b.voter
          /\ b.term = term'[b.voter] /\ votedFor'[b.voter] = b.candidate

LEMMA StepMovesVotesOn == TypeOK /\ [Next]_vars => VotesMoveOn
  <1> SUFFICES ASSUME TypeOK, [Next]_vars
               PROVE  VotesMoveOn
    OBVIOUS
  <1>1. ASSUME UNCHANGED <<term, votedFor, ballots>>
        PROVE  VotesMoveOn
    BY <1>1 DEF VotesMoveOn
  <1>2. CASE UNCHANGED vars
    BY <1>1, <1>2 DEF vars, electionVars
  <1>3. ASSUME NEW n \in Node, StartElection(n)
        PROVE  VotesMoveOn
    <2>1. /\ term' = [term EXCEPT ![n] = @ + 1] /\ ballots' = ballots
          /\ votedFor' = [votedFor EXCEPT ![n] = n]
      BY <1>3 DEF StartElection
    <2> QED
      BY <2>1 DEF VotesMoveOn, TypeOK
  <1>4. ASSUME NEW n \in Node, NEW m \in requests, HandleRequestVote(n, m)
        PROVE  VotesMoveOn
    <2>1. /\ m.term \in Nat /\ m.candidate \in Node /\ m.candidate # n
          /\ term[n] \in Nat
      BY <1>4 DEF TypeOK, Requests, HandleRequestVote
    <2>2. /\ term' = [term EXCEPT ![n] = SeenTerm(n, m.term)]
          /\ votedFor' = [votedFor EXCEPT ![n] =
                        IF Grants(n, m) THEN m.candidate ELSE SeenVote(n, m.term)]
          /\ ballots' = ballots \cup {b \in {Answer(n, m)} : b.granted \/ b.term > m.term}
      BY <1>4 DEF HandleRequestVote
    <2>3. \A b \in ballots' \ ballots : b.granted =>
             /\ b.voter \in Node /\ b.candidate # b.voter
             /\ b.term = term'[b.voter] /\ votedFor'[b.voter] = b.candidate
      BY <2>1, <2>2 DEF Answer, TypeOK
    <2>4. \/ term'[n] > term[n]
          \/ term'[n] = term[n] /\ (votedFor[n] # None => votedFor'[n] = votedFor[n])
      <3>1. CASE m.term > term[n]
        BY <2>1, <2>2, <3>1 DEF SeenTerm, TypeOK
      <3>2. CASE ~(m.term > term[n])
        <4>1. SeenTerm(n, m.term) = term[n] /\ SeenVote(n, m.term) = votedFor[n]
          BY <3>2 DEF SeenTerm, SeenVote
        <4>2. Grants(n, m) => votedFor[n] \in {None, m.candidate}
          BY <4>1 DEF Grants
        <4> QED
          BY <2>2, <4>1, <4>2 DEF TypeOK
      <3> QED
        BY <3>1, <3>2
    <2>5. \A k \in Node \ {n} : term'[k] = term[k] /\ votedFor'[k] = votedFor[k]
      BY <2>2 DEF TypeOK
    <2> QED
      BY <2>2, <2>3, <2>4, <2>5 DEF VotesMoveOn
  <1>5. ASSUME NEW n \in Node, NEW m \in ballots, CountBallot(n, m)
        PROVE  VotesMoveOn
    <2>1. m.term \in Nat /\ term[n] \in Nat /\ ballots' = ballots
      BY <1>5 DEF TypeOK, Ballots, CountBallot
    <2>2. \/ /\ m.term > term[n]
             /\ term' = [term EXCEPT ![n] = m.term]
             /\ votedFor' = [votedFor EXCEPT ![n] = None]
          \/ UNCHANGED <<term, votedFor>>
      BY <1>5 DEF CountBallot
    <2> QED
      BY <2>1, <2>2 DEF VotesMoveOn, TypeOK
  <1>6. ASSUME NEW n \in Node, NEW m \in appends, HandleAppend(n, m)
        PROVE  VotesMoveOn
    <2>1. m.term \in Nat /\ term[n] \in Nat
      BY DEF TypeOK, Appends
    <2>2. /\ term' = [term EXCEPT ![n] = SeenTerm(n, m.term)]
          /\ votedFor' = [votedFor EXCEPT ![n] = SeenVote(n, m.term)]
          /\ ballots' = ballots
      BY <1>6 DEF HandleAppend
    <2> QED
      BY <2>1, <2>2 DEF VotesMoveOn, TypeOK, SeenTerm, SeenVote
  <1>7. CASE Next
    <2>1. PICK n \in Node :
              \/ StartElection(n)
              \/ \E m \in requests : HandleRequestVote(n, m)
              \/ \E m \in ballots : CountBallot(n, m)
              \/ Propose(n)
              \/ \E p \in Node : SendAppend(n, p)
              \/ \E m \in appends : HandleAppend(n, m)
              \/ \E m \in acks : HandleAck(n, m)
      BY <1>7 DEF Next
    <2>2. CASE Propose(n) \/ (\E p \in Node : SendAppend(n, p))
      BY <2>2, <1>1 DEF Propose, SendAppend, electionVars
    <2>3. CASE \E m \in acks : HandleAck(n, m)
      BY <2>3, <1>1 DEF HandleAck, electionVars
    <2> QED
      BY <2>1, <2>2, <2>3, <1>3, <1>4, <1>5, <1>6
  <1> QED
    BY <1>2, <1>7

(* An election that happened stays proved by its ballots. *)
LEMMA ChosenStays ==
    ASSUME TypeOK, TypeOK', VotesMoveOn, NEW n \in Node, NEW t \in Nat, Chosen(t, n)
    PROVE  Chosen(t, n)'
  <1>1. term[n] \in Nat /\ term'[n] \in Nat
    BY DEF TypeOK
  <1>2. t <= term'[n]
    BY <1>1 DEF Chosen, VotesMoveOn
  <1>3. t = term'[n] => votedFor'[n] = n
    BY <1>1, NodeAssumption DEF Chosen, VotesMoveOn
  <1>4. ASSUME NEW b \in ballots', b.granted, b.voter = n
        PROVE  b.term # t
    <2>1. CASE b \in ballots
      BY <1>4, <2>1 DEF Chosen
    <2>2. CASE b \notin ballots
      BY <1>3, <1>4, <2>2 DEF VotesMoveOn
    <2> QED
      BY <2>1, <2>2
  <1>5. \E Q \in SUBSET Node :
          /\ Cardinality(Q) >= QuorumSize
          /\ \A v \in Q \ {n} : Cast(t, v, n) \in ballots'
    BY DEF Chosen, VotesMoveOn
  <1> QED
    BY <1>2, <1>3, <1>4, <1>5 DEF Chosen, Cast, QuorumSize

(* Whoever leads was elected. *)
LEMMA LeaderChosen == TypeOK /\ Votes => LeadersChosen
  <1> SUFFICES ASSUME TypeOK, Votes, NEW n \in Node, role[n] = "Leader"
               PROVE  Chosen(term[n], n)
    BY DEF LeadersChosen
  <1>1. votedFor[n] = n /\ Cardinality(voters[n]) >= QuorumSize
    BY DEF Votes, OwnVote, LeaderHasQuorum
  <1>2. \A b \in ballots : b.granted /\ b.voter = n => b.term # term[n]
    BY <1>1 DEF Votes, BallotsBind
  <1>3. voters[n] \in SUBSET Node /\ term[n] \in Nat
    BY DEF TypeOK
  <1>4. \A v \in voters[n] \ {n} : Cast(term[n], v, n) \in ballots
    BY DEF Votes, VotesCounted, Cast
  <1> QED
    BY <1>1, <1>2, <1>3, <1>4 DEF Chosen

(* Whether it was elected now or long ago: the two quorums share a voter.    *)
LEMMA ChosenOnce == TypeOK /\ Votes => OneChosen
  <1> SUFFICES ASSUME TypeOK, Votes, NEW m \in Node, NEW n \in Node, NEW t \in Nat,
                      Chosen(t, m), Chosen(t, n), m # n
               PROVE  FALSE
    BY DEF OneChosen
  <1>1. PICK Q \in SUBSET Node :
          /\ Cardinality(Q) >= QuorumSize
          /\ \A v \in Q \ {m} : Cast(t, v, m) \in ballots
    BY DEF Chosen
  <1>2. PICK R \in SUBSET Node :
          /\ Cardinality(R) >= QuorumSize
          /\ \A v \in R \ {n} : Cast(t, v, n) \in ballots
    BY DEF Chosen
  <1>3. PICK v \in Node : v \in Q /\ v \in R
    <2>1. Q \cap R # {}
      BY <1>1, <1>2, QuorumsIntersect
    <2> QED
      BY <2>1
  <1>4. v # m => Cast(t, v, m) \in ballots
    BY <1>1, <1>3
  <1>5. v # n => Cast(t, v, n) \in ballots
    BY <1>2, <1>3
  <1>6. \A c : /\ Cast(t, v, c).granted /\ Cast(t, v, c).voter = v
              /\ Cast(t, v, c).term = t /\ Cast(t, v, c).candidate = c
    BY DEF Cast
  <1>7. v # m /\ v # n
    BY <1>4, <1>5, <1>6 DEF Chosen
  <1> QED
    BY <1>4, <1>5, <1>6, <1>7 DEF Votes, OneVote

(* create_append_entries is only answered by a leader. *)
LEMMA StepBacked == TypeOK /\ Votes /\ AppendsBacked /\ [Next]_vars => AppendsBacked'
  <1> SUFFICES ASSUME TypeOK, Votes, AppendsBacked, [Next]_vars
               PROVE  AppendsBacked'
    OBVIOUS
  <1>1. TypeOK' /\ VotesMoveOn
    BY StepTyped, StepMovesVotesOn
  <1>2. ASSUME NEW m \in appends'
        PROVE  /\ m.leader \in Node /\ m.term \in Nat
               /\ m.to # m.leader /\ Chosen(m.term, m.leader)
    <2>1. m.leader \in Node /\ m.term \in Nat
      BY <1>1 DEF TypeOK, Appends
    <2>2. CASE m \in appends
      BY <2>1, <2>2 DEF AppendsBacked
    <2>3. CASE m \notin appends
      <3>1. PICK n \in Node, p \in Node : SendAppend(n, p)
        BY <1>2, <2>3 DEF Next, vars, StartElection, HandleRequestVote, CountBallot,
                   Propose, HandleAppend, HandleAck
      <3>2. /\ m.leader = n /\ m.to = p /\ m.term = term[n] /\ p # n
            /\ role[n] = "Leader"
        BY <1>2, <2>3, <3>1 DEF SendAppend
      <3> QED
        BY <2>1, <3>2, LeaderChosen DEF LeadersChosen
    <2> QED
      BY <2>2, <2>3
  <1> QED
    BY <1>1, <1>2, ChosenStays DEF AppendsBacked

(* No other node ever sent entries as leader of a term that n leads. *)
LEMMA LeadsAlone ==
    ASSUME TypeOK, Votes, AppendsBacked, NEW n \in Node, NEW m \in appends,
           role[n] = "Leader", m.term = term[n], m.to = n
    PROVE  FALSE
  <1>1. m.leader \in Node /\ m.term \in Nat
    BY DEF TypeOK, Appends
  <1>2. m.leader # n /\ Chosen(m.term, m.leader)
    BY DEF AppendsBacked
  <1>3. Chosen(m.term, n)
    BY <1>1, LeaderChosen DEF LeadersChosen
  <1> QED
    BY <1>1, <1>2, <1>3, ChosenOnce DEF OneChosen

GrowsAtLeaders ==
    \A n \in Node :
        role[n] = "Leader" /\ role'[n] = "Leader" /\ term'[n] = term[n] =>
            /\ Len(log'[n]) >= Len(log[n])
            /\ SubSeq(log'[n], 1, Len(log[n])) = log[n]

LEMMA KeptLogGrows ==
    ASSUME NEW l \in Seq(Entries)
    PROVE  /\ Len(l) >= Len(l) /\ SubSeq(l, 1, Len(l)) = l
           /\ \A e \in Entries : /\ Len(Append(l, e)) >= Len(l)
                                /\ SubSeq(Append(l, e), 1, Len(l)) = l
  OBVIOUS

LEMMA StepGrows ==
    TypeOK /\ Votes /\ AppendsBacked /\ [Next]_vars => GrowsAtLeaders
  <1> SUFFICES ASSUME TypeOK, Votes, AppendsBacked, [Next]_vars,
                      NEW n \in Node, role[n] = "Leader", role'[n] = "Leader",
                      term'[n] = term[n]
               PROVE  /\ Len(log'[n]) >= Len(log[n])
                      /\ SubSeq(log'[n], 1, Len(log[n])) = log[n]
    BY DEF GrowsAtLeaders
  <1>1. log[n] \in Seq(Entries) /\ term[n] \in Nat /\ log \in [Node -> Seq(Entries)]
    BY DEF TypeOK
  <1>2. CASE log'[n] = log[n]
    BY <1>1, <1>2, KeptLogGrows
  <1>3. ASSUME NEW k \in Node, StartElection(k)
        PROVE  log'[n] = log[n]
    <2>1. term' = [term EXCEPT ![k] = @ + 1]
      BY <1>3 DEF StartElection
    <2>2. k # n
      BY <2>1, <1>1 DEF TypeOK
    <2> QED
      BY <1>1, <1>3, <2>2 DEF StartElection, BecomeLeader
  <1>4. ASSUME NEW k \in Node, NEW m \in ballots, CountBallot(k, m)
        PROVE  log'[n] = log[n]
    <2>1. CASE k = n
      BY <1>4, <2>1 DEF CountBallot
    <2>2. CASE k # n
      BY <1>1, <1>4, <2>2 DEF CountBallot, BecomeLeader
    <2> QED
      BY <2>1, <2>2
  <1>5. ASSUME NEW k \in Node, NEW m \in appends, HandleAppend(k, m)
        PROVE  log'[n] = log[n]
    <2>1. CASE Stale(k, m)
      BY <1>5, <2>1 DEF HandleAppend
    <2>2. CASE k = n /\ ~Stale(k, m)
      <3>1. m.term \in Nat /\ m.to = n
        BY <1>5, <2>2 DEF TypeOK, Appends, HandleAppend
      <3>2. term'[n] = SeenTerm(n, m.term)
        BY <1>5, <2>2 DEF HandleAppend, TypeOK
      <3>3. m.term = term[n]
        BY <3>1, <3>2, <2>2, <1>1 DEF SeenTerm, Stale
      <3> QED
        BY <3>1, <3>3, LeadsAlone
    <2>3. CASE k # n /\ ~Stale(k, m)
      BY <1>1, <1>5, <2>3 DEF HandleAppend
    <2> QED
      BY <2>1, <2>2, <2>3
  <1>6. ASSUME NEW k \in Node, Propose(k)
        PROVE  /\ Len(log'[n]) >= Len(log[n])
               /\ SubSeq(log'[n], 1, Len(log[n])) = log[n]
    <2>1. log' = [log EXCEPT ![k] = Append(@, [term |-> term[k], command |-> "Set"])]
      BY <1>6 DEF Propose
    <2>2. CASE k = n
      <3>1. [term |-> term[n], command |-> "Set"] \in Entries
        BY <1>1 DEF Entries, Commands
      <3>2. log'[n] = Append(log[n], [term |-> term[n], command |-> "Set"])
        BY <1>1, <2>1, <2>2
      <3> QED
        BY <1>1, <3>1, <3>2, KeptLogGrows
    <2>3. CASE k # n
      BY <1>1, <1>2, <2>1, <2>3
    <2> QED
      BY <2>2, <2>3
  <1>7. CASE UNCHANGED vars
    BY <1>2, <1>7 DEF vars
  <1>8. CASE Next
    <2>1. PICK k \in Node :
              \/ StartElection(k)
              \/ \E m \in requests : HandleRequestVote(k, m)
              \/ \E m \in ballots : CountBallot(k, m)
              \/ Propose(k)
              \/ \E p \in Node : SendAppend(k, p)
              \/ \E m \in appends : HandleAppend(k, m)
              \/ \E m \in acks : HandleAck(k, m)
      BY <1>8 DEF Next
    <2>2. CASE \/ \E m \in requests : HandleRequestVote(k, m)
               \/ \E p \in Node : SendAppend(k, p)
               \/ \E m \in acks : HandleAck(k, m)
      BY <1>2, <2>2 DEF HandleRequestVote, SendAppend, HandleAck
    <2> QED
      BY <2>1, <2>2, <1>2, <1>3, <1>4, <1>5, <1>6
  <1> QED
    BY <1>7, <1>8

(* A leader keeps every entry of its log while it leads, for any cluster and *)
(* however late the messages of former leaders arrive.                       *)
THEOREM LeadersOnlyAppend == Spec => LeaderAppendOnly
  <1>1. Init => TypeOK /\ Votes /\ AppendsBacked
    BY InitTyped, InitVotes DEF Init, AppendsBacked
  <1>2. (TypeOK /\ Votes /\ AppendsBacked) /\ [Next]_vars
            => (TypeOK /\ Votes /\ AppendsBacked)'
    BY StepTyped, StepVotes, StepBacked
  <1>3. (TypeOK /\ Votes /\ AppendsBacked) /\ [Next]_vars => [GrowsAtLeaders]_vars
    BY StepGrows
  <1> QED
    BY <1>1, <1>2, <1>3, PTL DEF Spec, LeaderAppendOnly, GrowsAtLeaders

-----------------------------------------------------------------------------
(* Log matching.  An entry's link is its index, the entry, and the term of   *)
(* the entry before it: what handle_append_entries' consistency check reads. *)

LinkAt(l, base, t, i) ==
    [index |-> base + i, entry |-> l[i], before |-> IF i = 1 THEN t ELSE l[i - 1].term]

LinksOf(l, base, t) == {LinkAt(l, base, t, i) : i \in 1 .. Len(l)}

(* The links of the logs and of the entries under way. *)
Links ==
    (UNION {LinksOf(log[n], 0, 0) : n \in Node})
        \cup (UNION {LinksOf(m.entries, m.prevIndex, m.prevTerm) : m \in appends})

(* Index and term determine the entry and the term before it. *)
Linked ==
    \A x, y \in Links : x.index = y.index /\ x.entry.term = y.entry.term => x = y

(* Index i of a log was written in term t by the node elected then, which    *)
(* has it in its log as long as it leads that term.                          *)
Led(t, i) ==
    \E n \in Node :
        /\ Chosen(t, n)
        /\ t = term[n] => role[n] = "Leader" /\ i <= Len(log[n])

LinksLed == \A x \in Links : Led(x.entry.term, x.index)

(* No entry comes before the first. *)
FromStart == \A m \in appends : m.prevIndex = 0 => m.prevTerm = 0

LogInv == FromStart /\ Linked /\ LinksLed

LEMMA LinksIn ==
    /\ \A n \in Node : \A i \in 1 .. Len(log[n]) : LinkAt(log[n], 0, 0, i) \in Links
    /\ \A m \in appends : \A i \in 1 .. Len(m.entries) :
          LinkAt(m.entries, m.prevIndex, m.prevTerm, i) \in Links
  BY DEF Links, LinksOf

(* Appending to a log adds one link. *)
LEMMA LinksOfAppend ==
    ASSUME NEW l \in Seq(Entries), NEW e \in Entries,
           NEW x \in LinksOf(Append(l, e), 0, 0)
    PROVE  \/ x \in LinksOf(l, 0, 0)
           \/ x = [index |-> Len(l) + 1, entry |-> e, before |-> TermAt(l, Len(l))]
  <1> DEFINE a == Append(l, e)
  <1>1. /\ Len(a) = Len(l) + 1 /\ a[Len(l) + 1] = e
        /\ \A j \in 1 .. Len(l) : a[j] = l[j]
    OBVIOUS
  <1>2. Len(l) \in Nat
    OBVIOUS
  <1> HIDE DEF a
  <1>3. PICK i \in 1 .. Len(l) + 1 : x = LinkAt(a, 0, 0, i)
    BY <1>1 DEF LinksOf, a
  <1>4. CASE i \in 1 .. Len(l)
    <2>1. i # 1 => i - 1 \in 1 .. Len(l)
      BY <1>2, <1>4
    <2>2. LinkAt(a, 0, 0, i) = LinkAt(l, 0, 0, i)
      BY <1>1, <1>4, <2>1 DEF LinkAt
    <2> QED
      BY <1>3, <1>4, <2>2 DEF LinksOf
  <1>5. CASE i = Len(l) + 1
    <2>1. i = 1 => TermAt(l, Len(l)) = 0
      BY <1>2, <1>5 DEF TermAt
    <2>2. i # 1 => i - 1 \in 1 .. Len(l) /\ i - 1 = Len(l)
      BY <1>2, <1>5
    <2>3. i # 1 => a[i - 1].term = TermAt(l, Len(l))
      BY <1>1, <2>2 DEF TermAt
    <2> QED
      BY <1>1, <1>2, <1>3, <1>5, <2>1, <2>3 DEF LinkAt
  <1> QED
    BY <1>2, <1>3, <1>4, <1>5

(* Cutting a log at its end adds none. *)
LEMMA LinksOfPrefix ==
    ASSUME NEW l \in Seq(Entries), NEW p \in Nat, p <= Len(l)
    PROVE  LinksOf(SubSeq(l, 1, p), 0, 0) \subseteq LinksOf(l, 0, 0)
  <1> DEFINE a == SubSeq(l, 1, p)
  <1>1. /\ Len(a) = p /\ \A j \in 1 .. p : a[j] = l[j] /\ j \in 1 .. Len(l)
    OBVIOUS
  <1> HIDE DEF a
  <1> SUFFICES ASSUME NEW i \in 1 .. p
               PROVE  LinkAt(a, 0, 0, i) \in LinksOf(l, 0, 0)
    BY <1>1 DEF LinksOf, a
  <1>2. i # 1 => i - 1 \in 1 .. p
    OBVIOUS
  <1>3. LinkAt(a, 0, 0, i) = LinkAt(l, 0, 0, i)
    BY <1>1, <1>2 DEF LinkAt
  <1> QED
    BY <1>1, <1>3 DEF LinksOf

(* create_append_entries sends links of the log. *)
LEMMA LinksOfSuffix ==
    ASSUME NEW l \in Seq(Entries), NEW p \in Nat
    PROVE  LinksOf(SubSeq(l, p + 1, Len(l)), p, TermAt(l, p)) \subseteq LinksOf(l, 0, 0)
  <1> DEFINE a == SubSeq(l, p + 1, Len(l))
  <1>1. CASE p >= Len(l)
    <2>1. Len(a) = 0
      BY <1>1
    <2> QED
      BY <2>1 DEF LinksOf
  <1>2. CASE p < Len(l)
    <2>1. /\ Len(l) \in Nat /\ Len(a) = Len(l) - p
          /\ \A j \in 1 .. Len(l) - p : a[j] = l[p + j]
      BY <1>2
    <2> HIDE DEF a
    <2> SUFFICES ASSUME NEW i \in 1 .. Len(l) - p
                 PROVE  LinkAt(a, p, TermAt(l, p), i) \in LinksOf(l, 0, 0)
      BY <2>1 DEF LinksOf, a
    <2>2. p + i \in 1 .. Len(l) /\ a[i] = l[p + i]
      BY <2>1, <1>2
    <2>3. (IF i = 1 THEN TermAt(l, p) ELSE a[i - 1].term)
            = (IF p + i = 1 THEN 0 ELSE l[p + i - 1].term)
      <3>1. CASE i = 1 /\ p = 0
        BY <3>1 DEF TermAt
      <3>2. CASE i = 1 /\ p # 0
        <4>1. p \in 1 .. Len(l) /\ p + i - 1 = p /\ p + i # 1
          BY <3>2, <1>2, <2>1
        <4> QED
          BY <3>2, <4>1 DEF TermAt
      <3>3. CASE i # 1
        <4>1. i - 1 \in 1 .. Len(l) - p /\ p + (i - 1) = p + i - 1 /\ p + i # 1
          BY <3>3, <2>1, <1>2
        <4>2. a[i - 1] = l[p + (i - 1)]
          BY <2>1, <4>1
        <4> QED
          BY <3>3, <4>1, <4>2
      <3> QED
        BY <3>1, <3>2, <3>3
    <2>4. LinkAt(a, p, TermAt(l, p), i) = LinkAt(l, 0, 0, p + i)
      BY <2>2, <2>3 DEF LinkAt
    <2> QED
      BY <2>2, <2>4 DEF LinksOf
  <1> QED
    BY <1>1, <1>2

(* What the consistency check lets in fits the log before it. *)
LEMMA LinksOfOverwrite ==
    ASSUME NEW l \in Seq(Entries), NEW e \in Seq(Entries), NEW p \in Nat, p <= Len(l)
    PROVE  LinksOf(SubSeq(l, 1, p) \o e, 0, 0)
             \subseteq LinksOf(l, 0, 0) \cup LinksOf(e, p, TermAt(l, p))
  <1> DEFINE a == SubSeq(l, 1, p) \o e
  <1>1. /\ Len(e) \in Nat /\ Len(l) \in Nat /\ Len(a) = p + Len(e)
        /\ \A j \in 1 .. p : a[j] = l[j]
        /\ \A j \in 1 .. Len(e) : a[p + j] = e[j]
    <2>1. SubSeq(l, 1, p) \in Seq(Entries) /\ Len(SubSeq(l, 1, p)) = p
          /\ \A j \in 1 .. p : SubSeq(l, 1, p)[j] = l[j]
      OBVIOUS
    <2> QED
      BY <2>1
  <1> HIDE DEF a
  <1> SUFFICES ASSUME NEW i \in 1 .. p + Len(e)
               PROVE  LinkAt(a, 0, 0, i) \in LinksOf(l, 0, 0) \cup LinksOf(e, p, TermAt(l, p))
    BY <1>1 DEF LinksOf, a
  <1>2. CASE i <= p
    <2>1. i \in 1 .. Len(l) /\ i \in 1 .. p /\ (i # 1 => i - 1 \in 1 .. p)
      BY <1>1, <1>2
    <2>2. LinkAt(a, 0, 0, i) = LinkAt(l, 0, 0, i)
      BY <1>1, <2>1 DEF LinkAt
    <2> QED
      BY <2>1, <2>2 DEF LinksOf
  <1>3. CASE i > p
    <2>1. PICK j \in 1 .. Len(e) : i = p + j
      <3>1. i - p \in 1 .. Len(e) /\ i = p + (i - p)
        BY <1>1, <1>3
      <3> QED
        BY <3>1
    <2>2. (IF i = 1 THEN 0 ELSE a[i - 1].term)
            = (IF j = 1 THEN TermAt(l, p) ELSE e[j - 1].term)
      <3>1. CASE j = 1 /\ p = 0
        BY <2>1, <3>1 DEF TermAt
      <3>2. CASE j = 1 /\ p # 0
        <4>1. p \in 1 .. Len(l) /\ p \in 1 .. p /\ i - 1 = p /\ i # 1
          BY <1>1, <2>1, <3>2
        <4>2. a[i - 1] = l[p]
          BY <1>1, <4>1
        <4> QED
          BY <3>2, <4>1, <4>2 DEF TermAt
      <3>3. CASE j # 1
        <4>1. j - 1 \in 1 .. Len(e) /\ i - 1 = p + (j - 1) /\ i # 1
          BY <1>1, <2>1, <3>3
        <4>2. a[i - 1] = e[j - 1]
          BY <1>1, <4>1
        <4> QED
          BY <3>3, <4>1, <4>2
      <3> QED
        BY <3>1, <3>2, <3>3
    <2>3. LinkAt(a, 0, 0, i) = LinkAt(e, p, TermAt(l, p), j)
      <3>1. a[i] = e[j] /\ 0 + i = p + j
        BY <1>1, <2>1
      <3> QED
        BY <3>1, <2>2 DEF LinkAt
    <2> QED
      BY <2>3 DEF LinksOf
  <1> QED
    BY <1>2, <1>3

LEMMA LinksTyped ==
    TypeOK => \A x \in Links : x.index \in Nat /\ x.entry \in Entries /\ x.entry.term \in Nat
  <1>1. ASSUME NEW l \in Seq(Entries), NEW p \in Nat, NEW t, NEW x \in LinksOf(l, p, t)
        PROVE  x.index \in Nat /\ x.entry \in Entries
    <2>1. PICK i \in 1 .. Len(l) : x = LinkAt(l, p, t, i)
      BY <1>1 DEF LinksOf
    <2>2. l[i] \in Entries /\ p + i \in Nat
      BY <1>1
    <2> QED
      BY <2>1, <2>2 DEF LinkAt
  <1> SUFFICES ASSUME TypeOK, NEW x \in Links
               PROVE  x.index \in Nat /\ x.entry \in Entries
    BY DEF Entries
  <1>2. CASE \E n \in Node : x \in LinksOf(log[n], 0, 0)
    BY <1>1, <1>2 DEF TypeOK
  <1>3. CASE \E m \in appends : x \in LinksOf(m.entries, m.prevIndex, m.prevTerm)
    <2>1. PICK m \in appends : x \in LinksOf(m.entries, m.prevIndex, m.prevTerm)
      BY <1>3
    <2>2. m.entries \in Seq(Entries) /\ m.prevIndex \in Nat
      BY DEF TypeOK, Appends
    <2> QED
      BY <1>1, <2>1, <2>2
  <1> QED
    BY <1>2, <1>3 DEF Links

(* Within its term a leader stays one: only a higher term deposes it.        *)
KeepsLeading ==
    \A n \in Node :
        role[n] = "Leader" /\ term'[n] = term[n] => role'[n] = "Leader"

LEMMA StepKeepsLeading == TypeOK /\ [Next]_vars => KeepsLeading
  <1> SUFFICES ASSUME TypeOK, [Next]_vars, NEW n \in Node, role[n] = "Leader",
                      term'[n] = term[n]
               PROVE  role'[n] = "Leader"
    BY DEF KeepsLeading
  <1>1. term[n] \in Nat /\ role \in [Node -> Roles] /\ term \in [Node -> Nat]
    BY DEF TypeOK
  <1>2. ASSUME NEW k \in Node, StartElection(k)
        PROVE  role'[n] = "Leader"
    <2>1. k # n
      BY <1>1, <1>2 DEF StartElection
    <2> QED
      BY <1>1, <1>2, <2>1 DEF StartElection
  <1>3. ASSUME NEW k \in Node, NEW m \in requests, HandleRequestVote(k, m)
        PROVE  role'[n] = "Leader"
    <2>1. m.term \in Nat
      BY DEF TypeOK, Requests
    <2> QED
      BY <1>1, <1>3, <2>1 DEF HandleRequestVote, SeenTerm, SeenRole
  <1>4. ASSUME NEW k \in Node, NEW m \in ballots, CountBallot(k, m)
        PROVE  role'[n] = "Leader"
    <2>1. m.term \in Nat
      BY DEF TypeOK, Ballots
    <2> QED
      BY <1>1, <1>4, <2>1 DEF CountBallot
  <1>5. ASSUME NEW k \in Node, NEW m \in appends, HandleAppend(k, m)
        PROVE  role'[n] = "Leader"
    <2>1. m.term \in Nat
      BY DEF TypeOK, Appends
    <2>2. /\ term' = [term EXCEPT ![k] = SeenTerm(k, m.term)]
          /\ \/ role' = role
             \/ role' = [role EXCEPT ![k] =
                  IF SeenRole(k, m.term) = "Candidate" THEN "Follower"
                                                       ELSE SeenRole(k, m.term)]
      BY <1>5 DEF HandleAppend
    <2> QED
      BY <1>1, <2>1, <2>2 DEF SeenTerm, SeenRole
  <1>6. CASE UNCHANGED role
    BY <1>6
  <1>7. UNCHANGED role
          \/ (\E k \in Node :
                 \/ StartElection(k)
                 \/ \E m \in requests : HandleRequestVote(k, m)
                 \/ \E m \in ballots : CountBallot(k, m)
                 \/ \E m \in appends : HandleAppend(k, m))
    BY DEF Next, vars, electionVars, Propose, SendAppend, HandleAck
  <1> QED
    BY <1>2, <1>3, <1>4, <1>5, <1>6, <1>7

(* What every step preserves, gathered for the lemmas below. *)
Moves == TypeOK' /\ Votes' /\ VotesMoveOn /\ GrowsAtLeaders /\ KeepsLeading

LEMMA LedStays ==
    ASSUME TypeOK, Moves, NEW t \in Nat, NEW i \in Nat, Led(t, i)
    PROVE  Led(t, i)'
  <1>1. PICK n \in Node :
          /\ Chosen(t, n)
          /\ t = term[n] => role[n] = "Leader" /\ i <= Len(log[n])
    BY DEF Led
  <1>2. Chosen(t, n)'
    BY <1>1, ChosenStays DEF Moves
  <1>3. ASSUME t = term'[n]
        PROVE  role'[n] = "Leader" /\ i <= Len(log'[n])
    <2>1. term[n] \in Nat /\ term'[n] \in Nat /\ t <= term[n]
      BY <1>1 DEF TypeOK, Moves, Chosen
    <2>2. term'[n] = term[n]
      BY <1>3, <2>1 DEF Moves, VotesMoveOn
    <2>3. role[n] = "Leader" /\ i <= Len(log[n]) /\ role'[n] = "Leader"
      BY <1>1, <1>3, <2>2 DEF Moves, KeepsLeading
    <2>4. Len(log'[n]) >= Len(log[n])
      BY <2>2, <2>3 DEF Moves, GrowsAtLeaders
    <2>5. Len(log[n]) \in Nat /\ Len(log'[n]) \in Nat
      BY DEF TypeOK, Moves
    <2> QED
      BY <2>3, <2>4, <2>5
  <1> QED
    BY <1>2, <1>3 DEF Led

(* A step that makes no link keeps them matched. *)
LEMMA NoNewLink ==
    ASSUME TypeOK, Moves, Linked, LinksLed, Links' \subseteq Links
    PROVE  Linked' /\ LinksLed'
  <1>1. Linked'
    BY DEF Linked
  <1>2. \A x \in Links' : Led(x.entry.term, x.index)'
    BY LedStays, LinksTyped DEF LinksLed
  <1> QED
    BY <1>1, <1>2 DEF LinksLed

(* The entry a leader appends makes the one link of its index and term: any  *)
(* other would be of the same leader's log, which ends before it.            *)
LEMMA NewLink ==
    ASSUME TypeOK, Moves, Linked, LinksLed, NEW n \in Node, NEW e \in Entries,
           e.term = term'[n], role'[n] = "Leader", appends' = appends,
           log' = [log EXCEPT ![n] = Append(@, e)]
    PROVE  Linked' /\ LinksLed'
  <1>1. /\ log \in [Node -> Seq(Entries)] /\ Len(log[n]) \in Nat
        /\ term[n] \in Nat /\ e.term \in Nat
    <2>1. log \in [Node -> Seq(Entries)] /\ term[n] \in Nat
      BY DEF TypeOK
    <2>2. e.term \in Nat
      BY DEF Entries
    <2> QED
      BY <2>1, <2>2
  <1>2. PICK y : y = [index |-> Len(log[n]) + 1, entry |-> e,
                      before |-> TermAt(log[n], Len(log[n]))]
    OBVIOUS
  <1>3. y.index = Len(log[n]) + 1 /\ y.index \in Nat /\ y.entry = e
    BY <1>1, <1>2
  <1>4. \A x \in Links' : x \in Links \/ x = y
    <2> SUFFICES ASSUME NEW x \in Links'
                 PROVE  x \in Links \/ x = y
      OBVIOUS
    <2>1. CASE \E k \in Node : x \in LinksOf(log'[k], 0, 0)
      <3>1. PICK k \in Node : x \in LinksOf(log'[k], 0, 0)
        BY <2>1
      <3>2. CASE k = n
        <4>1. log'[n] = Append(log[n], e) /\ log[n] \in Seq(Entries)
          BY <1>1
        <4>2. x \in LinksOf(log[n], 0, 0) \/ x = y
          BY <1>2, <3>1, <3>2, <4>1, LinksOfAppend
        <4> QED
          BY <4>2 DEF Links
      <3>3. CASE k # n
        <4>1. log'[k] = log[k]
          BY <1>1, <3>3
        <4> QED
          BY <3>1, <4>1 DEF Links
      <3> QED
        BY <3>2, <3>3
    <2>2. CASE \E m \in appends : x \in LinksOf(m.entries, m.prevIndex, m.prevTerm)
      BY <2>2 DEF Links
    <2> QED
      BY <2>1, <2>2 DEF Links
  <1>5. Chosen(e.term, n)'
    <2>1. (TypeOK /\ Votes => LeadersChosen)'
      BY LeaderChosen, PTL
    <2> QED
      BY <1>1, <2>1 DEF Moves, LeadersChosen
  <1>6. ASSUME NEW x \in Links, x.index = y.index, x.entry.term = e.term
        PROVE  FALSE
    <2>1. x.index \in Nat /\ x.entry.term \in Nat
      BY LinksTyped
    <2>2. PICK k \in Node :
            /\ Chosen(e.term, k)
            /\ e.term = term[k] => x.index <= Len(log[k])
      BY <1>6 DEF LinksLed, Led
    <2>3. Chosen(e.term, k)'
      BY <1>1, <2>2, ChosenStays DEF Moves
    <2>4. k = n
      <3>1. (TypeOK /\ Votes => OneChosen)'
        BY ChosenOnce, PTL
      <3> QED
        BY <3>1, <2>3, <1>5, <1>1 DEF Moves, OneChosen
    <2>5. e.term = term[n]
      BY <1>1, <2>2, <2>4 DEF Chosen, Moves, VotesMoveOn, TypeOK
    <2> QED
      BY <1>1, <1>3, <1>6, <2>1, <2>2, <2>4, <2>5
  <1>7. Led(e.term, y.index)'
    <2>1. Len(log'[n]) = Len(log[n]) + 1
      BY <1>1
    <2> QED
      BY <1>1, <1>3, <1>5, <2>1 DEF Led
  <1>8. Linked'
    BY <1>3, <1>4, <1>6 DEF Linked
  <1>9. \A x \in Links' : Led(x.entry.term, x.index)'
    <2> SUFFICES ASSUME NEW x \in Links'
                 PROVE  Led(x.entry.term, x.index)'
      OBVIOUS
    <2>1. CASE x \in Links
      BY <2>1, LedStays, LinksTyped DEF LinksLed
    <2>2. CASE x = y
      BY <2>2, <1>3, <1>7
    <2> QED
      BY <1>4, <2>1, <2>2
  <1> QED
    BY <1>8, <1>9 DEF LinksLed

(* create_append_entries takes its links from the leader's log. *)
LEMMA SendAppendLinks ==
    ASSUME TypeOK, FromStart, NEW n \in Node, NEW p \in Node, SendAppend(n, p)
    PROVE  FromStart' /\ Links' \subseteq Links
  <1>1. PICK i \in Nat :
          i = IF nextIndex[n][p] > 0 THEN nextIndex[n][p] - 1 ELSE 0
    BY DEF TypeOK
  <1>2. PICK m : m = [term |-> term[n], leader |-> n, to |-> p, prevIndex |-> i,
                      prevTerm |-> TermAt(log[n], i),
                      entries |-> SubSeq(log[n], i + 1, Len(log[n])), commit |-> commit[n]]
    OBVIOUS
  <1>3. appends' = appends \cup {m} /\ log' = log
    BY <1>1, <1>2 DEF SendAppend
  <1>4. log[n] \in Seq(Entries)
    BY DEF TypeOK
  <1>5. m.prevIndex = i /\ m.prevTerm = TermAt(log[n], i)
        /\ m.entries = SubSeq(log[n], i + 1, Len(log[n]))
    BY <1>2
  <1>6. i = 0 => TermAt(log[n], i) = 0
    BY DEF TermAt
  <1>7. LinksOf(m.entries, m.prevIndex, m.prevTerm) \subseteq Links
    BY <1>4, <1>5, LinksOfSuffix DEF Links
  <1>8. Links' \subseteq Links
    BY <1>3, <1>7 DEF Links
  <1> QED
    BY <1>3, <1>5, <1>6, <1>8 DEF FromStart

(* handle_append_entries leaves links of the old log and of the message.     *)
LEMMA HandleAppendLinks ==
    ASSUME TypeOK, FromStart, NEW n \in Node, NEW m \in appends, HandleAppend(n, m)
    PROVE  FromStart' /\ Links' \subseteq Links
  <1>1. appends' = appends
    BY DEF HandleAppend
  <1>2. FromStart'
    BY <1>1 DEF FromStart
  <1>3. /\ log \in [Node -> Seq(Entries)] /\ log[n] \in Seq(Entries)
        /\ Len(log[n]) \in Nat
    BY DEF TypeOK
  <1>4. m.prevIndex \in Nat /\ m.entries \in Seq(Entries) /\ m.prevTerm \in Nat
    BY DEF TypeOK, Appends
  <1>5. \/ log' = log
        \/ /\ Conflicts(n, m)
           /\ log' = [log EXCEPT ![n] = SubSeq(@, 1, m.prevIndex - 1)]
        \/ /\ ~Conflicts(n, m) /\ ~Missing(n, m)
           /\ log' = [log EXCEPT ![n] = Overwrite(@, m)]
    BY DEF HandleAppend
  <1>6. ASSUME NEW l \in Seq(Entries), log' = [log EXCEPT ![n] = l],
               LinksOf(l, 0, 0) \subseteq LinksOf(log[n], 0, 0)
                                 \cup LinksOf(m.entries, m.prevIndex, m.prevTerm)
        PROVE  Links' \subseteq Links
    <2>1. log'[n] = l /\ \A k \in Node \ {n} : log'[k] = log[k]
      BY <1>3, <1>6
    <2>2. \A k \in Node : LinksOf(log'[k], 0, 0) \subseteq Links
      BY <1>6, <2>1 DEF Links
    <2> QED
      BY <1>1, <2>2 DEF Links
  <1>7. CASE log' = log
    BY <1>1, <1>2, <1>7 DEF Links
  <1>8. CASE /\ Conflicts(n, m)
             /\ log' = [log EXCEPT ![n] = SubSeq(@, 1, m.prevIndex - 1)]
    <2>1. m.prevIndex - 1 \in Nat /\ m.prevIndex - 1 <= Len(log[n])
      BY <1>3, <1>4, <1>8 DEF Conflicts
    <2>2. SubSeq(log[n], 1, m.prevIndex - 1) \in Seq(Entries)
      BY <1>3, <2>1, PrefixTyped
    <2>3. LinksOf(SubSeq(log[n], 1, m.prevIndex - 1), 0, 0) \subseteq LinksOf(log[n], 0, 0)
      BY <1>3, <2>1, LinksOfPrefix
    <2> QED
      BY <1>2, <1>6, <1>8, <2>2, <2>3
  <1>9. CASE /\ ~Conflicts(n, m) /\ ~Missing(n, m)
             /\ log' = [log EXCEPT ![n] = Overwrite(@, m)]
    <2>1. m.prevIndex <= Len(log[n])
      BY <1>3, <1>4, <1>9 DEF Missing
    <2>2. TermAt(log[n], m.prevIndex) = m.prevTerm
      <3>1. CASE m.prevIndex = 0
        BY <3>1 DEF FromStart, TermAt
      <3>2. CASE m.prevIndex # 0
        <4>1. m.prevIndex \in 1 .. Len(log[n])
          BY <1>3, <1>4, <2>1, <3>2
        <4> QED
          BY <1>9, <4>1 DEF Conflicts, TermAt
      <3> QED
        BY <3>1, <3>2
    <2>3. Overwrite(log[n], m) \in Seq(Entries)
      <3>1. m \in Appends
        BY DEF TypeOK
      <3> QED
        BY <1>3, <2>1, <3>1, OverwriteTyped
    <2>4. LinksOf(Overwrite(log[n], m), 0, 0) \subseteq LinksOf(log[n], 0, 0)
                                 \cup LinksOf(m.entries, m.prevIndex, m.prevTerm)
      <3>1. CASE m.entries = <<>>
        BY <3>1 DEF Overwrite
      <3>2. CASE m.entries # <<>>
        BY <1>3, <1>4, <2>1, <2>2, <3>2, LinksOfOverwrite DEF Overwrite
      <3> QED
        BY <3>1, <3>2
    <2> QED
      BY <1>2, <1>6, <1>9, <2>3, <2>4
  <1> QED
    BY <1>2, <1>5, <1>7, <1>8, <1>9

LEMMA StepLog ==
    TypeOK /\ Votes /\ AppendsBacked /\ LogInv /\ [Next]_vars => LogInv'
  <1> SUFFICES ASSUME TypeOK, Votes, AppendsBacked, LogInv, [Next]_vars
               PROVE  LogInv'
    OBVIOUS
  <1>1. Moves
    BY StepTyped, StepVotes, StepMovesVotesOn, StepGrows, StepKeepsLeading DEF Moves
  <1>2. ASSUME FromStart', Links' \subseteq Links
        PROVE  LogInv'
    BY <1>1, <1>2, NoNewLink DEF LogInv
  <1>3. ASSUME UNCHANGED <<log, appends>>
        PROVE  LogInv'
    <2>1. FromStart' /\ Links' \subseteq Links
      BY <1>3 DEF LogInv, FromStart, Links
    <2> QED
      BY <1>2, <2>1
  <1>4. ASSUME NEW n \in Node, NEW e \in Entries, e.term = term'[n],
               role'[n] = "Leader", appends' = appends,
               log' = [log EXCEPT ![n] = Append(@, e)]
        PROVE  LogInv'
    <2>1. FromStart'
      BY <1>4 DEF LogInv, FromStart
    <2>2. Linked' /\ LinksLed'
      BY <1>1, <1>4, NewLink DEF LogInv
    <2> QED
      BY <2>1, <2>2 DEF LogInv
  <1>5. ASSUME NEW n \in Node, NEW t \in Nat, BecomeLeader(n, t), t = term'[n],
               role'[n] = "Leader", appends' = appends
        PROVE  LogInv'
    <2>1. [term |-> t, command |-> "Noop"] \in Entries
      BY DEF Entries, Commands
    <2>2. log' = [log EXCEPT ![n] = Append(@, [term |-> t, command |-> "Noop"])]
      BY <1>5 DEF BecomeLeader
    <2> QED
      BY <1>4, <1>5, <2>1, <2>2
  <1>6. ASSUME NEW n \in Node, StartElection(n)
        PROVE  LogInv'
    <2>1. /\ term[n] + 1 \in Nat /\ term'[n] = term[n] + 1 /\ appends' = appends
      BY <1>6 DEF StartElection, TypeOK
    <2>2. CASE QuorumSize <= 1
      <3>1. BecomeLeader(n, term[n] + 1) /\ role'[n] = "Leader"
        BY <1>6, <2>2 DEF StartElection, TypeOK
      <3> QED
        BY <1>5, <2>1, <3>1
    <2>3. CASE ~(QuorumSize <= 1)
      BY <1>3, <1>6, <2>3 DEF StartElection
    <2> QED
      BY <2>2, <2>3
  <1>7. ASSUME NEW n \in Node, NEW m \in ballots, CountBallot(n, m)
        PROVE  LogInv'
    <2>1. \/ UNCHANGED <<log, appends>>
          \/ /\ role' = [role EXCEPT ![n] = "Leader"] /\ BecomeLeader(n, term[n])
             /\ term' = term /\ appends' = appends
      BY <1>7 DEF CountBallot
    <2>2. term[n] \in Nat /\ role \in [Node -> Roles]
      BY DEF TypeOK
    <2> QED
      BY <1>3, <1>5, <2>1, <2>2
  <1>8. ASSUME NEW n \in Node, Propose(n)
        PROVE  LogInv'
    <2>1. [term |-> term[n], command |-> "Set"] \in Entries
      BY DEF Entries, Commands, TypeOK
    <2>2. /\ role'[n] = "Leader" /\ term'[n] = term[n] /\ appends' = appends
          /\ log' = [log EXCEPT ![n] = Append(@, [term |-> term[n], command |-> "Set"])]
      BY <1>8 DEF Propose, electionVars
    <2> QED
      BY <1>4, <2>1, <2>2
  <1>9. CASE UNCHANGED vars
    BY <1>3, <1>9 DEF vars
  <1>10. CASE Next
    <2>1. PICK n \in Node :
              \/ StartElection(n)
              \/ \E m \in requests : HandleRequestVote(n, m)
              \/ \E m \in ballots : CountBallot(n, m)
              \/ Propose(n)
              \/ \E p \in Node : SendAppend(n, p)
              \/ \E m \in appends : HandleAppend(n, m)
              \/ \E m \in acks : HandleAck(n, m)
      BY <1>10 DEF Next
    <2>2. CASE \/ \E m \in requests : HandleRequestVote(n, m)
               \/ \E m \in acks : HandleAck(n, m)
      BY <1>3, <2>2 DEF HandleRequestVote, HandleAck
    <2>3. CASE \/ \E p \in Node : SendAppend(n, p)
               \/ \E m \in appends : HandleAppend(n, m)
      BY <1>2, <2>3, SendAppendLinks, HandleAppendLinks DEF LogInv
    <2> QED
      BY <2>1, <2>2, <2>3, <1>6, <1>7, <1>8
  <1> QED
    BY <1>9, <1>10

LEMMA InitLog == Init => LogInv
  <1> SUFFICES ASSUME Init
               PROVE  LogInv
    OBVIOUS
  <1>1. appends = {} /\ \A n \in Node : Len(log[n]) = 0
    BY DEF Init
  <1>2. Links = {}
    BY <1>1 DEF Links, LinksOf
  <1> QED
    BY <1>1, <1>2 DEF LogInv, FromStart, Linked, LinksLed

(* Of a set of numbers there is a least. *)
LEMMA LeastNumber ==
    ASSUME NEW S \in SUBSET Nat, S # {}
    PROVE  \E x \in S : \A y \in S : x <= y
  <1> DEFINE R == OpToRel(<, Nat)
  <1>1. \A i, j \in Nat : ~(<<i, j>> \in R) => j <= i
    BY DEF OpToRel
  <1>2. IsWellFoundedOn(R, Nat)
    BY NatLessThanWellFounded
  <1> HIDE DEF R
  <1>3. PICK x \in S : \A y \in S : ~(<<y, x>> \in R)
    BY <1>2, WFMin
  <1> QED
    BY <1>1, <1>3

(* The greatest index at which two logs differ is the last of the run: the   *)
(* link after it, or the entry there, says otherwise.                        *)
LEMMA LinksMatch == TypeOK /\ LogInv => LogMatching
  <1> SUFFICES ASSUME TypeOK, LogInv, NEW m \in Node, NEW n \in Node,
                      NEW i \in 1 .. Min({Len(log[m]), Len(log[n])}),
                      log[m][i].term = log[n][i].term
               PROVE  SubSeq(log[m], 1, i) = SubSeq(log[n], 1, i)
    BY DEF LogMatching
  <1>1. PICK k, l \in Seq(Entries) : k = log[m] /\ l = log[n]
    BY DEF TypeOK
  <1>2. Len(k) \in Nat /\ Len(l) \in Nat
    OBVIOUS
  <1>3. i \in Nat \ {0} /\ i <= Len(k) /\ i <= Len(l)
    <2>1. Min({Len(k), Len(l)}) \in Nat /\ Min({Len(k), Len(l)}) <= Len(k)
          /\ Min({Len(k), Len(l)}) <= Len(l)
      <3>1. \E x \in {Len(k), Len(l)} : \A y \in {Len(k), Len(l)} : x <= y
        BY <1>2
      <3>2. /\ Min({Len(k), Len(l)}) \in {Len(k), Len(l)}
            /\ \A y \in {Len(k), Len(l)} : Min({Len(k), Len(l)}) <= y
        BY <3>1 DEF Min
      <3> QED
        BY <1>2, <3>2
    <2> QED
      BY <1>1, <1>2, <2>1
  <1> DEFINE D == {d \in Nat : d < i /\ k[i - d] # l[i - d]}
  <1>4. ASSUME NEW j \in 1 .. i, k[j].term = l[j].term
        PROVE  LinkAt(k, 0, 0, j) = LinkAt(l, 0, 0, j)
    <2>1. j \in 1 .. Len(k) /\ j \in 1 .. Len(l)
      BY <1>2, <1>3
    <2>2. LinkAt(k, 0, 0, j) \in Links /\ LinkAt(l, 0, 0, j) \in Links
      BY <1>1, <2>1, LinksIn
    <2>3. /\ LinkAt(k, 0, 0, j).index = LinkAt(l, 0, 0, j).index
          /\ LinkAt(k, 0, 0, j).entry = k[j] /\ LinkAt(l, 0, 0, j).entry = l[j]
      BY DEF LinkAt
    <2> HIDE DEF Links
    <2> QED
      BY <1>4, <2>2, <2>3 DEF LogInv, Linked
  <1>5. ASSUME NEW j \in 1 .. i, k[j].term = l[j].term
        PROVE  /\ k[j] = l[j]
               /\ j > 1 => k[j - 1].term = l[j - 1].term
    <2>1. LinkAt(k, 0, 0, j) = LinkAt(l, 0, 0, j)
      BY <1>4, <1>5
    <2>2. /\ LinkAt(k, 0, 0, j).entry = k[j] /\ LinkAt(l, 0, 0, j).entry = l[j]
          /\ j > 1 => /\ LinkAt(k, 0, 0, j).before = k[j - 1].term
                      /\ LinkAt(l, 0, 0, j).before = l[j - 1].term
      BY DEF LinkAt
    <2> QED
      BY <2>1, <2>2
  <1>6. D = {}
    <2> SUFFICES ASSUME D # {}
                 PROVE  FALSE
      OBVIOUS
    <2>1. PICK d \in D : \A e \in D : d <= e
      <3>1. D \in SUBSET Nat
        OBVIOUS
      <3> HIDE DEF D
      <3> QED
        BY <3>1, LeastNumber
    <2>2. i - d \in 1 .. i /\ k[i - d] # l[i - d]
      BY <1>3
    <2>3. CASE d = 0
      <3>1. i - d = i /\ k[i].term = l[i].term
        BY <1>1, <1>3, <2>3
      <3> QED
        BY <1>5, <2>2, <3>1
    <2>4. CASE d # 0
      <3>1. d - 1 \in Nat /\ d - 1 < i /\ ~(d <= d - 1) /\ i - d + 1 = i - (d - 1)
            /\ i - d + 1 \in 1 .. i /\ i - d + 1 > 1 /\ (i - d + 1) - 1 = i - d
        BY <1>3, <2>4
      <3>2. k[i - d + 1] = l[i - d + 1]
        BY <2>1, <3>1
      <3>3. k[i - d].term = l[i - d].term
        BY <1>5, <3>1, <3>2
      <3> QED
        BY <1>5, <2>2, <3>3
    <2> QED
      BY <2>3, <2>4
  <1>7. \A j \in 1 .. i : k[j] = l[j]
    <2> SUFFICES ASSUME NEW j \in 1 .. i
                 PROVE  k[j] = l[j]
      OBVIOUS
    <2>1. i - j \in Nat /\ i - j < i /\ i - (i - j) = j
      BY <1>3
    <2> QED
      BY <1>6, <2>1
  <1> HIDE DEF D
  <1>8. SubSeq(k, 1, i) = SubSeq(l, 1, i)
    BY <1>2, <1>3, <1>7
  <1> QED
    BY <1>1, <1>8

(* Whatever the network loses, delays, repeats or reorders, and whoever      *)
(* leads when: two logs with an entry of one term at one index are the same  *)
(* up to it, for a cluster of any size.                                      *)
THEOREM LogsMatch == Spec => []LogMatching
  <1>1. Init => TypeOK /\ Votes /\ AppendsBacked /\ LogInv
    BY InitTyped, InitVotes, InitLog DEF Init, AppendsBacked
  <1>2. (TypeOK /\ Votes /\ AppendsBacked /\ LogInv) /\ [Next]_vars
            => (TypeOK /\ Votes /\ AppendsBacked /\ LogInv)'
    BY StepTyped, StepVotes, StepBacked, StepLog
  <1>3. TypeOK /\ LogInv => LogMatching
    BY LinksMatch
  <1> QED
    BY <1>1, <1>2, <1>3, PTL DEF Spec
=============================================================================
