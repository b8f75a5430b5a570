---------------------------------- MODULE Bus ----------------------------------
(* The message bus of prototype/src/swarm_bus.rs: one mailbox per registered  *)
(* agent, ordered by priority, bounded in depth.                              *)
EXTENDS Integers, Sequences, FiniteSets, SequencesExt

CONSTANTS
    BusAgent, Topic,
    Urgency,     \* the priorities in use
    Depth,       \* max_mailbox_depth; 0 is unlimited
    MaxSends     \* bound: the messages ever sent

ASSUME BusAssumption ==
    /\ Urgency \subseteq Nat /\ {Depth, MaxSends} \subseteq Nat

VARIABLES
    boxes,      \* mailboxes: the queue of each agent that registered
    subs,       \* ... and its subscriptions
    nextMsg,    \* next_id
    stats,      \* total_delivered and total_dropped
    received,   \* history: what each agent took out, in order
    addressed   \* history: the copies that send() was to make

busVars == <<boxes, subs, nextMsg, stats, received, addressed>>

Registered == DOMAIN boxes

BusInit ==
    /\ boxes = <<>> /\ subs = <<>>
    /\ nextMsg = 1
    /\ stats = [delivered |-> 0, dropped |-> 0]
    /\ received = [a \in BusAgent |-> <<>>]
    /\ addressed = {}

-----------------------------------------------------------------------------
(* An agent that is registered already keeps its mailbox. *)
RegisterAgent(a) ==
    /\ a \notin Registered
    /\ boxes' = [b \in Registered \cup {a} |-> IF b = a THEN <<>> ELSE boxes[b]]
    /\ subs' = [b \in Registered \cup {a} |-> IF b = a THEN {} ELSE subs[b]]
    /\ UNCHANGED <<nextMsg, stats, received, addressed>>

Subscribe(a, t) ==
    /\ a \in Registered
    /\ subs' = [subs EXCEPT ![a] = @ \cup {t}]
    /\ UNCHANGED <<boxes, nextMsg, stats, received, addressed>>

Unsubscribe(a, t) ==
    /\ a \in Registered
    /\ subs' = [subs EXCEPT ![a] = @ \ {t}]
    /\ UNCHANGED <<boxes, nextMsg, stats, received, addressed>>

(* Mutant: whoever subscribes to the topic, the sender too. *)
RecipientsWithSender(e) ==
    CASE e.to = "all"   -> Registered \ {e.sender}
      [] e.to = "topic" -> {a \in Registered : e.topic \in subs[a]}
      [] OTHER          -> {e.to}

(* The agents deliver() is called for. *)
Recipients(e) ==
    CASE e.to = "all"   -> Registered \ {e.sender}
      [] e.to = "topic" -> {a \in Registered \ {e.sender} : e.topic \in subs[a]}
      [] OTHER          -> {e.to}

(* Mutant: ahead of its equals. *)
EnqueueFirst(q, e) ==
    LET i == Cardinality({k \in 1 .. Len(q) : q[k].priority > e.priority}) IN
    InsertAt(q, i + 1, e)

(* Before the first envelope of a lower priority, or at the end. *)
Enqueue(q, e) ==
    LET lower == {k \in 1 .. Len(q) : q[k].priority < e.priority} IN
    IF lower = {} THEN Append(q, e)
                  ELSE InsertAt(q, CHOOSE k \in lower : \A j \in lower : k <= j, e)

(* Mutant: one more than the depth. *)
HasRoomForOneMore(a) == Depth = 0 \/ Len(boxes[a]) <= Depth

HasRoom(a) == Depth = 0 \/ Len(boxes[a]) < Depth

(* deliver() to each of them: an agent nobody registered, or a full mailbox, *)
(* drops the copy.                                                           *)
Send(e) ==
    LET taken == {a \in Recipients(e) \cap Registered : HasRoom(a)} IN
    /\ nextMsg <= MaxSends
    /\ e.id = nextMsg
    /\ nextMsg' = nextMsg + 1
    /\ boxes' = [a \in Registered |-> IF a \in taken THEN Enqueue(boxes[a], e) ELSE boxes[a]]
    /\ stats' = [delivered |-> stats.delivered + Cardinality(taken),
                 dropped |-> stats.dropped + Cardinality(Recipients(e) \ taken)]
    /\ addressed' = addressed \cup {<<e, a>> : a \in Recipients(e)}
    /\ UNCHANGED <<subs, received>>

Recv(a) ==
    /\ a \in Registered /\ boxes[a] # <<>>
    /\ received' = [received EXCEPT ![a] = Append(@, Head(boxes[a]))]
    /\ boxes' = [boxes EXCEPT ![a] = Tail(@)]
    /\ UNCHANGED <<subs, nextMsg, stats, addressed>>

Drain(a) ==
    /\ a \in Registered /\ boxes[a] # <<>>
    /\ received' = [received EXCEPT ![a] = @ \o boxes[a]]
    /\ boxes' = [boxes EXCEPT ![a] = <<>>]
    /\ UNCHANGED <<subs, nextMsg, stats, addressed>>

BusNext ==
    \/ \E a \in BusAgent :
          \/ RegisterAgent(a) \/ Recv(a) \/ Drain(a)
          \/ \E t \in Topic : Subscribe(a, t) \/ Unsubscribe(a, t)
    \/ \E s \in BusAgent, to \in BusAgent \cup {"all", "topic"}, t \in Topic, p \in Urgency :
          Send([id |-> nextMsg, sender |-> s, to |-> to, topic |-> t, priority |-> p])

BusSpec == BusInit /\ [][BusNext]_busVars

-----------------------------------------------------------------------------
(* What came out of an agent's mailbox, followed by what is still in it. *)
Arrivals(a) == IF a \in Registered THEN received[a] \o boxes[a] ELSE <<>>

(* A place for each message that arrived anywhere. *)
Places == UNION {{a} \X (1 .. Len(Arrivals(a))) : a \in Registered}

(* "FIFO, priority-ordered" (swarm_bus.rs, recv): in a mailbox nothing       *)
(* stands behind a less urgent message, and of two messages of the same      *)
(* priority an agent gets the one that was sent first before the other,      *)
(* however sends, receptions and drains alternate and whatever was dropped.  *)
MailInOrder ==
    \A a \in Registered :
        /\ \A i, j \in 1 .. Len(boxes[a]) :
              i < j => boxes[a][i].priority >= boxes[a][j].priority
        /\ \A i, j \in 1 .. Len(Arrivals(a)) :
              i < j /\ Arrivals(a)[i].priority = Arrivals(a)[j].priority
                  => Arrivals(a)[i].id < Arrivals(a)[j].id

(* Every copy is accounted for: it was delivered, once and to an agent it    *)
(* was for, or it counts as dropped; no sender hears its own broadcast; a    *)
(* mailbox never exceeds its depth.                                          *)
MailAccounted ==
    /\ \A a \in Registered :
          /\ Depth > 0 => Len(boxes[a]) <= Depth
          /\ \A i \in 1 .. Len(Arrivals(a)) : LET e == Arrivals(a)[i] IN
                /\ <<e, a>> \in addressed
                /\ e.to \in {"all", "topic"} => e.sender # a
    /\ stats.delivered + stats.dropped = Cardinality(addressed)
    /\ stats.delivered = Cardinality(Places)

MailIsKept == MailInOrder /\ MailAccounted
=============================================================================
