-------------------------------- MODULE Leases --------------------------------
(* The lease manager of prototype/src/lease.rs: agents hold leases on regions *)
(* of a code base, which form a tree; a region is the sequence of names that  *)
(* its path `module::item::block` is.  Callers invoke it in any order.        *)
EXTENDS Integers, Sequences, FiniteSets

CONSTANTS
    LeaseAgent,
    Region,
    Timeouts,    \* the values callers give default_timeout; 0 is none
    MaxClock,    \* bound: the ticks
    MaxLeases    \* bound: the leases ever granted

ASSUME LeaseAssumption ==
    /\ \A r \in Region : r \in Seq(STRING)
    /\ Timeouts \subseteq Nat /\ {MaxClock, MaxLeases} \subseteq Nat

VARIABLES
    leases,      \* active
    nextLease,   \* next_id
    leaseClock,  \* clock
    timeout,     \* default_timeout
    waitFor,     \* wait_for
    waiting      \* history: whose leases each agent was last told Conflict over

leaseVars == <<leases, nextLease, leaseClock, timeout, waitFor, waiting>>

Modes == {"SharedRead", "ExclusiveWrite", "Restructuring"}
Wishes == [region : Region, mode : Modes]
Grants == [id : Nat, agent : LeaseAgent, region : Region, mode : Modes,
           expires : Nat]  \* 0: expires_at is None

LeaseInit ==
    /\ leases = {} /\ nextLease = 1 /\ leaseClock = 0
    /\ timeout = 0
    /\ waitFor = [a \in LeaseAgent |-> {}]
    /\ waiting = [a \in LeaseAgent |-> {}]

-----------------------------------------------------------------------------
(* contains: equal, or a prefix of the path. *)
Covers(r, s) == Len(r) <= Len(s) /\ r = SubSeq(s, 1, Len(r))

(* Mutant: only the regions above the wanted one are looked at. *)
OverlapsDownwards(r, s) == Covers(r, s)

Overlaps(r, s) == Covers(r, s) \/ Covers(s, r)

Compatible(m1, m2) == m1 = "SharedRead" /\ m2 = "SharedRead"

(* Mutant: a lease expires a tick early. *)
LivesBriefly(l, now) == l.expires = 0 \/ l.expires > now + 1

(* expire_stale keeps it. *)
Lives(l, now) == l.expires = 0 \/ l.expires > now

Live(now) == {l \in leases : Lives(l, now)}

(* find_conflicts, among the leases that have not expired. *)
Blockers(a, wish) ==
    {l \in Live(leaseClock) :
        /\ l.agent # a
        /\ Overlaps(l.region, wish.region)
        /\ ~Compatible(l.mode, wish.mode)}

(* would_deadlock: the search reaches the agent from those it would wait on. *)
WouldDeadlock(a, others) ==
    \A closed \in SUBSET LeaseAgent :
        others \subseteq closed /\ (\A b \in closed : waitFor[b] \subseteq closed)
            => a \in closed

(* acquire.  The answer is Deadlock or Conflict; neither adds an edge. *)
Acquire(a, wish) ==
    /\ nextLease <= MaxLeases
    /\ \/ /\ Blockers(a, wish) = {}
          /\ waitFor' = [waitFor EXCEPT ![a] = {}]
          /\ leases' = Live(leaseClock) \cup
                {[id |-> nextLease, agent |-> a, region |-> wish.region, mode |-> wish.mode,
                  expires |-> IF timeout > 0 THEN leaseClock + timeout ELSE 0]}
          /\ nextLease' = nextLease + 1
          /\ waiting' = [waiting EXCEPT ![a] = {}]
       \/ LET others == {l.agent : l \in Blockers(a, wish)} IN
          /\ others # {}
          /\ leases' = Live(leaseClock)
          /\ waiting' = [waiting EXCEPT ![a] = IF WouldDeadlock(a, others) THEN @ ELSE others]
          /\ UNCHANGED <<nextLease, waitFor>>
    /\ UNCHANGED <<leaseClock, timeout>>

(* release(id); an id that is not active is an error and changes nothing. *)
Release(id) ==
    /\ \E l \in leases : l.id = id
    /\ leases' = {l \in leases : l.id # id}
    /\ UNCHANGED <<nextLease, leaseClock, timeout, waitFor, waiting>>

ReleaseAll(a) ==
    /\ leases' = {l \in leases : l.agent # a}
    /\ waitFor' = [waitFor EXCEPT ![a] = {}]
    /\ waiting' = [waiting EXCEPT ![a] = {}]
    /\ UNCHANGED <<nextLease, leaseClock, timeout>>

Tick(n) ==
    /\ leaseClock + n <= MaxClock
    /\ leaseClock' = leaseClock + n
    /\ leases' = Live(leaseClock + n)
    /\ UNCHANGED <<nextLease, timeout, waitFor, waiting>>

(* default_timeout is a public field. *)
SetTimeout(t) ==
    /\ timeout' = t
    /\ UNCHANGED <<leases, nextLease, leaseClock, waitFor, waiting>>

LeaseNext ==
    \/ \E a \in LeaseAgent, wish \in Wishes : Acquire(a, wish)
    \/ \E l \in leases : Release(l.id)
    \/ \E a \in LeaseAgent : ReleaseAll(a)
    \/ \E n \in 1 .. MaxClock : Tick(n)
    \/ \E t \in Timeouts : SetTimeout(t)

LeaseSpec == LeaseInit /\ [][LeaseNext]_leaseVars

-----------------------------------------------------------------------------
LeaseTypes ==
    /\ leases \subseteq Grants
    /\ nextLease \in Nat /\ leaseClock \in Nat /\ timeout \in Nat
    /\ waitFor \in [LeaseAgent -> SUBSET LeaseAgent]
    /\ waiting \in [LeaseAgent -> SUBSET LeaseAgent]

(* Mutual exclusion over the tree of regions (lease.rs:6-9): where one agent *)
(* may write, or restructure, nobody else has a lease on that region, on     *)
(* what it contains or on what contains it; and no lease outlives its time.  *)
LeasesExclude ==
    /\ \A l, k \in leases :
          l.agent # k.agent /\ Overlaps(l.region, k.region) => Compatible(l.mode, k.mode)
    /\ \A l \in leases : l.expires = 0 \/ leaseClock < l.expires

(* A grant is worth something: a lease ends by its release, by its holder's  *)
(* release_all, or at the time it was granted for, and by nothing that other *)
(* agents, ticks or changes of the default timeout do; what is released and  *)
(* expired does not come back (ids are never given twice).                   *)
LeasesHonoured ==
    [][\A l \in leases \cup leases' :
          \/ l \in leases /\ l \in leases'
          \/ l \in leases' /\ l.id = nextLease /\ nextLease' = nextLease + 1
          \/ l \in leases /\ Release(l.id)
          \/ l \in leases /\ ReleaseAll(l.agent)
          \/ l \in leases /\ l.expires \in 1 .. leaseClock']_leaseVars

(* lease.rs:11-12: "Detects deadlocks via a wait-for graph".  No two agents  *)
(* are left waiting for each other with a Conflict for an answer.            *)
DeadlockIsReported ==
    \A a, b \in LeaseAgent : a # b => ~(b \in waiting[a] /\ a \in waiting[b])
=============================================================================
