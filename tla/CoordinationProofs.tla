--------------------------- MODULE CoordinationProofs ---------------------------
(* Proofs about the objects that agents and threads share, each for any       *)
(* callers, values and bounds: the leases, the shared workspace, the merge    *)
(* engine, the message bus and the task graph.                                *)
EXTENDS Leases, Workspace, Crdt, Bus, Tasks, TLAPS, FiniteSetTheorems, WellFoundedInduction

-----------------------------------------------------------------------------
(* Numbers and sequences. *)

(* Of a set of numbers there is a least. *)
LEMMA LeastOf ==
    ASSUME NEW S \in SUBSET Nat, S # {}
    PROVE  \E x \in S : \A y \in S : x <= y
  <1> DEFINE R == OpToRel(<, Nat)
  <1>1. \A i, j \in Nat : ~(<<i, j>> \in R) => j <= i
    BY DEF OpToRel
  <1>2. IsWellFoundedOn(R, Nat)
    BY NatLessThanWellFounded
  <1> HIDE DEF R
  <1>3. PICK x \in S : \A y \in S : ~(<<y, x>> \in R)
    BY <1>2, WFMin
  <1> QED
    BY <1>1, <1>3

(* One queue behind another. *)
LEMMA Joined ==
    ASSUME NEW S, NEW x \in Seq(S), NEW q \in Seq(S), NEW y, y = x \o q
    PROVE  /\ y \in Seq(S) /\ Len(x) \in Nat /\ Len(q) \in Nat /\ Len(y) = Len(x) + Len(q)
           /\ \A i \in 1 .. Len(x) : y[i] = x[i]
           /\ \A i \in 1 .. Len(q) : y[Len(x) + i] = q[i]
  OBVIOUS

(* A sequence has its elements, and a function on 1 .. n is one. *)
LEMMA SeqElements ==
    ASSUME NEW S, NEW s \in Seq(S)
    PROVE  Len(s) \in Nat /\ DOMAIN s = 1 .. Len(s) /\ \A i \in 1 .. Len(s) : s[i] \in S
  OBVIOUS

LEMMA SeqFromElements ==
    ASSUME NEW S, NEW n \in Nat, NEW s, s = [i \in 1 .. n |-> s[i]], \A i \in 1 .. n : s[i] \in S
    PROVE  s \in Seq(S) /\ Len(s) = n
  OBVIOUS

(* One element more. *)
Longer(q, x, keep) == IF x \in keep THEN Append(q, x) ELSE q

(* The elements are looked at one after the other. *)
LEMMA RetainedSteps ==
    ASSUME NEW S, NEW s \in Seq(S), NEW keep
    PROVE  \E f : /\ f[0] = <<>> /\ Retained(s, keep) = f[Len(s)]
                  /\ \A n \in 1 .. Len(s) : f[n] = Longer(f[n - 1], s[n], keep)
  <1> DEFINE Runs(f, k) ==
        f = [n \in 0 .. k |-> IF n = 0 THEN <<>>
                              ELSE IF s[n] \in keep THEN Append(f[n - 1], s[n]) ELSE f[n - 1]]
  <1>1. \A k \in Nat : \E f : Runs(f, k)
    <2> SUFFICES ASSUME NEW j \in Nat, ~\E f : Runs(f, j) PROVE FALSE
      OBVIOUS
    <2> DEFINE Bad == {k \in Nat : ~\E f : Runs(f, k)}
    <2>1. PICK k \in Bad : \A i \in Bad : k <= i
      <3>1. Bad \in SUBSET Nat /\ Bad # {}
        OBVIOUS
      <3> HIDE DEF Bad
      <3> QED
        BY <3>1, LeastOf
    <2>2. CASE k = 0
      <3> DEFINE f == [n \in 0 .. 0 |-> <<>>]
      <3>1. f = [n \in 0 .. 0 |-> IF n = 0 THEN <<>>
                              ELSE IF s[n] \in keep THEN Append(f[n - 1], s[n]) ELSE f[n - 1]]
        OBVIOUS
      <3> QED
        BY <3>1, <2>2
    <2>3. CASE k > 0
      <3>1. k - 1 \in Nat /\ k \in Nat
        BY <2>3
      <3> HIDE DEF Runs
      <3>2. \E f : Runs(f, k - 1)
        <4>1. k - 1 \notin Bad
          BY <2>1, <3>1
        <4> QED
          BY <4>1, <3>1
      <3>3. PICK f : Runs(f, k - 1)
        BY <3>2
      <3>4. PICK x : x = IF s[k] \in keep THEN Append(f[k - 1], s[k]) ELSE f[k - 1]
        OBVIOUS
      <3>5. PICK l : l = [n \in 0 .. k |-> IF n = k THEN x ELSE f[n]]
        OBVIOUS
      <3>6. \A n \in 0 .. k - 1 : f[n] = IF n = 0 THEN <<>>
                              ELSE IF s[n] \in keep THEN Append(f[n - 1], s[n]) ELSE f[n - 1]
        BY <3>3 DEF Runs
      <3>7. l[k] = x /\ \A n \in 0 .. k - 1 : l[n] = f[n]
        BY <3>1, <3>5
      <3>8. l[k] = IF s[k] \in keep THEN Append(l[k - 1], s[k]) ELSE l[k - 1]
        <4>1. l[k - 1] = f[k - 1]
          BY <3>1, <3>7
        <4> QED
          BY <4>1, <3>4, <3>7
      <3>9. \A n \in 0 .. k : l[n] = IF n = 0 THEN <<>>
                              ELSE IF s[n] \in keep THEN Append(l[n - 1], s[n]) ELSE l[n - 1]
        <4> SUFFICES ASSUME NEW n \in 0 .. k
                     PROVE  l[n] = IF n = 0 THEN <<>>
                                   ELSE IF s[n] \in keep THEN Append(l[n - 1], s[n]) ELSE l[n - 1]
          OBVIOUS
        <4>1. CASE n = k
          BY <4>1, <3>8, <2>3
        <4>2. CASE n = 0
          BY <4>2, <3>1, <3>6, <3>7
        <4>3. CASE n # k /\ n # 0
          <5>1. n \in 0 .. k - 1 /\ n - 1 \in 0 .. k - 1
            BY <4>3, <3>1
          <5>2. l[n] = f[n] /\ l[n - 1] = f[n - 1]
            BY <5>1, <3>7
          <5>3. f[n] = IF s[n] \in keep THEN Append(f[n - 1], s[n]) ELSE f[n - 1]
            BY <5>1, <4>3, <3>6
          <5> QED
            BY <5>2, <5>3, <4>3
        <4> QED
          BY <4>1, <4>2, <4>3
      <3>10. l = [n \in 0 .. k |-> l[n]]
        BY <3>5
      <3>11. l = [n \in 0 .. k |-> IF n = 0 THEN <<>>
                              ELSE IF s[n] \in keep THEN Append(l[n - 1], s[n]) ELSE l[n - 1]]
        BY <3>9, <3>10
      <3> QED
        BY <3>11, <2>1 DEF Runs
    <2> QED
      BY <2>1, <2>2, <2>3
  <1>2. Len(s) \in Nat
    OBVIOUS
  <1> DEFINE f == CHOOSE f : Runs(f, Len(s))
  <1>3. Runs(f, Len(s))
    BY <1>1, <1>2
  <1>4. Retained(s, keep) = f[Len(s)]
    BY DEF Retained
  <1>5. \A n \in 0 .. Len(s) : f[n] = IF n = 0 THEN <<>>
                              ELSE IF s[n] \in keep THEN Append(f[n - 1], s[n]) ELSE f[n - 1]
    <2> HIDE DEF f
    <2> QED
      BY <1>3
  <1> HIDE DEF f
  <1>6. f[0] = <<>> /\ \A n \in 1 .. Len(s) : f[n] = Longer(f[n - 1], s[n], keep)
    BY <1>2, <1>5 DEF Longer
  <1> QED
    BY <1>4, <1>6

(* Every element is there once. *)
Distinct(q) == \A i, j \in 1 .. Len(q) : q[i] = q[j] => i = j

(* r has what is kept of s, and nothing twice that was there once. *)
Keeps(s, keep, r) ==
    /\ Len(r) <= Len(s)
    /\ \A x : (\E i \in 1 .. Len(r) : r[i] = x) <=> x \in keep /\ \E i \in 1 .. Len(s) : s[i] = x
    /\ Distinct(s) => Distinct(r)

(* What Retained returns. *)
LEMMA RetainedIs ==
    ASSUME NEW S, NEW s \in Seq(S), NEW keep, NEW r, r = Retained(s, keep)
    PROVE  r \in Seq(S) /\ Keeps(s, keep, r)
  <1>1. PICK f : /\ f[0] = <<>> /\ Retained(s, keep) = f[Len(s)]
                 /\ \A n \in 1 .. Len(s) : f[n] = Longer(f[n - 1], s[n], keep)
    BY RetainedSteps
  <1>2. Len(s) \in Nat /\ \A i \in 1 .. Len(s) : s[i] \in S
    OBVIOUS
  <1> DEFINE Good(n) ==
        /\ f[n] \in Seq(S) /\ Len(f[n]) <= n
        /\ \A x : (\E i \in 1 .. Len(f[n]) : f[n][i] = x) <=> x \in keep /\ \E i \in 1 .. n : s[i] = x
        /\ Distinct(s) => Distinct(f[n])
  <1>3. Good(0)
    BY <1>1 DEF Distinct
  <1>4. ASSUME NEW n \in 1 .. Len(s), Good(n - 1) PROVE Good(n)
    <2>1. PICK q, e : q = f[n - 1] /\ e = s[n]
      OBVIOUS
    <2>2. /\ q \in Seq(S) /\ Len(q) <= n - 1 /\ e \in S /\ Len(q) \in Nat /\ n \in Nat
          /\ Distinct(s) => Distinct(q)
      BY <2>1, <1>2, <1>4
    <2>3. \A x : (\E i \in 1 .. Len(q) : q[i] = x) <=> x \in keep /\ \E i \in 1 .. n - 1 : s[i] = x
      BY <2>1, <1>4
    <2>4. \A x : (\E i \in 1 .. n : s[i] = x) <=> (\E i \in 1 .. n - 1 : s[i] = x) \/ x = e
      <3>1. \A i : i \in 1 .. n <=> i \in 1 .. n - 1 \/ i = n
        BY <2>2
      <3> QED
        BY <3>1, <2>1
    <2>5. CASE e \notin keep
      <3>1. f[n] = q
        BY <1>1, <2>1, <2>5 DEF Longer
      <3>2. Len(q) <= n
        BY <2>2
      <3>3. \A x : (\E i \in 1 .. Len(q) : q[i] = x) <=> x \in keep /\ \E i \in 1 .. n : s[i] = x
        BY <2>3, <2>4, <2>5
      <3> QED
        BY <3>1, <3>2, <3>3, <2>2
    <2>6. CASE e \in keep
      <3>1. PICK r1 : r1 = Append(q, e)
        OBVIOUS
      <3>2. f[n] = r1
        BY <1>1, <2>1, <2>6, <3>1 DEF Longer
      <3>3. /\ r1 \in Seq(S) /\ Len(r1) = Len(q) + 1 /\ r1[Len(q) + 1] = e
            /\ \A i \in 1 .. Len(q) : r1[i] = q[i]
        BY <3>1, <2>2
      <3>4. \A i : i \in 1 .. Len(r1) <=> i \in 1 .. Len(q) \/ i = Len(q) + 1
        BY <3>3, <2>2
      <3>5. \A x : (\E i \in 1 .. Len(r1) : r1[i] = x) <=> (\E i \in 1 .. Len(q) : q[i] = x) \/ x = e
        BY <3>3, <3>4
      <3>6. \A x : (\E i \in 1 .. Len(r1) : r1[i] = x) <=> x \in keep /\ \E i \in 1 .. n : s[i] = x
        BY <3>5, <2>3, <2>4, <2>6
      <3>7. ASSUME Distinct(s) PROVE Distinct(r1)
        <4>1. \A i \in 1 .. Len(q) : q[i] # e
          <5> SUFFICES ASSUME NEW i \in 1 .. Len(q), q[i] = e PROVE FALSE
            OBVIOUS
          <5>1. PICK j \in 1 .. n - 1 : s[j] = e
            BY <2>3
          <5>2. j \in 1 .. Len(s) /\ j # n
            BY <1>2, <2>2
          <5> QED
            BY <5>1, <5>2, <3>7, <2>1 DEF Distinct
        <4>2. Distinct(q)
          BY <3>7, <2>2
        <4> SUFFICES ASSUME NEW i \in 1 .. Len(r1), NEW j \in 1 .. Len(r1), r1[i] = r1[j]
                     PROVE  i = j
          BY DEF Distinct
        <4>3. i \in 1 .. Len(q) \/ i = Len(q) + 1
          BY <3>4
        <4>4. j \in 1 .. Len(q) \/ j = Len(q) + 1
          BY <3>4
        <4> QED
          BY <3>3, <4>1, <4>2, <4>3, <4>4 DEF Distinct
      <3>8. Len(r1) <= n
        BY <3>3, <2>2
      <3> QED
        BY <3>2, <3>3, <3>6, <3>7, <3>8
    <2> QED
      BY <2>5, <2>6
  <1>5. Good(Len(s))
    <2> HIDE DEF Good
    <2> DEFINE Bad == {n \in 0 .. Len(s) : ~Good(n)}
    <2> SUFFICES ASSUME Bad # {} PROVE FALSE
      BY <1>2
    <2>1. PICK n \in Bad : \A i \in Bad : n <= i
      <3>1. Bad \in SUBSET Nat
        BY <1>2
      <3> HIDE DEF Bad
      <3> QED
        BY <3>1, LeastOf
    <2>2. n \in 0 .. Len(s) /\ ~Good(n) /\ n # 0
      BY <1>3
    <2>3. n \in 1 .. Len(s) /\ n - 1 \in 0 .. Len(s) /\ ~(n <= n - 1)
      BY <2>2, <1>2
    <2>4. Good(n - 1)
      BY <2>1, <2>3
    <2> QED
      BY <2>2, <2>3, <2>4, <1>4
  <1> QED
    BY <1>1, <1>5 DEF Keeps

-----------------------------------------------------------------------------
(* The leases: they exclude each other, and are honoured until they are     *)
(* given up or expire.                                                       *)

(* The types with the invariant itself: what LeasesExclude needs of a state  *)
(* before a step it says itself.                                             *)
LeaseInv == LeaseTypes /\ LeasesExclude

(* Overlap and compatibility do not depend on who asks. *)
LEMMA Symmetric ==
    /\ \A r, s : Overlaps(r, s) <=> Overlaps(s, r)
    /\ \A m, n : Compatible(m, n) <=> Compatible(n, m)
BY DEF Overlaps, Compatible

(* expire_stale drops leases and adds none. *)
LEMMA LiveAreLeases ==
    \A now : /\ Live(now) \subseteq leases
             /\ \A l \in Live(now) : Lives(l, now)
BY DEF Live

(* Nothing is held at the start. *)
LEMMA LeaseInitSound == LeaseInit => LeaseInv
BY LeaseAssumption DEF LeaseInit, LeaseInv, LeaseTypes, LeasesExclude

(* Types: what a step stores has its type. *)
LEMMA LeaseTypesStep == LeaseTypes /\ [LeaseNext]_leaseVars => LeaseTypes'
<1> SUFFICES ASSUME LeaseTypes, [LeaseNext]_leaseVars PROVE LeaseTypes'
  OBVIOUS
<1> USE LeaseAssumption, LiveAreLeases DEF LeaseTypes
<1>1. ASSUME NEW a \in LeaseAgent, NEW wish \in Wishes, Acquire(a, wish) PROVE LeaseTypes'
  <2>1. CASE Blockers(a, wish) = {} /\ nextLease' = nextLease + 1
    <3> DEFINE l == [id |-> nextLease, agent |-> a, region |-> wish.region, mode |-> wish.mode,
                     expires |-> IF timeout > 0 THEN leaseClock + timeout ELSE 0]
    <3>1. l \in Grants
      BY <1>1 DEF Wishes, Grants
    <3>2. CASE leases' = Live(leaseClock) \cup {l} /\ waitFor' = [waitFor EXCEPT ![a] = {}]
               /\ waiting' = [waiting EXCEPT ![a] = {}]
      BY <3>1, <3>2, <2>1, <1>1 DEF Acquire
    <3>3. CASE leases' = Live(leaseClock) /\ waitFor' = waitFor /\ nextLease' = nextLease
      BY <3>3, <2>1
    <3> QED BY <3>2, <3>3, <2>1, <1>1 DEF Acquire
  <2>2. CASE leases' = Live(leaseClock) /\ nextLease' = nextLease /\ waitFor' = waitFor
    <3> DEFINE others == {l.agent : l \in Blockers(a, wish)}
    <3>1. others \subseteq LeaseAgent
      BY DEF Blockers, Grants
    <3>2. CASE waiting' = [waiting EXCEPT ![a] = IF WouldDeadlock(a, others) THEN @ ELSE others]
      BY <3>1, <3>2, <2>2, <1>1 DEF Acquire
    <3>3. CASE waiting' = [waiting EXCEPT ![a] = {}]
      BY <3>3, <2>2, <1>1 DEF Acquire
    <3> QED BY <3>2, <3>3, <1>1 DEF Acquire
  <2> QED BY <2>1, <2>2, <1>1 DEF Acquire
<1>2. ASSUME NEW l \in leases, Release(l.id) PROVE LeaseTypes'
  BY <1>2 DEF Release
<1>3. ASSUME NEW a \in LeaseAgent, ReleaseAll(a) PROVE LeaseTypes'
  BY <1>3 DEF ReleaseAll
<1>4. ASSUME NEW n \in 1 .. MaxClock, Tick(n) PROVE LeaseTypes'
  BY <1>4 DEF Tick
<1>5. ASSUME NEW t \in Timeouts, SetTimeout(t) PROVE LeaseTypes'
  BY <1>5 DEF SetTimeout
<1>6. CASE UNCHANGED leaseVars
  BY <1>6 DEF leaseVars
<1> QED BY <1>1, <1>2, <1>3, <1>4, <1>5, <1>6 DEF LeaseNext

(* A step that only drops leases, and all that expire by the new time, keeps *)
(* the rest exclusive.                                                       *)
LEMMA DroppingExcludes ==
    ASSUME LeaseInv, leases' \subseteq leases, LeaseTypes',
           \A l \in leases' : Lives(l, leaseClock')
    PROVE  LeasesExclude'
<1>1. \A l, k \in leases' :
         l.agent # k.agent /\ Overlaps(l.region, k.region) => Compatible(l.mode, k.mode)
  BY DEF LeaseInv, LeasesExclude
<1>2. \A l \in leases' : l.expires = 0 \/ leaseClock' < l.expires
  BY DEF Lives, LeaseTypes, LeaseInv, Grants
<1> QED BY <1>1, <1>2 DEF LeasesExclude

(* The grant: what it does not conflict with it is compatible with. *)
LEMMA GrantExcludes ==
    ASSUME LeaseInv, NEW a \in LeaseAgent, NEW wish \in Wishes, Acquire(a, wish),
           Blockers(a, wish) = {}, LeaseTypes'
    PROVE  LeasesExclude'
<1> DEFINE new == [id |-> nextLease, agent |-> a, region |-> wish.region, mode |-> wish.mode,
                   expires |-> IF timeout > 0 THEN leaseClock + timeout ELSE 0]
<1>1. leases' = Live(leaseClock) \cup {new} /\ leaseClock' = leaseClock
  BY DEF Acquire
<1>2. ASSUME NEW l \in Live(leaseClock), l.agent # a, Overlaps(l.region, wish.region)
      PROVE  Compatible(l.mode, wish.mode)
  BY <1>2 DEF Blockers
<1>3. ASSUME NEW l \in leases', NEW k \in leases', l.agent # k.agent, Overlaps(l.region, k.region)
      PROVE  Compatible(l.mode, k.mode)
  <2>1. CASE l \in Live(leaseClock) /\ k \in Live(leaseClock)
    BY <2>1, <1>3, LiveAreLeases DEF LeaseInv, LeasesExclude
  <2>2. CASE l \in Live(leaseClock) /\ k = new
    BY <2>2, <1>2, <1>3
  <2>3. CASE l = new /\ k \in Live(leaseClock)
    BY <2>3, <1>2, <1>3, Symmetric
  <2> QED BY <1>1, <1>3, <2>1, <2>2, <2>3
<1>4. ASSUME NEW l \in leases' PROVE l.expires = 0 \/ leaseClock' < l.expires
  <2>1. CASE l \in Live(leaseClock)
    BY <2>1, <1>1, LiveAreLeases DEF Lives, LeaseInv, LeaseTypes, Grants
  <2>2. CASE l = new
    BY <2>2, <1>1 DEF LeaseInv, LeaseTypes
  <2> QED BY <1>1, <1>4, <2>1, <2>2
<1> QED BY <1>3, <1>4 DEF LeasesExclude

(* Every step keeps the invariant. *)
LEMMA LeaseInvStep == LeaseInv /\ [LeaseNext]_leaseVars => LeaseInv'
<1> SUFFICES ASSUME LeaseInv, [LeaseNext]_leaseVars PROVE LeaseInv'
  OBVIOUS
<1>0. LeaseTypes'
  BY LeaseTypesStep DEF LeaseInv
<1>a. \A l \in leases : Lives(l, leaseClock)
  BY DEF LeaseInv, LeasesExclude, LeaseTypes, Lives, Grants
<1>1. ASSUME NEW a \in LeaseAgent, NEW wish \in Wishes, Acquire(a, wish) PROVE LeasesExclude'
  <2>1. CASE Blockers(a, wish) = {}
    BY <2>1, <1>1, <1>0, GrantExcludes
  <2>2. CASE leases' = Live(leaseClock)
    BY <2>2, <1>1, <1>0, LiveAreLeases, DroppingExcludes DEF Acquire
  <2> QED BY <2>1, <2>2, <1>1 DEF Acquire
<1>2. ASSUME NEW l \in leases, Release(l.id) PROVE LeasesExclude'
  BY <1>2, <1>a, <1>0, DroppingExcludes DEF Release
<1>3. ASSUME NEW a \in LeaseAgent, ReleaseAll(a) PROVE LeasesExclude'
  BY <1>3, <1>a, <1>0, DroppingExcludes DEF ReleaseAll
<1>4. ASSUME NEW n \in 1 .. MaxClock, Tick(n) PROVE LeasesExclude'
  BY <1>4, <1>0, LiveAreLeases, DroppingExcludes DEF Tick
<1>5. ASSUME NEW t \in Timeouts, SetTimeout(t) PROVE LeasesExclude'
  BY <1>5, <1>a, <1>0, DroppingExcludes DEF SetTimeout
<1>6. ASSUME UNCHANGED leaseVars PROVE LeasesExclude'
  BY <1>6, <1>a, <1>0, DroppingExcludes DEF leaseVars
<1>7. LeasesExclude'
  BY <1>1, <1>2, <1>3, <1>4, <1>5, <1>6 DEF LeaseNext
<1> QED BY <1>0, <1>7 DEF LeaseInv

(* The invariant in every state. *)
LEMMA LeaseInvAlways == LeaseSpec => []LeaseInv
BY LeaseInitSound, LeaseInvStep, PTL DEF LeaseSpec

(* No two agents ever hold overlapping leases unless both only read, and no  *)
(* lease outlives its time, for any tree of regions and any timeouts.        *)
THEOREM LeasesExcludeAlways == LeaseSpec => []LeasesExclude
<1>1. LeaseInv => LeasesExclude
  BY DEF LeaseInv
<1> QED BY LeaseInvAlways, <1>1, PTL

(* What may become of a lease in one step, as LeasesHonoured says it. *)
Honoured(l) ==
    \/ l \in leases /\ l \in leases'
    \/ l \in leases' /\ l.id = nextLease /\ nextLease' = nextLease + 1
    \/ l \in leases /\ Release(l.id)
    \/ l \in leases /\ ReleaseAll(l.agent)
    \/ l \in leases /\ l.expires \in 1 .. leaseClock'

(* Dropping stale leases honours them: what is not live has expired. *)
LEMMA ExpiryHonoured ==
    ASSUME LeaseTypes, NEW l \in leases, NEW now \in Nat, ~Lives(l, now)
    PROVE  l.expires \in 1 .. now
BY DEF LeaseTypes, Grants, Lives

(* No step ends a lease in another way, or brings one back. *)
LEMMA StepHonours ==
    ASSUME LeaseTypes, LeaseTypes', [LeaseNext]_leaseVars, NEW l \in leases \cup leases'
    PROVE  Honoured(l)
<1>1. ASSUME NEW a \in LeaseAgent, NEW wish \in Wishes, Acquire(a, wish) PROVE Honoured(l)
  <2>1. leaseClock' = leaseClock /\ leaseClock \in Nat
    BY <1>1 DEF Acquire, LeaseTypes
  <2>2. CASE l \in leases /\ ~Lives(l, leaseClock)
    BY <2>1, <2>2, ExpiryHonoured DEF Honoured
  <2>3. CASE l \in leases /\ Lives(l, leaseClock)
    <3>1. l \in leases'
      BY <2>3, <1>1 DEF Acquire, Live
    <3> QED BY <3>1, <2>3 DEF Honoured
  <2>4. CASE l \notin leases
    <3>1. l \in leases' /\ l \notin Live(leaseClock)
      BY <2>4, LiveAreLeases
    <3>2. l.id = nextLease /\ nextLease' = nextLease + 1
      BY <3>1, <1>1 DEF Acquire
    <3> QED BY <3>1, <3>2 DEF Honoured
  <2> QED BY <2>2, <2>3, <2>4
<1>2. ASSUME NEW k \in leases, Release(k.id) PROVE Honoured(l)
  <2>1. leases' = {m \in leases : m.id # k.id}
    BY <1>2 DEF Release
  <2>2. CASE l.id = k.id
    <3>1. l \in leases /\ Release(l.id)
      BY <2>1, <2>2, <1>2
    <3> QED BY <3>1 DEF Honoured
  <2>3. CASE l.id # k.id
    BY <2>1, <2>3 DEF Honoured
  <2> QED BY <2>2, <2>3
<1>3. ASSUME NEW a \in LeaseAgent, ReleaseAll(a) PROVE Honoured(l)
  <2>1. leases' = {m \in leases : m.agent # a}
    BY <1>3 DEF ReleaseAll
  <2>2. CASE l.agent = a
    <3>1. l \in leases /\ ReleaseAll(l.agent)
      BY <2>1, <2>2, <1>3
    <3> QED BY <3>1 DEF Honoured
  <2>3. CASE l.agent # a
    BY <2>1, <2>3 DEF Honoured
  <2> QED BY <2>2, <2>3
<1>4. ASSUME NEW n \in 1 .. MaxClock, Tick(n) PROVE Honoured(l)
  <2>1. leases' = Live(leaseClock') /\ leaseClock' \in Nat
    BY <1>4 DEF Tick, LeaseTypes
  <2>2. l \in leases
    BY <2>1 DEF Live
  <2>3. CASE Lives(l, leaseClock')
    BY <2>1, <2>2, <2>3 DEF Live, Honoured
  <2>4. CASE ~Lives(l, leaseClock')
    BY <2>1, <2>2, <2>4, ExpiryHonoured DEF Honoured
  <2> QED BY <2>3, <2>4
<1>5. ASSUME NEW t \in Timeouts, SetTimeout(t) PROVE Honoured(l)
  BY <1>5 DEF SetTimeout, Honoured
<1>6. ASSUME UNCHANGED leaseVars PROVE Honoured(l)
  BY <1>6 DEF leaseVars, Honoured
<1> QED BY <1>1, <1>2, <1>3, <1>4, <1>5, <1>6 DEF LeaseNext

(* A lease ends by its release, its holder's release_all or its own expiry,  *)
(* and none that ended comes back, for any interleaving of calls.            *)
THEOREM LeasesHonouredAlways == LeaseSpec => LeasesHonoured
<1>1. LeaseInv /\ LeaseInv' /\ [LeaseNext]_leaseVars =>
         [\A l \in leases \cup leases' :
            \/ l \in leases /\ l \in leases'
            \/ l \in leases' /\ l.id = nextLease /\ nextLease' = nextLease + 1
            \/ l \in leases /\ Release(l.id)
            \/ l \in leases /\ ReleaseAll(l.agent)
            \/ l \in leases /\ l.expires \in 1 .. leaseClock']_leaseVars
  BY StepHonours DEF LeaseInv, Honoured
<1> QED BY LeaseInvAlways, <1>1, PTL DEF LeaseSpec, LeasesHonoured

-----------------------------------------------------------------------------
(* The workspace. *)

Updates == [key : Key, version : Nat]

Watchers == [prefix : Prefix, open : BOOLEAN, pending : Int,
             sent : SUBSET Updates, found : SUBSET Updates]

Writing == [step : {"insert", "notify", "meta"}, key : Key, version : Nat, meta : BOOLEAN]

WorkspaceTypes ==
    /\ DOMAIN entries \subseteq Key
    /\ entries \in [DOMAIN entries -> [version : Nat, meta : Nat]]
    /\ version \in Nat
    /\ watchers \in Seq(Watchers)
    /\ doing \in [Thread -> Writing \cup {Idle}]

(* What watcher w was told of, or is about to be by some thread. *)
Told(w) == w.sent \cup
    {[key |-> doing[t].key, version |-> doing[t].version] :
        t \in {u \in Thread : doing[u].step = "notify"}}

(* UpdatesAreSeen of one watcher. *)
InTheKnow(w) ==
    w.open =>
        /\ \A k \in DOMAIN entries : Watches(w.prefix, k) =>
              [key |-> k, version |-> entries[k].version] \in w.found \cup Told(w)
        /\ \A f \in w.found : Watches(w.prefix, f.key) /\ f.key \notin DOMAIN entries =>
              [key |-> f.key, version |-> 0] \in Told(w)

Informed == \A i \in DOMAIN watchers : InTheKnow(watchers[i])

WorkspaceInv == WorkspaceTypes /\ Informed

(* The invariant in the words of the property. *)
LEMMA InformedRestated == Informed <=> UpdatesAreSeen
  BY DEF Informed, InTheKnow, UpdatesAreSeen, Told

(* Entries and channels are empty at first. *)
LEMMA WorkspaceInitSound == WorkspaceInit => WorkspaceInv
  <1> SUFFICES ASSUME WorkspaceInit PROVE WorkspaceInv
    OBVIOUS
  <1>1. DOMAIN entries = {} /\ DOMAIN watchers = {} /\ watchers \in Seq(Watchers)
    BY DEF WorkspaceInit
  <1> QED
    BY <1>1 DEF WorkspaceInit, WorkspaceInv, WorkspaceTypes, Informed

(* The channel: an open watcher whose channel has room hears of the event. *)
LEMMA Sending ==
    ASSUME NEW w \in Watchers, NEW e \in Updates, NEW w2, w2 = TrySend(w, e)
    PROVE  /\ w2 \in Watchers /\ w2.prefix = w.prefix /\ w2.found = w.found
           /\ w.sent \subseteq w2.sent
           /\ w2.open => w.open /\ e \in w2.sent
  <1>0. WatchDepth \in Nat
    BY WorkspaceAssumption
  <1>1. CASE w.pending < WatchDepth
    <2>1. w2 = [w EXCEPT !.sent = w.sent \cup {e}, !.pending = w.pending + 1]
      BY <1>1 DEF TrySend
    <2>2. w.sent \cup {e} \in SUBSET Updates /\ w.pending + 1 \in Int
      BY DEF Watchers
    <2>3. PICK s, p : s = w.sent \cup {e} /\ p = w.pending + 1
      OBVIOUS
    <2>4. w2 = [w EXCEPT !.sent = s, !.pending = p] /\ s \in SUBSET Updates /\ p \in Int
      BY <2>1, <2>2, <2>3
    <2>5. /\ w2 \in Watchers /\ w2.prefix = w.prefix /\ w2.found = w.found
          /\ w2.sent = s /\ w2.open = w.open
      BY <2>4 DEF Watchers
    <2> QED
      BY <2>3, <2>5
  <1>2. CASE ~(w.pending < WatchDepth)
    <2>1. w2 = [w EXCEPT !.open = FALSE]
      BY <1>2 DEF TrySend
    <2> QED
      BY <2>1 DEF Watchers
  <1> QED
    BY <1>1, <1>2

(* A thread is about to tell of version v of key k. *)
Tells(t, k, v) == doing[t].step = "notify" /\ doing[t].key = k /\ doing[t].version = v

(* The event it tells them. *)
News(t) == [key |-> doing[t].key, version |-> doing[t].version]

(* What a watcher is told: sent, or about to be. *)
LEMMA ToldMeans ==
    ASSUME NEW w, NEW k, NEW v
    PROVE  [key |-> k, version |-> v] \in Told(w) <=>
              [key |-> k, version |-> v] \in w.sent \/ \E t \in Thread : Tells(t, k, v)
  <1>1. ASSUME NEW t \in Thread, doing[t].step = "notify",
               [key |-> k, version |-> v] = [key |-> doing[t].key, version |-> doing[t].version]
        PROVE  Tells(t, k, v)
    <2>1. /\ [key |-> k, version |-> v].key = doing[t].key
          /\ [key |-> k, version |-> v].version = doing[t].version
      BY <1>1
    <2> QED
      BY <1>1, <2>1 DEF Tells
  <1>2. ASSUME NEW t \in Thread, Tells(t, k, v)
        PROVE  [key |-> k, version |-> v] = [key |-> doing[t].key, version |-> doing[t].version]
    BY <1>2 DEF Tells
  <1> QED
    BY <1>1, <1>2 DEF Told, Tells

(* Two records of watchers that differ in what is pending alone. *)
SameWatcher(w, w2) ==
    w2.prefix = w.prefix /\ w2.open = w.open /\ w2.sent = w.sent /\ w2.found = w.found

(* A write takes its step: whoever was about to notify still is, and what  *)
(* is new in the store, or no longer there, a thread is about to tell.     *)
LEMMA WritingInforms ==
    ASSUME WorkspaceInv, WorkspaceTypes',
           DOMAIN watchers' = DOMAIN watchers,
           \A i \in DOMAIN watchers : SameWatcher(watchers[i], watchers'[i]),
           \A t \in Thread : doing[t].step = "notify" => doing'[t] = doing[t],
           \A k \in DOMAIN entries' :
              \/ k \in DOMAIN entries /\ entries'[k].version = entries[k].version
              \/ \E t \in Thread : Tells(t, k, entries[k].version)',
           \A k \in DOMAIN entries :
              k \in DOMAIN entries' \/ \E t \in Thread : Tells(t, k, 0)'
    PROVE  Informed'
  <1> SUFFICES ASSUME NEW i \in DOMAIN watchers, NEW w, w = watchers[i],
                      NEW w2, w2 = watchers'[i], w2.open
               PROVE  InTheKnow(w2)'
    BY DEF Informed, InTheKnow
  <1>1. InTheKnow(w) /\ w.open /\ SameWatcher(w, w2)
    BY DEF WorkspaceInv, Informed, SameWatcher
  <1>2. ASSUME NEW k, NEW v, [key |-> k, version |-> v] \in Told(w)
        PROVE  [key |-> k, version |-> v] \in Told(w2)'
    <2>1. CASE [key |-> k, version |-> v] \in w.sent
      BY <2>1, <1>1 DEF SameWatcher, Told
    <2>2. ASSUME NEW t \in Thread, Tells(t, k, v)
          PROVE  Tells(t, k, v)'
      BY <2>2 DEF Tells
    <2>3. \A t \in Thread : Tells(t, k, v)' => [key |-> k, version |-> v] \in Told(w2)'
      BY DEF Told, Tells
    <2> QED
      BY <1>2, <2>1, <2>2, <2>3, ToldMeans
  <1>3. \A k, v : \A t \in Thread : Tells(t, k, v)' => [key |-> k, version |-> v] \in Told(w2)'
    BY DEF Told, Tells
  <1>4. ASSUME NEW k \in DOMAIN entries', Watches(w2.prefix, k)
        PROVE  [key |-> k, version |-> entries'[k].version] \in w2.found \cup Told(w2)'
    <2>1. ASSUME k \in DOMAIN entries, entries'[k].version = entries[k].version
          PROVE  [key |-> k, version |-> entries'[k].version] \in w2.found \cup Told(w2)'
      <3>1. [key |-> k, version |-> entries[k].version] \in w.found \cup Told(w)
        BY <1>1, <1>4, <2>1 DEF InTheKnow, SameWatcher
      <3>2. PICK v : v = entries[k].version
        OBVIOUS
      <3> QED
        BY <3>1, <3>2, <2>1, <1>1, <1>2 DEF SameWatcher
    <2>2. ASSUME NEW t \in Thread, Tells(t, k, entries[k].version)'
          PROVE  [key |-> k, version |-> entries'[k].version] \in Told(w2)'
      <3>1. PICK v : v = entries'[k].version
        OBVIOUS
      <3>2. Tells(t, k, v)'
        BY <2>2, <3>1 DEF Tells
      <3> QED
        BY <3>1, <3>2, <1>3
    <2> QED
      BY <2>1, <2>2
  <1>5. ASSUME NEW f \in w2.found, Watches(w2.prefix, f.key), f.key \notin DOMAIN entries'
        PROVE  [key |-> f.key, version |-> 0] \in Told(w2)'
    <2>1. CASE f.key \in DOMAIN entries
      <3>1. PICK t \in Thread : Tells(t, f.key, 0)'
        BY <1>5, <2>1
      <3> QED
        BY <3>1, <1>3
    <2>2. CASE f.key \notin DOMAIN entries
      <3>1. [key |-> f.key, version |-> 0] \in Told(w)
        BY <2>2, <1>1, <1>5 DEF InTheKnow, SameWatcher
      <3> QED
        BY <3>1, <1>2
    <2> QED
      BY <2>1, <2>2
  <1> QED
    BY <1>4, <1>5 DEF InTheKnow
(* Notify: who was to be told by thread t has been, or was struck off. *)
LEMMA NotifyInforms ==
    ASSUME WorkspaceInv, NEW t \in Thread, Notify(t)
    PROVE  Informed'
  <1> DEFINE e == News(t)
  <1>1. /\ watchers \in Seq(Watchers) /\ doing \in [Thread -> Writing \cup {Idle}]
        /\ entries' = entries
    BY DEF WorkspaceInv, WorkspaceTypes, Notify
  <1>2. doing[t] \in Writing /\ doing[t].step = "notify"
    BY <1>1 DEF Notify, Idle
  <1>3. e \in Updates /\ e.key = doing[t].key
    BY <1>2 DEF News, Writing, Updates
  <1>4. doing'[t].step # "notify" /\ \A u \in Thread : u # t => doing'[u] = doing[u]
    <2>1. CASE doing[t].meta
      <3>1. doing'[t] = [doing[t] EXCEPT !.step = "meta"]
        BY <2>1, <1>1 DEF Notify
      <3>2. doing'[t].step = "meta"
        BY <3>1, <1>2 DEF Writing
      <3> QED
        BY <3>2, <1>1 DEF Notify
    <2>2. CASE ~doing[t].meta
      BY <2>2, <1>1 DEF Notify, Idle
    <2> QED
      BY <2>1, <2>2
  <1>5. /\ DOMAIN watchers' = DOMAIN watchers
        /\ \A i \in DOMAIN watchers : watchers'[i] =
              IF watchers[i].open /\ Watches(watchers[i].prefix, doing[t].key)
              THEN TrySend(watchers[i], e) ELSE watchers[i]
    BY DEF Notify, News
  <1> SUFFICES ASSUME NEW i \in DOMAIN watchers, NEW w, w = watchers[i],
                      NEW w2, w2 = watchers'[i], w2.open
               PROVE  InTheKnow(w2)'
    BY <1>5 DEF Informed, InTheKnow
  <1>6. w \in Watchers
    BY <1>1
  <1> HIDE DEF e
  <1>7. /\ w.open /\ w2.prefix = w.prefix /\ w2.found = w.found /\ w.sent \subseteq w2.sent
        /\ Watches(w.prefix, doing[t].key) => e \in w2.sent
    <2>1. CASE Watches(w.prefix, doing[t].key) /\ w.open
      <3>1. w2 = TrySend(w, e)
        BY <2>1, <1>5
      <3> QED
        BY <3>1, <1>3, <1>6, Sending
    <2>2. CASE ~(Watches(w.prefix, doing[t].key) /\ w.open)
      BY <2>2, <1>5
    <2> QED
      BY <2>1, <2>2
  <1>8. InTheKnow(w)
    BY DEF WorkspaceInv, Informed
  <1>9. ASSUME NEW k, NEW v, Watches(w.prefix, k), [key |-> k, version |-> v] \in Told(w)
        PROVE  [key |-> k, version |-> v] \in Told(w2)'
    <2>1. CASE [key |-> k, version |-> v] \in w.sent
      BY <2>1, <1>7 DEF Told
    <2>2. ASSUME NEW u \in Thread, u # t, Tells(u, k, v)
          PROVE  [key |-> k, version |-> v] \in Told(w2)'
      BY <2>2, <1>4 DEF Told, Tells
    <2>3. ASSUME Tells(t, k, v)
          PROVE  [key |-> k, version |-> v] \in Told(w2)'
      <3>1. e = [key |-> k, version |-> v] /\ Watches(w.prefix, doing[t].key)
        BY <2>3, <1>9 DEF Tells, e, News
      <3> QED
        BY <3>1, <1>7 DEF Told
    <2> QED
      BY <1>9, <2>1, <2>2, <2>3, ToldMeans
  <1>10. ASSUME NEW k \in DOMAIN entries, Watches(w.prefix, k)
         PROVE  [key |-> k, version |-> entries[k].version] \in w2.found \cup Told(w2)'
    <2>1. PICK v : v = entries[k].version
      OBVIOUS
    <2>2. [key |-> k, version |-> v] \in w.found \cup Told(w)
      BY <2>1, <1>7, <1>8, <1>10 DEF InTheKnow
    <2> QED
      BY <2>1, <2>2, <1>7, <1>9, <1>10
  <1>11. ASSUME NEW f \in w.found, Watches(w.prefix, f.key), f.key \notin DOMAIN entries
         PROVE  [key |-> f.key, version |-> 0] \in Told(w2)'
    BY <1>7, <1>8, <1>9, <1>11 DEF InTheKnow
  <1> QED
    BY <1>1, <1>7, <1>10, <1>11 DEF InTheKnow

(* A new watcher found everything there is. *)
LEMMA WatchInforms ==
    ASSUME WorkspaceInv, NEW prefix \in Prefix, Watch(prefix)
    PROVE  Informed' /\ watchers' \in Seq(Watchers)
  <1> DEFINE found == {[key |-> k, version |-> entries[k].version] : k \in DOMAIN entries}
             new == [prefix |-> prefix, open |-> TRUE, pending |-> 0, sent |-> {}, found |-> found]
  <1>1. /\ watchers \in Seq(Watchers) /\ watchers' = Append(watchers, new)
        /\ entries' = entries /\ doing' = doing
    BY DEF WorkspaceInv, WorkspaceTypes, Watch
  <1>2. found \in SUBSET Updates
    BY DEF WorkspaceInv, WorkspaceTypes, Updates
  <1>3. PICK n : n = new
    OBVIOUS
  <1>4. /\ n \in Watchers /\ n.found = found /\ n.prefix = prefix
        /\ watchers' = Append(watchers, n)
    BY <1>1, <1>2, <1>3 DEF Watchers
  <1>i. InTheKnow(n)'
    BY <1>1, <1>4 DEF InTheKnow
  <1> HIDE DEF new
  <1>5. /\ DOMAIN watchers' = 1 .. Len(watchers) + 1 /\ DOMAIN watchers = 1 .. Len(watchers)
        /\ Len(watchers) \in Nat /\ watchers'[Len(watchers) + 1] = n
        /\ \A i \in 1 .. Len(watchers) : watchers'[i] = watchers[i]
    BY <1>1, <1>4
  <1>6. \A w : InTheKnow(w) => InTheKnow(w)'
    BY <1>1 DEF InTheKnow, Told
  <1>7. ASSUME NEW i \in DOMAIN watchers' PROVE InTheKnow(watchers[i])'
    <2>1. CASE i \in DOMAIN watchers
      <3>1. PICK w : w = watchers[i] /\ InTheKnow(w)
        BY <2>1 DEF WorkspaceInv, Informed
      <3>2. InTheKnow(w)' /\ w = watchers'[i]
        BY <3>1, <2>1, <1>5, <1>6
      <3> QED
        BY <3>2 DEF InTheKnow, Told
    <2>2. CASE i = Len(watchers) + 1
      BY <2>2, <1>i, <1>5 DEF InTheKnow, Told
    <2> QED
      BY <2>1, <2>2, <1>5
  <1> QED
    BY <1>1, <1>4, <1>7 DEF Informed
(* The types, step by step. *)
LEMMA WorkspaceTypesStep ==
    ASSUME WorkspaceInv, [WorkspaceNext]_workspaceVars
    PROVE  WorkspaceTypes'
  <1>0. /\ DOMAIN entries \subseteq Key
        /\ entries \in [DOMAIN entries -> [version : Nat, meta : Nat]]
        /\ version \in Nat /\ watchers \in Seq(Watchers)
        /\ doing \in [Thread -> Writing \cup {Idle}]
    BY DEF WorkspaceInv, WorkspaceTypes
  <1>1. ASSUME NEW t \in Thread, NEW d \in Writing \cup {Idle},
               doing' = [doing EXCEPT ![t] = d]
        PROVE  doing' \in [Thread -> Writing \cup {Idle}]
    BY <1>0, <1>1
  <1>2. ASSUME NEW t \in Thread, NEW k \in Key, NEW meta \in BOOLEAN, BeginPut(t, k, meta)
        PROVE  WorkspaceTypes'
    <2>1. [step |-> "insert", key |-> k, version |-> version + 1, meta |-> meta] \in Writing
      BY <1>0 DEF Writing
    <2> QED
      BY <2>1, <1>0, <1>1, <1>2 DEF BeginPut, WorkspaceTypes
  <1>3. ASSUME NEW t \in Thread, Insert(t) PROVE WorkspaceTypes'
    <2>1. doing[t] \in Writing
      BY <1>0, <1>3 DEF Insert, Idle
    <2>2. [doing[t] EXCEPT !.step = "notify"] \in Writing
      BY <2>1 DEF Writing
    <2>3. doing' = [doing EXCEPT ![t] = [doing[t] EXCEPT !.step = "notify"]]
      BY <1>0, <1>3 DEF Insert
    <2> DEFINE k == doing[t].key
               new == [version |-> doing[t].version,
                       meta |-> IF k \in DOMAIN entries THEN entries[k].meta ELSE 0]
    <2>4. k \in Key /\ new \in [version : Nat, meta : Nat]
      BY <2>1, <1>0 DEF Writing
    <2>5. entries' = [j \in DOMAIN entries \cup {k} |-> IF j = k THEN new ELSE entries[j]]
      BY <1>3 DEF Insert
    <2> HIDE DEF new, k
    <2>6. /\ DOMAIN entries' \subseteq Key
          /\ entries' \in [DOMAIN entries' -> [version : Nat, meta : Nat]]
      BY <2>4, <2>5, <1>0
    <2> QED
      BY <2>2, <2>3, <2>6, <1>0, <1>1, <1>3 DEF Insert, WorkspaceTypes
  <1>4. ASSUME NEW t \in Thread, Notify(t) PROVE WorkspaceTypes'
    <2>1. doing[t] \in Writing
      BY <1>0, <1>4 DEF Notify, Idle
    <2> DEFINE d == IF doing[t].meta THEN [doing[t] EXCEPT !.step = "meta"] ELSE Idle
               e == News(t)
    <2>2. d \in Writing \cup {Idle}
      BY <2>1 DEF Writing
    <2>3. e \in Updates
      BY <2>1 DEF News, Writing, Updates
    <2>4. doing' = [doing EXCEPT ![t] = d]
      BY <1>4 DEF Notify
    <2>5. watchers' = [i \in DOMAIN watchers |->
              IF watchers[i].open /\ Watches(watchers[i].prefix, doing[t].key)
              THEN TrySend(watchers[i], e) ELSE watchers[i]]
      BY <1>4 DEF Notify, News
    <2> HIDE DEF d, e
    <2>6. \A i \in DOMAIN watchers : watchers[i] \in Watchers /\ TrySend(watchers[i], e) \in Watchers
      BY <2>3, <1>0, Sending
    <2>7. watchers' \in Seq(Watchers)
      <3>1. DOMAIN watchers = 1 .. Len(watchers) /\ Len(watchers) \in Nat
        BY <1>0
      <3>2. watchers' \in [1 .. Len(watchers) -> Watchers]
        BY <2>5, <2>6, <3>1
      <3> QED
        BY <3>1, <3>2
    <2> QED
      BY <2>2, <2>4, <2>7, <1>0, <1>1, <1>4 DEF Notify, WorkspaceTypes
  <1>5. ASSUME NEW t \in Thread, SetMetadata(t) PROVE WorkspaceTypes'
    <2>1. doing[t] \in Writing /\ doing[t].version \in Nat
      BY <1>0, <1>5 DEF SetMetadata, Idle, Writing
    <2>2. /\ DOMAIN entries' = DOMAIN entries
          /\ entries' \in [DOMAIN entries' -> [version : Nat, meta : Nat]]
      <3>1. \A k \in DOMAIN entries :
               [entries[k] EXCEPT !.meta = doing[t].version] \in [version : Nat, meta : Nat]
        BY <2>1, <1>0
      <3> QED
        BY <3>1, <1>0, <1>5 DEF SetMetadata
    <2> QED
      BY <2>2, <1>0, <1>1, <1>5 DEF SetMetadata, WorkspaceTypes
  <1>6. ASSUME NEW t \in Thread, NEW k \in Key, Delete(t, k) PROVE WorkspaceTypes'
    <2>1. [step |-> "notify", key |-> k, version |-> 0, meta |-> FALSE] \in Writing
      BY DEF Writing
    <2>2. /\ DOMAIN entries' \subseteq Key
          /\ entries' \in [DOMAIN entries' -> [version : Nat, meta : Nat]]
      BY <1>0, <1>6 DEF Delete
    <2> QED
      BY <2>1, <2>2, <1>0, <1>1, <1>6 DEF Delete, WorkspaceTypes
  <1>7. ASSUME NEW prefix \in Prefix, Watch(prefix) PROVE WorkspaceTypes'
    BY <1>0, <1>7, WatchInforms DEF Watch, WorkspaceTypes
  <1>8. ASSUME NEW i \in DOMAIN watchers, Receive(i) PROVE WorkspaceTypes'
    <2>1. watchers[i] \in Watchers
      BY <1>0
    <2>2. [watchers[i] EXCEPT !.pending = watchers[i].pending - 1] \in Watchers
      BY <2>1 DEF Watchers
    <2>3. watchers' \in Seq(Watchers)
      BY <2>2, <1>0, <1>8 DEF Receive
    <2> QED
      BY <2>3, <1>0, <1>8 DEF Receive, WorkspaceTypes
  <1>9. CASE UNCHANGED workspaceVars
    BY <1>0, <1>9 DEF workspaceVars, WorkspaceTypes
  <1> QED
    BY <1>2, <1>3, <1>4, <1>5, <1>6, <1>7, <1>8, <1>9 DEF WorkspaceNext

(* Every step keeps the watchers in the know. *)
LEMMA WorkspaceInvStep ==
    ASSUME WorkspaceInv, [WorkspaceNext]_workspaceVars
    PROVE  WorkspaceInv'
  <1>0. /\ DOMAIN entries \subseteq Key
        /\ entries \in [DOMAIN entries -> [version : Nat, meta : Nat]]
        /\ watchers \in Seq(Watchers)
        /\ doing \in [Thread -> Writing \cup {Idle}]
    BY DEF WorkspaceInv, WorkspaceTypes
  <1>t. WorkspaceTypes'
    BY WorkspaceTypesStep
  <1>1. Idle.step # "notify"
    BY DEF Idle
  <1>2. ASSUME NEW t \in Thread, NEW k \in Key, NEW meta \in BOOLEAN, BeginPut(t, k, meta)
        PROVE  Informed'
    BY <1>0, <1>1, <1>t, <1>2, WritingInforms DEF BeginPut, SameWatcher
  <1>3. ASSUME NEW t \in Thread, Insert(t) PROVE Informed'
    <2>1. doing[t] \in Writing
      BY <1>0, <1>3 DEF Insert, Idle
    <2>2. /\ doing'[t] = [doing[t] EXCEPT !.step = "notify"]
          /\ \A u \in Thread : u # t => doing'[u] = doing[u]
          /\ watchers' = watchers
      BY <1>0, <1>3 DEF Insert
    <2>3. /\ doing'[t].step = "notify" /\ doing'[t].key = doing[t].key
          /\ doing'[t].version = doing[t].version
      BY <2>1, <2>2 DEF Writing
    <2>4. /\ DOMAIN entries' = DOMAIN entries \cup {doing[t].key}
          /\ entries'[doing[t].key].version = doing[t].version
          /\ \A k \in DOMAIN entries : k # doing[t].key => entries'[k] = entries[k]
      BY <1>3 DEF Insert
    <2>5. Tells(t, doing[t].key, entries[doing[t].key].version)'
      BY <2>3, <2>4 DEF Tells
    <2>6. \A k \in DOMAIN entries' :
              \/ k \in DOMAIN entries /\ entries'[k].version = entries[k].version
              \/ \E u \in Thread : Tells(u, k, entries[k].version)'
      BY <2>3, <2>4, <2>5 DEF Tells
    <2>7. \A u \in Thread : doing[u].step = "notify" => doing'[u] = doing[u]
      BY <2>2, <1>3 DEF Insert
    <2>8. \A i \in DOMAIN watchers : SameWatcher(watchers[i], watchers'[i])
      BY <2>2 DEF SameWatcher
    <2> QED
      BY <2>2, <2>4, <2>6, <2>7, <2>8, <1>t, WritingInforms
  <1>4. ASSUME NEW t \in Thread, Notify(t) PROVE Informed'
    BY <1>4, NotifyInforms
  <1>5. ASSUME NEW t \in Thread, SetMetadata(t) PROVE Informed'
    <2>1. \A k \in DOMAIN entries : k \in DOMAIN entries' /\ entries'[k].version = entries[k].version
      BY <1>0, <1>5 DEF SetMetadata
    <2>2. DOMAIN entries' = DOMAIN entries /\ watchers' = watchers
      BY <1>5 DEF SetMetadata
    <2>3. \A u \in Thread : doing[u].step = "notify" => doing'[u] = doing[u]
      BY <1>0, <1>5 DEF SetMetadata
    <2>4. \A i \in DOMAIN watchers : SameWatcher(watchers[i], watchers'[i])
      BY <2>2 DEF SameWatcher
    <2> QED
      BY <2>1, <2>2, <2>3, <2>4, <1>t, WritingInforms
  <1>6. ASSUME NEW t \in Thread, NEW k \in Key, Delete(t, k) PROVE Informed'
    <2>1. /\ DOMAIN entries' = DOMAIN entries \ {k} /\ watchers' = watchers
          /\ \A j \in DOMAIN entries' : entries'[j] = entries[j]
          /\ doing' = [doing EXCEPT ![t] =
                [step |-> "notify", key |-> k, version |-> 0, meta |-> FALSE]]
          /\ doing[t] = Idle
      BY <1>6 DEF Delete
    <2>2. Tells(t, k, 0)'
      BY <2>1, <1>0 DEF Tells
    <2>3. \A j \in DOMAIN entries : j \in DOMAIN entries' \/ \E u \in Thread : Tells(u, j, 0)'
      BY <2>1, <2>2 DEF Tells
    <2>4. \A u \in Thread : doing[u].step = "notify" => doing'[u] = doing[u]
      BY <2>1, <1>0, <1>1
    <2>5. \A i \in DOMAIN watchers : SameWatcher(watchers[i], watchers'[i])
      BY <2>1 DEF SameWatcher
    <2>6. \A j \in DOMAIN entries' :
              j \in DOMAIN entries /\ entries'[j].version = entries[j].version
      BY <2>1
    <2> QED
      BY <2>1, <2>3, <2>4, <2>5, <2>6, <1>t, WritingInforms
  <1>7. ASSUME NEW prefix \in Prefix, Watch(prefix) PROVE Informed'
    BY <1>7, WatchInforms
  <1>8. ASSUME NEW i \in DOMAIN watchers, Receive(i) PROVE Informed'
    <2>1. \A j \in DOMAIN watchers : SameWatcher(watchers[j], watchers'[j])
      <3>1. \A j \in DOMAIN watchers : watchers[j] \in Watchers
        BY <1>0
      <3>2. SameWatcher(watchers[i], [watchers[i] EXCEPT !.pending = @ - 1])
        BY <3>1 DEF SameWatcher, Watchers
      <3>3. /\ watchers'[i] = [watchers[i] EXCEPT !.pending = @ - 1]
            /\ \A j \in DOMAIN watchers : j # i => watchers'[j] = watchers[j]
        BY <1>8 DEF Receive
      <3> QED
        BY <3>2, <3>3 DEF SameWatcher
    <2>2. DOMAIN watchers' = DOMAIN watchers /\ entries' = entries /\ doing' = doing
      BY <1>8 DEF Receive
    <2> QED
      BY <2>1, <2>2, <1>t, WritingInforms
  <1>9. ASSUME UNCHANGED workspaceVars PROVE Informed'
    <2>1. \A i \in DOMAIN watchers : SameWatcher(watchers[i], watchers'[i])
      BY <1>9 DEF SameWatcher, workspaceVars
    <2> QED
      BY <2>1, <1>9, <1>t, WritingInforms DEF workspaceVars
  <1>10. Informed'
    BY <1>2, <1>3, <1>4, <1>5, <1>6, <1>7, <1>8, <1>9 DEF WorkspaceNext
  <1> QED
    BY <1>t, <1>10 DEF WorkspaceInv

(* However many threads write, delete and watch between each other's locks, *)
(* a watcher that was not struck off found what is there, was told of it or *)
(* is about to be.                                                          *)
THEOREM UpdatesAreSeenAlways == WorkspaceSpec => []UpdatesAreSeen
  <1>1. WorkspaceInv => UpdatesAreSeen
    BY InformedRestated DEF WorkspaceInv
  <1>2. WorkspaceInv /\ [WorkspaceNext]_workspaceVars => WorkspaceInv'
    BY WorkspaceInvStep
  <1> QED
    BY WorkspaceInitSound, <1>1, <1>2, PTL DEF WorkspaceSpec
-----------------------------------------------------------------------------
(* The merge engine. *)

StampedOps == [author : Author, time : Int, target : Target]

(* w has for each target in H the newest of H's operations on it. *)
Settled(w, H) ==
    /\ w = [k \in DOMAIN w |-> w[k]]
    /\ DOMAIN w = {o.target : o \in H}
    /\ \A k \in DOMAIN w : w[k] \in H /\ w[k].target = k
    /\ \A o \in H : ~Newer(o, w[o.target])

(* No two operations of one author have one time. *)
Stamped == \A o, p \in issued : o.author = p.author /\ o.time = p.time => o = p

CrdtInv ==
    /\ issued \subseteq StampedOps /\ IsFiniteSet(issued)
    /\ Stamped
    /\ history \in [Replica -> SUBSET issued]
    /\ DOMAIN resolved = Replica
    /\ resolved = [r \in Replica |-> resolved[r]]
    /\ \A r \in Replica : Settled(resolved[r], history[r])

(* The clocks' order. *)
LEMMA NewerOrders ==
    ASSUME NEW o \in StampedOps, NEW p \in StampedOps, NEW q \in StampedOps
    PROVE  /\ ~Newer(o, o)
           /\ Newer(o, p) /\ ~Newer(q, p) => ~Newer(q, o)
           /\ ~Newer(o, p) /\ ~Newer(p, o) =>
                o.time = p.time /\ AgentHash[o.author] = AgentHash[p.author]
  <1>1. /\ o.time \in Int /\ p.time \in Int /\ q.time \in Int
        /\ AgentHash[o.author] \in Int /\ AgentHash[p.author] \in Int
        /\ AgentHash[q.author] \in Int
    BY CrdtAssumption DEF StampedOps
  <1> QED
    BY <1>1 DEF Newer

(* apply keeps the winners settled. *)
LEMMA MergeSettles ==
    ASSUME NEW H \in SUBSET StampedOps, NEW o \in StampedOps, NEW w, Settled(w, H),
           NEW v, v = Merge(w, o)
    PROVE  Settled(v, H \cup {o})
  <1> DEFINE k == o.target
  <1>0. {p.target : p \in H \cup {o}} = DOMAIN w \cup {k}
    BY DEF Settled
  <1>1. CASE k \in DOMAIN w /\ ~Newer(o, w[k])
    <2>1. v = w
      BY <1>1 DEF Merge
    <2>2. \A p \in H \cup {o} : ~Newer(p, w[p.target])
      BY <1>1 DEF Settled
    <2> QED
      BY <2>1, <2>2, <1>0, <1>1 DEF Settled
  <1>2. CASE ~(k \in DOMAIN w /\ ~Newer(o, w[k]))
    <2>1. v = [j \in DOMAIN w \cup {k} |-> IF j = k THEN o ELSE w[j]]
      BY <1>2 DEF Merge
    <2>2. /\ DOMAIN v = DOMAIN w \cup {k} /\ v = [j \in DOMAIN v |-> v[j]] /\ v[k] = o
          /\ \A j \in DOMAIN w : j # k => v[j] = w[j]
      BY <2>1
    <2>3. \A j \in DOMAIN v : v[j] \in H \cup {o} /\ v[j].target = j
      BY <2>2 DEF Settled
    <2>4. ASSUME NEW p \in H \cup {o} PROVE ~Newer(p, v[p.target])
      <3>1. CASE p.target # k
        <4>1. p \in H /\ p.target \in DOMAIN w
          BY <3>1 DEF Settled
        <4> QED
          BY <3>1, <4>1, <2>2 DEF Settled
      <3>2. CASE p = o
        BY <3>2, <2>2, NewerOrders
      <3>3. CASE p \in H /\ p.target = k
        <4>1. k \in DOMAIN w /\ w[k] \in H /\ ~Newer(p, w[k])
          BY <3>3 DEF Settled
        <4>2. Newer(o, w[k]) /\ w[k] \in StampedOps /\ p \in StampedOps
          BY <4>1, <1>2, <3>3
        <4>3. ~Newer(p, o)
          BY <4>1, <4>2, NewerOrders
        <4> QED
          BY <4>3, <3>3, <2>2
      <3> QED
        BY <3>1, <3>2, <3>3
    <2> QED
      BY <2>2, <2>3, <2>4, <1>0 DEF Settled
  <1> QED
    BY <1>1, <1>2

(* The winners after each operation of a batch exist; MergeAll returns the *)
(* last of them.                                                           *)
LEMMA BatchRuns ==
    ASSUME NEW w, NEW S, NEW s \in Seq(S)
    PROVE  \E m : /\ m[0] = w /\ MergeAll(w, s) = m[Len(s)]
                  /\ \A n \in 1 .. Len(s) : m[n] = Merge(m[n - 1], s[n])
  <1> DEFINE Runs(m, k) ==
        m = [n \in 0 .. k |-> IF n = 0 THEN w ELSE Merge(m[n - 1], s[n])]
  <1>1. \A k \in Nat : \E m : Runs(m, k)
    <2> SUFFICES ASSUME NEW j \in Nat, ~\E m : Runs(m, j) PROVE FALSE
      OBVIOUS
    <2> DEFINE Bad == {k \in Nat : ~\E m : Runs(m, k)}
    <2>1. PICK k \in Bad : \A i \in Bad : k <= i
      <3>1. Bad \in SUBSET Nat /\ Bad # {}
        OBVIOUS
      <3> HIDE DEF Bad
      <3> QED
        BY <3>1, LeastOf
    <2>2. CASE k = 0
      <3> DEFINE m == [n \in 0 .. 0 |-> w]
      <3>1. m = [n \in 0 .. 0 |-> IF n = 0 THEN w ELSE Merge(m[n - 1], s[n])]
        OBVIOUS
      <3> QED
        BY <3>1, <2>2
    <2>3. CASE k > 0
      <3>1. k - 1 \in Nat /\ k \in Nat
        BY <2>3
      <3> HIDE DEF Runs
      <3>2. \E m : Runs(m, k - 1)
        <4>1. k - 1 \notin Bad
          BY <2>1, <3>1
        <4> QED
          BY <4>1, <3>1
      <3>3. PICK m : Runs(m, k - 1)
        BY <3>2
      <3> DEFINE last == Merge(m[k - 1], s[k])
                 l == [n \in 0 .. k |-> IF n = k THEN last ELSE m[n]]
      <3>4. \A n \in 0 .. k - 1 : m[n] = IF n = 0 THEN w ELSE Merge(m[n - 1], s[n])
        BY <3>3 DEF Runs
      <3>5. \A n \in 0 .. k - 1 : l[n] = m[n]
        BY <3>1
      <3>6. l[k] = Merge(l[k - 1], s[k])
        <4>1. l[k] = last /\ l[k - 1] = m[k - 1]
          BY <3>1, <3>5
        <4> QED
          BY <4>1
      <3>7. \A n \in 0 .. k : l[n] = IF n = 0 THEN w ELSE Merge(l[n - 1], s[n])
        <4>1. ASSUME NEW n \in 0 .. k - 1
              PROVE  l[n] = IF n = 0 THEN w ELSE Merge(l[n - 1], s[n])
          <5>1. CASE n = 0
            BY <5>1, <3>4, <3>5
          <5>2. CASE n # 0
            <6>1. n - 1 \in 0 .. k - 1
              BY <5>2, <3>1
            <6>2. l[n - 1] = m[n - 1] /\ l[n] = m[n]
              BY <6>1, <3>5
            <6> QED
              BY <6>2, <5>2, <3>4
          <5> QED
            BY <5>1, <5>2
        <4> HIDE DEF l
        <4>2. ASSUME NEW n \in 0 .. k, n = k
              PROVE  l[n] = IF n = 0 THEN w ELSE Merge(l[n - 1], s[n])
          BY <4>2, <3>6, <2>3
        <4>3. \A n \in 0 .. k : n \in 0 .. k - 1 \/ n = k
          BY <3>1
        <4> QED
          BY <4>1, <4>2, <4>3
      <3>8. PICK q : q = l
        OBVIOUS
      <3>9. q = [n \in 0 .. k |-> q[n]]
        BY <3>8
      <3> HIDE DEF l
      <3>10. q = [n \in 0 .. k |-> IF n = 0 THEN w ELSE Merge(q[n - 1], s[n])]
        BY <3>7, <3>8, <3>9
      <3> QED
        BY <3>10, <2>1 DEF Runs
    <2> QED
      BY <2>1, <2>2, <2>3
  <1>2. Len(s) \in Nat
    OBVIOUS
  <1> DEFINE m == CHOOSE m : Runs(m, Len(s))
  <1>3. MergeAll(w, s) = m[Len(s)]
    BY DEF MergeAll
  <1>4. Runs(m, Len(s))
    BY <1>1, <1>2
  <1> HIDE DEF m
  <1>5. \A n \in 0 .. Len(s) : m[n] = IF n = 0 THEN w ELSE Merge(m[n - 1], s[n])
    BY <1>4
  <1> QED
    BY <1>2, <1>3, <1>5
(* So a batch keeps the winners settled, in whatever order it comes. *)
LEMMA BatchSettles ==
    ASSUME NEW H \in SUBSET StampedOps, NEW s \in Seq(StampedOps), NEW w, Settled(w, H)
    PROVE  Settled(MergeAll(w, s), H \cup ToSet(s))
  <1>1. PICK m : /\ m[0] = w /\ MergeAll(w, s) = m[Len(s)]
                 /\ \A n \in 1 .. Len(s) : m[n] = Merge(m[n - 1], s[n])
    BY BatchRuns
  <1> DEFINE First(n) == H \cup {s[i] : i \in 1 .. n}
             Bad == {n \in 0 .. Len(s) : ~Settled(m[n], First(n))}
  <1>2. Len(s) \in Nat /\ \A i \in 1 .. Len(s) : s[i] \in StampedOps
    OBVIOUS
  <1>3. Bad = {}
    <2> SUFFICES ASSUME Bad # {} PROVE FALSE
      OBVIOUS
    <2>1. PICK n \in Bad : \A i \in Bad : n <= i
      <3>1. Bad \in SUBSET Nat
        BY <1>2
      <3> HIDE DEF Bad
      <3> QED
        BY <3>1, LeastOf
    <2>2. n \in 0 .. Len(s) /\ ~Settled(m[n], First(n))
      OBVIOUS
    <2>3. n # 0
      <3>1. First(0) = H
        OBVIOUS
      <3> HIDE DEF First
      <3> QED
        BY <3>1, <2>2, <1>1
    <2>4. n - 1 \in 0 .. Len(s) /\ n \in 1 .. Len(s) /\ n - 1 \notin Bad
      <3>1. n - 1 \in 0 .. Len(s) /\ n \in 1 .. Len(s) /\ ~(n <= n - 1)
        BY <2>2, <2>3, <1>2
      <3> HIDE DEF Bad
      <3> QED
        BY <3>1, <2>1
    <2>5. Settled(m[n - 1], First(n - 1)) /\ m[n] = Merge(m[n - 1], s[n])
      BY <2>4, <1>1
    <2>6. First(n) = First(n - 1) \cup {s[n]} /\ First(n - 1) \in SUBSET StampedOps
      <3>1. 1 .. n = (1 .. (n - 1)) \cup {n}
        BY <2>4, <1>2
      <3>2. \A i \in 1 .. (n - 1) : s[i] \in StampedOps
        BY <2>4, <1>2
      <3> QED
        BY <3>1, <3>2
    <2> HIDE DEF First, Bad
    <2>7. PICK G, u, v : G = First(n - 1) /\ u = m[n - 1] /\ v = m[n]
      OBVIOUS
    <2>8. Settled(v, G \cup {s[n]})
      BY <2>4, <2>5, <2>6, <2>7, <1>2, MergeSettles
    <2> QED
      BY <2>2, <2>6, <2>7, <2>8
  <1>5. First(Len(s)) = H \cup ToSet(s)
    BY <1>2 DEF ToSet
  <1> HIDE DEF First
  <1>4. Settled(m[Len(s)], First(Len(s)))
    <2>1. Len(s) \in 0 .. Len(s)
      BY <1>2
    <2> QED
      BY <2>1, <1>3
  <1> QED
    BY <1>1, <1>4, <1>5

(* Nothing is applied at first. *)
LEMMA CrdtInitSound == CrdtInit => CrdtInv
  <1> SUFFICES ASSUME CrdtInit PROVE CrdtInv
    OBVIOUS
  <1>1. DOMAIN <<>> = {} /\ <<>> = [k \in DOMAIN <<>> |-> <<>>[k]]
    OBVIOUS
  <1>2. Settled(<<>>, {})
    BY <1>1 DEF Settled
  <1> QED
    BY <1>2, FS_EmptySet DEF CrdtInit, CrdtInv, Stamped

(* One replica has met more operations, and its winners are settled. *)
LEMMA MergingKeeps ==
    ASSUME CrdtInv, NEW r \in Replica, NEW G \in SUBSET issued, NEW v,
           history' = [history EXCEPT ![r] = history[r] \cup G],
           resolved' = [resolved EXCEPT ![r] = v], issued' = issued,
           Settled(v, history[r] \cup G)
    PROVE  CrdtInv'
  <1>1. history' \in [Replica -> SUBSET issued]
    BY DEF CrdtInv
  <1>2. /\ DOMAIN resolved' = Replica
        /\ resolved' = [q \in Replica |-> resolved'[q]]
        /\ resolved'[r] = v /\ \A q \in Replica : q # r => resolved'[q] = resolved[q]
    BY DEF CrdtInv
  <1>3. history'[r] = history[r] \cup G /\ \A q \in Replica : q # r => history'[q] = history[q]
    BY DEF CrdtInv
  <1>4. \A q \in Replica : Settled(resolved'[q], history'[q])
    BY <1>2, <1>3 DEF CrdtInv
  <1> QED
    BY <1>1, <1>2, <1>4 DEF CrdtInv, Stamped

(* Every call keeps the winners settled. *)
LEMMA CrdtInvStep == CrdtInv /\ [CrdtNext]_crdtVars => CrdtInv'
  <1> SUFFICES ASSUME CrdtInv, [CrdtNext]_crdtVars PROVE CrdtInv'
    OBVIOUS
  <1>1. ASSUME NEW a \in Author, NEW time \in 1 .. MaxTime, NEW k \in Target, Issue(a, time, k)
        PROVE  CrdtInv'
    <2>1. PICK n : n = [author |-> a, time |-> time, target |-> k]
      OBVIOUS
    <2>2. /\ n \in StampedOps /\ n.author = a /\ n.time = time
          /\ issued' = issued \cup {n}
          /\ \A o \in issued : o.author = a => o.time < time
          /\ history' = history /\ resolved' = resolved
      BY <2>1, <1>1 DEF Issue, StampedOps
    <2>3. \A o \in issued : o.time \in Int
      BY DEF CrdtInv, StampedOps
    <2>4. Stamped'
      BY <2>2, <2>3 DEF CrdtInv, Stamped
    <2>5. IsFiniteSet(issued')
      BY <2>2, FS_AddElement DEF CrdtInv
    <2> QED
      BY <2>2, <2>4, <2>5 DEF CrdtInv
  <1>2. ASSUME NEW r \in Replica, NEW o \in issued, Apply(r, o)
        PROVE  CrdtInv'
    <2>1. PICK w, v, H : w = resolved[r] /\ v = Merge(w, o) /\ H = history[r]
      OBVIOUS
    <2>2. H \in SUBSET StampedOps /\ o \in StampedOps /\ Settled(w, H)
      BY <2>1 DEF CrdtInv
    <2>3. Settled(v, H \cup {o})
      BY <2>1, <2>2, MergeSettles
    <2>4. /\ history' = [history EXCEPT ![r] = history[r] \cup {o}]
          /\ resolved' = [resolved EXCEPT ![r] = v] /\ issued' = issued
      BY <2>1, <1>2 DEF Apply
    <2> QED
      BY <2>1, <2>3, <2>4, MergingKeeps
  <1>3. ASSUME NEW r \in Replica, NEW batch \in SUBSET issued, NEW ops \in SetToSeqs(batch),
               ApplyBatch(r, ops)
        PROVE  CrdtInv'
    <2>1. PICK n : ops \in [1 .. n -> batch] /\ n = Cardinality(batch)
      BY DEF SetToSeqs
    <2>2. batch \subseteq StampedOps
      BY DEF CrdtInv
    <2>3. n \in Nat
      BY <2>1, FS_Subset, FS_CardinalityType DEF CrdtInv
    <2>4. ops \in Seq(StampedOps) /\ ToSet(ops) \subseteq batch
      BY <2>1, <2>2, <2>3 DEF ToSet
    <2>5. PICK w, v, H, G : w = resolved[r] /\ v = MergeAll(w, ops) /\ H = history[r] /\ G = ToSet(ops)
      OBVIOUS
    <2>6. H \in SUBSET StampedOps /\ Settled(w, H) /\ G \in SUBSET issued
      BY <2>4, <2>5 DEF CrdtInv
    <2>7. Settled(v, H \cup G)
      BY <2>4, <2>5, <2>6, BatchSettles
    <2>8. /\ history' = [history EXCEPT ![r] = history[r] \cup G]
          /\ resolved' = [resolved EXCEPT ![r] = v] /\ issued' = issued
      BY <2>5, <1>3 DEF ApplyBatch
    <2> QED
      BY <2>5, <2>6, <2>7, <2>8, MergingKeeps
  <1>4. CASE UNCHANGED crdtVars
    BY <1>4 DEF crdtVars, CrdtInv, Stamped
  <1> QED
    BY <1>1, <1>2, <1>3, <1>4 DEF CrdtNext

(* Settled winners are determined by the history, as the newest operation  *)
(* on a target is one when authors' hashes tell them apart.                *)
LEMMA SettledIsOne ==
    ASSUME NEW H \in SUBSET issued, CrdtInv, IsInjective(AgentHash),
           NEW w, NEW v, Settled(w, H), Settled(v, H)
    PROVE  w = v
  <1>1. DOMAIN w = DOMAIN v
    BY DEF Settled
  <1>2. ASSUME NEW k \in DOMAIN w PROVE w[k] = v[k]
    <2>1. /\ w[k] \in H /\ v[k] \in H /\ w[k].target = k /\ v[k].target = k
          /\ ~Newer(w[k], v[k]) /\ ~Newer(v[k], w[k])
      BY <1>1, <1>2 DEF Settled
    <2>2. w[k] \in StampedOps /\ v[k] \in StampedOps
      BY <2>1 DEF CrdtInv
    <2>3. w[k].time = v[k].time /\ AgentHash[w[k].author] = AgentHash[v[k].author]
      BY <2>1, <2>2, NewerOrders
    <2>4. w[k].author = v[k].author
      <3>1. DOMAIN AgentHash = Author /\ w[k].author \in Author /\ v[k].author \in Author
        BY <2>2, CrdtAssumption DEF StampedOps
      <3> QED
        BY <2>3, <3>1 DEF IsInjective
    <2> QED
      BY <2>1, <2>3, <2>4 DEF CrdtInv, Stamped
  <1>3. w = [k \in DOMAIN w |-> w[k]] /\ v = [k \in DOMAIN v |-> v[k]]
    BY DEF Settled
  <1> QED
    BY <1>1, <1>2, <1>3

(* Replicas that applied the same operations, in whatever order, however   *)
(* often and in whatever batches, have the same winners, and each winner   *)
(* is the newest: if no two authors' names have one hash.                  *)
THEOREM ReplicasConvergeAlways ==
    ASSUME IsInjective(AgentHash)
    PROVE  CrdtSpec => []ReplicasConverge
  <1>1. CrdtInv => ReplicasConverge
    <2> SUFFICES ASSUME CrdtInv PROVE ReplicasConverge
      OBVIOUS
    <2>1. ASSUME NEW r \in Replica, NEW s \in Replica, history[r] = history[s]
          PROVE  resolved[r] = resolved[s]
      <3>1. PICK w, v, H : w = resolved[r] /\ v = resolved[s] /\ H = history[r]
        OBVIOUS
      <3>2. H \in SUBSET issued /\ Settled(w, H) /\ Settled(v, H)
        BY <3>1, <2>1 DEF CrdtInv
      <3> QED
        BY <3>1, <3>2, SettledIsOne
    <2>2. ASSUME NEW r \in Replica, NEW o \in history[r], NEW win, win = resolved[r][o.target]
          PROVE  win \in history[r] /\ win.target = o.target /\ ~Newer(o, win)
      BY <2>2 DEF CrdtInv, Settled
    <2> QED
      BY <2>1, <2>2 DEF ReplicasConverge
  <1> QED
    BY CrdtInitSound, CrdtInvStep, <1>1, PTL DEF CrdtSpec

-----------------------------------------------------------------------------
(* The message bus. *)

Messages == [id : Nat, sender : BusAgent, to : BusAgent \cup {"all", "topic"},
             topic : Topic, priority : Urgency]

BusTypes ==
    /\ Registered \subseteq BusAgent /\ IsFiniteSet(Registered)
    /\ DOMAIN subs = Registered
    /\ \A a \in Registered : boxes[a] \in Seq(Messages)
    /\ received \in [BusAgent -> Seq(Messages)]
    /\ nextMsg \in Nat
    /\ stats \in [delivered : Nat, dropped : Nat]
    /\ addressed \subseteq Messages \X BusAgent /\ IsFiniteSet(addressed)

(* The mailbox is by urgency. *)
ByUrgency(q) == \A i, j \in 1 .. Len(q) : i < j => q[i].priority >= q[j].priority

(* Of two messages of one priority the one in front was sent first. *)
Fifo(q) == \A i, j \in 1 .. Len(q) : i < j /\ q[i].priority = q[j].priority => q[i].id < q[j].id

Meant(e, a) == <<e, a>> \in addressed /\ (e.to \in {"all", "topic"} => e.sender # a)

Orderly(a) ==
    /\ ByUrgency(boxes[a]) /\ Fifo(Arrivals(a))
    /\ Depth > 0 => Len(boxes[a]) <= Depth
    /\ \A i \in 1 .. Len(Arrivals(a)) : Meant(Arrivals(a)[i], a)

Counted ==
    /\ stats.delivered + stats.dropped = Cardinality(addressed)
    /\ IsFiniteSet(Places) /\ stats.delivered = Cardinality(Places)

(* Nobody received anything before it registered, and every message was    *)
(* given a number below the next one.                                      *)
BusInv ==
    /\ BusTypes
    /\ \A a \in BusAgent \ Registered : received[a] = <<>>
    /\ \A c \in addressed : c[1].id < nextMsg
    /\ \A a \in Registered : Orderly(a)
    /\ Counted

(* Priorities and numbers of messages can be compared. *)
LEMMA MessageTypes ==
    ASSUME NEW m \in Messages
    PROVE  m.priority \in Int /\ m.id \in Nat
  <1>1. m.priority \in Urgency /\ m.id \in Nat
    BY DEF Messages
  <1>2. Urgency \subseteq Nat
    BY BusAssumption
  <1>3. m.priority \in Nat
    BY <1>1, <1>2
  <1> QED
    BY <1>1, <1>3

(* A queue with e put in at position p. *)
Inserted(q, p, e, r) ==
    /\ p \in 1 .. Len(q) + 1 /\ Len(r) = Len(q) + 1
    /\ r[p] = e
    /\ \A i \in 1 .. p - 1 : r[i] = q[i]
    /\ \A i \in p + 1 .. Len(q) + 1 : r[i] = q[i - 1]

(* InsertAt puts the element in at its position. *)
LEMMA InsertAtMeans ==
    ASSUME NEW S, NEW q \in Seq(S), NEW e \in S, NEW p \in 1 .. Len(q)
    PROVE  InsertAt(q, p, e) \in Seq(S) /\ Inserted(q, p, e, InsertAt(q, p, e))
  <1>1. PICK u, v : u = SubSeq(q, 1, p - 1) /\ v = SubSeq(q, p, Len(q))
    OBVIOUS
  <1>2. /\ u \in Seq(S) /\ Len(u) = p - 1 /\ \A i \in 1 .. p - 1 : u[i] = q[i]
        /\ v \in Seq(S) /\ Len(v) = Len(q) - p + 1
        /\ \A i \in 1 .. Len(q) - p + 1 : v[i] = q[p + i - 1]
    BY <1>1
  <1>3. PICK r : r = InsertAt(q, p, e)
    OBVIOUS
  <1>4. PICK x : x = u \o <<e>>
    OBVIOUS
  <1>i. r = x \o v
    BY <1>1, <1>3, <1>4 DEF InsertAt
  <1>j. /\ x \in Seq(S) /\ Len(x) = p /\ x[p] = e
        /\ \A i \in 1 .. p - 1 : x[i] = q[i]
    BY <1>2, <1>4
  <1>5. r \in Seq(S) /\ Len(r) = Len(q) + 1
    <2>1. r \in Seq(S) /\ Len(r) = Len(x) + Len(v)
        <3>1. x \in Seq(S) /\ v \in Seq(S)
        BY <1>2, <1>j
      <3> QED
        BY <3>1, <1>i, Joined
    <2>2. Len(q) \in Nat /\ p \in Nat
      OBVIOUS
    <2> QED
      BY <2>1, <2>2, <1>2, <1>j
  <1>6. r[p] = e
    BY <1>2, <1>i, <1>j
  <1>7. \A i \in 1 .. p - 1 : r[i] = q[i]
    BY <1>2, <1>i, <1>j
  <1>8. ASSUME NEW i \in p + 1 .. Len(q) + 1 PROVE r[i] = q[i - 1]
    <2>1. i - p \in 1 .. Len(q) - p + 1 /\ r[i] = v[i - p]
      BY <1>2, <1>i, <1>j
    <2> QED
      BY <2>1, <1>2
  <1> QED
    BY <1>3, <1>5, <1>6, <1>7, <1>8 DEF Inserted

(* deliver() finds a place behind everything as urgent, and before         *)
(* everything less urgent.                                                 *)
LEMMA EnqueueMeans ==
    ASSUME NEW q \in Seq(Messages), NEW e \in Messages, ByUrgency(q)
    PROVE  /\ Enqueue(q, e) \in Seq(Messages)
           /\ \E p : /\ Inserted(q, p, e, Enqueue(q, e))
                     /\ \A i \in 1 .. p - 1 : q[i].priority >= e.priority
                     /\ \A i \in p .. Len(q) : q[i].priority < e.priority
  <1> DEFINE lower == {k \in 1 .. Len(q) : q[k].priority < e.priority}
  <1>0. /\ Len(q) \in Nat /\ e.priority \in Int
        /\ \A i \in 1 .. Len(q) : q[i].priority \in Int
    <2>2. Len(q) \in Nat /\ \A i \in 1 .. Len(q) : q[i] \in Messages
      OBVIOUS
    <2> QED
      BY <2>2, MessageTypes
  <1>1. CASE lower = {}
    <2>1. Enqueue(q, e) = Append(q, e)
      BY <1>1 DEF Enqueue
    <2>2. PICK r : r = Append(q, e)
      OBVIOUS
    <2>3. r \in Seq(Messages) /\ Inserted(q, Len(q) + 1, e, r)
      BY <2>2, <1>0 DEF Inserted
    <2>4. \A i \in 1 .. Len(q) : q[i].priority >= e.priority
      BY <1>0, <1>1
    <2>5. /\ \A i \in 1 .. (Len(q) + 1) - 1 : q[i].priority >= e.priority
          /\ \A i \in Len(q) + 1 .. Len(q) : q[i].priority < e.priority
      BY <2>4, <1>0
    <2> QED
      BY <2>1, <2>2, <2>3, <2>5
  <1>2. CASE lower # {}
    <2>1. lower \in SUBSET Nat
      BY <1>0
    <2> DEFINE p == CHOOSE k \in lower : \A j \in lower : k <= j
    <2>2. p \in lower /\ \A j \in lower : p <= j
      <3> HIDE DEF lower
      <3>1. \E k \in lower : \A j \in lower : k <= j
        BY <1>2, <2>1, LeastOf
      <3> QED
        BY <3>1
    <2>3. Enqueue(q, e) = InsertAt(q, p, e)
      BY <1>2 DEF Enqueue
    <2> HIDE DEF p
    <2>4. p \in 1 .. Len(q) /\ q[p].priority < e.priority
      BY <2>2
    <2>5. \A i \in 1 .. p - 1 : q[i].priority >= e.priority
      <3>1. ASSUME NEW i \in 1 .. p - 1 PROVE q[i].priority >= e.priority
        <4>1. i \in 1 .. Len(q) /\ i \notin lower
          BY <2>2, <2>4, <1>0
        <4> QED
          BY <4>1, <1>0
      <3> QED
        BY <3>1
    <2>6. \A i \in p .. Len(q) : q[i].priority < e.priority
      <3>1. ASSUME NEW i \in p .. Len(q), i # p PROVE q[i].priority < e.priority
        <4>1. i \in 1 .. Len(q) /\ p < i
          BY <2>4, <3>1, <1>0
        <4>2. q[p].priority >= q[i].priority
          BY <4>1, <2>4 DEF ByUrgency
        <4> QED
          BY <4>1, <4>2, <2>4, <1>0
      <3> QED
        BY <3>1, <2>4
    <2> QED
      BY <2>3, <2>4, <2>5, <2>6, InsertAtMeans
  <1> QED
    BY <1>1, <1>2

(* What is put in a queue is put in the arrivals behind what was received. *)
LEMMA InsertedBehind ==
    ASSUME NEW x \in Seq(Messages), NEW q \in Seq(Messages), NEW r \in Seq(Messages),
           NEW e, NEW p, Inserted(q, p, e, r),
           NEW y, y = x \o q, NEW z, z = x \o r
    PROVE  y \in Seq(Messages) /\ z \in Seq(Messages) /\ Inserted(y, Len(x) + p, e, z)
  <1>0. Len(r) = Len(q) + 1 /\ p \in 1 .. Len(q) + 1
    BY DEF Inserted
  <1>a. /\ y \in Seq(Messages) /\ Len(x) \in Nat /\ Len(q) \in Nat /\ Len(y) = Len(x) + Len(q)
        /\ \A i \in 1 .. Len(x) : y[i] = x[i]
        /\ \A i \in 1 .. Len(q) : y[Len(x) + i] = q[i]
    BY Joined
  <1>b. /\ z \in Seq(Messages) /\ Len(z) = Len(x) + Len(r)
        /\ \A i \in 1 .. Len(x) : z[i] = x[i]
        /\ \A i \in 1 .. Len(r) : z[Len(x) + i] = r[i]
    BY Joined
  <1>1. /\ y \in Seq(Messages) /\ z \in Seq(Messages)
        /\ Len(x) \in Nat /\ Len(q) \in Nat /\ Len(r) = Len(q) + 1 /\ p \in 1 .. Len(q) + 1
        /\ Len(y) = Len(x) + Len(q) /\ Len(z) = Len(x) + Len(r)
    BY <1>0, <1>a, <1>b
  <1>2. \A i \in 1 .. Len(x) : y[i] = x[i] /\ z[i] = x[i]
    BY <1>a, <1>b
  <1>3. /\ \A i \in 1 .. Len(q) : y[Len(x) + i] = q[i]
        /\ \A i \in 1 .. Len(r) : z[Len(x) + i] = r[i]
    BY <1>a, <1>b
  <1>4. z[Len(x) + p] = e
    BY <1>1, <1>3 DEF Inserted
  <1>5. ASSUME NEW i \in 1 .. (Len(x) + p) - 1 PROVE z[i] = y[i]
    <2>1. ASSUME i <= Len(x) PROVE z[i] = y[i]
      BY <2>1, <1>1, <1>2
    <2>2. ASSUME i > Len(x) PROVE z[i] = y[i]
      <3>1. PICK j \in 1 .. p - 1 : i = Len(x) + j
        <4>1. i - Len(x) \in 1 .. p - 1 /\ i = Len(x) + (i - Len(x))
          BY <2>2, <1>1
        <4> QED
          BY <4>1
      <3>2. j \in 1 .. Len(q) /\ j \in 1 .. Len(r) /\ r[j] = q[j]
        BY <1>1, <3>1 DEF Inserted
      <3> QED
        BY <3>1, <3>2, <1>3
    <2> QED
      BY <2>1, <2>2, <1>1
  <1>6. ASSUME NEW i \in (Len(x) + p) + 1 .. Len(y) + 1 PROVE z[i] = y[i - 1]
    <2>1. PICK j \in p + 1 .. Len(q) + 1 : i = Len(x) + j
      <3>1. i - Len(x) \in p + 1 .. Len(q) + 1 /\ i = Len(x) + (i - Len(x))
        BY <1>1
      <3> QED
        BY <3>1
    <2>2. j \in 1 .. Len(r) /\ j - 1 \in 1 .. Len(q) /\ r[j] = q[j - 1] /\ i - 1 = Len(x) + (j - 1)
      BY <1>1, <2>1 DEF Inserted
    <2> QED
      BY <2>1, <2>2, <1>3
  <1>7. Len(x) + p \in 1 .. Len(y) + 1 /\ Len(z) = Len(y) + 1
    BY <1>1
  <1>8. \A i \in 1 .. (Len(x) + p) - 1 : z[i] = y[i]
    BY <1>5
  <1>c. \A i \in (Len(x) + p) + 1 .. Len(y) + 1 : z[i] = y[i - 1]
    BY <1>6
  <1>9. Inserted(y, Len(x) + p, e, z)
    BY <1>4, <1>7, <1>8, <1>c DEF Inserted
  <1> QED
    BY <1>1, <1>9

(* A place in the new queue is the new message's or one of the old queue,  *)
(* and the old ones keep their order.                                      *)
LEMMA PlacesAfter ==
    ASSUME NEW q \in Seq(Messages), NEW e, NEW p, NEW r, Inserted(q, p, e, r),
           NEW i \in 1 .. Len(r), i # p
    PROVE  \E k \in 1 .. Len(q) : r[i] = q[k] /\ (i < p => k = i) /\ (i > p => k = i - 1)
  <1>1. Len(q) \in Nat /\ p \in 1 .. Len(q) + 1 /\ Len(r) = Len(q) + 1
    BY DEF Inserted
  <1>2. ASSUME i < p PROVE i \in 1 .. Len(q) /\ r[i] = q[i]
    BY <1>1, <1>2 DEF Inserted
  <1>3. ASSUME i > p PROVE i - 1 \in 1 .. Len(q) /\ r[i] = q[i - 1]
    BY <1>1, <1>3 DEF Inserted
  <1> QED
    BY <1>1, <1>2, <1>3

(* Nothing but the new message is new in the queue. *)
LEMMA MembersAfter ==
    ASSUME NEW q \in Seq(Messages), NEW e, NEW p, NEW r, Inserted(q, p, e, r)
    PROVE  \A i \in 1 .. Len(r) : r[i] = e \/ \E k \in 1 .. Len(q) : r[i] = q[k]
  <1> SUFFICES ASSUME NEW i \in 1 .. Len(r)
               PROVE  r[i] = e \/ \E k \in 1 .. Len(q) : r[i] = q[k]
    OBVIOUS
  <1>1. r[p] = e
    BY DEF Inserted
  <1>2. ASSUME i # p PROVE \E k \in 1 .. Len(q) : r[i] = q[k]
    BY <1>2, PlacesAfter
  <1> QED
    BY <1>1, <1>2

(* Behind everything as urgent, before everything less urgent. *)
LEMMA InsertedInOrder ==
    ASSUME NEW q \in Seq(Messages), NEW e \in Messages, NEW p,
           NEW r \in Seq(Messages), Inserted(q, p, e, r),
           ByUrgency(q),
           \A i \in 1 .. p - 1 : q[i].priority >= e.priority,
           \A i \in p .. Len(q) : q[i].priority < e.priority
    PROVE  ByUrgency(r)
  <1>1. Len(q) \in Nat /\ p \in 1 .. Len(q) + 1 /\ Len(r) = Len(q) + 1 /\ r[p] = e
    BY DEF Inserted
  <1>3. e.priority \in Int /\ \A i \in 1 .. Len(q) : q[i].priority \in Int
    BY <1>1, MessageTypes
  <1> SUFFICES ASSUME NEW i \in 1 .. Len(r), NEW j \in 1 .. Len(r), i < j
               PROVE  r[i].priority >= r[j].priority
    BY DEF ByUrgency
  <1>4. ASSUME i = p PROVE r[i].priority >= r[j].priority
    <2>1. PICK k \in 1 .. Len(q) : r[j] = q[k] /\ k = j - 1
      BY <1>1, <1>4, PlacesAfter
    <2>2. k \in p .. Len(q)
      BY <2>1, <1>1, <1>4
    <2> QED
      BY <2>1, <2>2, <1>1, <1>3, <1>4
  <1>5. ASSUME j = p PROVE r[i].priority >= r[j].priority
    <2>1. PICK k \in 1 .. Len(q) : r[i] = q[k] /\ k = i
      BY <1>1, <1>5, PlacesAfter
    <2>2. k \in 1 .. p - 1
      BY <2>1, <1>1, <1>5
    <2> QED
      BY <2>1, <2>2, <1>1, <1>3, <1>5
  <1>6. ASSUME i # p, j # p PROVE r[i].priority >= r[j].priority
    <2>1. PICK k \in 1 .. Len(q) : r[i] = q[k] /\ (i < p => k = i) /\ (i > p => k = i - 1)
      BY <1>6, PlacesAfter
    <2>2. PICK l \in 1 .. Len(q) : r[j] = q[l] /\ (j < p => l = j) /\ (j > p => l = j - 1)
      BY <1>6, PlacesAfter
    <2>3. k < l
      BY <2>1, <2>2, <1>1, <1>6
    <2> QED
      BY <2>1, <2>2, <2>3 DEF ByUrgency
  <1> QED
    BY <1>4, <1>5, <1>6

(* A message newer than all of q, put in behind its equals. *)
LEMMA InsertedFifo ==
    ASSUME NEW q \in Seq(Messages), NEW e \in Messages, NEW p,
           NEW r \in Seq(Messages), Inserted(q, p, e, r),
           Fifo(q),
           \A i \in 1 .. Len(q) : q[i].id < e.id,
           \A i \in p .. Len(q) : q[i].priority < e.priority
    PROVE  Fifo(r)
  <1>1. Len(q) \in Nat /\ p \in 1 .. Len(q) + 1 /\ Len(r) = Len(q) + 1 /\ r[p] = e
    BY DEF Inserted
  <1>3. e.priority \in Int /\ \A i \in 1 .. Len(q) : q[i].priority \in Int
    BY <1>1, MessageTypes
  <1> SUFFICES ASSUME NEW i \in 1 .. Len(r), NEW j \in 1 .. Len(r), i < j,
                      r[i].priority = r[j].priority
               PROVE  r[i].id < r[j].id
    BY DEF Fifo
  <1>4. i # p
    <2> SUFFICES ASSUME i = p PROVE FALSE
      OBVIOUS
    <2>1. PICK k \in 1 .. Len(q) : r[j] = q[k] /\ k = j - 1
      BY <1>1, PlacesAfter
    <2>2. k \in p .. Len(q)
      BY <2>1, <1>1
    <2> QED
      BY <2>1, <2>2, <1>1, <1>3
  <1>5. ASSUME j = p PROVE r[i].id < r[j].id
    <2>1. PICK k \in 1 .. Len(q) : r[i] = q[k]
      BY <1>4, PlacesAfter
    <2> QED
      BY <2>1, <1>1, <1>5
  <1>6. ASSUME j # p PROVE r[i].id < r[j].id
    <2>1. PICK k \in 1 .. Len(q) : r[i] = q[k] /\ (i < p => k = i) /\ (i > p => k = i - 1)
      BY <1>4, PlacesAfter
    <2>2. PICK l \in 1 .. Len(q) : r[j] = q[l] /\ (j < p => l = j) /\ (j > p => l = j - 1)
      BY <1>6, PlacesAfter
    <2>3. k < l
      BY <2>1, <2>2, <1>1, <1>4, <1>6
    <2> QED
      BY <2>1, <2>2, <2>3 DEF Fifo
  <1> QED
    BY <1>5, <1>6

(* As many pairs with a as there are members. *)
LEMMA PairsCounted ==
    ASSUME NEW S, IsFiniteSet(S), NEW T, NEW f \in [S -> T],
           \A a, b \in S : f[a] = f[b] => a = b, \A t \in T : \E a \in S : f[a] = t
    PROVE  IsFiniteSet(T) /\ Cardinality(T) = Cardinality(S)
  <1>1. f \in Bijection(S, T)
    BY DEF Bijection, Injection, Surjection, IsInjective
  <1> QED
    BY <1>1, FS_Bijection DEF ExistsBijection

(* A step that hands nothing out and puts nothing in. *)
LEMMA SameMail ==
    ASSUME BusInv, Registered \subseteq Registered',
           \A a \in Registered' : Arrivals(a)' = Arrivals(a),
           \A a \in Registered' : ByUrgency(boxes'[a]),
           \A a \in Registered' : Depth > 0 => Len(boxes'[a]) <= Depth,
           stats' = stats, addressed' = addressed
    PROVE  (\A a \in Registered' : Orderly(a)') /\ Counted'
  <1>1. ASSUME NEW a \in Registered' PROVE Orderly(a)'
    <2>1. ASSUME a \in Registered PROVE Orderly(a)'
      <3>1. Orderly(a)
        BY <2>1 DEF BusInv
      <3>2. Arrivals(a)' = Arrivals(a)
        OBVIOUS
      <3>3. ByUrgency(boxes'[a]) /\ (Depth > 0 => Len(boxes'[a]) <= Depth)
        OBVIOUS
      <3> QED
        BY <3>1, <3>2, <3>3 DEF Orderly, Meant
    <2>2. ASSUME a \notin Registered PROVE Orderly(a)'
      <3>1. Arrivals(a)' = <<>>
        BY <2>2 DEF Arrivals
      <3>2. Fifo(Arrivals(a)') /\ 1 .. Len(Arrivals(a)') = {}
        BY <3>1 DEF Fifo
      <3>3. ByUrgency(boxes'[a]) /\ (Depth > 0 => Len(boxes'[a]) <= Depth)
        OBVIOUS
      <3> QED
        BY <3>2, <3>3 DEF Orderly
    <2> QED
      BY <2>1, <2>2
  <1>2. Places' = Places
    <2>1. ASSUME NEW a \in Registered' \ Registered PROVE 1 .. Len(Arrivals(a)') = {}
      <3>1. Arrivals(a)' = <<>>
        BY DEF Arrivals
      <3> QED
        BY <3>1
    <2>2. ASSUME NEW z \in Places' PROVE z \in Places
      <3>1. PICK a \in Registered' : z \in {a} \X (1 .. Len(Arrivals(a)'))
        BY DEF Places
      <3>2. a \in Registered
        BY <3>1, <2>1
      <3>3. Arrivals(a)' = Arrivals(a)
        OBVIOUS
      <3> QED
        BY <3>1, <3>2, <3>3 DEF Places
    <2>3. ASSUME NEW z \in Places PROVE z \in Places'
      <3>1. PICK a \in Registered : z \in {a} \X (1 .. Len(Arrivals(a)))
        BY DEF Places
      <3>2. a \in Registered' /\ Arrivals(a)' = Arrivals(a)
        OBVIOUS
      <3> QED
        BY <3>1, <3>2 DEF Places
    <2> QED
      BY <2>2, <2>3
  <1>3. Counted'
    BY <1>2 DEF BusInv, Counted
  <1> QED
    BY <1>1, <1>3

(* Taking the first message out leaves what arrived as it is. *)
LEMMA HeadMoved ==
    ASSUME NEW x \in Seq(Messages), NEW q \in Seq(Messages), q # <<>>
    PROVE  /\ Append(x, Head(q)) \in Seq(Messages) /\ Tail(q) \in Seq(Messages)
           /\ Append(x, Head(q)) \o Tail(q) = x \o q
           /\ Len(Tail(q)) <= Len(q)
           /\ ByUrgency(q) => ByUrgency(Tail(q))
  <1>1. PICK h, t, y : h = Head(q) /\ t = Tail(q) /\ y = Append(x, h)
    OBVIOUS
  <1>2. /\ Len(q) \in Nat /\ Len(q) > 0 /\ h \in Messages /\ h = q[1]
        /\ t \in Seq(Messages) /\ Len(t) = Len(q) - 1
        /\ \A i \in 1 .. Len(t) : t[i] = q[i + 1]
    BY <1>1
  <1>3. /\ y \in Seq(Messages) /\ Len(y) = Len(x) + 1 /\ Len(x) \in Nat
        /\ y[Len(x) + 1] = h /\ \A i \in 1 .. Len(x) : y[i] = x[i]
    BY <1>1, <1>2
  <1>4. PICK u, v : u = y \o t /\ v = x \o q
    OBVIOUS
  <1>5. /\ u \in Seq(Messages) /\ Len(u) = Len(y) + Len(t)
        /\ \A i \in 1 .. Len(y) : u[i] = y[i]
        /\ \A i \in 1 .. Len(t) : u[Len(y) + i] = t[i]
    <2>1. y \in Seq(Messages) /\ t \in Seq(Messages) /\ u = y \o t
      BY <1>2, <1>3, <1>4
    <2> QED
      BY <2>1, Joined
  <1>6. /\ v \in Seq(Messages) /\ Len(v) = Len(x) + Len(q)
        /\ \A i \in 1 .. Len(x) : v[i] = x[i]
        /\ \A i \in 1 .. Len(q) : v[Len(x) + i] = q[i]
    <2>1. v = x \o q
      BY <1>4
    <2> QED
      BY <2>1, Joined
  <1>7. ASSUME NEW i \in 1 .. Len(u) PROVE u[i] = v[i]
    <2>1. ASSUME i <= Len(x) PROVE u[i] = v[i]
      BY <2>1, <1>2, <1>3, <1>5, <1>6
    <2>2. ASSUME i = Len(x) + 1 PROVE u[i] = v[i]
      <3>1. u[i] = h
        BY <2>2, <1>2, <1>3, <1>5
      <3>2. 1 \in 1 .. Len(q) /\ v[i] = q[1]
        BY <2>2, <1>2, <1>6
      <3> QED
        BY <3>1, <3>2, <1>2
    <2>3. ASSUME i > Len(x) + 1 PROVE u[i] = v[i]
      <3>1. PICK k \in 1 .. Len(t) : i = Len(y) + k
        <4>1. i - Len(y) \in 1 .. Len(t) /\ i = Len(y) + (i - Len(y))
          BY <2>3, <1>2, <1>3, <1>5
        <4> QED
          BY <4>1
      <3>2. u[i] = t[k] /\ t[k] = q[k + 1]
        BY <3>1, <1>2, <1>5
      <3>3. k + 1 \in 1 .. Len(q) /\ i = Len(x) + (k + 1)
        BY <3>1, <1>2, <1>3
      <3> QED
        BY <3>2, <3>3, <1>6
    <2> QED
      BY <2>1, <2>2, <2>3, <1>2, <1>3, <1>5
  <1>8. u = v
    <2>1. Len(u) = Len(v)
      BY <1>2, <1>3, <1>5, <1>6
    <2>2. u = [i \in 1 .. Len(u) |-> u[i]] /\ v = [i \in 1 .. Len(v) |-> v[i]]
      BY <1>5, <1>6
    <2> QED
      BY <2>1, <2>2, <1>7
  <1>9. ByUrgency(q) => ByUrgency(t)
    <2> SUFFICES ASSUME ByUrgency(q), NEW i \in 1 .. Len(t), NEW j \in 1 .. Len(t), i < j
                 PROVE  t[i].priority >= t[j].priority
      BY DEF ByUrgency
    <2>1. i + 1 \in 1 .. Len(q) /\ j + 1 \in 1 .. Len(q) /\ i + 1 < j + 1
      BY <1>2
    <2>2. t[i] = q[i + 1] /\ t[j] = q[j + 1]
      BY <1>2
    <2> QED
      BY <2>1, <2>2 DEF ByUrgency
  <1>a. Len(t) <= Len(q)
    BY <1>2
  <1> QED
    BY <1>1, <1>2, <1>3, <1>4, <1>8, <1>9, <1>a

(* register_agent(): an empty mailbox, and nothing arrived there before. *)
LEMMA RegisterKeeps ==
    ASSUME BusInv, NEW a \in BusAgent, RegisterAgent(a)
    PROVE  BusInv'
  <1>1. Registered' = Registered \cup {a} /\ a \notin Registered /\ DOMAIN subs' = Registered'
    BY DEF RegisterAgent, Registered
  <1>2. boxes'[a] = <<>> /\ \A b \in Registered : boxes'[b] = boxes[b]
    BY DEF RegisterAgent
  <1>3. received' = received /\ nextMsg' = nextMsg /\ stats' = stats /\ addressed' = addressed
    BY DEF RegisterAgent
  <1>4. received[a] = <<>>
    BY <1>1 DEF BusInv
  <1>5. ASSUME NEW b \in Registered' PROVE Arrivals(b)' = Arrivals(b)
    <2>1. ASSUME b = a PROVE Arrivals(b)' = Arrivals(b)
      <3>1. Arrivals(b) = <<>>
        BY <1>1, <2>1 DEF Arrivals
      <3>2. Arrivals(b)' = received'[b] \o boxes'[b]
        BY DEF Arrivals
      <3>3. Arrivals(b)' = <<>> \o <<>>
        BY <3>2, <1>2, <1>3, <1>4, <2>1
      <3> QED
        BY <3>1, <3>3
    <2>2. ASSUME b # a PROVE Arrivals(b)' = Arrivals(b)
      <3>1. b \in Registered
        BY <1>1, <2>2
      <3> QED
        BY <3>1, <1>2, <1>3 DEF Arrivals
    <2> QED
      BY <2>1, <2>2
  <1>6. ASSUME NEW b \in Registered'
        PROVE  boxes'[b] \in Seq(Messages) /\ ByUrgency(boxes'[b]) /\ (Depth > 0 => Len(boxes'[b]) <= Depth)
    <2>1. ASSUME b = a PROVE boxes'[b] \in Seq(Messages) /\ ByUrgency(boxes'[b]) /\ (Depth > 0 => Len(boxes'[b]) <= Depth)
      <3>1. boxes'[b] = <<>>
        BY <2>1, <1>2
      <3>2. <<>> \in Seq(Messages) /\ ByUrgency(<<>>) /\ (Depth > 0 => Len(<<>>) <= Depth)
        BY BusAssumption DEF ByUrgency
      <3> QED
        BY <3>1, <3>2
    <2>2. ASSUME b # a PROVE boxes'[b] \in Seq(Messages) /\ ByUrgency(boxes'[b]) /\ (Depth > 0 => Len(boxes'[b]) <= Depth)
      <3>1. b \in Registered
        BY <1>1, <2>2
      <3> QED
        BY <3>1, <1>2 DEF BusInv, BusTypes, Orderly
    <2> QED
      BY <2>1, <2>2
  <1>7. (\A b \in Registered' : Orderly(b)') /\ Counted'
    BY <1>1, <1>3, <1>5, <1>6, SameMail
  <1>8. BusTypes'
    <2>1. Registered' \subseteq BusAgent /\ IsFiniteSet(Registered')
      BY <1>1, FS_AddElement DEF BusInv, BusTypes
    <2> QED
      BY <2>1, <1>1, <1>3, <1>6 DEF BusInv, BusTypes
  <1> QED
    BY <1>1, <1>3, <1>7, <1>8 DEF BusInv

(* Registered agents take messages out: all that came stays the same. *)
LEMMA TakingKeeps ==
    ASSUME BusInv, NEW a \in BusAgent, Recv(a) \/ Drain(a)
    PROVE  BusInv'
  <1>1. a \in Registered /\ boxes[a] # <<>> /\ Registered' = Registered
    BY DEF Recv, Drain, Registered
  <1>2. subs' = subs /\ nextMsg' = nextMsg /\ stats' = stats /\ addressed' = addressed
    BY DEF Recv, Drain
  <1>3. /\ \A b \in Registered \ {a} : boxes'[b] = boxes[b]
        /\ received' \in [BusAgent -> Seq(Messages)] =>
              \A b \in BusAgent \ {a} : received'[b] = received[b]
    BY DEF Recv, Drain, Registered, BusInv, BusTypes
  <1>4. /\ received[a] \in Seq(Messages) /\ boxes[a] \in Seq(Messages)
        /\ Arrivals(a) = received[a] \o boxes[a]
    BY <1>1 DEF BusInv, BusTypes, Arrivals
  <1>5. PICK x, q : x = received[a] /\ q = boxes[a]
    OBVIOUS
  <1>6. x \in Seq(Messages) /\ q \in Seq(Messages) /\ q # <<>> /\ ByUrgency(q) /\ (Depth > 0 => Len(q) <= Depth)
    BY <1>1, <1>4, <1>5 DEF BusInv, Orderly
  <1>7. \E y, t : /\ received' = [received EXCEPT ![a] = y] /\ boxes' = [boxes EXCEPT ![a] = t]
                  /\ y \in Seq(Messages) /\ t \in Seq(Messages) /\ y \o t = x \o q
                  /\ Len(t) <= Len(q) /\ ByUrgency(t)
    <2>1. CASE Recv(a)
      <3>1. /\ received' = [received EXCEPT ![a] = Append(x, Head(q))]
            /\ boxes' = [boxes EXCEPT ![a] = Tail(q)]
        BY <2>1, <1>5 DEF Recv
      <3> QED
        BY <3>1, <1>6, HeadMoved
    <2>2. CASE Drain(a)
      <3>1. /\ received' = [received EXCEPT ![a] = x \o q]
            /\ boxes' = [boxes EXCEPT ![a] = <<>>]
        BY <2>2, <1>5 DEF Drain
      <3>2. PICK y : y = x \o q
        OBVIOUS
      <3>3. y \in Seq(Messages) /\ Len(q) \in Nat
        BY <3>2, <1>6
      <3>4. y \o <<>> = y /\ <<>> \in Seq(Messages) /\ Len(<<>>) <= Len(q) /\ ByUrgency(<<>>)
        BY <3>3 DEF ByUrgency
      <3> QED
        BY <3>1, <3>2, <3>3, <3>4
    <2> QED
      BY <2>1, <2>2
  <1>8. PICK y, t : /\ received' = [received EXCEPT ![a] = y] /\ boxes' = [boxes EXCEPT ![a] = t]
                    /\ y \in Seq(Messages) /\ t \in Seq(Messages) /\ y \o t = x \o q
                    /\ Len(t) <= Len(q) /\ ByUrgency(t)
    BY <1>7
  <1>9. received'[a] = y /\ boxes'[a] = t /\ received' \in [BusAgent -> Seq(Messages)]
    BY <1>1, <1>8 DEF Registered, BusInv, BusTypes
  <1>10. ASSUME NEW b \in Registered'
         PROVE  /\ Arrivals(b)' = Arrivals(b)
                /\ boxes'[b] \in Seq(Messages) /\ ByUrgency(boxes'[b])
                /\ Depth > 0 => Len(boxes'[b]) <= Depth
    <2>1. ASSUME b = a PROVE <1>10!2
      <3>1. Arrivals(a)' = y \o t
        BY <1>1, <1>9 DEF Arrivals
      <3>2. Arrivals(a) = x \o q
        BY <1>4, <1>5
      <3>3. Depth > 0 => Len(t) <= Depth
        <4>1. Len(q) \in Nat /\ Len(t) \in Nat /\ Depth \in Nat
          BY <1>6, <1>8, BusAssumption
        <4> QED
          BY <4>1, <1>6, <1>8
      <3> QED
        BY <3>1, <3>2, <3>3, <1>8, <1>9, <2>1
    <2>2. ASSUME b # a PROVE <1>10!2
      <3>1. b \in Registered /\ boxes'[b] = boxes[b]
        BY <1>1, <1>3, <2>2
      <3>2. received'[b] = received[b]
        BY <3>1, <1>3, <1>9, <2>2 DEF BusInv, BusTypes
      <3>3. Arrivals(b)' = Arrivals(b)
        BY <3>1, <3>2, <1>1 DEF Arrivals
      <3> QED
        BY <3>1, <3>3 DEF BusInv, BusTypes, Orderly
    <2> QED
      BY <2>1, <2>2
  <1>11. (\A b \in Registered' : Orderly(b)') /\ Counted'
    BY <1>1, <1>2, <1>10, SameMail
  <1>12. BusTypes'
    BY <1>1, <1>2, <1>9, <1>10 DEF BusInv, BusTypes
  <1>13. \A b \in BusAgent \ Registered' : received'[b] = <<>>
    BY <1>1, <1>3, <1>9 DEF BusInv
  <1> QED
    BY <1>2, <1>11, <1>12, <1>13 DEF BusInv

(* A message goes to agents only, and a broadcast never to its sender. *)
LEMMA RecipientsAre ==
    ASSUME BusInv, NEW e \in Messages
    PROVE  /\ Recipients(e) \subseteq BusAgent /\ IsFiniteSet(Recipients(e))
           /\ \A a \in Recipients(e) : e.to \in {"all", "topic"} => e.sender # a
  <1>1. Registered \subseteq BusAgent /\ IsFiniteSet(Registered)
    BY DEF BusInv, BusTypes
  <1>2. CASE e.to = "all"
    <2>1. Recipients(e) = Registered \ {e.sender}
      BY <1>2 DEF Recipients
    <2>2. Recipients(e) \in SUBSET Registered
      BY <2>1
    <2> QED
      BY <2>1, <2>2, <1>1, FS_Subset
  <1>3. CASE e.to = "topic"
    <2>1. Recipients(e) = {a \in Registered \ {e.sender} : e.topic \in subs[a]}
      BY <1>3 DEF Recipients
    <2>2. Recipients(e) \in SUBSET Registered
      BY <2>1
    <2> QED
      BY <2>1, <2>2, <1>1, FS_Subset
  <1>4. CASE e.to \notin {"all", "topic"}
    <2>1. Recipients(e) = {e.to} /\ e.to \in BusAgent
      BY <1>4 DEF Recipients, Messages
    <2>2. IsFiniteSet({e.to})
      BY FS_Singleton
    <2>3. Recipients(e) \subseteq BusAgent
      BY <2>1
    <2> QED
      BY <2>1, <2>2, <2>3, <1>4
  <1> QED
    BY <1>2, <1>3, <1>4

(* r is a's mailbox and z all that ever arrived there, e included. *)
TakenIn(e, a, r, z) ==
    /\ r \in Seq(Messages) /\ ByUrgency(r) /\ (Depth > 0 => Len(r) <= Depth)
    /\ Fifo(z) /\ Len(z) = Len(Arrivals(a)) + 1
    /\ \A i \in 1 .. Len(z) : z[i] = e \/ \E k \in 1 .. Len(Arrivals(a)) : z[i] = Arrivals(a)[k]

(* A mailbox that takes the message stays in order, and so does all that    *)
(* ever arrived there.                                                      *)
LEMMA DeliveryInOrder ==
    ASSUME BusInv, NEW e \in Messages, e.id = nextMsg, NEW a \in Registered,
           HasRoom(a),
           NEW r, r = Enqueue(boxes[a], e), NEW z, z = received[a] \o r
    PROVE  TakenIn(e, a, r, z)
  <1>1. PICK x, q, y : x = received[a] /\ q = boxes[a] /\ y = Arrivals(a)
    OBVIOUS
  <1>2. x \in Seq(Messages) /\ q \in Seq(Messages) /\ y = x \o q
    BY <1>1 DEF BusInv, BusTypes, Arrivals
  <1>3. Orderly(a)
    BY DEF BusInv
  <1>4. ByUrgency(q) /\ Fifo(y) /\ (Depth > 0 => Len(q) <= Depth) /\ \A i \in 1 .. Len(y) : Meant(y[i], a)
    BY <1>1, <1>3 DEF Orderly
  <1>5. r = Enqueue(q, e) /\ z = x \o r
    BY <1>1
  <1>6. PICK p : /\ r \in Seq(Messages) /\ Inserted(q, p, e, r)
                 /\ \A i \in 1 .. p - 1 : q[i].priority >= e.priority
                 /\ \A i \in p .. Len(q) : q[i].priority < e.priority
    BY <1>2, <1>4, <1>5, EnqueueMeans
  <1>7. ByUrgency(r)
    BY <1>2, <1>4, <1>6, InsertedInOrder
  <1>8. y \in Seq(Messages) /\ z \in Seq(Messages) /\ Inserted(y, Len(x) + p, e, z)
    BY <1>2, <1>5, <1>6, InsertedBehind
  <1>9. \A i \in 1 .. Len(y) : y[i].id < e.id
    <2> SUFFICES ASSUME NEW i \in 1 .. Len(y) PROVE y[i].id < e.id
      OBVIOUS
    <2>1. <<y[i], a>> \in addressed
      BY <1>4 DEF Meant
    <2>2. <<y[i], a>>[1].id < nextMsg
      BY <2>1 DEF BusInv
    <2> QED
      BY <2>2
  <1>10. \A i \in Len(x) + p .. Len(y) : y[i].priority < e.priority
    <2> SUFFICES ASSUME NEW i \in Len(x) + p .. Len(y) PROVE y[i].priority < e.priority
      OBVIOUS
    <2>1. /\ Len(x) \in Nat /\ Len(q) \in Nat /\ Len(y) = Len(x) + Len(q)
          /\ \A k \in 1 .. Len(q) : y[Len(x) + k] = q[k]
      BY <1>2, Joined
    <2>2. p \in 1 .. Len(q) + 1
      BY <1>6 DEF Inserted
    <2>3. PICK k \in p .. Len(q) : i = Len(x) + k
      <3>1. i - Len(x) \in p .. Len(q) /\ i = Len(x) + (i - Len(x))
        BY <2>1, <2>2
      <3> QED
        BY <3>1
    <2>4. y[i] = q[k]
      BY <2>1, <2>2, <2>3
    <2> QED
      BY <2>4, <1>6
  <1>11. Fifo(z)
    <2>1. PICK m : m = Len(x) + p
      OBVIOUS
    <2>2. Inserted(y, m, e, z) /\ \A i \in m .. Len(y) : y[i].priority < e.priority
      BY <2>1, <1>8, <1>10
    <2> QED
      BY <2>2, <1>4, <1>8, <1>9, InsertedFifo
  <1>12. Len(z) = Len(y) + 1
    BY <1>8 DEF Inserted
  <1>13. \A i \in 1 .. Len(z) : z[i] = e \/ \E k \in 1 .. Len(y) : z[i] = y[k]
    <2>1. y \in Seq(Messages) /\ Inserted(y, Len(x) + p, e, z)
      BY <1>8
    <2> QED
      BY ONLY <2>1, MembersAfter
  <1>14. Depth > 0 => Len(r) <= Depth
    <2>1. Depth = 0 \/ Len(q) < Depth
      BY <1>1 DEF HasRoom
    <2>2. Len(r) = Len(q) + 1 /\ Len(q) \in Nat
      BY <1>2, <1>6 DEF Inserted
    <2>3. Depth \in Nat
      BY BusAssumption
    <2> QED
      BY <2>1, <2>2, <2>3
  <1> QED
    BY <1>1, <1>6, <1>7, <1>11, <1>12, <1>13, <1>14 DEF TakenIn

(* One more place at every mailbox that took the message. *)
LEMMA PlacesTaken ==
    ASSUME BusInv, Registered' = Registered, NEW T \in SUBSET Registered,
           \A a \in T : Len(Arrivals(a)') = Len(Arrivals(a)) + 1,
           \A a \in Registered \ T : Arrivals(a)' = Arrivals(a)
    PROVE  IsFiniteSet(Places') /\ Cardinality(Places') = Cardinality(Places) + Cardinality(T)
  <1> DEFINE N == {<<a, Len(Arrivals(a)) + 1>> : a \in T}
             f == [a \in T |-> <<a, Len(Arrivals(a)) + 1>>]
  <1>1. IsFiniteSet(T)
    BY FS_Subset DEF BusInv, BusTypes
  <1>2. IsFiniteSet(N) /\ Cardinality(N) = Cardinality(T)
    <2>1. f \in [T -> N] /\ (\A a \in T : f[a] = <<a, Len(Arrivals(a)) + 1>>)
      OBVIOUS
    <2>2. \A t \in N : \E a \in T : f[a] = t
      OBVIOUS
    <2>3. ASSUME NEW a \in T, NEW b \in T, f[a] = f[b] PROVE a = b
      <3>1. <<a, Len(Arrivals(a)) + 1>>[1] = <<b, Len(Arrivals(b)) + 1>>[1]
        BY <2>1, <2>3
      <3> QED
        BY <3>1
    <2> HIDE DEF f, N
    <2> QED
      BY <1>1, <2>1, <2>2, <2>3, PairsCounted
  <1>3. ASSUME NEW a \in Registered PROVE Len(Arrivals(a)) \in Nat
    <2>1. received[a] \in Seq(Messages) /\ boxes[a] \in Seq(Messages)
      BY DEF BusInv, BusTypes
    <2>2. Arrivals(a) = received[a] \o boxes[a]
      BY DEF Arrivals
    <2>3. Arrivals(a) \in Seq(Messages)
      BY <2>1, <2>2, Joined
    <2> QED
      BY <2>3
  <1>4. Places' = Places \cup N
    <2>1. ASSUME NEW z \in Places' PROVE z \in Places \cup N
      <3>1. PICK a \in Registered : z \in {a} \X (1 .. Len(Arrivals(a)'))
        BY DEF Places
      <3>2. PICK i \in 1 .. Len(Arrivals(a)') : z = <<a, i>>
        BY <3>1
      <3>3. ASSUME a \in T, i = Len(Arrivals(a)) + 1 PROVE z \in N
        BY <3>2, <3>3
      <3>4. ASSUME a \notin T \/ i # Len(Arrivals(a)) + 1 PROVE z \in Places
        <4>1. i \in 1 .. Len(Arrivals(a))
          <5>1. ASSUME a \in T PROVE i \in 1 .. Len(Arrivals(a))
            <6>1. Len(Arrivals(a)') = Len(Arrivals(a)) + 1 /\ Len(Arrivals(a)) \in Nat
              BY <5>1, <1>3
            <6> QED
              BY <6>1, <3>2, <3>4, <5>1
          <5>2. ASSUME a \notin T PROVE i \in 1 .. Len(Arrivals(a))
            <6>1. Arrivals(a)' = Arrivals(a)
              BY <5>2
            <6> QED
              BY <6>1, <3>2
          <5> QED
            BY <5>1, <5>2
        <4>2. z \in {a} \X (1 .. Len(Arrivals(a)))
          BY <4>1, <3>2
        <4> QED
          BY <4>2 DEF Places
      <3> QED
        BY <3>3, <3>4
    <2>2. ASSUME NEW z \in N PROVE z \in Places'
      <3>1. PICK a \in T : z = <<a, Len(Arrivals(a)) + 1>>
        OBVIOUS
      <3>2. Len(Arrivals(a)) + 1 \in 1 .. Len(Arrivals(a)')
        <4>1. Len(Arrivals(a)') = Len(Arrivals(a)) + 1 /\ Len(Arrivals(a)) \in Nat
          BY <1>3
        <4> QED
          BY <4>1
      <3>3. z \in {a} \X (1 .. Len(Arrivals(a)'))
        BY <3>1, <3>2
      <3>4. a \in Registered'
        OBVIOUS
      <3> QED
        BY <3>3, <3>4 DEF Places
    <2>3. ASSUME NEW z \in Places PROVE z \in Places'
      <3>1. PICK a \in Registered : z \in {a} \X (1 .. Len(Arrivals(a)))
        BY DEF Places
      <3>2. 1 .. Len(Arrivals(a)) \subseteq 1 .. Len(Arrivals(a)')
        <4>1. ASSUME a \in T PROVE 1 .. Len(Arrivals(a)) \subseteq 1 .. Len(Arrivals(a)')
          <5>1. Len(Arrivals(a)') = Len(Arrivals(a)) + 1 /\ Len(Arrivals(a)) \in Nat
            BY <4>1, <1>3
          <5> QED
            BY <5>1
        <4>2. ASSUME a \notin T PROVE 1 .. Len(Arrivals(a)) \subseteq 1 .. Len(Arrivals(a)')
          <5>1. Arrivals(a)' = Arrivals(a)
            BY <4>2
          <5> QED
            BY <5>1
        <4> QED
          BY <4>1, <4>2
      <3>3. z \in {a} \X (1 .. Len(Arrivals(a)'))
        BY <3>1, <3>2
      <3>4. a \in Registered'
        OBVIOUS
      <3> QED
        BY <3>3, <3>4 DEF Places
    <2> HIDE DEF N
    <2> QED
      BY <2>1, <2>2, <2>3
  <1>5. Places \cap N = {}
    <2> SUFFICES ASSUME NEW z \in Places, z \in N PROVE FALSE
      OBVIOUS
    <2>1. PICK a \in T : z = <<a, Len(Arrivals(a)) + 1>>
      OBVIOUS
    <2>2. PICK b \in Registered : z \in {b} \X (1 .. Len(Arrivals(b)))
      BY DEF Places
    <2>3. a = b /\ Len(Arrivals(a)) + 1 \in 1 .. Len(Arrivals(b))
      BY <2>1, <2>2
    <2> QED
      BY <2>3, <1>3
  <1>6. IsFiniteSet(Places) /\ Cardinality(Places) \in Nat /\ Cardinality(N) \in Nat
    BY <1>2, FS_CardinalityType DEF BusInv, Counted
  <1> HIDE DEF N
  <1>7. /\ IsFiniteSet(Places \cup N)
        /\ Cardinality(Places \cup N) = Cardinality(Places) + Cardinality(N) - Cardinality(Places \cap N)
    BY <1>2, <1>6, FS_Union
  <1>8. Cardinality(Places \cap N) = 0
    BY <1>5, FS_EmptySet
  <1>9. Cardinality(Places \cup N) = Cardinality(Places) + Cardinality(N)
    BY <1>6, <1>7, <1>8
  <1> QED
    BY <1>2, <1>4, <1>7, <1>9

(* send(): the message has the newest number, and each copy is counted. *)
LEMMA SendKeeps ==
    ASSUME BusInv, NEW e \in Messages, Send(e)
    PROVE  BusInv'
  <1>1. PICK T : T = {a \in Recipients(e) \cap Registered : HasRoom(a)}
    OBVIOUS
  <1>2. /\ e.id = nextMsg /\ nextMsg' = nextMsg + 1
        /\ boxes' = [a \in Registered |-> IF a \in T THEN Enqueue(boxes[a], e) ELSE boxes[a]]
        /\ stats' = [delivered |-> stats.delivered + Cardinality(T),
                     dropped |-> stats.dropped + Cardinality(Recipients(e) \ T)]
        /\ addressed' = addressed \cup {<<e, a>> : a \in Recipients(e)}
        /\ subs' = subs /\ received' = received
    BY <1>1 DEF Send
  <1>3. /\ Registered' = Registered
        /\ \A a \in T : a \in Registered /\ a \in Recipients(e) /\ HasRoom(a)
        /\ \A a \in T : boxes'[a] = Enqueue(boxes[a], e)
        /\ \A a \in Registered \ T : boxes'[a] = boxes[a]
    BY <1>1, <1>2 DEF Registered
  <1>4. /\ Recipients(e) \subseteq BusAgent /\ IsFiniteSet(Recipients(e))
        /\ \A a \in Recipients(e) : e.to \in {"all", "topic"} => e.sender # a
    BY RecipientsAre
  <1>5. ASSUME NEW a \in Registered \ T
        PROVE  /\ Arrivals(a)' = Arrivals(a) /\ boxes'[a] \in Seq(Messages) /\ Orderly(a)'
    <2>1. boxes'[a] = boxes[a] /\ received'[a] = received[a]
      BY <1>2, <1>3
    <2>2. Arrivals(a)' = Arrivals(a)
      BY <2>1, <1>3 DEF Arrivals
    <2>3. Orderly(a) /\ boxes[a] \in Seq(Messages)
      BY DEF BusInv, BusTypes
    <2>4. \A m : Meant(m, a) => Meant(m, a)'
      BY <1>2 DEF Meant
    <2> QED
      BY <2>1, <2>2, <2>3, <2>4 DEF Orderly
  <1>6. ASSUME NEW a \in T
        PROVE  /\ Len(Arrivals(a)') = Len(Arrivals(a)) + 1
               /\ boxes'[a] \in Seq(Messages) /\ Orderly(a)'
    <2>1. a \in Registered /\ HasRoom(a) /\ a \in Recipients(e)
      BY <1>3
    <2>2. PICK r, z : r = Enqueue(boxes[a], e) /\ z = received[a] \o r
      OBVIOUS
    <2>3. /\ r \in Seq(Messages) /\ ByUrgency(r) /\ (Depth > 0 => Len(r) <= Depth)
          /\ Fifo(z) /\ Len(z) = Len(Arrivals(a)) + 1
          /\ \A i \in 1 .. Len(z) :
                z[i] = e \/ \E k \in 1 .. Len(Arrivals(a)) : z[i] = Arrivals(a)[k]
      <3>1. e.id = nextMsg
        BY <1>2
      <3>2. TakenIn(e, a, r, z)
        BY <3>1, <2>1, <2>2, DeliveryInOrder
      <3> QED
        BY <3>2 DEF TakenIn
    <2>4. boxes'[a] = r
      BY <2>2, <1>3
    <2>5. Arrivals(a)' = z
      <3>1. a \in Registered' /\ received'[a] = received[a]
        BY <2>1, <1>2, <1>3
      <3> QED
        BY <3>1, <2>2, <2>4 DEF Arrivals
    <2>6. Meant(e, a)'
      BY <2>1, <1>2, <1>4 DEF Meant
    <2>7. ASSUME NEW i \in 1 .. Len(z) PROVE Meant(z[i], a)'
      <3>1. ASSUME z[i] = e PROVE Meant(z[i], a)'
        BY <2>6, <3>1 DEF Meant
      <3>2. ASSUME NEW k \in 1 .. Len(Arrivals(a)), z[i] = Arrivals(a)[k] PROVE Meant(z[i], a)'
        <4>1. Meant(Arrivals(a)[k], a)
          BY <2>1 DEF BusInv, Orderly
        <4> QED
          BY <4>1, <3>2, <1>2 DEF Meant
      <3> QED
        BY <3>1, <3>2, <2>3
    <2>8. Orderly(a)'
      BY <2>3, <2>4, <2>5, <2>7 DEF Orderly
    <2> QED
      BY <2>3, <2>4, <2>5, <2>8
  <1>7. \A a \in Registered' : Orderly(a)' /\ boxes'[a] \in Seq(Messages)
    BY <1>3, <1>5, <1>6
  <1>8. nextMsg \in Nat /\ stats.delivered \in Nat /\ stats.dropped \in Nat
    BY DEF BusInv, BusTypes
  <1> DEFINE N == {<<e, a>> : a \in Recipients(e)}
  <1>9. IsFiniteSet(N) /\ Cardinality(N) = Cardinality(Recipients(e))
    <2> DEFINE f == [a \in Recipients(e) |-> <<e, a>>]
    <2>1. f \in [Recipients(e) -> N] /\ \A a \in Recipients(e) : f[a] = <<e, a>>
      OBVIOUS
    <2>2. \A t \in N : \E a \in Recipients(e) : f[a] = t
      OBVIOUS
    <2>3. ASSUME NEW a \in Recipients(e), NEW b \in Recipients(e), f[a] = f[b] PROVE a = b
      <3>1. <<e, a>>[2] = <<e, b>>[2]
        BY <2>1, <2>3
      <3> QED
        BY <3>1
    <2> HIDE DEF f, N
    <2> QED
      BY <1>4, <2>1, <2>2, <2>3, PairsCounted
  <1>10. /\ IsFiniteSet(addressed) /\ Cardinality(addressed) \in Nat
         /\ stats.delivered + stats.dropped = Cardinality(addressed)
         /\ stats.delivered = Cardinality(Places)
    BY FS_CardinalityType DEF BusInv, BusTypes, Counted
  <1>11. addressed \cap N = {}
    <2> SUFFICES ASSUME NEW c \in addressed, c \in N PROVE FALSE
      OBVIOUS
    <2>1. c[1] = e
      OBVIOUS
    <2>2. c[1].id < nextMsg
      BY DEF BusInv
    <2> QED
      BY <2>1, <2>2, <1>2, <1>8
  <1>12. N \subseteq Messages \X BusAgent /\ \A c \in N : c[1].id = nextMsg
    BY <1>2, <1>4
  <1>13. addressed' = addressed \cup N
    BY <1>2
  <1> HIDE DEF N
  <1>14. IsFiniteSet(addressed') /\ Cardinality(addressed') = Cardinality(addressed) + Cardinality(N)
    <2>1. /\ IsFiniteSet(addressed \cup N)
          /\ Cardinality(addressed \cup N)
                = Cardinality(addressed) + Cardinality(N) - Cardinality(addressed \cap N)
      BY <1>9, <1>10, FS_Union
    <2>2. Cardinality(addressed \cap N) = 0 /\ Cardinality(N) \in Nat
      BY <1>9, <1>11, FS_EmptySet, FS_CardinalityType
    <2>3. Cardinality(addressed \cup N) = Cardinality(addressed) + Cardinality(N)
      BY <2>1, <2>2, <1>10
    <2> QED
      BY <2>1, <2>3, <1>13
  <1>15. /\ Cardinality(Recipients(e)) \in Nat /\ Cardinality(T) \in Nat
         /\ Cardinality(Recipients(e) \ T) = Cardinality(Recipients(e)) - Cardinality(T)
    <2>1. T \in SUBSET Recipients(e) /\ Recipients(e) \cap T = T
      BY <1>3
    <2>2. Cardinality(Recipients(e) \ T) = Cardinality(Recipients(e)) - Cardinality(Recipients(e) \cap T)
      BY <1>4, FS_Difference
    <2>3. IsFiniteSet(T)
      BY <1>4, <2>1, FS_Subset
    <2> QED
      BY <2>1, <2>2, <2>3, <1>4, FS_CardinalityType
  <1>16. IsFiniteSet(Places') /\ Cardinality(Places') = Cardinality(Places) + Cardinality(T)
    <2>1. T \in SUBSET Registered
      BY <1>3
    <2> QED
      BY <2>1, <1>3, <1>5, <1>6, PlacesTaken
  <1>17. Cardinality(Recipients(e) \ T) \in Nat
    <2>1. IsFiniteSet(Recipients(e) \ T)
      BY <1>4, FS_Difference
    <2> QED
      BY <2>1, FS_CardinalityType
  <1>18. /\ stats'.delivered = stats.delivered + Cardinality(T)
         /\ stats'.dropped = stats.dropped + Cardinality(Recipients(e) \ T)
         /\ stats' \in [delivered : Nat, dropped : Nat]
    BY <1>2, <1>8, <1>15, <1>17
  <1>19. Counted'
    <2>1. stats'.delivered + stats'.dropped = Cardinality(addressed')
      BY <1>8, <1>9, <1>10, <1>14, <1>15, <1>18
    <2>2. stats'.delivered = Cardinality(Places')
      BY <1>10, <1>16, <1>18
    <2> QED
      BY <2>1, <2>2, <1>16 DEF Counted
  <1>20. \A c \in addressed' : c[1].id < nextMsg'
    <2> SUFFICES ASSUME NEW c \in addressed' PROVE c[1].id < nextMsg'
      OBVIOUS
    <2>1. ASSUME c \in addressed PROVE c[1].id < nextMsg'
      <3>1. c[1] \in Messages /\ c[1].id < nextMsg
        BY <2>1 DEF BusInv, BusTypes
      <3>2. c[1].id \in Nat
        BY <3>1, MessageTypes
      <3> QED
        BY <3>1, <3>2, <1>2, <1>8
    <2>2. ASSUME c \in N PROVE c[1].id < nextMsg'
      BY <2>2, <1>2, <1>8, <1>12
    <2> QED
      BY <2>1, <2>2, <1>13
  <1>21. BusTypes'
    <2>1. addressed' \subseteq Messages \X BusAgent
      BY <1>12, <1>13 DEF BusInv, BusTypes
    <2>2. nextMsg' \in Nat
      BY <1>2, <1>8
    <2> QED
      BY <2>1, <2>2, <1>2, <1>3, <1>7, <1>14, <1>18 DEF BusInv, BusTypes
  <1> QED
    BY <1>2, <1>3, <1>7, <1>19, <1>20, <1>21 DEF BusInv

(* Every step of the bus. *)
LEMMA BusInvKept == BusInv /\ [BusNext]_busVars => BusInv'
  <1> SUFFICES ASSUME BusInv, [BusNext]_busVars PROVE BusInv'
    OBVIOUS
  <1>1. ASSUME NEW a \in BusAgent, RegisterAgent(a) PROVE BusInv'
    BY <1>1, RegisterKeeps
  <1>2. ASSUME NEW a \in BusAgent, Recv(a) \/ Drain(a) PROVE BusInv'
    BY <1>2, TakingKeeps
  <1>3. ASSUME UNCHANGED <<boxes, nextMsg, stats, received, addressed>>,
               DOMAIN subs' = DOMAIN subs
        PROVE  BusInv'
    <2>1. Registered' = Registered /\ Places' = Places /\ \A a : Arrivals(a)' = Arrivals(a)
      BY <1>3 DEF Registered, Places, Arrivals
    <2>2. BusTypes'
      BY <1>3, <2>1 DEF BusInv, BusTypes
    <2>3. (\A a \in Registered' : Orderly(a)') /\ Counted'
      BY <1>3, <2>1 DEF BusInv, Orderly, Meant, Counted
    <2> QED
      BY <1>3, <2>1, <2>2, <2>3 DEF BusInv
  <1>4. ASSUME NEW a \in BusAgent, NEW t \in Topic, Subscribe(a, t) \/ Unsubscribe(a, t)
        PROVE  BusInv'
    <2>1. UNCHANGED <<boxes, nextMsg, stats, received, addressed>> /\ DOMAIN subs' = DOMAIN subs
      BY <1>4 DEF Subscribe, Unsubscribe
    <2> QED
      BY <2>1, <1>3
  <1>5. ASSUME NEW s \in BusAgent, NEW to \in BusAgent \cup {"all", "topic"}, NEW t \in Topic,
               NEW p \in Urgency,
               Send([id |-> nextMsg, sender |-> s, to |-> to, topic |-> t, priority |-> p])
        PROVE  BusInv'
    <2>1. PICK e : e = [id |-> nextMsg, sender |-> s, to |-> to, topic |-> t, priority |-> p]
      OBVIOUS
    <2>2. e \in Messages /\ Send(e)
      BY <1>5, <2>1 DEF Messages, BusInv, BusTypes
    <2> QED
      BY <2>2, SendKeeps
  <1>6. CASE UNCHANGED busVars
    <2>1. UNCHANGED <<boxes, nextMsg, stats, received, addressed>> /\ DOMAIN subs' = DOMAIN subs
      BY <1>6 DEF busVars
    <2> QED
      BY <2>1, <1>3
  <1> QED
    BY <1>1, <1>2, <1>4, <1>5, <1>6 DEF BusNext

(* A mailbox is by urgency and, among equals, first in first out; every copy *)
(* of a message was delivered to whom it was for or is counted as dropped;   *)
(* no mailbox is deeper than it may be: for any agents, topics, priorities   *)
(* and depth, however sends, receptions and registrations alternate          *)
(* (swarm_bus.rs, deliver and recv).                                         *)
THEOREM MailIsKeptAlways == BusSpec => []MailIsKept
  <1>1. BusInit => BusInv
    <2> SUFFICES ASSUME BusInit PROVE BusInv
      OBVIOUS
    <2>1. Registered = {} /\ DOMAIN subs = {}
      BY DEF BusInit, Registered
    <2>2. Places = {} /\ IsFiniteSet({}) /\ Cardinality({}) = 0
      BY <2>1, FS_EmptySet DEF Places
    <2>3. received \in [BusAgent -> Seq(Messages)] /\ \A a \in BusAgent : received[a] = <<>>
      BY DEF BusInit
    <2>4. nextMsg = 1 /\ addressed = {} /\ stats = [delivered |-> 0, dropped |-> 0]
      BY DEF BusInit
    <2>5. BusTypes
      BY <2>1, <2>2, <2>3, <2>4 DEF BusTypes
    <2>6. Counted
      BY <2>2, <2>4 DEF Counted
    <2> QED
      BY <2>1, <2>3, <2>4, <2>5, <2>6 DEF BusInv
  <1>2. BusInv => MailIsKept
    <2> SUFFICES ASSUME BusInv PROVE MailIsKept
      OBVIOUS
    <2>1. MailInOrder
      BY DEF BusInv, Orderly, ByUrgency, Fifo, MailInOrder
    <2>2. MailAccounted
      BY DEF BusInv, Orderly, Meant, Counted, MailAccounted
    <2> QED
      BY <2>1, <2>2 DEF MailIsKept
  <1> QED
    BY <1>1, <1>2, BusInvKept, PTL DEF BusSpec

-----------------------------------------------------------------------------
(* The task graph. *)

TasksOf(V) == Seq([state : TaskStates, agent : V])

TaskTypes ==
    /\ Len(tasks) \in Nat /\ Len(deps) = Len(tasks)
    /\ \E V : tasks \in TasksOf(V)
    /\ deps \in Seq(SUBSET Nat)
    /\ \A t \in TaskIds : deps[t] \subseteq TaskIds

TaskInv == TaskTypes /\ TasksWait

(* More values for the agent. *)
LEMMA ManyAgents ==
    ASSUME NEW V, NEW W, V \subseteq W, NEW s \in TasksOf(V)
    PROVE  s \in TasksOf(W)
  <1>1. PICK P, Q : P = [state : TaskStates, agent : V] /\ Q = [state : TaskStates, agent : W]
    OBVIOUS
  <1>2. P \subseteq Q
    BY <1>1
  <1>3. s \in Seq(P)
    BY <1>1 DEF TasksOf
  <1>4. s \in Seq(Q)
    BY <1>2, <1>3
  <1> QED
    BY <1>1, <1>4 DEF TasksOf

(* Only what is ready goes to an agent. *)
LEMMA AscendingAre ==
    ASSUME NEW ids, Len(tasks) \in Nat,
           NEW k \in DOMAIN Ascending(ids)
    PROVE  Ascending(ids)[k] \in ids
  <1>1. PICK s, r : s = [t \in TaskIds |-> t] /\ r = Retained(s, ids)
    OBVIOUS
  <1>2. s \in Seq(Nat) /\ r = Ascending(ids)
    BY <1>1 DEF Ascending, TaskIds
  <1>3. /\ r \in Seq(Nat)
        /\ \A x : (\E i \in 1 .. Len(r) : r[i] = x) <=> x \in ids /\ \E i \in 1 .. Len(s) : s[i] = x
    <2>1. r \in Seq(Nat) /\ Keeps(s, ids, r)
      BY <1>1, <1>2, RetainedIs
    <2> QED
      BY <2>1 DEF Keeps
  <1>4. k \in 1 .. Len(r)
    BY <1>2, <1>3
  <1>5. r[k] \in ids
    BY <1>3, <1>4
  <1> QED
    BY <1>2, <1>5

(* update_readiness() makes a task ready when all it depends on is done,    *)
(* and leaves what was ready or beyond as it was.                           *)
LEMMA ReadinessMeans ==
    ASSUME NEW t, NEW done, tasks[t].state \in TaskStates, NEW s, s = Readiness(t, done)
    PROVE  /\ s \in TaskStates
           /\ s \in {"Ready", "InProgress"} =>
                 tasks[t].state \in {"Ready", "InProgress"} \/ deps[t] \subseteq done
           /\ s = "Completed" <=> tasks[t].state = "Completed"
  BY DEF Readiness, Satisfied, TaskStates

(* A step after which nothing completed is undone, and what waits no more    *)
(* waited no more before or has all it depends on.                           *)
LEMMA WaitingKept ==
    ASSUME TaskInv, deps' = deps, late' = late, Len(tasks') = Len(tasks),
           \E V : tasks' \in TasksOf(V),
           \A t \in TaskIds : tasks[t].state = "Completed" => tasks'[t].state = "Completed",
           \A t \in TaskIds : tasks'[t].state \in {"Ready", "InProgress"} =>
               \/ tasks[t].state \in {"Ready", "InProgress"}
               \/ \A d \in deps[t] : tasks'[d].state = "Completed"
    PROVE  TaskInv'
  <1>1. TaskIds' = TaskIds
    BY DEF TaskIds
  <1>2. TaskTypes'
    BY <1>1 DEF TaskInv, TaskTypes
  <1>3. ASSUME NEW t \in TaskIds, tasks'[t].state \in {"Ready", "InProgress"}, NEW d \in deps[t]
        PROVE  tasks'[d].state = "Completed" \/ <<t, d>> \in late
    <2>1. d \in TaskIds
      BY DEF TaskInv, TaskTypes
    <2>2. ASSUME tasks[t].state \in {"Ready", "InProgress"}
          PROVE  tasks'[d].state = "Completed" \/ <<t, d>> \in late
      <3>1. tasks[d].state = "Completed" \/ <<t, d>> \in late
        BY <2>2 DEF TaskInv, TasksWait
      <3> QED
        BY <3>1, <2>1
    <2> QED
      BY <1>3, <2>2
  <1>4. TasksWait'
    BY <1>1, <1>3 DEF TasksWait
  <1> QED
    BY <1>2, <1>4 DEF TaskInv

(* A task is added. *)
LEMMA AddTaskKeeps ==
    ASSUME TaskInv, AddTask
    PROVE  TaskInv'
  <1>1. PICK n : n = Len(tasks)
    OBVIOUS
  <1>2. PICK x : x = [state |-> "Pending", agent |-> 0]
    OBVIOUS
  <1>3. /\ n \in Nat /\ Len(deps) = n /\ deps \in Seq(SUBSET Nat) /\ x.state = "Pending"
        /\ tasks' = Append(tasks, x) /\ deps' = Append(deps, {}) /\ late' = late
    BY <1>1, <1>2 DEF AddTask, TaskInv, TaskTypes
  <1>t. PICK W : tasks \in TasksOf(W) /\ 0 \in W
    <2>1. PICK V : tasks \in TasksOf(V)
      BY DEF TaskInv, TaskTypes
    <2>2. PICK W : W = V \cup {0}
      OBVIOUS
    <2>3. tasks \in TasksOf(W)
      BY <2>1, <2>2, ManyAgents
    <2> QED
      BY <2>2, <2>3
  <1>4. /\ tasks' \in TasksOf(W) /\ Len(tasks') = n + 1
        /\ tasks'[n + 1] = x /\ \A i \in 1 .. n : tasks'[i] = tasks[i]
    <2>1. x \in [state : TaskStates, agent : W]
      BY <1>2, <1>t DEF TaskStates
    <2> QED
      BY <2>1, <1>1, <1>3, <1>t DEF TasksOf
  <1>5. /\ deps' \in Seq(SUBSET Nat) /\ Len(deps') = n + 1
        /\ deps'[n + 1] = {} /\ \A i \in 1 .. n : deps'[i] = deps[i]
    BY <1>3
  <1>6. TaskIds = 1 .. n /\ TaskIds' = 1 .. n + 1 /\ \A i \in 1 .. n + 1 : i \in 1 .. n \/ i = n + 1
    BY <1>1, <1>3, <1>4 DEF TaskIds
  <1>7. ASSUME NEW t \in TaskIds' PROVE deps'[t] \subseteq 1 .. n
    BY <1>5, <1>6 DEF TaskInv, TaskTypes
  <1>8. ASSUME NEW t \in TaskIds', tasks'[t].state \in {"Ready", "InProgress"}, NEW d \in deps'[t]
        PROVE  tasks'[d].state = "Completed" \/ <<t, d>> \in late'
    <2>1. t \in TaskIds /\ tasks'[t] = tasks[t] /\ deps'[t] = deps[t]
      BY <1>3, <1>4, <1>5, <1>6, <1>8
    <2>2. d \in TaskIds /\ tasks'[d] = tasks[d]
      BY <1>4, <1>6, <1>7
    <2>3. tasks[d].state = "Completed" \/ <<t, d>> \in late
      BY <2>1, <1>8 DEF TaskInv, TasksWait
    <2> QED
      BY <2>2, <2>3, <1>3
  <1>9. TaskTypes'
    <2>1. ASSUME NEW t \in TaskIds' PROVE deps'[t] \subseteq TaskIds'
      BY <1>3, <1>6, <1>7
    <2>2. Len(tasks') \in Nat /\ Len(deps') = Len(tasks')
      BY <1>3, <1>4, <1>5
    <2> QED
      BY <2>1, <2>2, <1>4, <1>5 DEF TaskTypes
  <1>10. TasksWait'
    BY <1>8 DEF TasksWait
  <1> QED
    BY <1>9, <1>10 DEF TaskInv

(* A dependency is added. *)
LEMMA AddDepKeeps ==
    ASSUME TaskInv, NEW t \in TaskIds, NEW d \in TaskIds, AddDep(t, d)
    PROVE  TaskInv'
  <1>1. /\ tasks' = tasks /\ deps' = [deps EXCEPT ![t] = @ \cup {d}]
        /\ late' = IF tasks[t].state \in {"Pending", "Blocked"} THEN late ELSE late \cup {<<t, d>>}
    BY DEF AddDep
  <1>2. /\ TaskIds' = TaskIds /\ TaskIds \subseteq Nat /\ deps \in Seq(SUBSET Nat) /\ t \in 1 .. Len(deps)
        /\ DOMAIN deps = TaskIds
    BY <1>1 DEF TaskIds, TaskInv, TaskTypes
  <1>3. PICK x : x = deps[t] \cup {d}
    OBVIOUS
  <1>4. /\ deps' \in Seq(SUBSET Nat) /\ Len(deps') = Len(deps) /\ deps'[t] = x
        /\ \A u \in TaskIds : u # t => deps'[u] = deps[u]
    BY <1>1, <1>2, <1>3
  <1>5. TaskTypes'
    BY <1>1, <1>2, <1>3, <1>4 DEF TaskInv, TaskTypes
  <1>6. ASSUME NEW u \in TaskIds, tasks[u].state \in {"Ready", "InProgress"}, NEW e \in deps'[u]
        PROVE  tasks[e].state = "Completed" \/ <<u, e>> \in late'
    <2>1. late \subseteq late'
      BY <1>1
    <2>2. ASSUME e \in deps[u] PROVE tasks[e].state = "Completed" \/ <<u, e>> \in late'
      BY <1>6, <2>1, <2>2 DEF TaskInv, TasksWait
    <2>3. ASSUME e \notin deps[u] PROVE <<u, e>> \in late'
      <3>1. u = t /\ e = d
        BY <1>3, <1>4, <2>3
      <3> QED
        BY <3>1, <1>1, <1>6
    <2> QED
      BY <2>2, <2>3
  <1>7. TasksWait'
    BY <1>1, <1>2, <1>6 DEF TasksWait
  <1> QED
    BY <1>5, <1>7 DEF TaskInv

(* The ready tasks go to agents. *)
LEMMA AssignAgentsKeeps ==
    ASSUME TaskInv, AssignAgents
    PROVE  TaskInv'
  <1> DEFINE updated == UpdateReadiness
             ready == Ascending({t \in TaskIds : updated[t].state = "Ready"})
             taken == Placement(ready)
  <1>1. updated = UpdateReadiness
    OBVIOUS
  <1>2. ready = Ascending({t \in TaskIds : updated[t].state = "Ready"})
    OBVIOUS
  <1>4. /\ tasks' = [t \in TaskIds |->
             IF \E k \in DOMAIN ready : k <= Len(taken) /\ ready[k] = t
             THEN [updated[t] EXCEPT !.state = "InProgress",
                      !.agent = taken[CHOOSE k \in DOMAIN ready : ready[k] = t]]
             ELSE updated[t]]
        /\ deps' = deps /\ late' = late
    BY DEF AssignAgents
  <1> HIDE DEF updated, ready, taken
  <1>5. PICK agentOf : agentOf = [t \in TaskIds |-> taken[CHOOSE k \in DOMAIN ready : ready[k] = t]]
    OBVIOUS
  <1>6. PICK given : given = {t \in TaskIds : \E k \in DOMAIN ready : k <= Len(taken) /\ ready[k] = t}
    OBVIOUS
  <1>7. /\ tasks' = [t \in TaskIds |->
             IF t \in given THEN [updated[t] EXCEPT !.state = "InProgress", !.agent = agentOf[t]]
                            ELSE updated[t]]
        /\ \A t \in given : t \in TaskIds /\ \E k \in DOMAIN ready : ready[k] = t
    BY <1>4, <1>5, <1>6
  <1>8. PICK V : tasks \in TasksOf(V)
    BY DEF TaskInv, TaskTypes
  <1>9. Len(tasks) \in Nat /\ \A t \in TaskIds : tasks[t] \in [state : TaskStates, agent : V]
    <2>1. tasks \in Seq([state : TaskStates, agent : V])
      BY <1>8 DEF TasksOf
    <2> QED
      BY <2>1, SeqElements DEF TaskIds
  <1>10. PICK done : done = Done
    OBVIOUS
  <1>11. ASSUME NEW t \in TaskIds
         PROVE  /\ updated[t] \in [state : TaskStates, agent : V]
                /\ updated[t].state \in {"Ready", "InProgress"} =>
                       tasks[t].state \in {"Ready", "InProgress"} \/ deps[t] \subseteq done
                /\ updated[t].state = "Completed" <=> tasks[t].state = "Completed"
    <2>1. PICK s : s = Readiness(t, done)
      OBVIOUS
    <2>2. updated[t] = [tasks[t] EXCEPT !.state = s]
      BY <1>1, <1>10, <2>1 DEF UpdateReadiness
    <2>3. tasks[t].state \in TaskStates
      BY <1>9
    <2>4. /\ s \in TaskStates
          /\ s \in {"Ready", "InProgress"} =>
                 tasks[t].state \in {"Ready", "InProgress"} \/ deps[t] \subseteq done
          /\ s = "Completed" <=> tasks[t].state = "Completed"
      BY <2>1, <2>3, ReadinessMeans
    <2>5. updated[t].state = s /\ updated[t] \in [state : TaskStates, agent : V]
      BY <2>2, <2>4, <1>9
    <2> QED
      BY <2>4, <2>5
  <1>12. ASSUME NEW t \in given PROVE updated[t].state = "Ready"
    <2>1. PICK ids : ids = {u \in TaskIds : updated[u].state = "Ready"}
      OBVIOUS
    <2>2. PICK k \in DOMAIN Ascending(ids) : Ascending(ids)[k] = t
      BY <1>2, <1>7, <2>1
    <2>3. t \in ids
      BY <2>2, <1>9, AscendingAre
    <2> QED
      BY <2>1, <2>3
  <1>13. PICK W : W = V \cup {agentOf[t] : t \in TaskIds}
    OBVIOUS
  <1>14. ASSUME NEW t \in TaskIds
         PROVE  /\ tasks'[t] \in [state : TaskStates, agent : W]
                /\ t \in given => tasks'[t].state = "InProgress"
                /\ t \notin given => tasks'[t].state = updated[t].state
    <2>1. CASE t \in given
      <3>1. tasks'[t] = [updated[t] EXCEPT !.state = "InProgress", !.agent = agentOf[t]]
        BY <1>7, <2>1
      <3> QED
        BY <3>1, <2>1, <1>11, <1>13 DEF TaskStates
    <2>2. CASE t \notin given
      <3>1. tasks'[t] = updated[t]
        BY <1>7, <2>2
      <3> QED
        BY <3>1, <2>2, <1>11, <1>13
    <2> QED
      BY <2>1, <2>2
  <1>15. tasks' \in TasksOf(W) /\ Len(tasks') = Len(tasks)
    <2>1. PICK n : n = Len(tasks)
      OBVIOUS
    <2>2. n \in Nat /\ DOMAIN tasks' = 1 .. n /\ tasks' = [t \in 1 .. n |-> tasks'[t]]
      BY <2>1, <1>7, <1>9 DEF TaskIds
    <2>3. PICK P, s : P = [state : TaskStates, agent : W] /\ s = tasks'
      OBVIOUS
    <2>4. s = [i \in 1 .. n |-> s[i]] /\ \A i \in 1 .. n : s[i] \in P
      BY <2>1, <2>2, <2>3, <1>14 DEF TaskIds
    <2>5. s \in Seq(P) /\ Len(s) = n
      BY <2>2, <2>4, SeqFromElements
    <2> QED
      BY <2>1, <2>3, <2>5 DEF TasksOf
  <1>16. \A t \in TaskIds : tasks[t].state = "Completed" => tasks'[t].state = "Completed"
    BY <1>11, <1>12, <1>14
  <1>17. ASSUME NEW t \in TaskIds, tasks'[t].state \in {"Ready", "InProgress"}
         PROVE  \/ tasks[t].state \in {"Ready", "InProgress"}
                \/ \A d \in deps[t] : tasks'[d].state = "Completed"
    <2>1. tasks[t].state \in {"Ready", "InProgress"} \/ deps[t] \subseteq done
      BY <1>11, <1>12, <1>14, <1>17
    <2>2. \A d \in done : tasks'[d].state = "Completed"
      BY <1>10, <1>16 DEF Done
    <2> QED
      BY <2>1, <2>2
  <1> QED
    BY <1>4, <1>15, <1>16, <1>17, WaitingKept

(* A task completes, and what waited for it alone is ready. *)
LEMMA CompleteTaskKeeps ==
    ASSUME TaskInv, NEW t \in TaskIds, CompleteTask(t)
    PROVE  TaskInv'
  <1>1. PICK done : done = Done \cup {t}
    OBVIOUS
  <1>2. /\ deps' = deps /\ late' = late
        /\ tasks' = [u \in TaskIds |-> IF u = t THEN [tasks[u] EXCEPT !.state = "Completed"]
                                       ELSE [tasks[u] EXCEPT !.state = Readiness(u, done)]]
    BY <1>1 DEF CompleteTask
  <1>3. PICK V : tasks \in TasksOf(V)
    BY DEF TaskInv, TaskTypes
  <1>4. Len(tasks) \in Nat /\ \A u \in TaskIds : tasks[u] \in [state : TaskStates, agent : V]
    <2>1. tasks \in Seq([state : TaskStates, agent : V])
      BY <1>3 DEF TasksOf
    <2> QED
      BY <2>1, SeqElements DEF TaskIds
  <1>5. ASSUME NEW u \in TaskIds
        PROVE  /\ tasks'[u] \in [state : TaskStates, agent : V]
               /\ u = t => tasks'[u].state = "Completed"
               /\ tasks[u].state = "Completed" => tasks'[u].state = "Completed"
               /\ tasks'[u].state \in {"Ready", "InProgress"} =>
                      tasks[u].state \in {"Ready", "InProgress"} \/ deps[u] \subseteq done
    <2>1. CASE u = t
      <3>1. tasks'[u] = [tasks[u] EXCEPT !.state = "Completed"]
        BY <1>2, <2>1
      <3> QED
        BY <3>1, <1>4 DEF TaskStates
    <2>2. CASE u # t
      <3>1. PICK s : s = Readiness(u, done)
        OBVIOUS
      <3>2. tasks'[u] = [tasks[u] EXCEPT !.state = s]
        BY <1>2, <2>2, <3>1
      <3>3. tasks[u].state \in TaskStates
        BY <1>4
      <3>4. /\ s \in TaskStates
            /\ s \in {"Ready", "InProgress"} =>
                   tasks[u].state \in {"Ready", "InProgress"} \/ deps[u] \subseteq done
            /\ s = "Completed" <=> tasks[u].state = "Completed"
        BY <3>1, <3>3, ReadinessMeans
      <3>5. tasks'[u].state = s /\ tasks'[u] \in [state : TaskStates, agent : V]
        BY <3>2, <3>4, <1>4
      <3> QED
        BY <3>4, <3>5, <2>2
    <2> QED
      BY <2>1, <2>2
  <1>6. tasks' \in TasksOf(V) /\ Len(tasks') = Len(tasks)
    <2>1. PICK n : n = Len(tasks)
      OBVIOUS
    <2>2. n \in Nat /\ DOMAIN tasks' = 1 .. n /\ tasks' = [u \in 1 .. n |-> tasks'[u]]
      BY <2>1, <1>2, <1>4 DEF TaskIds
    <2>3. PICK P, s : P = [state : TaskStates, agent : V] /\ s = tasks'
      OBVIOUS
    <2>4. s = [i \in 1 .. n |-> s[i]] /\ \A i \in 1 .. n : s[i] \in P
      BY <2>1, <2>2, <2>3, <1>5 DEF TaskIds
    <2>5. s \in Seq(P) /\ Len(s) = n
      BY <2>2, <2>4, SeqFromElements
    <2> QED
      BY <2>1, <2>3, <2>5 DEF TasksOf
  <1>7. \A d \in done : tasks'[d].state = "Completed"
    BY <1>1, <1>5 DEF Done
  <1>8. ASSUME NEW u \in TaskIds, tasks'[u].state \in {"Ready", "InProgress"}
        PROVE  \/ tasks[u].state \in {"Ready", "InProgress"}
               \/ \A d \in deps[u] : tasks'[d].state = "Completed"
    BY <1>5, <1>7, <1>8
  <1>9. \A u \in TaskIds : tasks[u].state = "Completed" => tasks'[u].state = "Completed"
    BY <1>5
  <1> QED
    BY <1>2, <1>6, <1>8, <1>9, WaitingKept

(* Every step keeps the invariant. *)
LEMMA TaskInvKept == TaskInv /\ [TaskNext]_taskVars => TaskInv'
  <1> SUFFICES ASSUME TaskInv, [TaskNext]_taskVars PROVE TaskInv'
    OBVIOUS
  <1>1. CASE AddTask
    BY <1>1, AddTaskKeeps
  <1>2. ASSUME NEW t \in TaskIds, NEW d \in TaskIds, AddDep(t, d) PROVE TaskInv'
    BY <1>2, AddDepKeeps
  <1>3. CASE AssignAgents
    BY <1>3, AssignAgentsKeeps
  <1>4. ASSUME NEW t \in TaskIds, CompleteTask(t) PROVE TaskInv'
    BY <1>4, CompleteTaskKeeps
  <1>5. CASE UNCHANGED taskVars
    BY <1>5 DEF taskVars, TaskInv, TaskTypes, TasksWait, TaskIds
  <1> QED
    BY <1>1, <1>2, <1>3, <1>4, <1>5 DEF TaskNext

(* Whatever tasks and edges come while agents work, a task that is ready or  *)
(* started has all it depends on complete, but for edges that came later     *)
(* (decompose.rs, update_readiness, assign_agents and complete_task).        *)
THEOREM TasksWaitAlways == TaskSpec => []TasksWait
  <1>1. TaskInit => TaskInv
    <2> SUFFICES ASSUME TaskInit PROVE TaskInv
      OBVIOUS
    <2>1. tasks = <<>> /\ deps = <<>> /\ Len(tasks) = 0 /\ TaskIds = {}
      BY DEF TaskInit, TaskIds
    <2>2. <<>> \in TasksOf({})
      BY DEF TasksOf
    <2> QED
      BY <2>1, <2>2 DEF TaskInv, TaskTypes, TasksWait
  <1>2. TaskInv => TasksWait
    BY DEF TaskInv
  <1> QED
    BY <1>1, <1>2, TaskInvKept, PTL DEF TaskSpec

-----------------------------------------------------------------------------
(* Plans of the task graph. *)

(* A recursion along 1 .. n has a result.  G[k] is its k-th step. *)
Results(f, V, n, x, G) ==
    f \in [0 .. n -> V] /\ f[0] = x /\ \A k \in 1 .. n : f[k] = G[k][f[k - 1]]

LEMMA Recursion ==
    ASSUME NEW V, NEW n \in Nat, NEW x \in V, NEW G \in [1 .. n -> [V -> V]]
    PROVE  \E f : Results(f, V, n, x, G)
  <1> DEFINE Runs(f, m) == /\ f \in [0 .. m -> V] /\ f[0] = x
                           /\ \A k \in 1 .. m : f[k] = G[k][f[k - 1]]
             Bad == {m \in Nat : m <= n /\ ~\E f : Runs(f, m)}
  <1>1. SUFFICES ASSUME Bad # {} PROVE FALSE
    <2>1. n \notin Bad => \E f : Runs(f, n)
      OBVIOUS
    <2> QED
      BY <2>1 DEF Results
  <1>2. PICK m \in Bad : \A i \in Bad : m <= i
    <2>1. Bad \in SUBSET Nat
      OBVIOUS
    <2> HIDE DEF Bad
    <2> QED
      BY <1>1, <2>1, LeastOf
  <1>3. m \in Nat /\ m <= n /\ ~\E f : Runs(f, m)
    BY <1>2
  <1>4. m # 0
    <2>1. ASSUME m = 0 PROVE FALSE
      <3>1. PICK f : f = [k \in 0 .. 0 |-> x]
        OBVIOUS
      <3>2. Runs(f, 0)
        BY <3>1
      <3> QED
        BY <1>3, <2>1, <3>2
    <2> QED
      BY <2>1
  <1>5. m - 1 \in Nat /\ m - 1 <= n /\ ~(m <= m - 1)
    BY <1>3, <1>4
  <1>6. PICK f : Runs(f, m - 1)
    <2>1. m - 1 \notin Bad
      BY <1>2, <1>5
    <2> QED
      BY <1>5, <2>1
  <1>7. f[m - 1] \in V /\ m \in 1 .. n
    BY <1>3, <1>4, <1>5, <1>6
  <1>8. PICK y : y = G[m][f[m - 1]]
    OBVIOUS
  <1>9. y \in V
    <2>1. G[m] \in [V -> V]
      BY <1>7
    <2> QED
      BY <1>7, <1>8, <2>1
  <1>10. PICK g : g = [k \in 0 .. m |-> IF k = m THEN y ELSE f[k]]
    OBVIOUS
  <1>11. /\ g \in [0 .. m -> V] /\ g[m] = y
         /\ \A k \in 0 .. m - 1 : g[k] = f[k]
    BY <1>3, <1>5, <1>6, <1>9, <1>10
  <1>12. g[0] = x
    BY <1>4, <1>3, <1>6, <1>11
  <1>13. ASSUME NEW k \in 1 .. m PROVE g[k] = G[k][g[k - 1]]
    <2>1. CASE k = m
      <3>1. g[k - 1] = f[m - 1]
        BY <1>5, <1>11, <2>1
      <3> QED
        BY <1>8, <1>11, <2>1, <3>1
    <2>2. CASE k # m
      <3>1. k \in 1 .. m - 1 /\ k \in 0 .. m - 1 /\ k - 1 \in 0 .. m - 1
        BY <1>3, <2>2
      <3> QED
        BY <1>6, <1>11, <3>1
    <2> QED
      BY <2>1, <2>2
  <1>14. Runs(g, m)
    BY <1>11, <1>12, <1>13
  <1> QED
    BY <1>3, <1>14

(* The ids of the tasks. *)
LEMMA IdsAre ==
    ASSUME TaskTypes, NEW n, n = Len(tasks)
    PROVE  /\ n \in Nat /\ TaskIds = 1 .. n
           /\ IsFiniteSet(TaskIds) /\ Cardinality(TaskIds) = n
           /\ \A t \in TaskIds : deps[t] \subseteq TaskIds
  <1>1. n \in Nat /\ TaskIds = 1 .. n /\ \A t \in TaskIds : deps[t] \subseteq TaskIds
    BY DEF TaskTypes, TaskIds
  <1>2. IsFiniteSet(1 .. n) /\ Cardinality(1 .. n) = n
    <2>1. /\ IsFiniteSet(1 .. n)
          /\ Cardinality(1 .. n) = IF 1 > n THEN 0 ELSE n - 1 + 1
      <3>1. 1 \in Int /\ n \in Int
        BY <1>1
      <3> QED
        BY <3>1, FS_Interval
    <2> QED
      BY <1>1, <2>1
  <1> QED
    BY <1>1, <1>2

(* The tasks whose dependencies are all in w. *)
Freed(w) == {t \in TaskIds : deps[t] \subseteq w}

(* w[k] has the tasks of the first k waves. *)
Waves(w, n) ==
    /\ w \in [0 .. n -> SUBSET TaskIds] /\ w[0] = {}
    /\ \A k \in 1 .. n : w[k - 1] \subseteq w[k] /\ w[k] = Freed(w[k - 1])

(* A task is in a wave when its dependencies are in the waves before. *)
LEMMA WavesAre ==
    ASSUME TaskTypes, NEW n, n = Len(tasks), NEW w, w = WavesUpTo
    PROVE  Waves(w, n)
  <1>1. n \in Nat
    BY IdsAre
  <1>2. PICK V, G : V = SUBSET TaskIds /\ G = [k \in 1 .. n |-> [v \in V |-> v \cup Freed(v)]]
    OBVIOUS
  <1>3. {} \in V /\ \A v \in V : v \cup Freed(v) \in V
    BY <1>2 DEF Freed
  <1>4. G \in [1 .. n -> [V -> V]]
    BY <1>2, <1>3
  <1>50. PICK f : Results(f, V, n, {}, G)
    BY <1>1, <1>3, <1>4, Recursion
  <1>5. f \in [0 .. n -> V] /\ f[0] = {} /\ \A k \in 1 .. n : f[k] = G[k][f[k - 1]]
    BY <1>50 DEF Results
  <1>6. \A k \in 1 .. n : f[k] = f[k - 1] \cup Freed(f[k - 1])
    <2> SUFFICES ASSUME NEW k \in 1 .. n PROVE f[k] = f[k - 1] \cup Freed(f[k - 1])
      OBVIOUS
    <2>1. f[k - 1] \in V
      BY <1>1, <1>5
    <2>2. G[k] = [v \in V |-> v \cup Freed(v)]
      BY <1>2
    <2> QED
      BY <1>5, <2>1, <2>2
  <1> DEFINE Is(z) == z = [k \in 0 .. n |-> IF k = 0 THEN {}
                                            ELSE z[k - 1] \cup {t \in TaskIds : deps[t] \subseteq z[k - 1]}]
  <1>7. Is(f)
    BY <1>5, <1>6 DEF Freed
  <1>8. Is(CHOOSE z : Is(z))
    BY <1>7
  <1>9. WavesUpTo = CHOOSE z : Is(z)
    BY DEF WavesUpTo
  <1>11. Is(w)
    BY <1>8, <1>9
  <1>12. w = [k \in 0 .. n |-> w[k]] /\ w[0] = {}
    BY <1>1, <1>11
  <1>13. \A k \in 1 .. n : w[k] = w[k - 1] \cup Freed(w[k - 1])
    <2> SUFFICES ASSUME NEW k \in 1 .. n PROVE w[k] = w[k - 1] \cup Freed(w[k - 1])
      OBVIOUS
    <2>1. k \in 0 .. n /\ k # 0
      BY <1>1
    <2>2. w[k] = IF k = 0 THEN {} ELSE w[k - 1] \cup {t \in TaskIds : deps[t] \subseteq w[k - 1]}
      BY <1>11, <2>1
    <2> QED
      BY <2>1, <2>2 DEF Freed
  <1> HIDE DEF Is
  <1>14. \A k \in 1 .. n : w[k] = Freed(w[k - 1])
    <2> DEFINE Bad == {k \in Nat : k \in 1 .. n /\ w[k] # Freed(w[k - 1])}
    <2>1. SUFFICES ASSUME Bad # {} PROVE FALSE
      BY <1>1
    <2>2. PICK k \in Bad : \A i \in Bad : k <= i
      <3>1. Bad \in SUBSET Nat
        OBVIOUS
      <3> HIDE DEF Bad
      <3> QED
        BY <2>1, <3>1, LeastOf
    <2>3. k \in 1 .. n /\ k \in Nat /\ w[k] # Freed(w[k - 1])
      BY <2>2
    <2>4. k # 1
      BY <2>3, <1>12, <1>13
    <2>5. k - 1 \in 1 .. n /\ k - 1 \in Nat /\ ~(k <= k - 1)
      BY <1>1, <2>3, <2>4
    <2>6. k - 1 \notin Bad
      BY <2>2, <2>5
    <2>7. PICK u, v : u = w[k - 1] /\ v = w[(k - 1) - 1]
      OBVIOUS
    <2>8. u = Freed(v) /\ u = v \cup Freed(v)
      BY <2>5, <2>6, <2>7, <1>13
    <2>9. Freed(v) \subseteq Freed(u)
      BY <2>8 DEF Freed
    <2>10. w[k] = u \cup Freed(u)
      BY <2>3, <2>7, <1>13
    <2> QED
      BY <2>3, <2>7, <2>8, <2>9, <2>10
  <1>15. \A k \in 0 .. n : w[k] \in SUBSET TaskIds
    <2>1. \A k \in 0 .. n : k = 0 \/ k \in 1 .. n
      BY <1>1
    <2> QED
      BY <1>12, <1>14, <2>1 DEF Freed
  <1>16. w \in [0 .. n -> SUBSET TaskIds]
    BY <1>12, <1>15
  <1> QED
    BY <1>12, <1>13, <1>14, <1>16 DEF Waves

(* Without a cycle every task comes into a wave: there is one more with each. *)
LEMMA AllInWaves ==
    ASSUME TaskTypes, NEW n, n = Len(tasks), NEW w, Waves(w, n), ~Cyclic
    PROVE  w[n] = TaskIds
  <1>1. n \in Nat /\ IsFiniteSet(TaskIds) /\ Cardinality(TaskIds) = n
    BY IdsAre
  <1>2. \A k \in 0 .. n : /\ w[k] \subseteq TaskIds /\ IsFiniteSet(w[k])
                          /\ Cardinality(w[k]) \in Nat /\ Cardinality(w[k]) <= n
    <2> SUFFICES ASSUME NEW k \in 0 .. n
                 PROVE  /\ w[k] \subseteq TaskIds /\ IsFiniteSet(w[k])
                        /\ Cardinality(w[k]) \in Nat /\ Cardinality(w[k]) <= n
      OBVIOUS
    <2>1. PICK u : u = w[k] /\ u \subseteq TaskIds
      BY DEF Waves
    <2>2. IsFiniteSet(u) /\ Cardinality(u) <= n
      BY <1>1, <2>1, FS_Subset
    <2>3. Cardinality(u) \in Nat
      BY <2>2, FS_CardinalityType
    <2> QED
      BY <2>1, <2>2, <2>3
  <1>3. SUFFICES ASSUME w[n] # TaskIds PROVE FALSE
    OBVIOUS
  <1> DEFINE Bad == {k \in Nat : k \in 0 .. n /\ w[k] # TaskIds /\ Cardinality(w[k]) < k}
  <1>4. ASSUME Bad # {} PROVE FALSE
    <2>1. PICK k \in Bad : \A i \in Bad : k <= i
      <3>1. Bad \in SUBSET Nat
        OBVIOUS
      <3> HIDE DEF Bad
      <3> QED
        BY <1>4, <3>1, LeastOf
    <2>2. k \in 0 .. n /\ k \in Nat /\ w[k] # TaskIds /\ Cardinality(w[k]) < k
      BY <2>1
    <2>3. k \in 1 .. n /\ k - 1 \in 0 .. n /\ k - 1 \in Nat /\ ~(k <= k - 1)
      BY <1>1, <1>2, <2>2
    <2>4. k - 1 \notin Bad
      BY <2>1, <2>3
    <2>5. PICK u, v : u = w[k - 1] /\ v = w[k]
      OBVIOUS
    <2>6. u \subseteq v /\ v = Freed(u) /\ v # TaskIds /\ v \subseteq TaskIds
      BY <1>2, <2>2, <2>3, <2>5 DEF Waves
    <2>7. Cardinality(u) >= k - 1 /\ IsFiniteSet(u) /\ IsFiniteSet(v)
          /\ Cardinality(u) \in Nat /\ Cardinality(v) \in Nat /\ Cardinality(v) < k
      <3>1. u # TaskIds
        BY <2>6
      <3>2. Cardinality(u) \in Nat /\ IsFiniteSet(u)
        BY <1>2, <2>3, <2>5
      <3>3. ~(Cardinality(u) < k - 1)
        BY <2>3, <2>4, <2>5, <3>1
      <3>4. Cardinality(v) \in Nat /\ IsFiniteSet(v) /\ Cardinality(v) < k
        BY <1>2, <2>2, <2>5
      <3> QED
        BY <2>2, <3>2, <3>3, <3>4
    <2>8. PICK c : c = TaskIds \ u
      OBVIOUS
    <2>9. c \in SUBSET TaskIds /\ c # {}
      BY <2>6, <2>8
    <2>10. PICK t \in c : deps[t] \cap c = {}
      BY <2>9 DEF Cyclic
    <2>11. t \in v /\ t \notin u
      <3>1. deps[t] \subseteq TaskIds
        BY <2>8, <2>10, IdsAre
      <3> QED
        BY <3>1, <2>6, <2>8, <2>10 DEF Freed
    <2>12. Cardinality(u \cup {t}) = Cardinality(u) + 1 /\ IsFiniteSet(u \cup {t})
      BY <2>7, <2>11, FS_AddElement
    <2>13. Cardinality(u \cup {t}) <= Cardinality(v)
      <3>1. u \cup {t} \subseteq v
        BY <2>6, <2>11
      <3> QED
        BY <3>1, <2>7, FS_Subset
    <2> QED
      BY <2>3, <2>7, <2>12, <2>13
  <1>5. n \in 0 .. n /\ n \notin Bad
    BY <1>1, <1>4
  <1>6. Cardinality(w[n]) = n
    BY <1>1, <1>2, <1>3, <1>5
  <1> QED
    BY <1>1, <1>2, <1>3, <1>5, <1>6, FS_Subset

(* Of a cycle no task comes into a wave. *)
LEMMA CyclesStayOut ==
    ASSUME TaskTypes, NEW n, n = Len(tasks), NEW w, Waves(w, n), w[n] = TaskIds
    PROVE  ~Cyclic
  <1>1. n \in Nat
    BY IdsAre
  <1>2. SUFFICES ASSUME NEW c \in SUBSET TaskIds, c # {}, \A t \in c : deps[t] \cap c # {}
                 PROVE  FALSE
    BY DEF Cyclic
  <1> DEFINE Bad == {k \in Nat : k \in 0 .. n /\ w[k] \cap c # {}}
  <1>3. n \in Bad /\ Bad \in SUBSET Nat
    BY <1>1, <1>2
  <1>4. PICK k \in Bad : \A i \in Bad : k <= i
    <2> HIDE DEF Bad
    <2> QED
      BY <1>3, LeastOf
  <1>5. k \in 0 .. n /\ k \in Nat /\ w[k] \cap c # {}
    BY <1>4
  <1>6. k \in 1 .. n /\ k - 1 \in 0 .. n /\ k - 1 \in Nat /\ ~(k <= k - 1)
    BY <1>1, <1>5 DEF Waves
  <1>7. w[k - 1] \cap c = {}
    BY <1>4, <1>6
  <1>8. PICK t \in c : t \in Freed(w[k - 1])
    BY <1>5, <1>6 DEF Waves
  <1> QED
    BY <1>2, <1>7, <1>8 DEF Freed

(* A chain to a task of the first k waves has at most k tasks. *)
LEMMA ChainsFit ==
    ASSUME TaskTypes, NEW n, n = Len(tasks), NEW w, Waves(w, n),
           NEW j \in 0 .. n, NEW m \in Nat \ {0}, NEW e \in Chains(m), e[m] \in w[j]
    PROVE  m <= j
  <1>1. n \in Nat
    BY IdsAre
  <1> DEFINE Long(k) == \E l \in Nat \ {0} : \E c \in Chains(l) : c[l] \in w[k] /\ l > k
             Bad == {k \in Nat : k \in 0 .. n /\ Long(k)}
  <1>2. SUFFICES ASSUME ~(m <= j) PROVE FALSE
    OBVIOUS
  <1>3. j \in Bad /\ Bad \in SUBSET Nat
    BY <1>1, <1>2
  <1>4. PICK k \in Bad : \A i \in Bad : k <= i
    <2> HIDE DEF Bad
    <2> QED
      BY <1>3, LeastOf
  <1>5. k \in 0 .. n /\ k \in Nat /\ Long(k)
    BY <1>4
  <1>6. PICK l \in Nat \ {0} : \E c \in Chains(l) : c[l] \in w[k] /\ l > k
    BY <1>5
  <1>7. PICK c \in Chains(l) : c[l] \in w[k] /\ l > k
    BY <1>6
  <1>8. k \in 1 .. n /\ k - 1 \in 0 .. n /\ k - 1 \in Nat /\ ~(k <= k - 1)
    BY <1>1, <1>5, <1>7 DEF Waves
  <1>9. /\ l \in Nat /\ l >= 2 /\ l - 1 \in Nat \ {0} /\ l - 1 > k - 1
        /\ l - 1 \in 1 .. l - 1
    BY <1>6, <1>7, <1>8
  <1>10. c \in [1 .. l -> TaskIds] /\ \A i \in 1 .. l - 1 : c[i] \in deps[c[i + 1]]
    BY <1>7 DEF Chains
  <1>11. c[l - 1] \in w[k - 1]
    <2>1. c[l - 1] \in deps[c[l]]
      <3>1. (l - 1) + 1 = l
        BY <1>9
      <3>2. c[l - 1] \in deps[c[(l - 1) + 1]]
        BY <1>9, <1>10
      <3> QED
        BY <3>1, <3>2
    <2>2. c[l] \in Freed(w[k - 1])
      BY <1>7, <1>8 DEF Waves
    <2> QED
      BY <2>1, <2>2 DEF Freed
  <1>12. PICK d : d = [i \in 1 .. l - 1 |-> c[i]]
    OBVIOUS
  <1>13. d \in Chains(l - 1) /\ d[l - 1] = c[l - 1]
    <2>1. d \in [1 .. l - 1 -> TaskIds]
      BY <1>9, <1>10, <1>12
    <2>2. ASSUME NEW i \in 1 .. (l - 1) - 1 PROVE d[i] \in deps[d[i + 1]]
      <3>1. i \in 1 .. l - 1 /\ i + 1 \in 1 .. l - 1
        BY <1>9
      <3> QED
        BY <3>1, <1>10, <1>12
    <2> QED
      BY <2>1, <2>2, <1>9, <1>12 DEF Chains
  <1>14. Long(k - 1)
    BY <1>9, <1>11, <1>13
  <1> QED
    BY <1>4, <1>8, <1>14

(* To a task that is not in the first k waves there is a chain of k + 1. *)
LEMMA ChainsReach ==
    ASSUME TaskTypes, NEW n, n = Len(tasks), NEW w, Waves(w, n),
           NEW j \in 0 .. n, NEW s \in TaskIds, s \notin w[j]
    PROVE  \E c \in Chains(j + 1) : c[j + 1] = s
  <1>1. n \in Nat
    BY IdsAre
  <1> DEFINE Reach(t, k) == \E c \in Chains(k + 1) : c[k + 1] = t
             Bad == {k \in Nat : k \in 0 .. n /\ \E t \in TaskIds : t \notin w[k] /\ ~Reach(t, k)}
  <1>2. SUFFICES ASSUME ~Reach(s, j) PROVE FALSE
    OBVIOUS
  <1>3. j \in Bad /\ Bad \in SUBSET Nat
    BY <1>1, <1>2
  <1>4. PICK k \in Bad : \A i \in Bad : k <= i
    <2> HIDE DEF Bad
    <2> QED
      BY <1>3, LeastOf
  <1>5. PICK t \in TaskIds : t \notin w[k] /\ ~Reach(t, k)
    BY <1>4
  <1>6. k \in 0 .. n /\ k \in Nat
    BY <1>4
  <1>7. CASE k = 0
    <2>1. PICK c : c = [i \in 1 .. 1 |-> t]
      OBVIOUS
    <2>2. c \in [1 .. 1 -> TaskIds] /\ c[1] = t
      BY <2>1
    <2>3. c \in Chains(1)
      BY <2>2 DEF Chains
    <2> QED
      BY <2>2, <2>3, <1>5, <1>7
  <1>8. CASE k # 0
    <2>1. k \in 1 .. n /\ k - 1 \in 0 .. n /\ k - 1 \in Nat /\ ~(k <= k - 1)
      BY <1>1, <1>6, <1>8
    <2>2. t \notin Freed(w[k - 1])
      BY <1>5, <2>1 DEF Waves
    <2>3. PICK d \in deps[t] : d \notin w[k - 1] /\ d \in TaskIds
      BY <2>2, IdsAre DEF Freed
    <2>4. Reach(d, k - 1)
      BY <1>4, <2>1, <2>3
    <2>5. PICK c \in Chains(k) : c[k] = d
      <3>1. (k - 1) + 1 = k
        BY <2>1
      <3> QED
        BY <2>4, <3>1
    <2>6. PICK e : e = [i \in 1 .. k + 1 |-> IF i = k + 1 THEN t ELSE c[i]]
      OBVIOUS
    <2>7. c \in [1 .. k -> TaskIds] /\ \A i \in 1 .. k - 1 : c[i] \in deps[c[i + 1]]
      BY <2>5 DEF Chains
    <2>8. /\ e \in [1 .. k + 1 -> TaskIds] /\ e[k + 1] = t
          /\ \A i \in 1 .. k : e[i] = c[i]
      BY <1>6, <2>6, <2>7
    <2>9. ASSUME NEW i \in 1 .. (k + 1) - 1 PROVE e[i] \in deps[e[i + 1]]
      <3>1. CASE i = k
        BY <2>3, <2>5, <2>8, <1>6, <3>1
      <3>2. CASE i # k
        <4>1. i \in 1 .. k - 1 /\ i \in 1 .. k /\ i + 1 \in 1 .. k
          BY <1>6, <3>2
        <4> QED
          BY <4>1, <2>7, <2>8
      <3> QED
        BY <3>1, <3>2
    <2>10. e \in Chains(k + 1)
      BY <2>8, <2>9 DEF Chains
    <2> QED
      BY <2>8, <2>10, <1>5
  <1> QED
    BY <1>7, <1>8

(* A sequence of different tasks is no longer than there are, and as long    *)
(* only if it has them all.                                                  *)
LEMMA DistinctFits ==
    ASSUME TaskTypes, NEW n, n = Len(tasks), NEW o \in Seq(TaskIds), Distinct(o)
    PROVE  /\ Len(o) \in Nat /\ Len(o) <= n
           /\ Len(o) = n <=> \A t \in TaskIds : \E i \in 1 .. Len(o) : o[i] = t
  <1>1. n \in Nat /\ IsFiniteSet(TaskIds) /\ Cardinality(TaskIds) = n
    BY IdsAre
  <1>2. PICK l : l = Len(o) /\ l \in Nat
    OBVIOUS
  <1>3. o \in [1 .. l -> TaskIds]
    BY <1>2
  <1>4. o \in Injection(1 .. l, TaskIds)
    BY <1>2, <1>3 DEF Injection, IsInjective, Distinct
  <1>5. IsFiniteSet(1 .. l) /\ Cardinality(1 .. l) = l
    <2>1. 1 \in Int /\ l \in Int
      BY <1>2
    <2>2. /\ IsFiniteSet(1 .. l)
          /\ Cardinality(1 .. l) = IF 1 > l THEN 0 ELSE l - 1 + 1
      BY <2>1, FS_Interval
    <2> QED
      BY <1>2, <2>2
  <1>6. /\ Cardinality(1 .. l) <= Cardinality(TaskIds)
        /\ Cardinality(1 .. l) = Cardinality(TaskIds) <=> o \in Surjection(1 .. l, TaskIds)
    BY <1>1, <1>4, FS_Injection
  <1>7. o \in Surjection(1 .. l, TaskIds) <=> \A t \in TaskIds : \E i \in 1 .. l : o[i] = t
    BY <1>3 DEF Surjection
  <1> QED
    BY <1>1, <1>2, <1>5, <1>6, <1>7

TaskIn(q, t) == \E i \in 1 .. Len(q) : q[i] = t

(* Some tasks in the order of their ids. *)
LEMMA AscendingHas ==
    ASSUME TaskTypes, NEW ids \in SUBSET TaskIds, NEW a, a = Ascending(ids)
    PROVE  a \in Seq(TaskIds) /\ Distinct(a) /\ \A t : TaskIn(a, t) <=> t \in ids
  <1>1. PICK n, s : n = Len(tasks) /\ s = [t \in TaskIds |-> t]
    OBVIOUS
  <1>2. n \in Nat /\ TaskIds = 1 .. n
    BY <1>1, IdsAre
  <1>3. /\ s \in Seq(TaskIds) /\ Len(s) = n /\ Distinct(s)
        /\ \A i \in 1 .. n : s[i] = i
    BY <1>1, <1>2 DEF Distinct
  <1>4. a = Retained(s, ids)
    BY <1>1 DEF Ascending
  <1>5. a \in Seq(TaskIds) /\ Keeps(s, ids, a)
    BY <1>3, <1>4, RetainedIs
  <1>6. \A t : t \in ids => \E i \in 1 .. Len(s) : s[i] = t
    BY <1>2, <1>3
  <1> QED
    BY <1>3, <1>5, <1>6 DEF Keeps, TaskIn

(* The first k of a queue. *)
First(q, k) == {t \in TaskIds : \E i \in 1 .. Len(q) : i <= k /\ q[i] = t}

(* What is in the queue when its first k tasks have left it: the tasks with  *)
(* all their dependencies among those, each after its dependencies.          *)
InQueue(q, k) ==
    /\ q \in Seq(TaskIds) /\ Distinct(q)
    /\ \A t \in TaskIds : TaskIn(q, t) <=> deps[t] \subseteq First(q, k)
    /\ \A i \in 1 .. Len(q) : \A d \in deps[q[i]] : \E j \in 1 .. i - 1 : q[j] = d

(* One more leaves, and what waited for it only enters. *)
LEMMA QueueStep ==
    ASSUME TaskTypes, NEW k \in Nat \ {0}, NEW q, InQueue(q, k - 1), Len(q) >= k,
           NEW a, a = Ascending(Released(q[k], {q[i] : i \in 1 .. k - 1}))
    PROVE  InQueue(q \o a, k)
  <1>1. q \in Seq(TaskIds) /\ Distinct(q)
    BY DEF InQueue
  <1>2. PICK l : l = Len(q) /\ l \in Nat /\ k \in 1 .. l /\ \A i \in 1 .. l : q[i] \in TaskIds
    BY <1>1
  <1>3. PICK x, before : x = q[k] /\ before = {q[i] : i \in 1 .. k - 1}
    OBVIOUS
  <1>4. before = First(q, k - 1)
    <2>1. \A i \in 1 .. l : i <= k - 1 <=> i \in 1 .. k - 1
      BY <1>2
    <2>2. \A i \in 1 .. k - 1 : i \in 1 .. l
      BY <1>2
    <2> QED
      BY <1>2, <1>3, <2>1, <2>2 DEF First
  <1>5. PICK ids : ids = Released(x, before)
    OBVIOUS
  <1>6. /\ ids \in SUBSET TaskIds
        /\ \A t \in TaskIds : t \in ids <=> x \in deps[t] /\ deps[t] \subseteq before \cup {x}
    BY <1>5 DEF Released
  <1>7. a = Ascending(ids)
    BY <1>3, <1>5
  <1>8. a \in Seq(TaskIds) /\ Distinct(a) /\ \A t : TaskIn(a, t) <=> t \in ids
    BY <1>6, <1>7, AscendingHas
  <1>9. PICK m : m = Len(a) /\ m \in Nat
    <2>1. a \in Seq(TaskIds)
      BY <1>8
    <2>2. Len(a) \in Nat
      BY <2>1
    <2> QED
      BY <2>2
  <1>10. PICK r : r = q \o a
    OBVIOUS
  <1>11. /\ r \in Seq(TaskIds) /\ Len(r) = l + m
         /\ \A i \in 1 .. l : r[i] = q[i]
         /\ \A i \in 1 .. m : r[l + i] = a[i]
    BY <1>1, <1>2, <1>8, <1>9, <1>10
  <1>12. \A i \in 1 .. l + m : i \in 1 .. l \/ \E j \in 1 .. m : i = l + j
    <2> SUFFICES ASSUME NEW i \in 1 .. l + m, ~(i \in 1 .. l) PROVE \E j \in 1 .. m : i = l + j
      OBVIOUS
    <2>1. i - l \in 1 .. m /\ i = l + (i - l)
      BY <1>2, <1>9
    <2> QED
      BY <2>1
  <1>13. \A i \in 1 .. l : i \in 1 .. l + m
    BY <1>2, <1>9
  <1>14. \A j \in 1 .. m : l + j \in 1 .. l + m
    BY <1>2, <1>9
  <1>15. \A t : TaskIn(r, t) <=> TaskIn(q, t) \/ TaskIn(a, t)
    <2> SUFFICES ASSUME NEW t PROVE TaskIn(r, t) <=> TaskIn(q, t) \/ TaskIn(a, t)
      OBVIOUS
    <2>1. ASSUME TaskIn(r, t) PROVE TaskIn(q, t) \/ TaskIn(a, t)
      <3>1. PICK i \in 1 .. l + m : r[i] = t
        BY <1>11, <2>1 DEF TaskIn
      <3> QED
        BY <1>2, <1>9, <1>11, <1>12, <3>1 DEF TaskIn
    <2>2. ASSUME TaskIn(q, t) PROVE TaskIn(r, t)
      BY <1>2, <1>11, <1>13, <2>2 DEF TaskIn
    <2>3. ASSUME TaskIn(a, t) PROVE TaskIn(r, t)
      BY <1>9, <1>11, <1>14, <2>3 DEF TaskIn
    <2> QED
      BY <2>1, <2>2, <2>3
  <1>16. First(r, k) = before \cup {x}
    <2>1. \A i \in 1 .. l + m : i <= k <=> i \in 1 .. k - 1 \/ i = k
      BY <1>2
    <2>2. \A i \in 1 .. k - 1 : i \in 1 .. l /\ i \in 1 .. l + m
      BY <1>2, <1>9
    <2>3. k \in 1 .. l /\ k \in 1 .. l + m
      BY <1>2, <1>9
    <2>4. \A t : t \in First(r, k) <=> t \in before \/ t = x
      BY <1>2, <1>3, <1>11, <2>1, <2>2, <2>3 DEF First
    <2> QED
      BY <2>4
  <1>17. \A t \in TaskIds : TaskIn(q, t) <=> deps[t] \subseteq before
    BY <1>4 DEF InQueue
  <1>18. \A t \in TaskIds : TaskIn(r, t) <=> deps[t] \subseteq before \cup {x}
    BY <1>6, <1>8, <1>15, <1>17
  <1>19. x \notin before
    <2>1. \A i \in 1 .. k - 1 : i \in 1 .. l /\ i # k
      BY <1>2
    <2> QED
      BY <1>1, <1>2, <1>3, <2>1 DEF Distinct
  <1>20. \A t : ~(TaskIn(q, t) /\ TaskIn(a, t))
    <2>1. \A t : TaskIn(q, t) => t \in TaskIds
      BY <1>2 DEF TaskIn
    <2> QED
      BY <1>6, <1>8, <1>17, <1>19, <2>1
  <1>21. Distinct(r)
    <2> SUFFICES ASSUME NEW i \in 1 .. l + m, NEW j \in 1 .. l + m, r[i] = r[j] PROVE i = j
      BY <1>11 DEF Distinct
    <2>1. CASE i \in 1 .. l /\ j \in 1 .. l
      BY <1>1, <1>2, <1>11, <2>1 DEF Distinct
    <2>2. CASE i \notin 1 .. l /\ j \notin 1 .. l
      <3>1. PICK u \in 1 .. m, v \in 1 .. m : i = l + u /\ j = l + v
        BY <1>12, <2>2
      <3>2. a[u] = a[v]
        BY <1>11, <3>1
      <3> QED
        BY <1>8, <1>9, <3>1, <3>2 DEF Distinct
    <2>3. CASE i \in 1 .. l /\ j \notin 1 .. l
      <3>1. PICK v \in 1 .. m : j = l + v
        BY <1>12, <2>3
      <3>2. TaskIn(q, r[i]) /\ TaskIn(a, r[i])
        BY <1>2, <1>9, <1>11, <2>3, <3>1 DEF TaskIn
      <3> QED
        BY <1>20, <3>2
    <2>4. CASE i \notin 1 .. l /\ j \in 1 .. l
      <3>1. PICK v \in 1 .. m : i = l + v
        BY <1>12, <2>4
      <3>2. TaskIn(q, r[j]) /\ TaskIn(a, r[j])
        BY <1>2, <1>9, <1>11, <2>4, <3>1 DEF TaskIn
      <3> QED
        BY <1>20, <3>2
    <2> QED
      BY <2>1, <2>2, <2>3, <2>4
  <1>22. ASSUME NEW i \in 1 .. l + m, NEW d \in deps[r[i]] PROVE \E j \in 1 .. i - 1 : r[j] = d
    <2>1. CASE i \in 1 .. l
      <3>1. PICK j \in 1 .. i - 1 : q[j] = d
        BY <1>2, <1>11, <1>22, <2>1 DEF InQueue
      <3>2. j \in 1 .. l
        BY <1>2, <2>1
      <3> QED
        BY <1>11, <3>1, <3>2
    <2>2. CASE i \notin 1 .. l
      <3>1. TaskIn(a, r[i])
        BY <1>9, <1>11, <1>12, <2>2 DEF TaskIn
      <3>2. d \in before \cup {x}
        BY <1>6, <1>8, <1>22, <3>1
      <3>3. PICK j \in 1 .. k : q[j] = d
        <4>1. k \in 1 .. k /\ \A j \in 1 .. k - 1 : j \in 1 .. k
          BY <1>2
        <4> QED
          BY <1>3, <3>2, <4>1
      <3>4. j \in 1 .. l /\ j \in 1 .. i - 1
        BY <1>2, <2>2
      <3> QED
        BY <1>11, <3>3, <3>4
    <2> QED
      BY <2>1, <2>2
  <1>23. \A t \in TaskIds : TaskIn(r, t) <=> deps[t] \subseteq First(r, k)
    BY <1>16, <1>18
  <1>24. \A i \in 1 .. Len(r) : \A d \in deps[r[i]] : \E j \in 1 .. i - 1 : r[j] = d
    BY <1>11, <1>22
  <1>25. r \in Seq(TaskIds)
    BY <1>11
  <1>26. InQueue(r, k)
    BY <1>21, <1>23, <1>24, <1>25 DEF InQueue
  <1> QED
    BY <1>10, <1>26

(* Without a task left in the queue nothing changes. *)
LEMMA QueueRests ==
    ASSUME TaskTypes, NEW k \in Nat \ {0}, NEW q, InQueue(q, k - 1), ~(Len(q) >= k)
    PROVE  InQueue(q, k)
  <1>1. Len(q) \in Nat
    BY DEF InQueue
  <1>2. \A i \in 1 .. Len(q) : i <= k <=> i <= k - 1
    BY <1>1
  <1>3. First(q, k) = First(q, k - 1)
    BY <1>2 DEF First
  <1> QED
    BY <1>3 DEF InQueue

(* What topological_order returns, or finds to be short of the graph. *)
LEMMA OrderIs ==
    ASSUME TaskTypes, NEW n, n = Len(tasks), NEW o, o = TopologicalOrder
    PROVE  InQueue(o, n)
  <1>1. n \in Nat
    BY IdsAre
  <1> DEFINE Onward(v, k) == IF Len(v) < k THEN v
                              ELSE v \o Ascending(Released(v[k], {v[i] : i \in 1 .. k - 1}))
  <1>2. PICK V, roots, G : /\ V = Seq(TaskIds) /\ roots = {t \in TaskIds : deps[t] = {}}
                           /\ G = [k \in 1 .. n |-> [v \in V |-> Onward(v, k)]]
    OBVIOUS
  <1>3. PICK x : x = Ascending(roots)
    OBVIOUS
  <1>4. x \in V /\ Distinct(x) /\ \A t : TaskIn(x, t) <=> t \in roots
    BY <1>2, <1>3, AscendingHas
  <1>5. ASSUME NEW k \in 1 .. n, NEW v \in V PROVE Onward(v, k) \in V
    <2>1. PICK ids : ids = Released(v[k], {v[i] : i \in 1 .. k - 1})
      OBVIOUS
    <2>2. ids \in SUBSET TaskIds
      BY <2>1 DEF Released
    <2>3. Ascending(ids) \in Seq(TaskIds)
      BY <2>2, AscendingHas
    <2> QED
      BY <1>2, <2>1, <2>3
  <1> HIDE DEF Onward
  <1>6. G \in [1 .. n -> [V -> V]]
    BY <1>2, <1>5
  <1>7. PICK f : Results(f, V, n, x, G)
    BY <1>1, <1>4, <1>6, Recursion
  <1>8. f \in [0 .. n -> V] /\ f[0] = x /\ \A k \in 1 .. n : f[k] = G[k][f[k - 1]]
    BY <1>7 DEF Results
  <1>9. \A k \in 1 .. n : f[k] = Onward(f[k - 1], k)
    <2> SUFFICES ASSUME NEW k \in 1 .. n PROVE f[k] = Onward(f[k - 1], k)
      OBVIOUS
    <2>1. f[k - 1] \in V
      BY <1>1, <1>8
    <2>2. G[k] = [v \in V |-> Onward(v, k)]
      BY <1>2
    <2> QED
      BY <1>8, <2>1, <2>2
  <1> DEFINE Is(z) == z = [k \in 0 .. n |->
                 IF k = 0 THEN Ascending({t \in TaskIds : deps[t] = {}})
                 ELSE LET q == z[k - 1] IN
                      IF Len(q) < k THEN q
                      ELSE q \o Ascending(Released(q[k], {q[i] : i \in 1 .. k - 1}))]
  <1>10. Is(f)
    <2>1. f = [k \in 0 .. n |-> f[k]]
      BY <1>8
    <2>2. ASSUME NEW k \in 0 .. n
          PROVE  f[k] = IF k = 0 THEN Ascending({t \in TaskIds : deps[t] = {}})
                        ELSE LET q == f[k - 1] IN
                             IF Len(q) < k THEN q
                             ELSE q \o Ascending(Released(q[k], {q[i] : i \in 1 .. k - 1}))
      <3>1. CASE k = 0
        BY <1>2, <1>3, <1>8, <3>1
      <3>2. CASE k # 0
        <4>1. k \in 1 .. n
          BY <1>1, <3>2
        <4>2. f[k] = Onward(f[k - 1], k)
          BY <1>9, <4>1
        <4> QED
          BY <3>2, <4>2 DEF Onward
      <3> QED
        BY <3>1, <3>2
    <2> QED
      BY <2>1, <2>2
  <1>11. PICK y : y = CHOOSE z : Is(z)
    OBVIOUS
  <1>12. Is(y)
    <2> HIDE DEF Is
    <2> QED
      BY <1>10, <1>11
  <1>13. o = y[n]
    BY <1>11 DEF TopologicalOrder
  <1>14. y[0] = x
    BY <1>1, <1>2, <1>3, <1>12
  <1>15. \A k \in 1 .. n : y[k] = Onward(y[k - 1], k)
    <2> SUFFICES ASSUME NEW k \in 1 .. n PROVE y[k] = Onward(y[k - 1], k)
      OBVIOUS
    <2>1. k \in 0 .. n /\ k # 0
      BY <1>1
    <2> QED
      BY <1>12, <2>1 DEF Onward
  <1> HIDE DEF Is
  <1>16. InQueue(y[0], 0)
    <2>1. First(x, 0) = {}
      <3>1. Len(x) \in Nat
        BY <1>2, <1>4
      <3> QED
        BY <3>1 DEF First
    <2>2. \A t \in TaskIds : TaskIn(x, t) <=> deps[t] \subseteq First(x, 0)
      BY <1>2, <1>4, <2>1
    <2>3. \A i \in 1 .. Len(x) : deps[x[i]] = {}
      BY <1>2, <1>4 DEF TaskIn
    <2> QED
      BY <1>2, <1>4, <1>14, <2>2, <2>3 DEF InQueue
  <1> DEFINE Bad == {k \in Nat : k \in 0 .. n /\ ~InQueue(y[k], k)}
  <1>17. ASSUME Bad # {} PROVE FALSE
    <2>1. PICK k \in Bad : \A i \in Bad : k <= i
      <3>1. Bad \in SUBSET Nat
        OBVIOUS
      <3> HIDE DEF Bad
      <3> QED
        BY <1>17, <3>1, LeastOf
    <2>2. k \in 0 .. n /\ k \in Nat /\ ~InQueue(y[k], k)
      BY <2>1
    <2>3. k \in 1 .. n /\ k \in Nat \ {0} /\ k - 1 \in 0 .. n /\ k - 1 \in Nat /\ ~(k <= k - 1)
      BY <1>1, <1>16, <2>2
    <2>4. InQueue(y[k - 1], k - 1)
      BY <2>1, <2>3
    <2>5. PICK q : q = y[k - 1]
      OBVIOUS
    <2>6. y[k] = Onward(q, k)
      BY <1>15, <2>3, <2>5
    <2>7. Len(q) \in Nat
      BY <2>4, <2>5 DEF InQueue
    <2>8. CASE Len(q) < k
      <3>1. y[k] = q /\ ~(Len(q) >= k)
        BY <2>3, <2>6, <2>7, <2>8 DEF Onward
      <3> QED
        BY <2>2, <2>3, <2>4, <2>5, <3>1, QueueRests
    <2>9. CASE ~(Len(q) < k)
      <3>1. PICK a : a = Ascending(Released(q[k], {q[i] : i \in 1 .. k - 1}))
        OBVIOUS
      <3>2. y[k] = q \o a /\ Len(q) >= k
        BY <2>3, <2>6, <2>7, <2>9, <3>1 DEF Onward
      <3> QED
        BY <2>2, <2>3, <2>4, <2>5, <3>1, <3>2, QueueStep
    <2> QED
      BY <2>8, <2>9
  <1> QED
    BY <1>1, <1>13, <1>17

(* The order is of the whole graph just when there is no cycle, and then     *)
(* dependencies come first.                                                  *)
LEMMA OrderSound ==
    ASSUME TaskTypes, NEW n, n = Len(tasks), NEW o, o = TopologicalOrder
    PROVE  /\ Len(o) = n <=> ~Cyclic
           /\ ~Cyclic => /\ ToSet(o) = TaskIds
                         /\ \A i, j \in 1 .. n : o[i] \in deps[o[j]] => i < j
  <1>1. n \in Nat /\ TaskIds = 1 .. n
    BY IdsAre
  <1>2. InQueue(o, n)
    BY OrderIs
  <1>3. o \in Seq(TaskIds) /\ Distinct(o)
    BY <1>2 DEF InQueue
  <1>4. /\ Len(o) \in Nat /\ Len(o) <= n
        /\ Len(o) = n <=> \A t \in TaskIds : TaskIn(o, t)
    BY <1>3, DistinctFits DEF TaskIn
  <1>5. PICK E : E = {t \in TaskIds : TaskIn(o, t)}
    OBVIOUS
  <1>6. First(o, n) = E
    <2>1. \A i \in 1 .. Len(o) : i <= n
      BY <1>1, <1>4
    <2> QED
      BY <1>5, <2>1 DEF First, TaskIn
  <1>7. \A t \in TaskIds : t \in E <=> deps[t] \subseteq E
    BY <1>2, <1>5, <1>6 DEF InQueue
  <1>8. ASSUME ~Cyclic PROVE E = TaskIds
    <2>1. PICK c : c = TaskIds \ E
      OBVIOUS
    <2>2. ASSUME c # {} PROVE FALSE
      <3>1. c \in SUBSET TaskIds
        BY <2>1
      <3>2. PICK t \in c : deps[t] \cap c = {}
        BY <1>8, <2>2, <3>1 DEF Cyclic
      <3>3. deps[t] \subseteq TaskIds
        BY <3>1, <3>2, IdsAre
      <3> QED
        BY <1>7, <2>1, <3>2, <3>3
    <2> QED
      BY <1>5, <2>1, <2>2
  <1>9. ASSUME Len(o) = n, Cyclic PROVE FALSE
    <2>1. PICK c \in SUBSET TaskIds : c # {} /\ \A t \in c : deps[t] \cap c # {}
      BY <1>9 DEF Cyclic
    <2> DEFINE At == {i \in Nat : i \in 1 .. Len(o) /\ o[i] \in c}
    <2>2. At \in SUBSET Nat /\ At # {}
      BY <1>4, <1>9, <2>1 DEF TaskIn
    <2>3. PICK i \in At : \A j \in At : i <= j
      <3> HIDE DEF At
      <3> QED
        BY <2>2, LeastOf
    <2>4. i \in 1 .. Len(o) /\ i \in Nat /\ o[i] \in c
      BY <2>3
    <2>5. PICK d \in deps[o[i]] : d \in c
      BY <2>1, <2>4
    <2>6. PICK j \in 1 .. i - 1 : o[j] = d
      BY <1>2, <2>4, <2>5 DEF InQueue
    <2>7. j \in At /\ ~(i <= j)
      BY <1>4, <2>4, <2>5, <2>6
    <2> QED
      BY <2>3, <2>7
  <1>10. Len(o) = n <=> ~Cyclic
    BY <1>4, <1>5, <1>8, <1>9
  <1>11. ASSUME ~Cyclic PROVE ToSet(o) = TaskIds
    <2>1. DOMAIN o = 1 .. Len(o) /\ \A i \in 1 .. Len(o) : o[i] \in TaskIds
      BY <1>3
    <2> QED
      BY <1>5, <1>8, <1>11, <2>1 DEF ToSet, TaskIn
  <1>12. ASSUME ~Cyclic, NEW i \in 1 .. n, NEW j \in 1 .. n, o[i] \in deps[o[j]] PROVE i < j
    <2>1. Len(o) = n
      BY <1>10, <1>12
    <2>2. PICK k \in 1 .. j - 1 : o[k] = o[i]
      BY <1>2, <1>12, <2>1 DEF InQueue
    <2>3. k \in 1 .. n
      BY <1>1
    <2>4. k = i
      BY <1>3, <2>1, <2>2, <2>3 DEF Distinct
    <2> QED
      BY <1>1, <2>2, <2>4
  <1> QED
    BY <1>10, <1>11, <1>12

(* Of values of some tasks there is a greatest. *)
LEMMA GreatestOf ==
    ASSUME NEW n \in Nat, NEW S \in SUBSET (1 .. n), S # {}, NEW f, \A i \in S : f[i] \in Nat
    PROVE  \E i \in S : \A j \in S : f[j] <= f[i]
  <1> DEFINE Upto(m) == {i \in S : i <= m}
             Best(m) == \E i \in Upto(m) : \A j \in Upto(m) : f[j] <= f[i]
             Bad == {m \in Nat : m <= n /\ Upto(m) # {} /\ ~Best(m)}
  <1>0. \A i \in S : i \in Nat /\ 1 <= i /\ i <= n
    <2> SUFFICES ASSUME NEW i \in S PROVE i \in Nat /\ 1 <= i /\ i <= n
      OBVIOUS
    <2>1. i \in 1 .. n
      OBVIOUS
    <2> QED
      BY <2>1
  <1>1. Upto(n) = S
    BY <1>0
  <1>2. SUFFICES ASSUME ~Best(n) PROVE FALSE
    BY <1>1
  <1>3. n \in Bad /\ Bad \in SUBSET Nat
    BY <1>1, <1>2
  <1>4. PICK m \in Bad : \A i \in Bad : m <= i
    <2> HIDE DEF Bad
    <2> QED
      BY <1>3, LeastOf
  <1>5. m \in Nat /\ m <= n /\ Upto(m) # {} /\ ~Best(m)
    BY <1>4
  <1>6. m # 0 /\ m - 1 \in Nat /\ m - 1 <= n /\ ~(m <= m - 1)
    <2>1. PICK i \in S : i <= m
      BY <1>5
    <2>2. i \in Nat /\ 1 <= i
      BY <1>0
    <2> QED
      BY <1>5, <2>1, <2>2
  <1>7. m - 1 \notin Bad
    BY <1>4, <1>6
  <1>8. \A i \in S : i <= m <=> i <= m - 1 \/ i = m
    BY <1>0, <1>5
  <1>9. m \in S
    <2>1. ASSUME m \notin S PROVE Upto(m) = Upto(m - 1)
      BY <1>8, <2>1
    <2> QED
      BY <2>1, <1>5, <1>6, <1>7
  <1>10. Upto(m) = Upto(m - 1) \cup {m}
    BY <1>5, <1>8, <1>9
  <1>11. CASE Upto(m - 1) = {}
    BY <1>5, <1>9, <1>10, <1>11
  <1>12. CASE Upto(m - 1) # {}
    <2>1. Best(m - 1)
      BY <1>6, <1>7, <1>12
    <2>2. PICK i \in Upto(m - 1) : \A j \in Upto(m - 1) : f[j] <= f[i]
      BY <2>1
    <2>3. f[i] \in Nat /\ f[m] \in Nat /\ \A j \in Upto(m - 1) : f[j] \in Nat
      BY <1>9
    <2>4. CASE f[m] <= f[i]
      BY <1>5, <1>10, <2>2, <2>4
    <2>5. CASE ~(f[m] <= f[i])
      <3>1. \A j \in Upto(m) : f[j] <= f[m]
        <4> SUFFICES ASSUME NEW j \in Upto(m) PROVE f[j] <= f[m]
          OBVIOUS
        <4>1. j = m \/ j \in Upto(m - 1)
          BY <1>10
        <4> QED
          BY <2>2, <2>3, <2>5, <4>1
      <3> QED
        BY <1>5, <1>9, <1>10, <3>1
    <2> QED
      BY <2>4, <2>5
  <1> QED
    BY <1>11, <1>12

(* The dearest of some tasks. *)
Priced(S, f) == S # {} /\ \A i \in S : f[i] \in Nat
IsTop(d, S, f) == d \in S /\ \A e \in S : f[e] <= f[d]
TopOfTasks(m, S, f) == \E d \in S : m = f[d] /\ IsTop(d, S, f)

LEMMA MaxOfTasks ==
    ASSUME TaskTypes, NEW S \in SUBSET TaskIds, NEW f, Priced(S, f)
    PROVE  TopOfTasks(Max({f[i] : i \in S}), S, f)
  <1>1. PICK n : n = Len(tasks) /\ n \in Nat /\ TaskIds = 1 .. n
    BY IdsAre
  <1>2. PICK d \in S : \A e \in S : f[e] <= f[d]
    <2>1. S \in SUBSET (1 .. n) /\ S # {} /\ \A i \in S : f[i] \in Nat
      BY <1>1 DEF Priced
    <2> QED
      BY <1>1, <2>1, GreatestOf
  <1>3. PICK T, m : T = {f[i] : i \in S} /\ m = Max(T)
    OBVIOUS
  <1>4. \E x \in T : \A y \in T : x >= y
    <2>1. f[d] \in T /\ \A y \in T : f[d] >= y
      BY <1>2, <1>3 DEF Priced
    <2> QED
      BY <2>1
  <1>5. m \in T /\ \A y \in T : m >= y
    BY <1>3, <1>4 DEF Max
  <1>6. PICK c \in S : m = f[c]
    BY <1>3, <1>5
  <1>7. \A e \in S : f[e] <= f[c]
    BY <1>3, <1>5, <1>6
  <1> QED
    BY <1>3, <1>6, <1>7 DEF TopOfTasks, IsTop

CostsKnown == \A t \in TaskIds : Backlog[t].cost \in Nat

(* What a task costs with the dearest way to it. *)
Reckoned(t, f) == Backlog[t].cost + IF deps[t] = {} THEN 0 ELSE Max({f[d] : d \in deps[t]})

LEMMA ReckonedIs ==
    ASSUME TaskTypes, CostsKnown, NEW t \in TaskIds, NEW f, \A d \in deps[t] : f[d] \in Nat
    PROVE  /\ Reckoned(t, f) \in Nat
           /\ deps[t] = {} => Reckoned(t, f) = Backlog[t].cost
           /\ deps[t] # {} => \E d \in deps[t] : /\ Reckoned(t, f) = Backlog[t].cost + f[d]
                                                 /\ \A e \in deps[t] : f[e] <= f[d]
  <1>1. Backlog[t].cost \in Nat
    BY DEF CostsKnown
  <1>2. CASE deps[t] = {}
    BY <1>1, <1>2 DEF Reckoned
  <1>3. CASE deps[t] # {}
    <2>1. PICK S, m : S = deps[t] /\ m = Max({f[i] : i \in S})
      OBVIOUS
    <2>2. S \in SUBSET TaskIds
      BY <2>1, IdsAre
    <2>s. Priced(S, f)
      BY <1>3, <2>1 DEF Priced
    <2>m. TopOfTasks(m, S, f)
      BY <2>1, <2>2, <2>s, MaxOfTasks
    <2>3. PICK d \in S : m = f[d] /\ \A e \in S : f[e] <= f[d]
      BY <2>m DEF TopOfTasks, IsTop
    <2>4. Reckoned(t, f) = Backlog[t].cost + m
      BY <1>3, <2>1 DEF Reckoned
    <2>5. f[d] \in Nat
      BY <2>1
    <2>6. Reckoned(t, f) \in Nat
      BY <1>1, <2>3, <2>4, <2>5
    <2> QED
      BY <1>3, <2>1, <2>3, <2>4, <2>6
  <1> QED
    BY <1>2, <1>3

(* Only the dependencies count. *)
LEMMA ReckonedSame ==
    ASSUME NEW t, NEW f, NEW g, \A d \in deps[t] : f[d] = g[d]
    PROVE  Reckoned(t, f) = Reckoned(t, g)
  <1>1. {f[d] : d \in deps[t]} = {g[d] : d \in deps[t]}
    OBVIOUS
  <1> QED
    BY <1>1 DEF Reckoned

(* critical_path's distances: each from the distances of the dependencies. *)
LEMMA DistanceIs ==
    ASSUME TaskTypes, CostsKnown, ~Cyclic, NEW dist, dist = Distance
    PROVE  \A t \in TaskIds : dist[t] \in Nat /\ dist[t] = Reckoned(t, dist)
  <1>1. PICK n, w : /\ n = Len(tasks) /\ w = WavesUpTo /\ n \in Nat
                    /\ \A t \in TaskIds : deps[t] \subseteq TaskIds
    BY IdsAre
  <1>2. Waves(w, n)
    BY <1>1, WavesAre
  <1>3. w[n] = TaskIds
    BY <1>1, <1>2, AllInWaves
  <1>4. PICK V, x, G : /\ V = [TaskIds -> Nat] /\ x = [t \in TaskIds |-> 0]
                       /\ G = [k \in 1 .. n |-> [v \in V |-> [t \in TaskIds |-> Reckoned(t, v)]]]
    OBVIOUS
  <1>5. ASSUME NEW v \in V PROVE [t \in TaskIds |-> Reckoned(t, v)] \in V
    <2>1. ASSUME NEW t \in TaskIds PROVE Reckoned(t, v) \in Nat
      <3>1. \A d \in deps[t] : v[d] \in Nat
        BY <1>1, <1>4
      <3> QED
        BY <3>1, ReckonedIs
    <2> QED
      BY <1>4, <2>1
  <1>6. x \in V /\ G \in [1 .. n -> [V -> V]]
    BY <1>4, <1>5
  <1>7. PICK f : Results(f, V, n, x, G)
    BY <1>1, <1>6, Recursion
  <1>8. f \in [0 .. n -> V] /\ f[0] = x /\ \A k \in 1 .. n : f[k] = G[k][f[k - 1]]
    BY <1>7 DEF Results
  <1>9. ASSUME NEW k \in 1 .. n, NEW t \in TaskIds PROVE f[k][t] = Reckoned(t, f[k - 1])
    <2>1. f[k - 1] \in V
      BY <1>1, <1>8
    <2>2. G[k] = [v \in V |-> [u \in TaskIds |-> Reckoned(u, v)]]
      BY <1>4
    <2>3. f[k] = [u \in TaskIds |-> Reckoned(u, f[k - 1])]
      BY <1>8, <2>1, <2>2
    <2> QED
      BY <2>3
  <1> DEFINE Fixed(k) == \A t \in w[k] : f[k][t] = Reckoned(t, f[k])
             Bad == {k \in Nat : k \in 0 .. n /\ ~Fixed(k)}
  <1>10. ASSUME Bad # {} PROVE FALSE
    <2>1. PICK k \in Bad : \A i \in Bad : k <= i
      <3>1. Bad \in SUBSET Nat
        OBVIOUS
      <3> HIDE DEF Bad
      <3> QED
        BY <1>10, <3>1, LeastOf
    <2>2. k \in 0 .. n /\ k \in Nat /\ ~Fixed(k)
      BY <2>1
    <2>3. k # 0
      BY <1>2, <2>2 DEF Waves
    <2>4. k \in 1 .. n /\ k - 1 \in 0 .. n /\ k - 1 \in Nat /\ ~(k <= k - 1)
      BY <1>1, <2>2, <2>3
    <2>5. Fixed(k - 1)
      BY <2>1, <2>4
    <2>6. PICK t \in w[k] : f[k][t] # Reckoned(t, f[k])
      BY <2>2
    <2>7. t \in TaskIds /\ deps[t] \subseteq w[k - 1] /\ deps[t] \subseteq TaskIds
      BY <1>1, <1>2, <2>4, <2>6 DEF Waves, Freed
    <2>8. PICK g, h : g = f[k] /\ h = f[k - 1]
      OBVIOUS
    <2>9. ASSUME NEW d \in deps[t] PROVE g[d] = h[d]
      <3>1. d \in TaskIds /\ d \in w[k - 1]
        BY <2>7
      <3>2. g[d] = Reckoned(d, h)
        BY <1>9, <2>4, <2>8, <3>1
      <3>3. h[d] = Reckoned(d, h)
        BY <2>5, <2>8, <3>1
      <3> QED
        BY <3>2, <3>3
    <2>10. Reckoned(t, g) = Reckoned(t, h)
      BY <2>9, ReckonedSame
    <2>11. g[t] = Reckoned(t, h)
      BY <1>9, <2>4, <2>7, <2>8
    <2> QED
      BY <2>6, <2>8, <2>10, <2>11
  <1>11. Fixed(n)
    BY <1>1, <1>10
  <1>12. PICK g : g = f[n]
    OBVIOUS
  <1> DEFINE Is(z) == z = [t \in TaskIds |->
                 Backlog[t].cost + IF deps[t] = {} THEN 0 ELSE Max({z[d] : d \in deps[t]})]
  <1>13. Is(g)
    <2>1. g \in [TaskIds -> Nat]
      BY <1>1, <1>4, <1>8, <1>12
    <2>2. g = [t \in TaskIds |-> g[t]]
      BY <2>1
    <2>3. \A t \in TaskIds : g[t] = Backlog[t].cost + IF deps[t] = {} THEN 0
                                                      ELSE Max({g[d] : d \in deps[t]})
      BY <1>3, <1>11, <1>12 DEF Reckoned
    <2> QED
      BY <2>2, <2>3
  <1>14. dist = CHOOSE z : Is(z)
    BY DEF Distance
  <1>15. Is(dist)
    <2> HIDE DEF Is
    <2> QED
      BY <1>13, <1>14
  <1>16. \A t \in TaskIds : dist[t] = Reckoned(t, dist)
    BY <1>15 DEF Reckoned
  <1> HIDE DEF Is
  <1> DEFINE Off == {k \in Nat : k \in 0 .. n /\ \E t \in w[k] : dist[t] \notin Nat}
  <1>17. ASSUME Off # {} PROVE FALSE
    <2>1. PICK k \in Off : \A i \in Off : k <= i
      <3>1. Off \in SUBSET Nat
        OBVIOUS
      <3> HIDE DEF Off
      <3> QED
        BY <1>17, <3>1, LeastOf
    <2>2. PICK t \in w[k] : dist[t] \notin Nat
      BY <2>1
    <2>3. k \in 0 .. n /\ k \in Nat /\ k # 0
      BY <1>2, <2>1, <2>2 DEF Waves
    <2>4. k \in 1 .. n /\ k - 1 \in 0 .. n /\ k - 1 \in Nat /\ ~(k <= k - 1)
      BY <1>1, <2>3
    <2>5. \A d \in w[k - 1] : dist[d] \in Nat
      BY <2>1, <2>4
    <2>6. t \in TaskIds /\ deps[t] \subseteq w[k - 1]
      BY <1>2, <2>2, <2>4 DEF Waves, Freed
    <2>7. Reckoned(t, dist) \in Nat
      BY <2>5, <2>6, ReckonedIs
    <2> QED
      BY <1>16, <2>2, <2>6, <2>7
  <1>18. n \notin Off /\ n \in 0 .. n
    BY <1>1, <1>17
  <1> QED
    BY <1>1, <1>3, <1>16, <1>18

(* A chain is a sequence. *)
LEMMA ChainSeq ==
    ASSUME NEW m \in Nat, NEW c \in Chains(m)
    PROVE  c \in Seq(TaskIds) /\ Len(c) = m /\ \A i \in 1 .. m : c[i] \in TaskIds
  <1>1. c \in [1 .. m -> TaskIds]
    BY DEF Chains
  <1>2. c = [i \in 1 .. m |-> c[i]] /\ \A i \in 1 .. m : c[i] \in TaskIds
    BY <1>1
  <1> QED
    BY <1>2, SeqFromElements

(* What a chain costs is summed up from its end. *)
LEMMA CostSteps ==
    ASSUME TaskTypes, CostsKnown, NEW m \in Nat, NEW c \in Chains(m)
    PROVE  \E u \in [0 .. m -> Nat] :
              /\ u[0] = 0 /\ CostOf(c) = u[m]
              /\ \A k \in 1 .. m : u[k] = u[k - 1] + Backlog[c[m + 1 - k]].cost
  <1>1. Len(c) = m /\ \A i \in 1 .. m : c[i] \in TaskIds
    BY ChainSeq
  <1>2. \A k \in 1 .. m : Backlog[c[m + 1 - k]].cost \in Nat
    <2>1. \A k \in 1 .. m : m + 1 - k \in 1 .. m
      OBVIOUS
    <2> QED
      BY <1>1, <2>1 DEF CostsKnown
  <1>3. PICK G : G = [k \in 1 .. m |-> [v \in Nat |-> v + Backlog[c[m + 1 - k]].cost]]
    OBVIOUS
  <1>4. G \in [1 .. m -> [Nat -> Nat]]
    BY <1>2, <1>3
  <1>5. PICK f : Results(f, Nat, m, 0, G)
    BY <1>4, Recursion
  <1>6. f \in [0 .. m -> Nat] /\ f[0] = 0 /\ \A k \in 1 .. m : f[k] = G[k][f[k - 1]]
    BY <1>5 DEF Results
  <1>7. \A k \in 1 .. m : f[k] = f[k - 1] + Backlog[c[m + 1 - k]].cost
    <2> SUFFICES ASSUME NEW k \in 1 .. m PROVE f[k] = f[k - 1] + Backlog[c[m + 1 - k]].cost
      OBVIOUS
    <2>1. f[k - 1] \in Nat
      BY <1>6
    <2>2. G[k] = [v \in Nat |-> v + Backlog[c[m + 1 - k]].cost]
      BY <1>3
    <2> QED
      BY <1>6, <2>1, <2>2
  <1> DEFINE Is(z) == z = [k \in 0 .. m |-> IF k = 0 THEN 0
                                            ELSE z[k - 1] + Backlog[c[m + 1 - k]].cost]
  <1>8. Is(f)
    <2>1. f = [k \in 0 .. m |-> f[k]]
      BY <1>6
    <2>2. \A k \in 0 .. m : f[k] = IF k = 0 THEN 0 ELSE f[k - 1] + Backlog[c[m + 1 - k]].cost
      BY <1>6, <1>7
    <2> QED
      BY <2>1, <2>2
  <1>9. PICK u : u = CHOOSE z : Is(z)
    OBVIOUS
  <1>10. Is(u)
    <2> HIDE DEF Is
    <2> QED
      BY <1>8, <1>9
  <1>11. CostOf(c) = u[m]
    BY <1>1, <1>9 DEF CostOf
  <1>12. u[0] = 0 /\ \A k \in 1 .. m : u[k] = u[k - 1] + Backlog[c[m + 1 - k]].cost
    <2>1. \A k \in 0 .. m : u[k] = IF k = 0 THEN 0 ELSE u[k - 1] + Backlog[c[m + 1 - k]].cost
      BY <1>10
    <2> HIDE DEF Is
    <2>2. 0 \in 0 .. m /\ \A k \in 1 .. m : k \in 0 .. m /\ k # 0
      OBVIOUS
    <2> QED
      BY <2>1, <2>2
  <1>13. u = [k \in 0 .. m |-> u[k]]
    BY <1>10
  <1> HIDE DEF Is
  <1> DEFINE Off == {k \in Nat : k \in 0 .. m /\ u[k] \notin Nat}
  <1>14. ASSUME Off # {} PROVE FALSE
    <2>1. PICK k \in Off : \A i \in Off : k <= i
      <3>1. Off \in SUBSET Nat
        OBVIOUS
      <3> HIDE DEF Off
      <3> QED
        BY <1>14, <3>1, LeastOf
    <2>2. k \in 0 .. m /\ k \in Nat /\ u[k] \notin Nat
      BY <2>1
    <2>3. k \in 1 .. m /\ k - 1 \in 0 .. m /\ k - 1 \in Nat /\ ~(k <= k - 1)
      BY <1>12, <2>2
    <2>4. u[k - 1] \in Nat
      BY <2>1, <2>3
    <2>5. Backlog[c[m + 1 - k]].cost \in Nat
      BY <1>2, <2>3
    <2> QED
      BY <1>12, <2>2, <2>3, <2>4, <2>5
  <1>15. \A k \in 0 .. m : u[k] \in Nat
    BY <1>14
  <1>16. u \in [0 .. m -> Nat]
    BY <1>13, <1>15
  <1> QED
    BY <1>11, <1>12, <1>16

(* Distances reckoned from the distances of the dependencies. *)
Reckons(dist) == \A t \in TaskIds : dist[t] \in Nat /\ dist[t] = Reckoned(t, dist)

(* The last of the dearest dependencies is one. *)
LEMMA BestDepIs ==
    ASSUME TaskTypes, NEW dist, Reckons(dist), NEW t \in TaskIds, deps[t] # {}
    PROVE  BestDep(dist, t) \in deps[t] /\ \A e \in deps[t] : dist[e] <= dist[BestDep(dist, t)]
  <1>1. PICK n, S : /\ n = Len(tasks) /\ n \in Nat /\ TaskIds = 1 .. n
                    /\ S = deps[t] /\ S \in SUBSET TaskIds /\ S # {}
    BY IdsAre
  <1>2. PICK D : D = {d \in S : \A e \in S : dist[e] <= dist[d]}
    OBVIOUS
  <1>3. PICK d \in S : \A e \in S : dist[e] <= dist[d]
    <2>1. S \in SUBSET (1 .. n) /\ \A i \in S : dist[i] \in Nat
      BY <1>1 DEF Reckons
    <2> QED
      BY <1>1, <2>1, GreatestOf
  <1>4. D \in SUBSET (1 .. n) /\ D # {} /\ \A i \in D : i \in Nat
    <2>1. d \in D /\ \A i \in D : i \in S
      BY <1>2, <1>3
    <2>2. \A i \in D : i \in 1 .. n /\ i \in Nat
      BY <1>1, <2>1
    <2> QED
      BY <2>1, <2>2
  <1>5. \E b \in D : \A e \in D : b >= e
    <2>1. PICK f : f = [i \in D |-> i]
      OBVIOUS
    <2>2. \A i \in D : f[i] = i
      BY <2>1
    <2>3. \A i \in D : f[i] \in Nat
      BY <1>4, <2>2
    <2>4. \E i \in D : \A j \in D : f[j] <= f[i]
      BY <1>1, <1>4, <2>3, GreatestOf
    <2> QED
      BY <1>4, <2>2, <2>4
  <1>6. PICK b : b = Max(D)
    OBVIOUS
  <1>7. b \in D
    BY <1>5, <1>6 DEF Max
  <1>8. b = BestDep(dist, t)
    BY <1>1, <1>2, <1>6 DEF BestDep
  <1>9. b \in S /\ \A e \in S : dist[e] <= dist[b]
    BY <1>2, <1>7
  <1> QED
    BY <1>1, <1>8, <1>9

(* A task is dearer than any of its dependencies by its own cost at least,   *)
(* and by no more than that where the dependency is the dearest.             *)
LEMMA DistanceSteps ==
    ASSUME TaskTypes, CostsKnown, NEW dist, Reckons(dist), NEW t \in TaskIds, NEW d \in deps[t],
           NEW x, x = Backlog[t].cost
    PROVE  /\ x \in Nat /\ dist[t] \in Nat /\ dist[d] \in Nat /\ dist[t] >= x + dist[d]
           /\ d = BestDep(dist, t) => dist[t] = x + dist[d]
  <1>1. /\ \A e \in deps[t] : e \in TaskIds /\ dist[e] \in Nat
        /\ dist[t] \in Nat /\ dist[t] = Reckoned(t, dist) /\ x \in Nat
    BY IdsAre DEF Reckons, CostsKnown
  <1>2. PICK b \in deps[t] : Reckoned(t, dist) = Backlog[t].cost + dist[b]
                             /\ \A e \in deps[t] : dist[e] <= dist[b]
    <2>1. deps[t] # {} /\ \A e \in deps[t] : dist[e] \in Nat
      BY <1>1
    <2> QED
      BY <2>1, ReckonedIs
  <1>3. dist[t] = x + dist[b] /\ dist[d] <= dist[b]
    BY <1>1, <1>2
  <1>4. dist[t] >= x + dist[d]
    BY <1>1, <1>2, <1>3
  <1>5. ASSUME d = BestDep(dist, t) PROVE dist[t] = x + dist[d]
    <2>1. dist[b] <= dist[d]
      BY <1>5, BestDepIs
    <2> QED
      BY <1>1, <1>2, <1>3, <2>1
  <1> QED
    BY <1>1, <1>4, <1>5

LEMMA DistanceStarts ==
    ASSUME TaskTypes, CostsKnown, NEW dist, Reckons(dist), NEW t \in TaskIds,
           NEW x, x = Backlog[t].cost
    PROVE  /\ x \in Nat /\ dist[t] \in Nat /\ x <= dist[t]
           /\ deps[t] = {} => dist[t] = x
  <1>1. /\ \A e \in deps[t] : dist[e] \in Nat
        /\ dist[t] \in Nat /\ dist[t] = Reckoned(t, dist) /\ x \in Nat
    BY IdsAre DEF Reckons, CostsKnown
  <1>2. deps[t] = {} => dist[t] = x
    BY <1>1, ReckonedIs
  <1>3. CASE deps[t] # {}
    <2>1. PICK d : d \in deps[t]
      BY <1>3
    <2>2. dist[d] \in Nat /\ dist[t] >= x + dist[d]
      BY <2>1, DistanceSteps
    <2> QED
      BY <1>1, <1>2, <2>2
  <1> QED
    BY <1>1, <1>2, <1>3

(* A chain through the last of the dearest dependencies, from a start. *)
Tight(c, m, dist) ==
    deps[c[1]] = {} /\ \A i \in 1 .. m - 1 : c[i] = BestDep(dist, c[i + 1])

(* No chain costs more than the distance of its end, and the traced one costs*)
(* just that.                                                                *)
LEMMA ChainCosts ==
    ASSUME TaskTypes, CostsKnown, NEW dist, Reckons(dist), NEW m \in Nat \ {0}, NEW c \in Chains(m)
    PROVE  /\ CostOf(c) \in Nat /\ CostOf(c) <= dist[c[m]]
           /\ Tight(c, m, dist) => CostOf(c) = dist[c[m]]
  <1>1. PICK u \in [0 .. m -> Nat] :
              /\ u[0] = 0 /\ CostOf(c) = u[m]
              /\ \A k \in 1 .. m : u[k] = u[k - 1] + Backlog[c[m + 1 - k]].cost
    BY CostSteps
  <1>2. \A i \in 1 .. m : c[i] \in TaskIds /\ dist[c[i]] \in Nat
    BY ChainSeq DEF Reckons
  <1>3. \A i \in 1 .. m - 1 : c[i] \in deps[c[i + 1]]
    BY DEF Chains
  <1>4. PICK z : z = dist[c[m]]
    OBVIOUS
  <1>5. z \in Nat /\ m \in 1 .. m
    BY <1>2, <1>4
  <1> DEFINE Under(k) == /\ u[k - 1] + dist[c[m + 1 - k]] <= z
                         /\ Tight(c, m, dist) => u[k - 1] + dist[c[m + 1 - k]] = z
             Bad == {k \in Nat : k \in 1 .. m /\ ~Under(k)}
  <1>6. ASSUME Bad # {} PROVE FALSE
    <2>1. PICK k \in Bad : \A i \in Bad : k <= i
      <3>1. Bad \in SUBSET Nat
        OBVIOUS
      <3> HIDE DEF Bad
      <3> QED
        BY <1>6, <3>1, LeastOf
    <2>2. k \in 1 .. m /\ k \in Nat /\ ~Under(k)
      BY <2>1
    <2>3. CASE k = 1
      <3>1. u[k - 1] = 0 /\ dist[c[m + 1 - k]] = z
        BY <1>1, <1>4, <2>3
      <3> QED
        BY <1>5, <2>2, <3>1
    <2>4. CASE k # 1
      <3>1. k - 1 \in 1 .. m /\ k - 1 \in Nat /\ ~(k <= k - 1)
        BY <2>2, <2>4
      <3>2. Under(k - 1)
        BY <2>1, <3>1
      <3>3. PICK i, j : i = m + 1 - k /\ j = i + 1
        OBVIOUS
      <3>4. i \in 1 .. m - 1 /\ j \in 1 .. m /\ j = m + 1 - (k - 1)
        BY <2>2, <3>1, <3>3
      <3>5. PICK s, t, x : s = c[i] /\ t = c[j] /\ x = Backlog[t].cost
        OBVIOUS
      <3>6. t \in TaskIds /\ s \in deps[t]
        BY <1>2, <1>3, <3>3, <3>4, <3>5
      <3>7. PICK a, b : a = dist[s] /\ b = dist[t]
        OBVIOUS
      <3>8. /\ x \in Nat /\ a \in Nat /\ b \in Nat /\ b >= x + a
            /\ s = BestDep(dist, t) => b = x + a
        BY <3>5, <3>6, <3>7, DistanceSteps
      <3>9. PICK p, q : p = u[k - 1] /\ q = u[k - 1 - 1]
        OBVIOUS
      <3>10. p \in Nat /\ q \in Nat /\ p = q + x
        <4>1. k - 1 \in 0 .. m /\ k - 1 - 1 \in 0 .. m
          BY <2>2, <3>1
        <4>2. u[k - 1] = u[k - 1 - 1] + Backlog[c[m + 1 - (k - 1)]].cost
          BY <1>1, <3>1
        <4> QED
          BY <1>1, <3>4, <3>5, <3>9, <4>1, <4>2
      <3>11. q + b <= z /\ (Tight(c, m, dist) => q + b = z)
        BY <3>2, <3>4, <3>5, <3>7, <3>9
      <3>12. Tight(c, m, dist) => b = x + a
        <4>1. Tight(c, m, dist) => s = BestDep(dist, t)
          BY <3>3, <3>4, <3>5 DEF Tight
        <4> QED
          BY <3>8, <4>1
      <3>13. p + a <= z /\ (Tight(c, m, dist) => p + a = z)
        BY <1>5, <3>8, <3>10, <3>11, <3>12
      <3>14. Under(k)
        BY <3>3, <3>5, <3>7, <3>9, <3>13
      <3> QED
        BY <2>2, <3>14
    <2> QED
      BY <2>3, <2>4
  <1>7. Under(m)
    BY <1>5, <1>6
  <1>8. PICK t, x, a, q : t = c[1] /\ x = Backlog[t].cost /\ a = dist[t] /\ q = u[m - 1]
    OBVIOUS
  <1>9. m + 1 - m = 1 /\ 1 \in 1 .. m /\ m - 1 \in 0 .. m /\ m \in 0 .. m
    OBVIOUS
  <1>10. /\ x \in Nat /\ a \in Nat /\ x <= a
         /\ deps[t] = {} => a = x
    <2>1. t \in TaskIds
      BY <1>2, <1>8, <1>9
    <2> QED
      BY <2>1, <1>8, DistanceStarts
  <1>11. q \in Nat /\ u[m] \in Nat /\ u[m] = q + x
    BY <1>1, <1>8, <1>9
  <1>12. q + a <= z /\ (Tight(c, m, dist) => q + a = z)
    BY <1>7, <1>8, <1>9
  <1>13. Tight(c, m, dist) => a = x
    BY <1>8, <1>10 DEF Tight
  <1>14. u[m] <= z /\ (Tight(c, m, dist) => u[m] = z)
    BY <1>5, <1>10, <1>11, <1>12, <1>13
  <1> QED
    BY <1>1, <1>4, <1>11, <1>14

(* critical_path traces from the end, as far as there are dependencies.      *)
Further(dist, p) ==
    IF deps[Head(p)] = {} THEN p ELSE <<BestDep(dist, Head(p))>> \o p

Traced(p, end, dist) ==
    /\ p \in Seq(TaskIds) /\ Len(p) \in Nat \ {0} /\ p \in Chains(Len(p)) /\ p[Len(p)] = end
    /\ \A i \in 1 .. Len(p) - 1 : p[i] = BestDep(dist, p[i + 1])

LEMMA FurtherKeeps ==
    ASSUME TaskTypes, NEW dist, Reckons(dist), NEW end, NEW p, Traced(p, end, dist),
           NEW q, q = Further(dist, p)
    PROVE  /\ Traced(q, end, dist)
           /\ deps[p[1]] = {} => q = p
           /\ deps[p[1]] # {} => Len(q) = Len(p) + 1
  <1>1. PICK m, t : m = Len(p) /\ t = p[1]
    OBVIOUS
  <1>2. /\ m \in Nat \ {0} /\ p \in Seq(TaskIds) /\ p \in Chains(m) /\ p[m] = end /\ Head(p) = t
        /\ \A i \in 1 .. m : p[i] \in TaskIds
    BY <1>1 DEF Traced
  <1>3. CASE deps[t] = {}
    BY <1>1, <1>2, <1>3 DEF Further
  <1>4. CASE deps[t] # {}
    <2>1. PICK b : b = BestDep(dist, t)
      OBVIOUS
    <2>2. t \in TaskIds /\ 1 \in 1 .. m
      BY <1>1, <1>2
    <2>3. b \in deps[t] /\ b \in TaskIds
      BY <1>4, <2>1, <2>2, BestDepIs, IdsAre
    <2>4. q = <<b>> \o p
      BY <1>2, <1>4, <2>1 DEF Further
    <2>5. /\ q \in Seq(TaskIds) /\ Len(q) = m + 1 /\ q[1] = b
          /\ \A i \in 2 .. m + 1 : q[i] = p[i - 1]
      BY <1>1, <1>2, <2>3, <2>4
    <2>6. ASSUME NEW i \in 1 .. m PROVE q[i] \in deps[q[i + 1]] /\ q[i] = BestDep(dist, q[i + 1])
      <3>1. CASE i = 1
        <4>1. q[i] = b /\ q[i + 1] = t
          BY <1>1, <1>2, <2>5, <3>1
        <4> QED
          BY <4>1, <2>1, <2>3
      <3>2. CASE i # 1
        <4>1. i - 1 \in 1 .. m - 1 /\ (i - 1) + 1 = i /\ i \in 2 .. m + 1 /\ i + 1 \in 2 .. m + 1
              /\ (i + 1) - 1 = i
          BY <1>2, <3>2
        <4>2. q[i] = p[i - 1] /\ q[i + 1] = p[i]
          BY <2>5, <4>1
        <4>3. p[i - 1] \in deps[p[i]] /\ p[i - 1] = BestDep(dist, p[i])
          BY <1>1, <1>2, <4>1 DEF Traced, Chains
        <4> QED
          BY <4>2, <4>3
      <3> QED
        BY <3>1, <3>2
    <2>7. q[m + 1] = end
      <3>1. m + 1 \in 2 .. m + 1 /\ (m + 1) - 1 = m
        BY <1>2
      <3> QED
        BY <1>2, <2>5, <3>1
    <2>8. q \in [1 .. m + 1 -> TaskIds] /\ (m + 1) - 1 = m
      BY <1>2, <2>5
    <2>9. q \in Chains(m + 1)
      BY <2>6, <2>8 DEF Chains
    <2>10. Traced(q, end, dist)
      <3>1. m + 1 \in Nat \ {0}
        BY <1>2
      <3> QED
        BY <2>5, <2>6, <2>7, <2>8, <2>9, <3>1 DEF Traced
    <2> QED
      BY <1>1, <1>4, <2>5, <2>10
  <1> QED
    BY <1>3, <1>4

(* In a graph without cycles no chain has more than all tasks. *)
LEMMA FitsAll ==
    ASSUME TaskTypes, ~Cyclic, NEW n, n = Len(tasks), NEW m \in Nat \ {0}, NEW c \in Chains(m)
    PROVE  m <= n
  <1>1. PICK w : w = WavesUpTo /\ Waves(w, n)
    BY WavesAre
  <1>2. w[n] = TaskIds
    BY <1>1, AllInWaves
  <1>3. n \in 0 .. n /\ m \in 1 .. m
    BY IdsAre
  <1>4. c[m] \in w[n]
    BY <1>2, <1>3, ChainSeq
  <1> QED
    BY <1>1, <1>3, <1>4, ChainsFit

LEMMA CriticalIs ==
    ASSUME TaskTypes, CostsKnown, ~Cyclic, NEW n, n = Len(tasks), NEW dist, dist = Distance,
           NEW end \in TaskIds, NEW p, p = CriticalPath(end)
    PROVE  Traced(p, end, dist) /\ Len(p) \in 1 .. n /\ deps[p[1]] = {}
  <1>1. /\ n \in Nat \ {0} /\ TaskIds = 1 .. n
        /\ \A t \in TaskIds : deps[t] \subseteq TaskIds
    BY IdsAre
  <1>2. Reckons(dist)
    BY DistanceIs DEF Reckons
  <1>3. PICK V, G : /\ V = {v \in Seq(TaskIds) : v # <<>>}
                    /\ G = [k \in 1 .. n - 1 |-> [v \in V |-> Further(dist, v)]]
    OBVIOUS
  <1>4. ASSUME NEW v \in V PROVE Further(dist, v) \in V
    <2>1. v \in Seq(TaskIds) /\ v # <<>> /\ Head(v) \in TaskIds
      BY <1>3
    <2>2. PICK t : t = Head(v)
      OBVIOUS
    <2>3. CASE deps[t] = {}
      BY <2>1, <2>2, <2>3, <1>3 DEF Further
    <2>4. CASE deps[t] # {}
      <3>1. PICK b : b = BestDep(dist, t)
        OBVIOUS
      <3>2. b \in TaskIds
        BY <1>1, <1>2, <2>1, <2>2, <2>4, <3>1, BestDepIs
      <3>3. <<b>> \o v \in Seq(TaskIds) /\ <<b>> \o v # <<>>
        BY <2>1, <3>2
      <3> QED
        BY <1>3, <2>2, <2>4, <3>1, <3>3 DEF Further
    <2> QED
      BY <2>3, <2>4
  <1>5. PICK N, x : N = n - 1 /\ N \in Nat /\ x = <<end>>
    <2>1. n - 1 \in Nat
      BY <1>1
    <2> QED
      BY <2>1
  <1>6. x \in V /\ G \in [1 .. N -> [V -> V]]
    <2>1. x \in V
      BY <1>3, <1>5
    <2>2. [v \in V |-> Further(dist, v)] \in [V -> V]
      BY <1>4
    <2> QED
      BY <1>3, <1>5, <2>1, <2>2
  <1>7. PICK f : Results(f, V, N, x, G)
    BY <1>5, <1>6, Recursion
  <1>8. f \in [0 .. N -> V] /\ f[0] = x /\ \A k \in 1 .. N : f[k] = G[k][f[k - 1]]
    BY <1>7 DEF Results
  <1>9. \A k \in 1 .. N : f[k] = Further(dist, f[k - 1])
    <2> SUFFICES ASSUME NEW k \in 1 .. N PROVE f[k] = Further(dist, f[k - 1])
      OBVIOUS
    <2>1. f[k - 1] \in V
      BY <1>5, <1>8
    <2>2. G[k] = [v \in V |-> Further(dist, v)]
      BY <1>3, <1>5
    <2> QED
      BY <1>8, <2>1, <2>2
  <1> DEFINE Is(z) == z = [k \in 1 .. n |-> IF k = 1 THEN <<end>> ELSE
                        LET path == z[k - 1] IN
                        IF deps[Head(path)] = {} THEN path
                        ELSE <<BestDep(dist, Head(path))>> \o path]
  <1>10. PICK g : g = [k \in 1 .. n |-> f[k - 1]]
    OBVIOUS
  <1>11. Is(g)
    <2>1. ASSUME NEW k \in 1 .. n, k # 1 PROVE g[k] = Further(dist, g[k - 1])
      <3>1. k - 1 \in 1 .. N /\ k - 1 \in 1 .. n
        BY <1>1, <1>5, <2>1
      <3> QED
        BY <1>9, <1>10, <3>1
    <2>2. g[1] = <<end>>
      BY <1>1, <1>5, <1>8, <1>10
    <2>3. g = [k \in 1 .. n |-> g[k]]
      BY <1>10
    <2>4. \A k \in 1 .. n : g[k] = IF k = 1 THEN <<end>> ELSE
                        LET path == g[k - 1] IN
                        IF deps[Head(path)] = {} THEN path
                        ELSE <<BestDep(dist, Head(path))>> \o path
      BY <2>1, <2>2 DEF Further
    <2> QED
      BY <2>3, <2>4
  <1>12. PICK z : z = CHOOSE y : Is(y)
    OBVIOUS
  <1>13. Is(z)
    <2> HIDE DEF Is
    <2> QED
      BY <1>11, <1>12
  <1>14. p = z[n]
    BY <1>12 DEF CriticalPath
  <1>15. z[1] = x /\ \A k \in 2 .. n : z[k] = Further(dist, z[k - 1])
    <2>1. \A k \in 1 .. n : z[k] = IF k = 1 THEN <<end>> ELSE
                        LET path == z[k - 1] IN
                        IF deps[Head(path)] = {} THEN path
                        ELSE <<BestDep(dist, Head(path))>> \o path
      BY <1>13
    <2> HIDE DEF Is
    <2>2. 1 \in 1 .. n /\ \A k \in 2 .. n : k \in 1 .. n /\ k # 1
      BY <1>1
    <2> QED
      BY <1>5, <2>1, <2>2 DEF Further
  <1> HIDE DEF Is
  <1> DEFINE Good(k) == Traced(z[k], end, dist) /\ (deps[z[k][1]] = {} \/ Len(z[k]) = k)
             Bad == {k \in Nat : k \in 1 .. n /\ ~Good(k)}
  <1>16. Good(1)
    <2>1. PICK y : y = z[1] /\ y = <<end>>
      BY <1>5, <1>15
    <2>2. y \in Seq(TaskIds) /\ Len(y) = 1 /\ y[1] = end /\ y \in [1 .. 1 -> TaskIds]
      BY <2>1
    <2>3. y \in Chains(1)
      BY <2>2 DEF Chains
    <2>4. Traced(y, end, dist)
      BY <2>2, <2>3 DEF Traced
    <2> QED
      BY <2>1, <2>2, <2>4
  <1>17. ASSUME Bad # {} PROVE FALSE
    <2>1. PICK k \in Bad : \A i \in Bad : k <= i
      <3>1. Bad \in SUBSET Nat
        OBVIOUS
      <3> HIDE DEF Bad
      <3> QED
        BY <1>17, <3>1, LeastOf
    <2>2. k \in 1 .. n /\ k \in Nat /\ ~Good(k)
      BY <2>1
    <2>3. k \in 2 .. n /\ k - 1 \in 1 .. n /\ k - 1 \in Nat /\ ~(k <= k - 1)
      <3>1. k # 1
        BY <1>16, <2>2
      <3> QED
        BY <1>1, <2>2, <3>1
    <2>4. Good(k - 1)
      BY <2>1, <2>3
    <2>5. PICK r, q : r = z[k - 1] /\ q = z[k] /\ q = Further(dist, r)
      BY <1>15, <2>3
    <2>6. Traced(r, end, dist) /\ (deps[r[1]] = {} \/ Len(r) = k - 1)
      BY <2>4, <2>5
    <2>7. /\ Traced(q, end, dist)
          /\ deps[r[1]] = {} => q = r
          /\ deps[r[1]] # {} => Len(q) = Len(r) + 1
      <3>1. q = Further(dist, r)
        BY <2>5
      <3>2. Traced(r, end, dist)
        BY <2>6
      <3> HIDE DEF Bad
      <3> QED
        BY <1>2, <3>1, <3>2, FurtherKeeps
    <2>8. deps[q[1]] = {} \/ Len(q) = k
      BY <2>2, <2>6, <2>7
    <2>9. Good(k)
      BY <2>5, <2>7, <2>8
    <2> QED
      BY <2>2, <2>9
  <1>18. Good(n)
    BY <1>1, <1>17
  <1>19. Traced(p, end, dist) /\ (deps[p[1]] = {} \/ Len(p) = n)
    BY <1>14, <1>18
  <1>20. \A m \in Nat \ {0} : \A c \in Chains(m) : m <= n
    BY FitsAll
  <1>21. PICK m : m = Len(p) /\ m \in Nat \ {0} /\ p \in Chains(m)
    BY <1>19 DEF Traced
  <1>22. m \in 1 .. n
    BY <1>1, <1>20, <1>21
  <1>23. ASSUME deps[p[1]] # {} PROVE FALSE
    <2>1. PICK q : q = Further(dist, p)
      OBVIOUS
    <2>2. Traced(q, end, dist) /\ Len(q) = Len(p) + 1
      BY <1>2, <1>19, <1>23, <2>1, FurtherKeeps
    <2>3. Len(q) = n + 1
      BY <1>19, <1>23, <2>2
    <2>4. q \in Chains(n + 1) /\ n + 1 \in Nat \ {0}
      BY <1>1, <2>2, <2>3 DEF Traced
    <2> QED
      BY <1>1, <1>20, <2>4
  <1> QED
    BY <1>19, <1>21, <1>22, <1>23

(* The chains of a graph without cycles. *)
LEMMA AllChains ==
    ASSUME TaskTypes, ~Cyclic, NEW n, n = Len(tasks), NEW c
    PROVE  c \in UNION {Chains(k) : k \in 1 .. n} <=> \E m \in Nat \ {0} : c \in Chains(m)
  <1>1. n \in Nat
    BY IdsAre
  <1>2. \A m \in Nat \ {0} : c \in Chains(m) => m \in 1 .. n
    <2> SUFFICES ASSUME NEW m \in Nat \ {0}, c \in Chains(m) PROVE m \in 1 .. n
      OBVIOUS
    <2>1. m <= n
      BY FitsAll
    <2> QED
      BY <1>1, <2>1
  <1>3. \A m \in 1 .. n : m \in Nat \ {0}
    BY <1>1
  <1> QED
    BY <1>2, <1>3

(* A task is in the wave that the longest chain to it gives. *)
InItsWave(t, k, w, all) == t \in w[k] <=> \A c \in all : Last(c) = t => Len(c) <= k

LEMMA WavesSound ==
    ASSUME TaskTypes, ~Cyclic, NEW n, n = Len(tasks), NEW w, Waves(w, n),
           NEW all, all = UNION {Chains(k) : k \in 1 .. n}, NEW t \in TaskIds, NEW k \in 1 .. n
    PROVE  InItsWave(t, k, w, all)
  <1>1. n \in Nat /\ k \in 0 .. n /\ k \in Nat
    BY IdsAre
  <1>2. ASSUME t \in w[k], NEW c \in all, Last(c) = t PROVE Len(c) <= k
    <2>1. PICK m \in Nat \ {0} : c \in Chains(m)
      BY AllChains
    <2>2. Len(c) = m
      BY <2>1, ChainSeq
    <2>3. c[m] \in w[k]
      BY <1>2, <2>2 DEF Last
    <2>4. m <= k
      BY <1>1, <2>1, <2>3, ChainsFit
    <2> QED
      BY <2>2, <2>4
  <1>3. ASSUME t \notin w[k] PROVE \E c \in all : Last(c) = t /\ ~(Len(c) <= k)
    <2>1. PICK c \in Chains(k + 1) : c[k + 1] = t
      BY <1>1, <1>3, ChainsReach
    <2>2. k + 1 \in Nat \ {0}
      BY <1>1
    <2>3. c \in all
      BY <2>1, <2>2, AllChains
    <2>4. Len(c) = k + 1
      BY <2>1, <2>2, ChainSeq
    <2> QED
      BY <1>1, <2>1, <2>3, <2>4 DEF Last
  <1> QED
    BY <1>2, <1>3 DEF InItsWave

(* The critical path is a dearest chain, and the distance of its end is what *)
(* it costs.                                                                 *)
IsEnd(end, dist) == \A t \in TaskIds : dist[t] <= dist[end]
IsDearest(path, all, cost, end, dist) ==
    /\ path \in all /\ deps[Head(path)] = {} /\ Last(path) = end
    /\ CostOf(path) = cost /\ dist[end] = cost
DearestOf(all) == Max({CostOf(c) : c \in all} \cup {0})

LEMMA CostsSound ==
    ASSUME TaskTypes, CostsKnown, ~Cyclic, NEW n, n = Len(tasks), NEW dist, dist = Distance,
           NEW all, all = UNION {Chains(k) : k \in 1 .. n},
           NEW end \in TaskIds, IsEnd(end, dist)
    PROVE  IsDearest(CriticalPath(end), all, DearestOf(all), end, dist)
  <1>0. PICK path, dearest : path = CriticalPath(end) /\ dearest = DearestOf(all)
    OBVIOUS
  <1>1. Reckons(dist)
    BY DistanceIs DEF Reckons
  <1>2. Traced(path, end, dist) /\ deps[path[1]] = {}
    BY <1>0, CriticalIs
  <1>3. PICK m : m = Len(path) /\ m \in Nat \ {0} /\ path \in Chains(m) /\ path[m] = end
    BY <1>2 DEF Traced
  <1>4. Tight(path, m, dist) /\ Head(path) = path[1] /\ Last(path) = end
    BY <1>2, <1>3 DEF Traced, Tight, Last
  <1>5. path \in all
    BY <1>3, AllChains
  <1>6. CostOf(path) = dist[end] /\ dist[end] \in Nat
    BY <1>1, <1>3, <1>4, ChainCosts DEF Reckons
  <1>7. ASSUME NEW c \in all PROVE CostOf(c) <= dist[end]
    <2>1. PICK k \in Nat \ {0} : c \in Chains(k)
      BY AllChains
    <2>2. CostOf(c) \in Nat /\ CostOf(c) <= dist[c[k]]
      BY <1>1, <2>1, ChainCosts
    <2>3. k \in 1 .. k
      BY <2>1
    <2>4. c[k] \in TaskIds
      BY <2>1, <2>3, ChainSeq
    <2>5. dist[c[k]] \in Nat /\ dist[c[k]] <= dist[end]
      BY <1>1, <2>4 DEF Reckons, IsEnd
    <2> QED
      BY <1>6, <2>2, <2>5
  <1>8. PICK T : T = {CostOf(c) : c \in all} \cup {0}
    OBVIOUS
  <1>9. dist[end] \in T /\ \A y \in T : dist[end] >= y
    <2>1. dist[end] \in T
      BY <1>5, <1>6, <1>8
    <2>2. ASSUME NEW y \in T PROVE dist[end] >= y
      <3>1. CASE y = 0
        BY <1>6, <3>1
      <3>2. CASE y # 0
        <4>1. PICK c \in all : y = CostOf(c)
          BY <1>8, <3>2
        <4>2. y \in Nat
          <5>1. PICK k \in Nat \ {0} : c \in Chains(k)
            BY AllChains
          <5> QED
            BY <1>1, <4>1, <5>1, ChainCosts
        <4> QED
          BY <1>6, <1>7, <4>1, <4>2
      <3> QED
        BY <3>1, <3>2
    <2> QED
      BY <2>1, <2>2
  <1>10. dearest \in T /\ \A y \in T : dearest >= y
    <2>1. dearest = Max(T)
      BY <1>0, <1>8 DEF DearestOf
    <2> QED
      BY <1>9, <2>1 DEF Max
  <1>11. dearest \in Nat
    <2>1. CASE dearest = 0
      BY <2>1
    <2>2. CASE dearest # 0
      <3>1. PICK c \in all : dearest = CostOf(c)
        BY <1>8, <1>10, <2>2
      <3>2. PICK k \in Nat \ {0} : c \in Chains(k)
        BY AllChains
      <3> QED
        BY <1>1, <3>1, <3>2, ChainCosts
    <2> QED
      BY <2>1, <2>2
  <1>12. dist[end] = dearest
    <2>1. dist[end] >= dearest /\ dearest >= dist[end]
      BY <1>9, <1>10
    <2> QED
      BY <1>6, <1>11, <2>1
  <1> QED
    BY <1>0, <1>2, <1>4, <1>5, <1>6, <1>12 DEF IsDearest

(* The plans of every graph are sound. *)
LEMMA PlansHold ==
    ASSUME TaskTypes, CostsKnown
    PROVE  PlansAreSound
  <1>1. PICK order, n, waves, dist :
          order = TopologicalOrder /\ n = Len(tasks) /\ waves = WavesUpTo /\ dist = Distance
    OBVIOUS
  <1>2. Waves(waves, n)
    BY <1>1, WavesAre
  <1>3. /\ Len(order) = n <=> ~Cyclic
        /\ ~Cyclic => /\ ToSet(order) = TaskIds
                      /\ \A i, j \in 1 .. n : order[i] \in deps[order[j]] => i < j
    BY <1>1, OrderSound
  <1>4. waves[n] = TaskIds <=> ~Cyclic
    BY <1>1, <1>2, AllInWaves, CyclesStayOut
  <1>5. PICK all : all = UNION {Chains(k) : k \in 1 .. n}
    OBVIOUS
  <1>6. ASSUME ~Cyclic, NEW t \in TaskIds, NEW k \in 1 .. n PROVE InItsWave(t, k, waves, all)
    BY <1>1, <1>2, <1>5, <1>6, WavesSound
  <1>7. ASSUME ~Cyclic, NEW end \in TaskIds, IsEnd(end, dist)
        PROVE  IsDearest(CriticalPath(end), all, DearestOf(all), end, dist)
    BY <1>1, <1>5, <1>7, CostsSound
  <1>8. ~Cyclic => \A t \in TaskIds, k \in 1 .. n :
                      t \in waves[k] <=> \A c \in all : Last(c) = t => Len(c) <= k
    BY <1>6 DEF InItsWave
  <1>9. ~Cyclic => \A end \in TaskIds : (\A t \in TaskIds : dist[t] <= dist[end]) =>
                      IsDearest(CriticalPath(end), all, DearestOf(all), end, dist)
    BY <1>7 DEF IsEnd
  <1> QED
    BY <1>1, <1>3, <1>4, <1>5, <1>8, <1>9 DEF PlansAreSound, IsDearest, DearestOf

(* The tasks have their costs. *)
PlanInv == TaskInv /\ Len(tasks) <= Len(Backlog)

LEMMA PlanInvHolds == TaskSpec => []PlanInv
  <1>1. TaskInit => Len(tasks) <= Len(Backlog)
    <2> SUFFICES ASSUME TaskInit PROVE Len(tasks) <= Len(Backlog)
      OBVIOUS
    <2>1. Len(tasks) = 0
      BY DEF TaskInit
    <2> QED
      BY <2>1, TaskAssumption
  <1>2. TaskInv /\ Len(tasks) <= Len(Backlog) /\ [TaskNext]_taskVars => (Len(tasks) <= Len(Backlog))'
    <2> SUFFICES ASSUME TaskInv, Len(tasks) <= Len(Backlog), [TaskNext]_taskVars
                 PROVE  (Len(tasks) <= Len(Backlog))'
      OBVIOUS
    <2>1. Len(tasks) \in Nat /\ Len(Backlog) \in Nat /\ TaskIds = 1 .. Len(tasks)
      BY TaskAssumption DEF TaskInv, TaskTypes, TaskIds
    <2>2. CASE AddTask
      <3>1. PICK V : tasks \in TasksOf(V)
        BY DEF TaskInv, TaskTypes
      <3>2. Len(tasks') = Len(tasks) + 1
        BY <2>2, <3>1 DEF AddTask, TasksOf
      <3>3. Len(tasks) < Len(Backlog)
        BY <2>2 DEF AddTask
      <3> QED
        BY <2>1, <3>2, <3>3
    <2>3. ASSUME NEW t \in TaskIds, NEW d \in TaskIds, AddDep(t, d)
          PROVE  (Len(tasks) <= Len(Backlog))'
      BY <2>3 DEF AddDep
    <2>4. ASSUME tasks' = [t \in TaskIds |-> tasks'[t]] PROVE (Len(tasks) <= Len(Backlog))'
      <3>1. Len(tasks') = Len(tasks)
        BY <2>1, <2>4
      <3> QED
        BY <3>1
    <2>5. CASE AssignAgents
      <3>1. tasks' = [t \in TaskIds |-> tasks'[t]]
        BY <2>5 DEF AssignAgents
      <3> QED
        BY <2>4, <3>1
    <2>6. ASSUME NEW t \in TaskIds, CompleteTask(t) PROVE (Len(tasks) <= Len(Backlog))'
      <3>1. tasks' = [u \in TaskIds |-> tasks'[u]]
        BY <2>6 DEF CompleteTask
      <3> QED
        BY <2>4, <3>1
    <2>7. CASE UNCHANGED taskVars
      BY <2>7 DEF taskVars
    <2> QED
      BY <2>2, <2>3, <2>5, <2>6, <2>7 DEF TaskNext
  <1>3. TaskInit => TaskInv
    <2> SUFFICES ASSUME TaskInit PROVE TaskInv
      OBVIOUS
    <2>1. tasks = <<>> /\ deps = <<>>
      BY DEF TaskInit
    <2>2. tasks \in TasksOf({0})
      BY <2>1 DEF TasksOf
    <2> QED
      BY <2>1, <2>2 DEF TaskInv, TaskTypes, TasksWait, TaskIds
  <1> QED
    BY <1>1, <1>2, <1>3, TaskInvKept, PTL DEF TaskSpec, PlanInv

(* The orders, waves and critical paths of decompose.rs are sound on every   *)
(* graph its callers can build: an order exists exactly when there is no     *)
(* cycle, waves are those of the longest chains, the path is a dearest one.  *)
THEOREM PlansAreSoundAlways == TaskSpec => []PlansAreSound
  <1>1. PlanInv => PlansAreSound
    <2> SUFFICES ASSUME PlanInv PROVE PlansAreSound
      OBVIOUS
    <2>1. PICK n : n = Len(tasks) /\ n \in Nat /\ TaskIds = 1 .. n /\ TaskTypes
      BY IdsAre DEF PlanInv, TaskInv
    <2>2. CostsKnown
      <3>1. \A t \in TaskIds : t \in DOMAIN Backlog
        BY <2>1, TaskAssumption DEF PlanInv
      <3> QED
        BY <3>1, TaskAssumption DEF CostsKnown
    <2> QED
      BY <2>1, <2>2, PlansHold
  <1> QED
    BY <1>1, PlanInvHolds, PTL
=============================================================================
