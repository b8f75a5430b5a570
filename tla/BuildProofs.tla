---------------------------- MODULE BuildProofs ----------------------------
(* Proofs about Build, for any graph of actions, any number of processes over *)
(* one store and any number of kills and rotten blobs.                        *)
EXTENDS Build, TLAPS, WellFoundedInduction

(* Where a process is about some action, and where it puts a blob. *)
Working == {"lookup", "verify", "invalidate", "evict", "read", "execute"}
Putting == {"check", "open", "fill", "rename"}
Claiming == {"claim", "claimFill"}

Fields == {"at", "pos", "attempt", "relaxed", "unread", "tainted", "out", "handle",
           "produced", "outcome"}

InputsOf(r) == [i \in Reads(Order[r.pos]) |-> r.produced[i]]
PlatformOf(r) == IF Order[r.pos] \in Pinned /\ ~r.relaxed THEN "gpu" ELSE "any"

(* o is what the action of r makes of r's inputs, on the platform r asks for. *)
Fits(r, o) ==
    /\ o.action = Order[r.pos] /\ o.inputs = InputsOf(r) /\ o.platform = PlatformOf(r)

Shape(r) ==
    /\ DOMAIN r = Fields
    /\ r.at \in Places /\ r.pos \in 0 .. Len(Order) + 1 /\ r.handle \in Handles
    /\ r.attempt \in Nat /\ ~r.tainted
    /\ DOMAIN r.produced = Action \cup {Source} /\ r.produced[Source] = Source
    /\ r.outcome \in [Action -> Outcomes]

(* Where in the order, and how often tried. *)
Placed(b, r) ==
    /\ r.at \in Working \cup Claiming => r.pos \in 1 .. Len(Order)
    /\ r.at \in Putting => r.pos \in 0 .. Len(Order)
    /\ r.at = "next" => r.pos # 0
    /\ r.at = "new" => r.pos = 0
    /\ r.at \in {"invalidate", "evict"} => RetriesBadBlob(r.attempt)
    /\ r.relaxed => /\ r.pos \in 1 .. Len(Order) /\ Order[r.pos] \in OptedIn
                    /\ b \notin Gpu /\ r.attempt <= MaxTransientRetries + 1
    /\ ~r.relaxed => r.attempt <= MaxTransientRetries

(* The digest in hand. *)
InHand(b, r) ==
    /\ r.at = "verify" => Fits(r, r.out)
    /\ r.at \in Putting \cup Claiming /\ r.pos # 0 =>
          /\ Fits(r, r.out)
          /\ r.out.tool = IF Order[r.pos] \in Unpinned THEN b ELSE None
    /\ r.at \in Claiming => MayPublish(Order[r.pos]) /\ r.produced[Order[r.pos]] = r.out

(* What is produced so far: nothing yet from the present action on, but for  *)
(* the one whose claim is being written.                                     *)
Ahead(r) ==
    \A p \in 1 .. Len(Order) :
        p > r.pos \/ (p = r.pos /\ r.at \notin Claiming) => r.produced[Order[p]] = None

Faithful(b, r) ==
    \A a \in Action : r.produced[a] # None =>
        /\ r.produced[a].action = a
        /\ r.produced[a].inputs = [i \in Reads(a) |-> r.produced[i]]
        /\ a \in Pinned => r.produced[a].platform = "gpu" \/ (a \in OptedIn /\ b \notin Gpu)

(* Outcomes so far: an action before the present one is skipped exactly if   *)
(* one it depends on broke, and the present one depends on none that broke.  *)
Decided(r) ==
    /\ \A p \in 1 .. Len(Order) :
          /\ p >= r.pos => r.outcome[Order[p]] = "Pending"
          /\ p < r.pos =>
                /\ r.outcome[Order[p]] # "Pending"
                /\ r.outcome[Order[p]] = "Skipped" <=>
                      \E d \in Deps[Order[p]] : Breaks(r.outcome[d])
          /\ p = r.pos /\ r.at \in Working \cup Putting \cup Claiming =>
                \A d \in Deps[Order[p]] : ~Breaks(r.outcome[d])
    /\ r.at = "done" => r.pos = Len(Order) + 1

Process(b, r) ==
    Shape(r) /\ Placed(b, r) /\ InHand(b, r) /\ Ahead(r) /\ Faithful(b, r) /\ Decided(r)

Files ==
    /\ bad \subseteq blobs /\ badPartial \subseteq partial
    /\ {c.key : c \in claims} \cap torn = {}

Processes ==
    /\ DOMAIN run = Builder
    /\ \A b \in Builder : Process(b, run[b])

Inv == Processes /\ Files /\ ClaimsTrue

-----------------------------------------------------------------------------
(* The graph.                                                                *)

LEMMA Ordered ==
    /\ Len(Order) \in Nat
    /\ \A p \in 1 .. Len(Order) : Order[p] \in Action
    /\ \A p, q \in 1 .. Len(Order) : Order[p] = Order[q] => p = q
  BY GraphAssumption

(* What an action reads comes before it. *)
LEMMA ReadsBefore ==
    ASSUME NEW p \in 1 .. Len(Order)
    PROVE  /\ Reads(Order[p]) \subseteq Action \cup {Source}
           /\ Deps[Order[p]] \subseteq Action
           /\ \A i \in Reads(Order[p]) : i = Source \/ \E q \in 1 .. p - 1 : Order[q] = i
           /\ \A d \in Deps[Order[p]] : \E q \in 1 .. p - 1 : Order[q] = d
  BY GraphAssumption, Ordered DEF Reads

LEMMA ReadsOthers ==
    ASSUME NEW p \in 1 .. Len(Order)
    PROVE  Order[p] \notin Reads(Order[p]) /\ Order[p] # Source
  <1>1. Order[p] \in Action /\ Source \notin Action
    BY Ordered, GraphAssumption
  <1>2. ASSUME Order[p] \in Reads(Order[p]) PROVE FALSE
    <2>1. PICK q \in 1 .. p - 1 : Order[q] = Order[p]
      BY <1>1, <1>2, ReadsBefore
    <2>2. q \in 1 .. Len(Order) /\ q # p
      BY Ordered
    <2> QED
      BY <2>1, <2>2, Ordered
  <1> QED
    BY <1>1, <1>2
-----------------------------------------------------------------------------
(* What happens to the record of a process.                                  *)

Busy == Working \cup Putting \cup Claiming

(* Fields that nothing but the present action's result depends on. *)
LEMMA Carried ==
    ASSUME NEW b, NEW r, NEW q, Process(b, r),
           q.pos = r.pos, q.produced = r.produced, q.outcome = r.outcome,
           q.at \in Claiming \/ r.at \notin Claiming,
           q.at \in Busy => r.at \in Busy \/ q.pos = 0,
           q.at # "done"
    PROVE  Ahead(q) /\ Faithful(b, q) /\ Decided(q)
  <1>1. Ahead(q)
    BY DEF Process, Ahead
  <1>2. Faithful(b, q)
    BY DEF Process, Faithful
  <1>3. Decided(q)
    BY DEF Process, Decided, Busy
  <1> QED
    BY <1>1, <1>2, <1>3

LEMMA FitsCarried ==
    ASSUME NEW r, NEW q, NEW o, Fits(r, o),
           q.pos = r.pos, q.produced = r.produced, q.relaxed = r.relaxed
    PROVE  Fits(q, o)
  BY DEF Fits, InputsOf, PlatformOf

(* What may be returned with: some outcome, Skipped exactly if it depends on *)
(* something broken.                                                         *)
Verdict(r, o) ==
    /\ o \in Outcomes \ {"Pending"}
    /\ o = "Skipped" <=> \E d \in Deps[Order[r.pos]] : Breaks(r.outcome[d])

LEMMA ReturnFields ==
    ASSUME NEW r, NEW o, Shape(r), r.pos \in 1 .. Len(Order), o \in Outcomes,
           NEW q, q = Return(r, Order[r.pos], o)
    PROVE  /\ Shape(q) /\ q.at = "next" /\ q.pos = r.pos + 1 /\ q.attempt = 0
           /\ ~q.relaxed /\ q.produced = r.produced
           /\ q.outcome[Order[r.pos]] = o /\ q.handle = "none"
           /\ \A a \in Action : a # Order[r.pos] => q.outcome[a] = r.outcome[a]
  <1>1. /\ DOMAIN r = Fields /\ r.produced[Source] = Source
        /\ DOMAIN r.produced = Action \cup {Source} /\ r.outcome \in [Action -> Outcomes]
    BY DEF Shape
  <1>3. /\ DOMAIN q = Fields /\ q.at = "next" /\ q.pos = r.pos + 1 /\ q.attempt = 0
        /\ ~q.relaxed /\ ~q.tainted /\ q.produced = r.produced
        /\ q.handle = "none"
        /\ q.outcome = [r.outcome EXCEPT ![Order[r.pos]] = o]
    BY <1>1 DEF Return, Fields
  <1>4. q.outcome \in [Action -> Outcomes]
    BY <1>1, <1>3
  <1>5. q.pos \in 0 .. Len(Order) + 1
    BY <1>3, Ordered
  <1>6. q.at \in Places /\ q.handle \in Handles /\ q.attempt \in Nat
    BY <1>3 DEF Places, Handles
  <1>7. DOMAIN q.produced = Action \cup {Source} /\ q.produced[Source] = Source
    BY <1>1, <1>3
  <1>8. Shape(q)
    BY <1>3, <1>4, <1>5, <1>6, <1>7 DEF Shape
  <1> QED
    BY <1>1, <1>3, <1>8, Ordered

LEMMA Returned ==
    ASSUME NEW b, NEW r, NEW o, Shape(r), Faithful(b, r), r.pos \in 1 .. Len(Order),
           \A p \in 1 .. Len(Order) : p > r.pos => r.produced[Order[p]] = None,
           \A p \in 1 .. Len(Order) :
              /\ p >= r.pos => r.outcome[Order[p]] = "Pending"
              /\ p < r.pos =>
                    /\ r.outcome[Order[p]] # "Pending"
                    /\ r.outcome[Order[p]] = "Skipped" <=>
                          \E d \in Deps[Order[p]] : Breaks(r.outcome[d]),
           Verdict(r, o)
    PROVE  Process(b, Return(r, Order[r.pos], o))
  <1>1. PICK q : q = Return(r, Order[r.pos], o)
    OBVIOUS
  <1>2. /\ Shape(q) /\ q.at = "next" /\ q.pos = r.pos + 1 /\ q.attempt = 0
        /\ ~q.relaxed /\ q.produced = r.produced
        /\ q.outcome[Order[r.pos]] = o
        /\ \A a \in Action : a # Order[r.pos] => q.outcome[a] = r.outcome[a]
    BY <1>1, ReturnFields DEF Verdict
  <1>3. Placed(b, q)
    BY <1>2, Ordered DEF Placed, Working, Putting, Claiming, MaxTransientRetries
  <1>4. InHand(b, q)
    BY <1>2 DEF InHand, Putting, Claiming
  <1>5. Ahead(q)
    BY <1>2, Ordered DEF Ahead
  <1>6. Faithful(b, q)
    BY <1>2 DEF Faithful
  <1>7. Decided(q)
    <2>1. \A p \in 1 .. Len(Order) :
             q.outcome[Order[p]] = IF p = r.pos THEN o ELSE r.outcome[Order[p]]
      BY <1>2, Ordered DEF Shape
    <2>2. ASSUME NEW p \in 1 .. Len(Order), p <= r.pos, NEW d \in Deps[Order[p]]
          PROVE  q.outcome[d] = r.outcome[d]
      <3>1. PICK k \in 1 .. p - 1 : Order[k] = d
        BY ReadsBefore
      <3>2. k \in 1 .. Len(Order) /\ k # r.pos
        BY <2>2, Ordered
      <3> QED
        BY <3>1, <3>2, <2>1
    <2>3. ASSUME NEW p \in 1 .. Len(Order), p >= q.pos
          PROVE  q.outcome[Order[p]] = "Pending"
      BY <1>2, <2>1, <2>3, Ordered
    <2>4. ASSUME NEW p \in 1 .. Len(Order), p < q.pos
          PROVE  /\ q.outcome[Order[p]] # "Pending"
                 /\ q.outcome[Order[p]] = "Skipped" <=>
                       \E d \in Deps[Order[p]] : Breaks(q.outcome[d])
      <3>1. CASE p = r.pos
        <4>1. q.outcome[Order[p]] = o
          BY <3>1, <2>1
        <4>2. p <= r.pos
          BY <3>1, Ordered
        <4>3. o = "Skipped" <=> \E d \in Deps[Order[p]] : Breaks(q.outcome[d])
          BY <3>1, <4>2, <2>2 DEF Verdict
        <4> QED
          BY <4>1, <4>3 DEF Verdict
      <3>2. CASE p # r.pos
        <4>1. p < r.pos
          BY <1>2, <2>4, <3>2, Ordered
        <4>2. q.outcome[Order[p]] = r.outcome[Order[p]]
          BY <3>2, <2>1
        <4>3. \A d \in Deps[Order[p]] : q.outcome[d] = r.outcome[d]
          BY <4>1, <2>2, Ordered
        <4> QED
          BY <4>1, <4>2, <4>3
      <3> QED
        BY <3>1, <3>2
    <2>5. q.at \notin Working \cup Putting \cup Claiming /\ q.at # "done"
      BY <1>2 DEF Working, Putting, Claiming
    <2> QED
      BY <2>3, <2>4, <2>5 DEF Decided
  <1> QED
    BY <1>1, <1>2, <1>3, <1>4, <1>5, <1>6, <1>7 DEF Process

(* The action in hand fails, hits or is built. *)
LEMMA ReturnedBusy ==
    ASSUME NEW b, NEW r, NEW o, Process(b, r), r.at \in Working \cup Putting, r.pos # 0,
           o \in Outcomes \ {"Pending", "Skipped"}
    PROVE  Process(b, Return(r, Order[r.pos], o))
  <1>1. r.pos \in 1 .. Len(Order)
    BY Ordered DEF Process, Placed, Shape
  <1>2. \A p \in 1 .. Len(Order) : p > r.pos => r.produced[Order[p]] = None
    BY DEF Process, Ahead
  <1>3. Verdict(r, o)
    BY <1>1, Ordered DEF Process, Decided, Verdict
  <1>4. \A p \in 1 .. Len(Order) :
              /\ p >= r.pos => r.outcome[Order[p]] = "Pending"
              /\ p < r.pos =>
                    /\ r.outcome[Order[p]] # "Pending"
                    /\ r.outcome[Order[p]] = "Skipped" <=>
                          \E d \in Deps[Order[p]] : Breaks(r.outcome[d])
    BY DEF Process, Decided
  <1> QED
    BY <1>1, <1>2, <1>3, <1>4, Returned DEF Process
(* The digest in hand becomes the product of the present action. *)
Enter(r) == [r EXCEPT !.produced[Order[r.pos]] = r.out]

LEMMA Entered ==
    ASSUME NEW b, NEW r, Process(b, r), r.at \in Putting \cup {"verify"}, r.pos # 0,
           NEW q, q = Enter(r)
    PROVE  /\ r.pos \in 1 .. Len(Order) /\ Order[r.pos] \in Action
           /\ Shape(q) /\ Faithful(b, q) /\ Fits(q, q.out)
           /\ q.pos = r.pos /\ q.at = r.at /\ q.out = r.out /\ q.outcome = r.outcome
           /\ q.relaxed = r.relaxed /\ q.attempt = r.attempt /\ q.handle = r.handle
           /\ q.produced[Order[q.pos]] = q.out
           /\ \A p \in 1 .. Len(Order) : p > q.pos => q.produced[Order[p]] = None
  <1>1. r.pos \in 1 .. Len(Order)
    BY Ordered DEF Process, Placed, Shape, Working
  <1>2. Order[r.pos] \in Action /\ DOMAIN r = Fields
        /\ DOMAIN r.produced = Action \cup {Source} /\ r.produced[Source] = Source
    BY <1>1, Ordered DEF Process, Shape
  <1>3. /\ DOMAIN q = Fields /\ q.pos = r.pos /\ q.at = r.at /\ q.out = r.out
        /\ q.outcome = r.outcome /\ q.relaxed = r.relaxed /\ q.attempt = r.attempt
        /\ q.handle = r.handle /\ q.tainted = r.tainted
        /\ q.produced = [r.produced EXCEPT ![Order[r.pos]] = r.out]
    BY <1>2 DEF Fields, Enter
  <1>4. /\ DOMAIN q.produced = Action \cup {Source}
        /\ q.produced[Order[r.pos]] = r.out
        /\ \A i \in Action \cup {Source} :
              i # Order[r.pos] => q.produced[i] = r.produced[i]
    BY <1>2, <1>3
  <1>5. q.produced[Source] = Source
    BY <1>1, <1>2, <1>4, ReadsOthers
  <1>6. Shape(q)
    BY <1>3, <1>4, <1>5 DEF Process, Shape
  <1>7. ASSUME NEW p \in 1 .. Len(Order), p <= r.pos
        PROVE  [i \in Reads(Order[p]) |-> q.produced[i]] =
                  [i \in Reads(Order[p]) |-> r.produced[i]]
    <2>1. ASSUME NEW i \in Reads(Order[p])
          PROVE  i \in Action \cup {Source} /\ i # Order[r.pos]
      <3>1. i \in Action \cup {Source}
        BY ReadsBefore
      <3>2. CASE i = Source
        BY <3>1, <3>2, <1>1, ReadsOthers
      <3>3. CASE i # Source
        <4>1. PICK k \in 1 .. p - 1 : Order[k] = i
          BY <3>3, ReadsBefore
        <4>2. k \in 1 .. Len(Order) /\ k # r.pos
          BY <1>7, Ordered
        <4> QED
          BY <3>1, <4>1, <4>2, <1>1, Ordered
      <3> QED
        BY <3>2, <3>3
    <2> QED
      BY <2>1, <1>4
  <1>8. Fits(q, q.out)
    <2>1. Fits(r, r.out)
      BY DEF Process, InHand
    <2>2. InputsOf(q) = InputsOf(r)
      BY <1>1, <1>3, <1>7 DEF InputsOf
    <2> QED
      BY <2>1, <2>2, <1>3 DEF Fits, PlatformOf
  <1>9. \A p \in 1 .. Len(Order) : p > q.pos => q.produced[Order[p]] = None
    BY <1>1, <1>3, <1>4, Ordered DEF Process, Ahead
  <1>10. Faithful(b, q)
    <2> SUFFICES ASSUME NEW a \in Action, q.produced[a] # None
                 PROVE  /\ q.produced[a].action = a
                        /\ q.produced[a].inputs = [i \in Reads(a) |-> q.produced[i]]
                        /\ a \in Pinned => \/ q.produced[a].platform = "gpu"
                                           \/ a \in OptedIn /\ b \notin Gpu
      BY DEF Faithful
    <2>1. CASE a = Order[r.pos]
      <3>1. q.produced[a] = q.out
        BY <2>1, <1>3, <1>4
      <3>2. q.out.platform = PlatformOf(q)
        BY <1>8 DEF Fits
      <3>3. a \in Pinned => q.out.platform = "gpu" \/ (a \in OptedIn /\ b \notin Gpu)
        BY <2>1, <3>2, <1>3 DEF PlatformOf, Process, Placed
      <3> QED
        BY <2>1, <3>1, <3>3, <1>3, <1>8 DEF Fits, InputsOf
    <2>2. CASE a # Order[r.pos]
      <3>1. q.produced[a] = r.produced[a]
        BY <2>2, <1>4
      <3>2. PICK p \in 1 .. Len(Order) : Order[p] = a
        BY GraphAssumption
      <3>3. p <= r.pos
        BY <1>1, <1>3, <1>9, <3>2, Ordered
      <3> QED
        BY <3>1, <3>2, <3>3, <1>7 DEF Process, Faithful
    <2> QED
      BY <2>1, <2>2
  <1> QED
    BY <1>1, <1>2, <1>3, <1>4, <1>6, <1>8, <1>9, <1>10

(* A hit is adopted. *)
LEMMA Adopted ==
    ASSUME NEW b, NEW r, Process(b, r), r.at \in Putting \cup {"verify"}, r.pos # 0,
           NEW o, o \in Outcomes \ {"Pending", "Skipped"}
    PROVE  Process(b, Return(Enter(r), Order[r.pos], o))
  <1>1. PICK q : q = Enter(r)
    OBVIOUS
  <1>2. /\ q.pos \in 1 .. Len(Order) /\ q.pos = r.pos /\ q.outcome = r.outcome
        /\ Shape(q) /\ Faithful(b, q)
        /\ \A p \in 1 .. Len(Order) : p > q.pos => q.produced[Order[p]] = None
    BY <1>1, Entered
  <1>3. \A p \in 1 .. Len(Order) :
              /\ p >= q.pos => q.outcome[Order[p]] = "Pending"
              /\ p < q.pos =>
                    /\ q.outcome[Order[p]] # "Pending"
                    /\ q.outcome[Order[p]] = "Skipped" <=>
                          \E d \in Deps[Order[p]] : Breaks(q.outcome[d])
    BY <1>2 DEF Process, Decided
  <1>4. Verdict(q, o)
    BY <1>2 DEF Process, Decided, Verdict, Working
  <1>5. Process(b, Return(q, Order[q.pos], o))
    BY <1>2, <1>3, <1>4, Returned
  <1> QED
    BY <1>1, <1>2, <1>5

(* The claim of what was made is about to be written. *)
LEMMA Claimed ==
    ASSUME NEW b, NEW r, Process(b, r), r.at \in Putting, r.pos # 0,
           MayPublish(Order[r.pos])
    PROVE  Process(b, [Enter(r) EXCEPT !.at = "claim"])
  <1>1. PICK s : s = Enter(r)
    OBVIOUS
  <1>2. /\ s.pos \in 1 .. Len(Order) /\ s.pos = r.pos /\ s.outcome = r.outcome
        /\ s.at = r.at /\ s.out = r.out /\ s.relaxed = r.relaxed /\ s.attempt = r.attempt
        /\ Shape(s) /\ Faithful(b, s) /\ Fits(s, s.out) /\ s.produced[Order[s.pos]] = s.out
        /\ \A p \in 1 .. Len(Order) : p > s.pos => s.produced[Order[p]] = None
    BY <1>1, Entered
  <1>3. PICK q : q = [s EXCEPT !.at = "claim"]
    OBVIOUS
  <1>4. /\ DOMAIN q = Fields /\ q.at = "claim" /\ q.pos = s.pos /\ q.out = s.out
        /\ q.outcome = s.outcome /\ q.relaxed = s.relaxed /\ q.attempt = s.attempt
        /\ q.handle = s.handle /\ q.tainted = s.tainted /\ q.produced = s.produced
    BY <1>2, <1>3 DEF Shape, Fields
  <1>5. Shape(q)
    BY <1>2, <1>4 DEF Shape, Places
  <1>6. Placed(b, q)
    BY <1>2, <1>4 DEF Process, Placed, Working, Claiming, Putting
  <1>7. InHand(b, q)
    <2>1. Fits(q, q.out)
      BY <1>2, <1>4, FitsCarried
    <2>2. r.out.tool = IF Order[r.pos] \in Unpinned THEN b ELSE None
      BY DEF Process, InHand
    <2> QED
      BY <2>1, <2>2, <1>2, <1>4 DEF InHand, Putting, Claiming
  <1>8. Ahead(q)
    BY <1>2, <1>4 DEF Ahead, Claiming
  <1>9. Faithful(b, q)
    BY <1>2, <1>4 DEF Faithful
  <1>10. Decided(q)
    <2>1. q.pos = r.pos /\ q.outcome = r.outcome /\ q.at # "done"
      BY <1>2, <1>4
    <2> QED
      BY <2>1 DEF Process, Decided
  <1> QED
    BY <1>1, <1>3, <1>5, <1>6, <1>7, <1>8, <1>9, <1>10 DEF Process

(* Somebody else's call may rename or remove the file a process writes. *)
LEMMA HandleMoved ==
    ASSUME NEW b, NEW r, Process(b, r), NEW h \in Handles
    PROVE  Process(b, [r EXCEPT !.handle = h])
  <1>1. PICK q : q = [r EXCEPT !.handle = h]
    OBVIOUS
  <1>2. /\ DOMAIN q = Fields /\ q.at = r.at /\ q.pos = r.pos /\ q.out = r.out
        /\ q.outcome = r.outcome /\ q.relaxed = r.relaxed /\ q.attempt = r.attempt
        /\ q.handle = h /\ q.tainted = r.tainted /\ q.produced = r.produced
    BY <1>1 DEF Process, Shape, Fields
  <1>3. Shape(q) /\ Placed(b, q)
    BY <1>2 DEF Process, Shape, Placed
  <1>4. InHand(b, q)
    <2>1. \A o : Fits(r, o) => Fits(q, o)
      BY <1>2, FitsCarried
    <2> QED
      BY <1>2, <2>1 DEF Process, InHand
  <1>5. Ahead(q) /\ Faithful(b, q) /\ Decided(q)
    BY <1>2 DEF Process, Ahead, Faithful, Decided
  <1> QED
    BY <1>1, <1>3, <1>4, <1>5 DEF Process
LEMMA Moved ==
    ASSUME NEW b, NEW r, NEW q, Process(b, r),
           DOMAIN q = Fields, q.pos = r.pos, q.produced = r.produced,
           q.outcome = r.outcome, q.at \in Places, q.handle \in Handles,
           q.attempt \in Nat, ~q.tainted, Placed(b, q), InHand(b, q),
           q.at \in Claiming \/ r.at \notin Claiming,
           q.at \in Busy => r.at \in Busy \/ q.pos = 0,
           q.at # "done"
    PROVE  Process(b, q)
  <1>1. Shape(q)
    BY DEF Process, Shape
  <1>2. Ahead(q) /\ Faithful(b, q) /\ Decided(q)
    BY Carried
  <1> QED
    BY <1>1, <1>2 DEF Process

(* A move within an action that leaves nothing in hand. *)
LEMMA MovedOn ==
    ASSUME NEW b, NEW r, NEW q, Process(b, r), r.at \in Working,
           DOMAIN q = Fields, q.pos = r.pos, q.produced = r.produced,
           q.outcome = r.outcome, q.at \in Working \ {"verify"}, q.handle = r.handle,
           q.attempt \in Nat, ~q.tainted,
           q.relaxed => /\ Order[r.pos] \in OptedIn /\ b \notin Gpu
                        /\ q.attempt <= MaxTransientRetries + 1,
           ~q.relaxed => q.attempt <= MaxTransientRetries,
           q.at \in {"invalidate", "evict"} => RetriesBadBlob(q.attempt)
    PROVE  Process(b, q)
  <1>1. q.at \in Places /\ q.handle \in Handles
    BY DEF Working, Places, Process, Shape
  <1>2. q.pos \in 1 .. Len(Order) /\ q.pos # 0
    BY Ordered DEF Process, Placed
  <1>3. Placed(b, q)
    BY <1>2 DEF Placed, Working, Putting, Claiming
  <1>4. InHand(b, q)
    BY DEF InHand, Working, Putting, Claiming
  <1> QED
    BY <1>1, <1>3, <1>4, Moved DEF Busy, Working, Claiming

LEMMA Limits ==
    ASSUME NEW b, NEW r, Process(b, r)
    PROVE  /\ DOMAIN r = Fields /\ r.attempt \in Nat /\ ~r.tainted
           /\ r.relaxed => /\ r.pos \in 1 .. Len(Order) /\ Order[r.pos] \in OptedIn
                           /\ b \notin Gpu /\ r.attempt <= MaxTransientRetries + 1
           /\ ~r.relaxed => r.attempt <= MaxTransientRetries
           /\ r.at \in Working \cup Claiming => r.pos \in 1 .. Len(Order) /\ r.pos # 0
  BY Ordered DEF Process, Placed, Shape

-----------------------------------------------------------------------------
(* The processes, action by action.                                          *)

(* Everybody but b does as before, but for the names of files. *)
Bystanders(b) ==
    /\ DOMAIN run' = Builder
    /\ \A c \in Builder : c # b =>
          run'[c] = run[c] \/ \E h \in Handles : run'[c] = [run[c] EXCEPT !.handle = h]

LEMMA AllProcesses ==
    ASSUME Processes, NEW b \in Builder, Bystanders(b), Process(b, run'[b])
    PROVE  Processes'
  <1>1. ASSUME NEW c \in Builder, c # b
        PROVE  Process(c, run'[c])
    <2>1. Process(c, run[c])
      BY DEF Processes
    <2>2. CASE run'[c] = run[c]
      BY <2>1, <2>2
    <2>3. ASSUME NEW h \in Handles, run'[c] = [run[c] EXCEPT !.handle = h]
          PROVE  Process(c, run'[c])
      <3>1. PICK r : r = run[c]
        OBVIOUS
      <3>2. Process(c, [r EXCEPT !.handle = h])
        BY <2>1, <3>1, HandleMoved
      <3> QED
        BY <2>3, <3>1, <3>2
    <2> QED
      BY <1>1, <2>2, <2>3 DEF Bystanders
  <1>2. \A c \in Builder : Process(c, run'[c])
    BY <1>1
  <1>3. DOMAIN run' = Builder
    BY DEF Bystanders
  <1> QED
    BY <1>2, <1>3 DEF Processes, Process, Shape, Placed, InHand, Ahead, Faithful, Decided,
       Fits, InputsOf, PlatformOf

LEMMA Alone ==
    ASSUME Processes, NEW b \in Builder, NEW q, run' = [run EXCEPT ![b] = q]
    PROVE  Bystanders(b) /\ run'[b] = q
  BY DEF Processes, Bystanders

LEMMA RetriedOn ==
    ASSUME Processes, NEW b \in Builder, run[b].at \in Working,
           run[b].attempt < MaxTransientRetries, run' = [run EXCEPT ![b] = Retry(b)]
    PROVE  Processes'
  <1>1. Bystanders(b) /\ run'[b] = Retry(b)
    BY Alone
  <1>2. PICK r, q : r = run[b] /\ q = run'[b]
    OBVIOUS
  <1>3. Process(b, r)
    BY <1>2 DEF Processes
  <1>4. q = [r EXCEPT !.at = "lookup", !.attempt = @ + 1]
    BY <1>1, <1>2 DEF Retry
  <1>5. DOMAIN r = Fields /\ r.attempt \in Nat /\ ~r.tainted
    BY <1>3, Limits
  <1>6. /\ DOMAIN q = Fields /\ q.pos = r.pos /\ q.produced = r.produced
        /\ q.outcome = r.outcome /\ q.at = "lookup" /\ q.handle = r.handle
        /\ q.attempt = r.attempt + 1 /\ q.relaxed = r.relaxed /\ q.tainted = r.tainted
    BY <1>4, <1>5 DEF Fields
  <1>7. /\ q.attempt \in Nat /\ q.attempt <= MaxTransientRetries /\ ~q.tainted
        /\ q.attempt <= MaxTransientRetries + 1
    BY <1>2, <1>5, <1>6 DEF MaxTransientRetries
  <1>8. q.at \in Working \ {"verify"} /\ q.at \notin {"invalidate", "evict"}
    BY <1>6 DEF Working
  <1>9. q.relaxed => /\ Order[r.pos] \in OptedIn /\ b \notin Gpu
                     /\ q.attempt <= MaxTransientRetries + 1
    BY <1>3, <1>6, <1>7, Limits
  <1>10. Process(b, q)
    BY <1>2, <1>3, <1>6, <1>7, <1>8, <1>9, MovedOn
  <1> QED
    BY <1>1, <1>2, <1>10, AllProcesses

LEMMA FailedOn ==
    ASSUME Processes, NEW b \in Builder, run[b].at \in Working \cup Putting, run[b].pos # 0,
           Fail(b)
    PROVE  Processes'
  <1>1. Bystanders(b) /\ run'[b] = Return(run[b], Order[run[b].pos], "Failed")
    BY Alone DEF Fail, Current
  <1>2. Process(b, run[b])
    BY DEF Processes
  <1>3. "Failed" \in Outcomes \ {"Pending", "Skipped"}
    BY DEF Outcomes
  <1>4. Process(b, run'[b])
    BY <1>1, <1>2, <1>3, ReturnedBusy
  <1> QED
    BY <1>1, <1>4, AllProcesses
LEMMA GoneTo ==
    ASSUME Processes, NEW b \in Builder, NEW place, Goto(b, place)
    PROVE  /\ Bystanders(b) /\ Process(b, run[b]) /\ DOMAIN run[b] = Fields
           /\ DOMAIN run'[b] = Fields /\ run'[b].at = place
           /\ run'[b].pos = run[b].pos /\ run'[b].attempt = run[b].attempt
           /\ run'[b].relaxed = run[b].relaxed /\ run'[b].tainted = run[b].tainted
           /\ run'[b].out = run[b].out /\ run'[b].handle = run[b].handle
           /\ run'[b].produced = run[b].produced /\ run'[b].outcome = run[b].outcome
           /\ ~run'[b].tainted /\ run[b].attempt \in Nat /\ run[b].handle \in Handles
  <1>1. Process(b, run[b]) /\ DOMAIN run[b] = Fields /\ ~run[b].tainted
        /\ run[b].attempt \in Nat /\ run[b].handle \in Handles
    BY DEF Processes, Process, Shape
  <1>2. run' = [run EXCEPT ![b] = [run[b] EXCEPT !.at = place]]
    BY DEF Goto
  <1>3. Bystanders(b) /\ run'[b] = [run[b] EXCEPT !.at = place]
    BY <1>2, Alone
  <1> QED
    BY <1>1, <1>3 DEF Fields

LEMMA StartOn ==
    ASSUME Processes, NEW b \in Builder, StartProcess(b)
    PROVE  Processes'
  <1>1. run[b].at = "new" /\ Goto(b, "check")
    BY DEF StartProcess
  <1>2. PICK r, q : r = run[b] /\ q = run'[b]
    OBVIOUS
  <1>3. /\ Bystanders(b) /\ Process(b, r) /\ DOMAIN q = Fields /\ q.at = "check"
        /\ q.pos = r.pos /\ q.attempt = r.attempt /\ q.relaxed = r.relaxed
        /\ q.produced = r.produced /\ q.outcome = r.outcome /\ q.handle = r.handle
        /\ ~q.tainted /\ q.attempt \in Nat /\ q.handle \in Handles
    BY <1>1, <1>2, GoneTo
  <1>4. r.at = "new" /\ r.pos = 0
    BY <1>1, <1>2, <1>3 DEF Process, Placed
  <1>5. Placed(b, q)
    BY <1>3, <1>4, Ordered DEF Process, Placed, Working, Putting, Claiming
  <1>6. InHand(b, q)
    BY <1>3, <1>4 DEF InHand, Claiming
  <1>7. Process(b, q)
    BY <1>3, <1>4, <1>5, <1>6, Moved DEF Places, Claiming
  <1> QED
    BY <1>2, <1>3, <1>7, AllProcesses

LEMMA FinishOn ==
    ASSUME Processes, NEW b \in Builder, Finish(b)
    PROVE  Processes'
  <1>1. run[b].at = "next" /\ run[b].pos > Len(Order) /\ Goto(b, "done")
    BY DEF Finish
  <1>2. PICK r, q : r = run[b] /\ q = run'[b]
    OBVIOUS
  <1>3. /\ Bystanders(b) /\ Process(b, r) /\ DOMAIN q = Fields /\ q.at = "done"
        /\ q.pos = r.pos /\ q.attempt = r.attempt /\ q.relaxed = r.relaxed
        /\ q.produced = r.produced /\ q.outcome = r.outcome /\ q.handle = r.handle
        /\ ~q.tainted
    BY <1>1, <1>2, GoneTo
  <1>4. Shape(q)
    BY <1>3 DEF Process, Shape, Places
  <1>5. Placed(b, q)
    BY <1>3 DEF Process, Placed, Working, Putting, Claiming
  <1>6. InHand(b, q)
    BY <1>3 DEF InHand, Claiming, Putting
  <1>7. r.at \notin Claiming
    BY <1>1, <1>2 DEF Claiming
  <1>8. Ahead(q) /\ Faithful(b, q)
    BY <1>3, <1>7 DEF Process, Ahead, Faithful
  <1>9. Decided(q)
    <2>1. q.pos = Len(Order) + 1
      BY <1>1, <1>2, <1>3, Ordered DEF Process, Shape
    <2>2. q.at \notin Working \cup Putting \cup Claiming
      BY <1>3 DEF Working, Putting, Claiming
    <2> QED
      BY <1>3, <2>1, <2>2 DEF Process, Decided
  <1> QED
    BY <1>2, <1>3, <1>4, <1>5, <1>6, <1>8, <1>9, AllProcesses DEF Process

(* Where the next action stands. *)
LEMMA AtNext ==
    ASSUME NEW b, NEW r, Process(b, r), r.at = "next", r.pos <= Len(Order)
    PROVE  /\ r.pos \in 1 .. Len(Order) /\ r.pos # 0
           /\ \A p \in 1 .. Len(Order) : p >= r.pos => r.produced[Order[p]] = None
  <1>1. r.pos \in 1 .. Len(Order) /\ r.at \notin Claiming
    BY Ordered DEF Process, Placed, Shape, Claiming
  <1> QED
    BY <1>1, Ordered DEF Process, Ahead

LEMMA SkipOn ==
    ASSUME Processes, NEW b \in Builder, Skip(b)
    PROVE  Processes'
  <1>1. /\ run[b].at = "next" /\ run[b].pos <= Len(Order)
        /\ \E d \in Deps[Order[run[b].pos]] : Breaks(run[b].outcome[d])
        /\ run' = [run EXCEPT ![b] = Return(run[b], Order[run[b].pos], "Skipped")]
    BY DEF Skip, Current
  <1>2. Bystanders(b) /\ run'[b] = Return(run[b], Order[run[b].pos], "Skipped")
    BY <1>1, Alone
  <1>3. PICK r : r = run[b]
    OBVIOUS
  <1>4. Process(b, r) /\ r.at = "next" /\ r.pos <= Len(Order)
    BY <1>1, <1>3 DEF Processes
  <1>5. r.pos \in 1 .. Len(Order)
        /\ \A p \in 1 .. Len(Order) : p > r.pos => r.produced[Order[p]] = None
    BY <1>4, AtNext
  <1>6. \A p \in 1 .. Len(Order) :
              /\ p >= r.pos => r.outcome[Order[p]] = "Pending"
              /\ p < r.pos =>
                    /\ r.outcome[Order[p]] # "Pending"
                    /\ r.outcome[Order[p]] = "Skipped" <=>
                          \E d \in Deps[Order[p]] : Breaks(r.outcome[d])
    BY <1>4 DEF Process, Decided
  <1>7. PICK o : o = "Skipped"
    OBVIOUS
  <1>8. Verdict(r, o)
    BY <1>1, <1>3, <1>7 DEF Verdict, Outcomes
  <1>9. Process(b, Return(r, Order[r.pos], o))
    BY <1>4, <1>5, <1>6, <1>8, Returned DEF Process
  <1> QED
    BY <1>2, <1>3, <1>7, <1>9, AllProcesses

LEMMA RunOneOn ==
    ASSUME Processes, NEW b \in Builder, RunOne(b)
    PROVE  Processes'
  <1>1. /\ run[b].at = "next" /\ run[b].pos <= Len(Order)
        /\ \A d \in Deps[Order[run[b].pos]] : ~Breaks(run[b].outcome[d])
        /\ Goto(b, "lookup")
    BY DEF RunOne, Current
  <1>2. PICK r, q : r = run[b] /\ q = run'[b]
    OBVIOUS
  <1>3. /\ Bystanders(b) /\ Process(b, r) /\ DOMAIN q = Fields /\ q.at = "lookup"
        /\ q.pos = r.pos /\ q.attempt = r.attempt /\ q.relaxed = r.relaxed
        /\ q.produced = r.produced /\ q.outcome = r.outcome /\ q.handle = r.handle
        /\ ~q.tainted
    BY <1>1, <1>2, GoneTo
  <1>4. r.pos \in 1 .. Len(Order)
        /\ \A p \in 1 .. Len(Order) : p >= r.pos => r.produced[Order[p]] = None
    BY <1>1, <1>2, <1>3, AtNext
  <1>5. Shape(q)
    BY <1>3 DEF Process, Shape, Places
  <1>6. Placed(b, q)
    BY <1>3, <1>4 DEF Process, Placed, Working, Putting, Claiming
  <1>7. InHand(b, q)
    BY <1>3 DEF InHand, Claiming, Putting
  <1>8. Ahead(q)
    BY <1>3, <1>4 DEF Ahead
  <1>9. Faithful(b, q)
    BY <1>3 DEF Process, Faithful
  <1>10. Decided(q)
    BY <1>1, <1>2, <1>3 DEF Process, Decided
  <1> QED
    BY <1>2, <1>3, <1>5, <1>6, <1>7, <1>8, <1>9, <1>10, AllProcesses DEF Process
LEMMA KeyFields ==
    ASSUME NEW b
    PROVE  /\ Key(b).action = Order[run[b].pos] /\ Key(b).inputs = InputsOf(run[b])
           /\ Key(b).platform = PlatformOf(run[b])
  BY DEF Key, Current, InputsOf, PlatformOf, KeyPlatform

LEMMA LookupOn ==
    ASSUME Processes, ClaimsTrue, NEW b \in Builder, Lookup(b)
    PROVE  Processes'
  <1>1. PICK r, q : r = run[b] /\ q = run'[b]
    OBVIOUS
  <1>2. Process(b, r) /\ r.at = "lookup" /\ r.at \in Working
    BY <1>1 DEF Lookup, Processes, Working
  <1>3. /\ DOMAIN r = Fields /\ r.attempt \in Nat /\ ~r.tainted
        /\ r.relaxed => /\ Order[r.pos] \in OptedIn /\ b \notin Gpu
                        /\ r.attempt <= MaxTransientRetries + 1
        /\ ~r.relaxed => r.attempt <= MaxTransientRetries
        /\ r.pos \in 1 .. Len(Order) /\ r.pos # 0
    BY <1>2, Limits
  <1>4. ASSUME NEW c \in claims, c.key = Key(b),
               run' = [run EXCEPT ![b].at = "verify", ![b].out = c.out]
        PROVE  Bystanders(b) /\ Process(b, q)
    <2>1. run' = [run EXCEPT ![b] = [run[b] EXCEPT !.at = "verify", !.out = c.out]]
      BY <1>4 DEF Processes
    <2>2. Bystanders(b) /\ q = [r EXCEPT !.at = "verify", !.out = c.out]
      BY <2>1, <1>1, Alone
    <2>3. /\ DOMAIN q = Fields /\ q.pos = r.pos /\ q.produced = r.produced
          /\ q.outcome = r.outcome /\ q.at = "verify" /\ q.handle = r.handle
          /\ q.attempt = r.attempt /\ q.relaxed = r.relaxed /\ q.tainted = r.tainted
          /\ q.out = c.out
      BY <2>2, <1>3 DEF Fields
    <2>4. Fits(r, c.out)
      BY <1>1, <1>4, KeyFields DEF ClaimsTrue, Fits
    <2>5. InHand(b, q)
      BY <2>3, <2>4, FitsCarried DEF InHand, Putting, Claiming
    <2>6. Placed(b, q)
      BY <2>3, <1>3 DEF Placed, Putting
    <2>7. Process(b, q)
      BY <1>2, <1>3, <2>3, <2>5, <2>6, Moved DEF Places, Claiming, Busy, Process, Shape
    <2> QED
      BY <2>2, <2>7
  <1>5. ASSUME run' = [run EXCEPT ![b].at = "read", ![b].unread = Reads(Current(b)),
                                ![b].tainted = FALSE]
        PROVE  Bystanders(b) /\ Process(b, q)
    <2>1. run' = [run EXCEPT ![b] = [run[b] EXCEPT !.at = "read",
                     !.unread = Reads(Current(b)), !.tainted = FALSE]]
      BY <1>5 DEF Processes
    <2>2. Bystanders(b)
          /\ q = [r EXCEPT !.at = "read", !.unread = Reads(Current(b)), !.tainted = FALSE]
      BY <2>1, <1>1, Alone
    <2>3. /\ DOMAIN q = Fields /\ q.pos = r.pos /\ q.produced = r.produced
          /\ q.outcome = r.outcome /\ q.at = "read" /\ q.handle = r.handle
          /\ q.attempt = r.attempt /\ q.relaxed = r.relaxed /\ ~q.tainted
      BY <2>2, <1>3 DEF Fields
    <2>4. Process(b, q)
      BY <1>2, <1>3, <2>3, MovedOn DEF Working
    <2> QED
      BY <2>2, <2>4
  <1>6. Bystanders(b) /\ Process(b, q)
    BY <1>4, <1>5 DEF Lookup
  <1> QED
    BY <1>1, <1>6, AllProcesses

LEMMA VerifyOn ==
    ASSUME Processes, NEW b \in Builder, VerifyAndAdopt(b)
    PROVE  Processes'
  <1>1. PICK r, q : r = run[b] /\ q = run'[b]
    OBVIOUS
  <1>2. Process(b, r) /\ r.at = "verify" /\ r.at \in Working
    BY <1>1 DEF VerifyAndAdopt, Processes, Working
  <1>3. /\ DOMAIN r = Fields /\ r.attempt \in Nat /\ ~r.tainted
        /\ r.relaxed => /\ Order[r.pos] \in OptedIn /\ b \notin Gpu
                        /\ r.attempt <= MaxTransientRetries + 1
        /\ ~r.relaxed => r.attempt <= MaxTransientRetries
        /\ r.pos \in 1 .. Len(Order) /\ r.pos # 0
    BY <1>2, Limits
  <1>4. ASSUME run' = [run EXCEPT ![b] =
                   Return([run[b] EXCEPT !.produced[Current(b)] = run[b].out],
                          Current(b), "CacheHit")]
        PROVE  Processes'
    <2>1. Bystanders(b) /\ q = Return(Enter(r), Order[r.pos], "CacheHit")
      BY <1>1, <1>4, Alone DEF Enter, Current
    <2>2. "CacheHit" \in Outcomes \ {"Pending", "Skipped"}
      BY DEF Outcomes
    <2>3. Process(b, q)
      BY <1>2, <1>3, <2>1, <2>2, Adopted
    <2> QED
      BY <1>1, <2>1, <2>3, AllProcesses
  <1>5. ASSUME RetriesBadBlob(run[b].attempt), Goto(b, "invalidate")
        PROVE  Processes'
    <2>1. /\ Bystanders(b) /\ DOMAIN q = Fields /\ q.at = "invalidate"
          /\ q.pos = r.pos /\ q.attempt = r.attempt /\ q.relaxed = r.relaxed
          /\ q.produced = r.produced /\ q.outcome = r.outcome /\ q.handle = r.handle
          /\ ~q.tainted
      BY <1>1, <1>5, GoneTo
    <2>2. Process(b, q)
      BY <1>1, <1>2, <1>3, <1>5, <2>1, MovedOn DEF Working
    <2> QED
      BY <1>1, <2>1, <2>2, AllProcesses
  <1>6. CASE Fail(b)
    BY <1>1, <1>2, <1>3, <1>6, FailedOn
  <1> QED
    BY <1>4, <1>5, <1>6 DEF VerifyAndAdopt

LEMMA InvalidateOn ==
    ASSUME Processes, NEW b \in Builder, Invalidate(b)
    PROVE  Processes'
  <1>1. PICK r, q : r = run[b] /\ q = run'[b]
    OBVIOUS
  <1>2. /\ Process(b, r) /\ r.at = "invalidate" /\ r.at \in Working
        /\ RetriesBadBlob(r.attempt)
    BY <1>1 DEF Invalidate, Processes, Working, Process, Placed
  <1>3. /\ DOMAIN r = Fields /\ r.attempt \in Nat /\ ~r.tainted
        /\ r.relaxed => /\ Order[r.pos] \in OptedIn /\ b \notin Gpu
                        /\ r.attempt <= MaxTransientRetries + 1
        /\ ~r.relaxed => r.attempt <= MaxTransientRetries
        /\ r.pos \in 1 .. Len(Order) /\ r.pos # 0
    BY <1>2, Limits
  <1>4. /\ Bystanders(b) /\ q = [r EXCEPT !.at = "evict"]
    BY <1>1 DEF Invalidate, Bystanders, Handles
  <1>5. /\ DOMAIN q = Fields /\ q.pos = r.pos /\ q.produced = r.produced
        /\ q.outcome = r.outcome /\ q.at = "evict" /\ q.handle = r.handle
        /\ q.attempt = r.attempt /\ q.relaxed = r.relaxed /\ q.tainted = r.tainted
    BY <1>4, <1>3 DEF Fields
  <1>6. Process(b, q)
    BY <1>2, <1>3, <1>5, MovedOn DEF Working
  <1> QED
    BY <1>1, <1>4, <1>6, AllProcesses

LEMMA EvictOn ==
    ASSUME Processes, NEW b \in Builder, Evict(b)
    PROVE  Processes'
  <1>1. PICK r, q : r = run[b] /\ q = run'[b]
    OBVIOUS
  <1>2. /\ Process(b, r) /\ r.at = "evict" /\ r.at \in Working
        /\ RetriesBadBlob(r.attempt)
    BY <1>1 DEF Evict, Processes, Working, Process, Placed
  <1>3. /\ DOMAIN r = Fields /\ r.attempt \in Nat /\ ~r.tainted
        /\ r.relaxed => Order[r.pos] \in OptedIn /\ b \notin Gpu
    BY <1>2, Limits
  <1>4. Bystanders(b) /\ q = [r EXCEPT !.at = "lookup", !.attempt = @ + 1]
    BY <1>1 DEF Evict, Bystanders, Handles, Unnamed, Retry
  <1>5. /\ DOMAIN q = Fields /\ q.pos = r.pos /\ q.produced = r.produced
        /\ q.outcome = r.outcome /\ q.at = "lookup" /\ q.handle = r.handle
        /\ q.attempt = r.attempt + 1 /\ q.relaxed = r.relaxed /\ q.tainted = r.tainted
    BY <1>4, <1>3 DEF Fields
  <1>6. /\ q.attempt \in Nat /\ q.attempt <= MaxTransientRetries
        /\ q.attempt <= MaxTransientRetries + 1
    BY <1>2, <1>3, <1>5 DEF RetriesBadBlob, MaxCorruptionRetries, MaxTransientRetries
  <1>7. Process(b, q)
    BY <1>2, <1>3, <1>5, <1>6, MovedOn DEF Working
  <1> QED
    BY <1>1, <1>4, <1>7, AllProcesses

LEMMA ReadInputOn ==
    ASSUME Processes, Files, NEW b \in Builder, ReadInput(b)
    PROVE  Processes'
  <1>1. PICK r, q : r = run[b] /\ q = run'[b]
    OBVIOUS
  <1>2. Process(b, r) /\ r.at = "read" /\ r.at \in Working
    BY <1>1 DEF ReadInput, Processes, Working
  <1>3. /\ DOMAIN r = Fields /\ r.attempt \in Nat /\ ~r.tainted
        /\ r.relaxed => /\ Order[r.pos] \in OptedIn /\ b \notin Gpu
                        /\ r.attempt <= MaxTransientRetries + 1
        /\ ~r.relaxed => r.attempt <= MaxTransientRetries
        /\ r.pos \in 1 .. Len(Order) /\ r.pos # 0
    BY <1>2, Limits
  <1>4. PICK i \in run[b].unread : LET d == run[b].produced[i] IN
          \/ /\ Verifies(d)
             /\ run' = [run EXCEPT ![b].unread = @ \ {i},
                                   ![b].tainted = @ \/ d \in bad,
                                   ![b].at = IF run[b].unread = {i} THEN "execute" ELSE @]
          \/ /\ ~Verifies(d) /\ RetriesBadBlob(run[b].attempt)
             /\ run' = [run EXCEPT ![b] = RetryRead(b)]
          \/ Fail(b)
    BY DEF ReadInput
  <1>5. PICK d : d = run[b].produced[i]
    OBVIOUS
  <1>6. ASSUME Verifies(d),
               run' = [run EXCEPT ![b].unread = @ \ {i},
                                  ![b].tainted = @ \/ d \in bad,
                                  ![b].at = IF run[b].unread = {i} THEN "execute" ELSE @]
        PROVE  Processes'
    <2>1. run' = [run EXCEPT ![b] = [run[b] EXCEPT !.unread = @ \ {i},
                      !.tainted = @ \/ d \in bad,
                      !.at = IF run[b].unread = {i} THEN "execute" ELSE @]]
      BY <1>6 DEF Processes
    <2>2. Bystanders(b)
          /\ q = [r EXCEPT !.unread = @ \ {i}, !.tainted = @ \/ d \in bad,
                           !.at = IF r.unread = {i} THEN "execute" ELSE @]
      BY <2>1, <1>1, Alone
    <2>3. /\ DOMAIN q = Fields /\ q.pos = r.pos /\ q.produced = r.produced
          /\ q.outcome = r.outcome /\ q.at \in {"read", "execute"} /\ q.handle = r.handle
          /\ q.attempt = r.attempt /\ q.relaxed = r.relaxed
      BY <2>2, <1>2, <1>3 DEF Fields
    <2>4. ~q.tainted
      BY <2>2, <1>3, <1>6 DEF Fields, Verifies
    <2>5. q.at \in Working \ {"verify"} /\ q.at \notin {"invalidate", "evict"}
      BY <2>3 DEF Working
    <2>6. Process(b, q)
      BY <1>2, <1>3, <2>3, <2>4, <2>5, MovedOn
    <2> QED
      BY <1>1, <2>2, <2>6, AllProcesses
  <1>7. ASSUME RetriesBadBlob(run[b].attempt), run' = [run EXCEPT ![b] = RetryRead(b)]
        PROVE  Processes'
    <2>1. run[b].attempt < MaxTransientRetries
      BY <1>1, <1>3, <1>7 DEF RetriesBadBlob, MaxCorruptionRetries, MaxTransientRetries
    <2> QED
      BY <1>1, <1>2, <1>7, <2>1, RetriedOn DEF RetryRead
  <1>8. CASE Fail(b)
    BY <1>1, <1>2, <1>3, <1>8, FailedOn
  <1> QED
    BY <1>4, <1>5, <1>6, <1>7, <1>8
LEMMA IncapableOn ==
    ASSUME Processes, NEW b \in Builder, ExecuteIncapable(b)
    PROVE  Processes'
  <1>1. PICK r, q : r = run[b] /\ q = run'[b]
    OBVIOUS
  <1>2. Process(b, r) /\ r.at = "execute" /\ r.at \in Working
    BY <1>1 DEF ExecuteIncapable, Processes, Working
  <1>3. /\ DOMAIN r = Fields /\ r.attempt \in Nat /\ ~r.tainted
        /\ ~r.relaxed /\ b \notin Gpu
        /\ r.attempt <= MaxTransientRetries /\ r.pos # 0
    BY <1>1, <1>2, Limits DEF ExecuteIncapable, Capable
  <1>4. ASSUME Current(b) \in OptedIn,
               run' = [run EXCEPT ![b] = [Retry(b) EXCEPT !.relaxed = TRUE]]
        PROVE  Processes'
    <2>1. Bystanders(b) /\ q = [Retry(b) EXCEPT !.relaxed = TRUE]
      BY <1>1, <1>4, Alone
    <2>2. PICK s : s = Retry(b)
      OBVIOUS
    <2>3. /\ DOMAIN s = Fields /\ s.pos = r.pos /\ s.produced = r.produced
          /\ s.outcome = r.outcome /\ s.at = "lookup" /\ s.handle = r.handle
          /\ s.attempt = r.attempt + 1 /\ s.tainted = r.tainted
      BY <1>1, <1>3, <2>2 DEF Fields, Retry
    <2>4. /\ DOMAIN q = Fields /\ q.pos = r.pos /\ q.produced = r.produced
          /\ q.outcome = r.outcome /\ q.at = "lookup" /\ q.handle = r.handle
          /\ q.attempt = r.attempt + 1 /\ q.tainted = r.tainted /\ q.relaxed
      BY <2>1, <2>2, <2>3 DEF Fields
    <2>5. q.attempt \in Nat /\ q.attempt <= MaxTransientRetries + 1 /\ ~q.tainted
      BY <1>3, <2>4 DEF MaxTransientRetries
    <2>6. Order[r.pos] \in OptedIn
      BY <1>1, <1>4 DEF Current
    <2>7. q.at \in Working \ {"verify"} /\ q.at \notin {"invalidate", "evict"}
      BY <2>4 DEF Working
    <2>8. Process(b, q)
      BY <1>2, <1>3, <2>4, <2>5, <2>6, <2>7, MovedOn
    <2> QED
      BY <1>1, <2>1, <2>8, AllProcesses
  <1>5. CASE Fail(b)
    BY <1>1, <1>2, <1>3, <1>5, FailedOn
  <1> QED
    BY <1>4, <1>5 DEF ExecuteIncapable

LEMMA MakeFields ==
    ASSUME NEW b
    PROVE  /\ Make(b).action = Order[run[b].pos] /\ Make(b).inputs = InputsOf(run[b])
           /\ Make(b).platform = PlatformOf(run[b])
           /\ Make(b).tool = IF Order[run[b].pos] \in Unpinned THEN b ELSE None
  BY DEF Make, Current, InputsOf, PlatformOf

LEMMA ExecuteOn ==
    ASSUME Processes, NEW b \in Builder, ExecuteOk(b)
    PROVE  Processes'
  <1>1. PICK r, q : r = run[b] /\ q = run'[b]
    OBVIOUS
  <1>2. Process(b, r) /\ r.at = "execute" /\ r.at \in Working
    BY <1>1 DEF ExecuteOk, Processes, Working
  <1>3. /\ DOMAIN r = Fields /\ r.attempt \in Nat /\ ~r.tainted
        /\ r.relaxed => /\ Order[r.pos] \in OptedIn /\ b \notin Gpu
                        /\ r.attempt <= MaxTransientRetries + 1
        /\ ~r.relaxed => r.attempt <= MaxTransientRetries
        /\ r.pos \in 1 .. Len(Order) /\ r.pos # 0
    BY <1>2, Limits
  <1>4. PICK m : m = Make(b)
    OBVIOUS
  <1>5. run' = [run EXCEPT ![b] = [run[b] EXCEPT !.at = "check", !.out = m]]
    BY <1>1, <1>3, <1>4 DEF ExecuteOk, Processes
  <1>6. Bystanders(b) /\ q = [r EXCEPT !.at = "check", !.out = m]
    BY <1>1, <1>5, Alone
  <1>7. /\ DOMAIN q = Fields /\ q.pos = r.pos /\ q.produced = r.produced
        /\ q.outcome = r.outcome /\ q.at = "check" /\ q.handle = r.handle
        /\ q.attempt = r.attempt /\ q.relaxed = r.relaxed /\ q.tainted = r.tainted
        /\ q.out = m
    BY <1>6, <1>3 DEF Fields
  <1>8. Fits(r, m) /\ m.tool = IF Order[r.pos] \in Unpinned THEN b ELSE None
    BY <1>1, <1>4, MakeFields DEF Fits
  <1>9. InHand(b, q)
    BY <1>7, <1>8, FitsCarried DEF InHand, Claiming
  <1>10. Placed(b, q)
    BY <1>3, <1>7, Ordered DEF Placed, Putting, Working, Claiming
  <1>11. Process(b, q)
    BY <1>2, <1>3, <1>7, <1>9, <1>10, Moved DEF Places, Claiming, Busy, Process, Shape
  <1> QED
    BY <1>1, <1>6, <1>11, AllProcesses

LEMMA TransientOn ==
    ASSUME Processes, NEW b \in Builder, ExecuteTransient(b) \/ ExecuteFails(b)
    PROVE  Processes'
  <1>1. run[b].at \in Working /\ run[b].pos # 0
    BY Limits DEF ExecuteTransient, ExecuteFails, Processes, Working
  <1>2. CASE RetriesTransient(run[b].attempt) /\ run' = [run EXCEPT ![b] = Retry(b)]
    BY <1>1, <1>2, RetriedOn DEF RetriesTransient
  <1>3. CASE Fail(b)
    BY <1>1, <1>3, FailedOn
  <1> QED
    BY <1>2, <1>3 DEF ExecuteTransient, ExecuteFails

-----------------------------------------------------------------------------
(* Putting a blob.                                                           *)

LEMMA MovedPutting ==
    ASSUME NEW b, NEW r, NEW q, Process(b, r), r.at \in Putting,
           DOMAIN q = Fields, q.pos = r.pos, q.produced = r.produced,
           q.outcome = r.outcome, q.at \in Putting, q.handle \in Handles,
           q.attempt = r.attempt, q.relaxed = r.relaxed, q.tainted = r.tainted,
           q.out = r.out
    PROVE  Process(b, q)
  <1>1. q.at \in Places /\ q.attempt \in Nat /\ ~q.tainted
    BY DEF Putting, Places, Process, Shape
  <1>2. Placed(b, q)
    BY DEF Process, Placed, Putting, Working, Claiming
  <1>3. InHand(b, q)
    BY FitsCarried DEF Process, InHand, Putting, Claiming
  <1> QED
    BY <1>1, <1>2, <1>3, Moved DEF Busy, Putting, Claiming

LEMMA OpenOn ==
    ASSUME Processes, NEW b \in Builder, OpenPartial(b)
    PROVE  Processes'
  <1>1. PICK r, q : r = run[b] /\ q = run'[b]
    OBVIOUS
  <1>2. Process(b, r) /\ r.at = "open" /\ DOMAIN r = Fields
    BY <1>1 DEF OpenPartial, Processes, Process, Shape
  <1>3. run' = [run EXCEPT ![b] = [run[b] EXCEPT !.at = "fill", !.handle = "partial"]]
    BY DEF OpenPartial, Processes
  <1>4. Bystanders(b) /\ q = [r EXCEPT !.at = "fill", !.handle = "partial"]
    BY <1>1, <1>3, Alone
  <1>5. /\ DOMAIN q = Fields /\ q.pos = r.pos /\ q.produced = r.produced
        /\ q.outcome = r.outcome /\ q.at = "fill" /\ q.handle = "partial"
        /\ q.attempt = r.attempt /\ q.relaxed = r.relaxed /\ q.tainted = r.tainted
        /\ q.out = r.out
    BY <1>2, <1>4 DEF Fields
  <1>6. Process(b, q)
    BY <1>2, <1>5, MovedPutting DEF Putting, Handles
  <1> QED
    BY <1>1, <1>4, <1>6, AllProcesses

LEMMA FillOn ==
    ASSUME Processes, NEW b \in Builder, FillPartial(b)
    PROVE  Processes'
  <1>1. PICK r, q : r = run[b] /\ q = run'[b]
    OBVIOUS
  <1>2. Process(b, r) /\ r.at = "fill" /\ DOMAIN r = Fields
    BY <1>1 DEF FillPartial, Processes, Process, Shape
  <1>3. run' = [run EXCEPT ![b] = [run[b] EXCEPT !.at = "rename", !.handle = "none"]]
    BY DEF FillPartial, Processes
  <1>4. Bystanders(b) /\ q = [r EXCEPT !.at = "rename", !.handle = "none"]
    BY <1>1, <1>3, Alone
  <1>5. /\ DOMAIN q = Fields /\ q.pos = r.pos /\ q.produced = r.produced
        /\ q.outcome = r.outcome /\ q.at = "rename" /\ q.handle = "none"
        /\ q.attempt = r.attempt /\ q.relaxed = r.relaxed /\ q.tainted = r.tainted
        /\ q.out = r.out
    BY <1>2, <1>4 DEF Fields
  <1>6. Process(b, q)
    BY <1>2, <1>5, MovedPutting DEF Putting, Handles
  <1> QED
    BY <1>1, <1>4, <1>6, AllProcesses

(* put returned Ok. *)
LEMMA StoredOn ==
    ASSUME NEW b, Process(b, run[b]), run[b].at \in Putting
    PROVE  Process(b, Stored(b))
  <1>1. PICK r, q : r = run[b] /\ q = Stored(b)
    OBVIOUS
  <1>2. Process(b, r) /\ r.at \in Putting /\ DOMAIN r = Fields
    BY <1>1 DEF Process, Shape
  <1>3. CASE r.pos = 0
    <2>1. q = [r EXCEPT !.at = "next", !.pos = 1, !.out = None]
      BY <1>1, <1>3 DEF Stored
    <2>2. /\ DOMAIN q = Fields /\ q.pos = 1 /\ q.produced = r.produced
          /\ q.outcome = r.outcome /\ q.at = "next" /\ q.handle = r.handle
          /\ q.attempt = r.attempt /\ q.relaxed = r.relaxed /\ q.tainted = r.tainted
      BY <1>2, <2>1 DEF Fields
    <2>3. Shape(q)
      BY <1>2, <2>2, Ordered DEF Process, Shape, Places
    <2>4. ~r.relaxed /\ r.attempt <= MaxTransientRetries
      BY <1>2, <1>3 DEF Process, Placed
    <2>5. Placed(b, q)
      BY <2>2, <2>4 DEF Placed, Working, Putting, Claiming
    <2>6. InHand(b, q)
      BY <2>2 DEF InHand, Putting, Claiming
    <2>7. \A p \in 1 .. Len(Order) : p > r.pos /\ p >= q.pos
      BY <1>3, <2>2
    <2>8. Ahead(q)
      BY <1>2, <2>2, <2>7 DEF Process, Ahead
    <2>9. Faithful(b, q)
      BY <1>2, <2>2 DEF Process, Faithful
    <2>10. Decided(q)
      <3>1. q.at \notin Working \cup Putting \cup Claiming /\ q.at # "done"
        BY <2>2 DEF Working, Putting, Claiming
      <3>2. \A p \in 1 .. Len(Order) : p >= r.pos /\ ~(p < q.pos)
        BY <1>3, <2>2
      <3> QED
        BY <1>2, <2>2, <3>1, <3>2 DEF Process, Decided
    <2> QED
      BY <1>1, <2>3, <2>5, <2>6, <2>8, <2>9, <2>10 DEF Process
  <1>4. CASE r.pos # 0 /\ MayPublish(Order[r.pos])
    <2>1. q = [Enter(r) EXCEPT !.at = "claim"]
      BY <1>1, <1>4 DEF Stored, Enter, Current
    <2> QED
      BY <1>1, <1>2, <1>4, <2>1, Claimed
  <1>5. CASE r.pos # 0 /\ ~MayPublish(Order[r.pos])
    <2>1. q = Return(Enter(r), Order[r.pos], Success(b))
      BY <1>1, <1>5 DEF Stored, Enter, Current
    <2>2. Success(b) \in Outcomes \ {"Pending", "Skipped"}
      BY DEF Success, Outcomes
    <2> QED
      BY <1>1, <1>2, <1>5, <2>1, <2>2, Adopted
  <1> QED
    BY <1>3, <1>4, <1>5

LEMMA CheckOn ==
    ASSUME Processes, NEW b \in Builder, CheckBlob(b)
    PROVE  Processes'
  <1>1. PICK r, q : r = run[b] /\ q = run'[b]
    OBVIOUS
  <1>2. Process(b, r) /\ r.at = "check" /\ r.at \in Putting
    BY <1>1 DEF CheckBlob, Processes, Putting
  <1>3. ASSUME run' = [run EXCEPT ![b] = Stored(b)]
        PROVE  Processes'
    <2>1. Bystanders(b) /\ run'[b] = Stored(b)
      BY <1>3, Alone
    <2> QED
      BY <1>1, <1>2, <2>1, StoredOn, AllProcesses
  <1>4. ASSUME Goto(b, "open")
        PROVE  Processes'
    <2>1. /\ Bystanders(b) /\ DOMAIN q = Fields /\ q.at = "open"
          /\ q.pos = r.pos /\ q.attempt = r.attempt /\ q.relaxed = r.relaxed
          /\ q.produced = r.produced /\ q.outcome = r.outcome /\ q.handle \in Handles
          /\ q.tainted = r.tainted /\ q.out = r.out
      BY <1>1, <1>4, GoneTo
    <2>2. Process(b, q)
      BY <1>2, <2>1, MovedPutting DEF Putting
    <2> QED
      BY <1>1, <2>1, <2>2, AllProcesses
  <1> QED
    BY <1>3, <1>4 DEF CheckBlob
LEMMA RenameOn ==
    ASSUME Processes, NEW b \in Builder, RenamePartial(b)
    PROVE  Processes'
  <1>1. PICK r, q : r = run[b] /\ q = run'[b]
    OBVIOUS
  <1>2. Process(b, r) /\ r.at = "rename" /\ r.at \in Putting
    BY <1>1 DEF RenamePartial, Processes, Putting
  <1>3. ASSUME run' = [c \in Builder |->
                IF c = b THEN Stored(b)
                ELSE IF run[c].handle = "partial" /\ run[c].out = run[b].out
                     THEN [run[c] EXCEPT !.handle = "blob"] ELSE Unnamed(c, run[b].out)]
        PROVE  Processes'
    <2>1. Bystanders(b) /\ run'[b] = Stored(b)
      BY <1>3 DEF Bystanders, Handles, Unnamed
    <2> QED
      BY <1>1, <1>2, <2>1, StoredOn, AllProcesses
  <1>4. ASSUME run[b].pos = 0, Goto(b, "aborted")
        PROVE  Processes'
    <2>1. /\ Bystanders(b) /\ DOMAIN q = Fields /\ q.at = "aborted"
          /\ q.pos = r.pos /\ q.attempt = r.attempt /\ q.relaxed = r.relaxed
          /\ q.produced = r.produced /\ q.outcome = r.outcome /\ q.handle \in Handles
          /\ q.out = r.out /\ q.attempt \in Nat /\ ~q.tainted
      BY <1>1, <1>4, GoneTo
    <2>2. Placed(b, q) /\ InHand(b, q)
      BY <1>2, <2>1 DEF Process, Placed, InHand, Putting, Working, Claiming
    <2>3. Process(b, q)
      BY <1>2, <2>1, <2>2, Moved DEF Putting, Working, Claiming, Busy, Places
    <2> QED
      BY <1>1, <2>1, <2>3, AllProcesses
  <1>5. CASE run[b].pos # 0 /\ Fail(b)
    BY <1>1, <1>2, <1>5, FailedOn
  <1> QED
    BY <1>3, <1>4, <1>5 DEF RenamePartial

LEMMA OpenClaimOn ==
    ASSUME Processes, NEW b \in Builder, OpenClaim(b)
    PROVE  Processes'
  <1>1. PICK r, q : r = run[b] /\ q = run'[b]
    OBVIOUS
  <1>2. Process(b, r) /\ r.at = "claim" /\ DOMAIN r = Fields
    BY <1>1 DEF OpenClaim, Processes, Process, Shape
  <1>3. run' = [run EXCEPT ![b] = [run[b] EXCEPT !.at = "claimFill", !.handle = "claim"]]
    BY DEF OpenClaim, Processes
  <1>4. Bystanders(b) /\ q = [r EXCEPT !.at = "claimFill", !.handle = "claim"]
    BY <1>1, <1>3, Alone
  <1>5. /\ DOMAIN q = Fields /\ q.pos = r.pos /\ q.produced = r.produced
        /\ q.outcome = r.outcome /\ q.at = "claimFill" /\ q.handle = "claim"
        /\ q.attempt = r.attempt /\ q.relaxed = r.relaxed /\ q.tainted = r.tainted
        /\ q.out = r.out
    BY <1>2, <1>4 DEF Fields
  <1>6. q.attempt \in Nat /\ ~q.tainted
    BY <1>2, <1>5 DEF Process, Shape
  <1>7. Placed(b, q)
    BY <1>2, <1>5 DEF Process, Placed, Working, Claiming, Putting
  <1>8. InHand(b, q)
    BY <1>2, <1>5, FitsCarried DEF Process, InHand, Putting, Claiming
  <1>9. Process(b, q)
    BY <1>2, <1>5, <1>6, <1>7, <1>8, Moved DEF Places, Handles, Claiming, Busy
  <1> QED
    BY <1>1, <1>4, <1>9, AllProcesses

LEMMA FillClaimOn ==
    ASSUME Processes, NEW b \in Builder, FillClaim(b)
    PROVE  Processes'
  <1>1. PICK r, q : r = run[b] /\ q = run'[b]
    OBVIOUS
  <1>2. Process(b, r) /\ r.at = "claimFill" /\ r.at \in Claiming
    BY <1>1 DEF FillClaim, Processes, Claiming
  <1>3. PICK o : o = Success(b)
    OBVIOUS
  <1>4. Bystanders(b) /\ q = Return(r, Order[r.pos], o)
    BY <1>1, <1>3, Alone DEF FillClaim, Current
  <1>5. r.pos \in 1 .. Len(Order)
    BY <1>2, Limits
  <1>6. \A p \in 1 .. Len(Order) : p > r.pos => r.produced[Order[p]] = None
    BY <1>2 DEF Process, Ahead
  <1>7. \A p \in 1 .. Len(Order) :
              /\ p >= r.pos => r.outcome[Order[p]] = "Pending"
              /\ p < r.pos =>
                    /\ r.outcome[Order[p]] # "Pending"
                    /\ r.outcome[Order[p]] = "Skipped" <=>
                          \E d \in Deps[Order[p]] : Breaks(r.outcome[d])
    BY <1>2 DEF Process, Decided
  <1>8. Verdict(r, o)
    <2>1. o \in Outcomes \ {"Pending", "Skipped"}
      BY <1>3 DEF Success, Outcomes
    <2>2. \A d \in Deps[Order[r.pos]] : ~Breaks(r.outcome[d])
      BY <1>2, <1>5 DEF Process, Decided
    <2> QED
      BY <2>1, <2>2 DEF Verdict
  <1>9. Process(b, q)
    BY <1>2, <1>4, <1>5, <1>6, <1>7, <1>8, Returned DEF Process
  <1> QED
    BY <1>1, <1>4, <1>9, AllProcesses

(* A process starts with the source and nothing else. *)
LEMMA FreshProcess ==
    ASSUME NEW b
    PROVE  Process(b, Fresh)
  <1>1. PICK q : q = Fresh
    OBVIOUS
  <1>2. /\ DOMAIN q = Fields /\ q.at = "new" /\ q.pos = 0 /\ q.attempt = 0 /\ ~q.relaxed
        /\ ~q.tainted /\ q.handle = "none"
        /\ q.produced = [i \in Action \cup {Source} |-> IF i = Source THEN Source ELSE None]
        /\ q.outcome = [a \in Action |-> "Pending"]
    BY <1>1 DEF Fresh, Fields
  <1>3. /\ DOMAIN q.produced = Action \cup {Source} /\ q.produced[Source] = Source
        /\ \A a \in Action : q.produced[a] = None /\ q.outcome[a] = "Pending"
    BY <1>2, GraphAssumption
  <1>4. Shape(q)
    <2>1. q.outcome \in [Action -> Outcomes]
      BY <1>2 DEF Outcomes
    <2> QED
      BY <1>2, <1>3, <2>1, Ordered DEF Shape, Places, Handles
  <1>5. Placed(b, q)
    BY <1>2 DEF Placed, Working, Putting, Claiming, MaxTransientRetries
  <1>6. InHand(b, q)
    BY <1>2 DEF InHand, Putting, Claiming
  <1>7. Ahead(q)
    BY <1>3, Ordered DEF Ahead
  <1>8. Faithful(b, q)
    BY <1>3 DEF Faithful
  <1>9. Decided(q)
    BY <1>2, <1>3, Ordered DEF Decided, Working, Putting, Claiming
  <1> QED
    BY <1>1, <1>4, <1>5, <1>6, <1>7, <1>8, <1>9 DEF Process

LEMMA CrashOn ==
    ASSUME Processes, NEW b \in Builder, Crash(b)
    PROVE  Processes'
  <1>1. Bystanders(b) /\ run'[b] = Fresh
    BY Alone DEF Crash
  <1> QED
    BY <1>1, FreshProcess, AllProcesses

LEMMA StoodStill ==
    ASSUME Processes, run' = run
    PROVE  Processes'
  BY DEF Processes, Process, Shape, Placed, InHand, Ahead, Faithful, Decided, Fits,
     InputsOf, PlatformOf

LEMMA LoseOn ==
    ASSUME Processes, NEW d, Lose(d)
    PROVE  Processes'
  <1>1. CASE Builder = {}
    BY <1>1 DEF Lose, Processes
  <1>2. CASE Builder # {}
    <2>1. PICK b \in Builder : TRUE
      BY <1>2
    <2>2. Bystanders(b)
      BY DEF Lose, Bystanders, Handles, Unnamed
    <2>3. run'[b] = run[b] \/ \E h \in Handles : run'[b] = [run[b] EXCEPT !.handle = h]
      BY <2>1 DEF Lose, Handles, Unnamed
    <2>4. PICK r : r = run[b]
      OBVIOUS
    <2>5. Process(b, r)
      BY <2>4 DEF Processes
    <2>6. \A h \in Handles : Process(b, [r EXCEPT !.handle = h])
      BY <2>5, HandleMoved
    <2>7. Process(b, run'[b])
      BY <2>3, <2>4, <2>5, <2>6
    <2> QED
      BY <2>2, <2>7, AllProcesses
  <1> QED
    BY <1>1, <1>2

LEMMA ProcessesKept ==
    ASSUME Inv, [Next]_vars
    PROVE  Processes'
  <1>1. Processes /\ Files /\ ClaimsTrue
    BY DEF Inv
  <1>2. ASSUME NEW b \in Builder, StartProcess(b) \/ Work(b) \/ Crash(b)
        PROVE  Processes'
    <2>1. CASE Finish(b) \/ Skip(b) \/ RunOne(b) \/ StartProcess(b) \/ Crash(b)
      BY <1>1, <2>1, FinishOn, SkipOn, RunOneOn, StartOn, CrashOn
    <2>2. CASE Lookup(b) \/ VerifyAndAdopt(b) \/ Invalidate(b) \/ Evict(b)
      BY <1>1, <2>2, LookupOn, VerifyOn, InvalidateOn, EvictOn
    <2>3. CASE ReadInput(b) \/ ExecuteIncapable(b) \/ ExecuteOk(b) \/ ExecuteTransient(b)
               \/ ExecuteFails(b)
      BY <1>1, <2>3, ReadInputOn, IncapableOn, ExecuteOn, TransientOn
    <2>4. CASE CheckBlob(b) \/ OpenPartial(b) \/ FillPartial(b) \/ RenamePartial(b)
               \/ OpenClaim(b) \/ FillClaim(b)
      BY <1>1, <2>4, CheckOn, OpenOn, FillOn, RenameOn, OpenClaimOn, FillClaimOn
    <2> QED
      BY <1>2, <2>1, <2>2, <2>3, <2>4 DEF Work
  <1>3. ASSUME NEW d \in blobs, Rot(d) \/ Lose(d)
        PROVE  Processes'
    BY <1>1, <1>3, LoseOn, StoodStill DEF Rot
  <1>4. CASE UNCHANGED vars
    BY <1>1, <1>4, StoodStill DEF vars
  <1> QED
    BY <1>2, <1>3, <1>4 DEF Next

-----------------------------------------------------------------------------
(* The store and the claims.                                                 *)

(* Steps that leave the claims alone or only take some away. *)
Unclaiming == claims' \subseteq claims

LEMMA ClaimSteps ==
    ASSUME [Next]_vars
    PROVE  Unclaiming \/ \E b \in Builder : FillClaim(b)
  BY DEF Unclaiming, Next, Work, StartProcess, Crash, Finish, Skip, RunOne, Lookup,
     VerifyAndAdopt, Invalidate, Evict, ReadInput, ExecuteIncapable, ExecuteOk,
     ExecuteTransient, ExecuteFails, CheckBlob, OpenPartial, FillPartial, RenamePartial,
     OpenClaim, Rot, Lose, vars, cache

LEMMA ClaimsKept ==
    ASSUME Inv, [Next]_vars
    PROVE  ClaimsTrue'
  <1>1. CASE Unclaiming
    BY <1>1 DEF Inv, ClaimsTrue, Unclaiming
  <1>2. ASSUME NEW b \in Builder, FillClaim(b)
        PROVE  ClaimsTrue'
    <2>1. PICK r, k : r = run[b] /\ k = Key(b)
      OBVIOUS
    <2>2. Process(b, r) /\ r.at = "claimFill" /\ r.pos # 0 /\ r.pos \in 1 .. Len(Order)
      BY <1>2, <2>1, Limits DEF Inv, Processes, FillClaim, Claiming
    <2>3. /\ Fits(r, r.out) /\ MayPublish(Order[r.pos])
          /\ r.out.tool = IF Order[r.pos] \in Unpinned THEN b ELSE None
      BY <2>2 DEF Process, InHand, Claiming
    <2>4. /\ r.out.action = k.action /\ r.out.inputs = k.inputs
          /\ r.out.platform = k.platform
      BY <2>1, <2>3, KeyFields DEF Fits
    <2>5. Shared => r.out.tool = None
      BY <2>3 DEF MayPublish
    <2>6. claims' \subseteq claims \cup {[key |-> k, out |-> r.out]}
      BY <1>2, <2>1 DEF FillClaim, cache
    <2>7. \A c \in claims' : c \in claims \/ (c.key = k /\ c.out = r.out)
      BY <2>6
    <2> QED
      BY <2>4, <2>5, <2>7 DEF Inv, ClaimsTrue
  <1> QED
    BY <1>1, <1>2, ClaimSteps

LEMMA BlobsKept ==
    ASSUME Files, [Next]_vars
    PROVE  bad' \subseteq blobs' /\ badPartial' \subseteq partial'
  <1>1. bad \subseteq blobs /\ badPartial \subseteq partial
    BY DEF Files
  <1>2. CASE UNCHANGED store
    BY <1>1, <1>2 DEF store
  <1>3. ASSUME NEW b \in Builder, Evict(b) \/ OpenPartial(b) \/ FillPartial(b)
        PROVE  bad' \subseteq blobs' /\ badPartial' \subseteq partial'
    BY <1>1, <1>3 DEF Evict, OpenPartial, FillPartial
  <1>4. ASSUME NEW b \in Builder, RenamePartial(b)
        PROVE  bad' \subseteq blobs' /\ badPartial' \subseteq partial'
    BY <1>1, <1>4 DEF RenamePartial, store
  <1>5. ASSUME NEW d \in blobs, Rot(d) \/ Lose(d)
        PROVE  bad' \subseteq blobs' /\ badPartial' \subseteq partial'
    BY <1>1, <1>5 DEF Rot, Lose
  <1> QED
    BY <1>2, <1>3, <1>4, <1>5 DEF Next, Work, StartProcess, Crash, Finish, Skip, RunOne, Lookup,
     VerifyAndAdopt, Invalidate, ReadInput, ExecuteIncapable, ExecuteOk,
     ExecuteTransient, ExecuteFails, CheckBlob, OpenClaim, FillClaim, vars

LEMMA KeysKept ==
    ASSUME Files, [Next]_vars
    PROVE  ({c.key : c \in claims} \cap torn = {})'
  <1>1. \A c \in claims : c.key \notin torn
    BY DEF Files
  <1>2. CASE UNCHANGED cache
    BY <1>1, <1>2 DEF cache
  <1>3. ASSUME NEW b \in Builder, Invalidate(b) \/ OpenClaim(b) \/ FillClaim(b)
        PROVE  \A c \in claims' : c.key \notin torn'
    <2>1. PICK k, o : k = Key(b) /\ o = run[b].out
      OBVIOUS
    <2>2. CASE Invalidate(b)
      BY <1>1, <2>1, <2>2 DEF Invalidate
    <2>3. CASE OpenClaim(b)
      BY <1>1, <2>1, <2>3 DEF OpenClaim
    <2>4. CASE FillClaim(b)
      <3>1. CASE run[b].handle = "claim"
        <4>1. /\ claims' = {c \in claims : c.key # k} \cup {[key |-> k, out |-> o]}
              /\ torn' = torn \ {k}
          BY <2>1, <2>4, <3>1 DEF FillClaim
        <4> QED
          BY <1>1, <4>1
      <3>2. CASE run[b].handle # "claim"
        BY <1>1, <2>4, <3>2 DEF FillClaim, cache
      <3> QED
        BY <3>1, <3>2
    <2> QED
      BY <1>3, <2>2, <2>3, <2>4
  <1> QED
    BY <1>2, <1>3 DEF Next, Work, StartProcess, Crash, Finish, Skip, RunOne, Lookup,
     VerifyAndAdopt, Evict, ReadInput, ExecuteIncapable, ExecuteOk, ExecuteTransient,
     ExecuteFails, CheckBlob, OpenPartial, FillPartial, RenamePartial, Rot, Lose, vars

LEMMA InitInv ==
    ASSUME Init
    PROVE  Inv
  <1>1. Processes
    <2>1. DOMAIN run = Builder /\ \A b \in Builder : run[b] = Fresh
      BY DEF Init
    <2> QED
      BY <2>1, FreshProcess DEF Processes
  <1>2. Files /\ ClaimsTrue
    BY DEF Init, Files, ClaimsTrue
  <1> QED
    BY <1>1, <1>2 DEF Inv

LEMMA NextInv ==
    ASSUME Inv, [Next]_vars
    PROVE  Inv'
  <1>1. Files
    BY DEF Inv
  <1>2. Files'
    BY <1>1, BlobsKept, KeysKept DEF Files
  <1> QED
    BY <1>2, ProcessesKept, ClaimsKept DEF Inv

LEMMA Invariance == Spec => []Inv
  BY InitInv, NextInv, PTL DEF Spec

(* Every process is where build() and run_one() can be, its attempts are at  *)
(* most two retries and one substitution, and the cache's files are of one   *)
(* kind each.                                                                *)
THEOREM TypeCorrect == Spec => []TypeOK
  <1>1. Inv => TypeOK
    <2> SUFFICES ASSUME Inv PROVE TypeOK
      OBVIOUS
    <2>1. ASSUME NEW b \in Builder
          PROVE  /\ run[b].at \in Places /\ run[b].pos \in 0 .. Len(Order) + 1
                 /\ run[b].handle \in Handles
                 /\ run[b].attempt \in 0 .. MaxTransientRetries + 1
                 /\ run[b].outcome \in [Action -> Outcomes]
      <3>1. Process(b, run[b])
        BY DEF Inv, Processes
      <3>2. run[b].attempt \in Nat /\ run[b].attempt <= MaxTransientRetries + 1
        BY <3>1, Limits DEF MaxTransientRetries
      <3> QED
        BY <3>1, <3>2 DEF Process, Shape, MaxTransientRetries
    <2> QED
      BY <2>1 DEF TypeOK, Inv, Files
  <1> QED
    BY <1>1, Invariance, PTL

(* run_one's publication: whoever reads a claim may trust it, through kills, *)
(* rot, retries and substitutions.                                           *)
THEOREM ClaimsTrueAlways == Spec => []ClaimsTrue
  <1>1. Inv => ClaimsTrue
    BY DEF Inv
  <1> QED
    BY <1>1, Invariance, PTL

(* build(): what a build adopts was made of this build's own inputs, for the *)
(* platform that was asked for or the one it was allowed to fall back to.    *)
THEOREM FaithfulAlways == Spec => []BuildsAreFaithful
  <1>1. Inv => BuildsAreFaithful
    BY DEF Inv, Processes, Process, Faithful, BuildsAreFaithful
  <1> QED
    BY <1>1, Invariance, PTL

(* A finished build has decided every action, and skipped exactly those with *)
(* a dependency that failed or was skipped.                                  *)
FailuresPropagate ==
    \A b \in Builder : run[b].at = "done" =>
        \A a \in Action :
            /\ run[b].outcome[a] # "Pending"
            /\ run[b].outcome[a] = "Skipped" <=>
                 \E d \in Deps[a] : run[b].outcome[d] \in {"Failed", "Skipped"}

(* `broken` in build(): failure spreads along each edge and nowhere else.    *)
THEOREM FailuresPropagateAlways == Spec => []FailuresPropagate
  <1>1. Inv => FailuresPropagate
    <2> SUFFICES ASSUME Inv, NEW b \in Builder, run[b].at = "done", NEW a \in Action
                 PROVE  /\ run[b].outcome[a] # "Pending"
                        /\ run[b].outcome[a] = "Skipped" <=>
                             \E d \in Deps[a] : run[b].outcome[d] \in {"Failed", "Skipped"}
      BY DEF FailuresPropagate
    <2>1. PICK r : r = run[b]
      OBVIOUS
    <2>2. Process(b, r) /\ r.at = "done"
      BY <2>1 DEF Inv, Processes
    <2>3. PICK p \in 1 .. Len(Order) : Order[p] = a
      BY GraphAssumption
    <2>4. p < r.pos
      BY <2>2, Ordered DEF Process, Decided
    <2>5. /\ r.outcome[a] # "Pending"
          /\ r.outcome[a] = "Skipped" <=> \E d \in Deps[a] : Breaks(r.outcome[d])
      BY <2>2, <2>3, <2>4 DEF Process, Decided
    <2> QED
      BY <2>1, <2>5 DEF Breaks
  <1> QED
    BY <1>1, Invariance, PTL

(* Of a set of numbers there is a least. *)
LEMMA LeastOf ==
    ASSUME NEW S \in SUBSET Nat, S # {}
    PROVE  \E x \in S : \A y \in S : x <= y
  <1> DEFINE R == OpToRel(<, Nat)
  <1>1. \A i, j \in Nat : ~(<<i, j>> \in R) => j <= i
    BY DEF OpToRel
  <1>2. IsWellFoundedOn(R, Nat)
    BY NatLessThanWellFounded
  <1> HIDE DEF R
  <1>3. PICK x \in S : \A y \in S : ~(<<y, x>> \in R)
    BY <1>2, WFMin
  <1> QED
    BY <1>1, <1>3

(* The order has a length. *)
LEMMA OrderLength == Len(Order) \in Nat
  BY GraphAssumption

(* Outcomes that spread along each edge and nowhere else. *)
Spread(o) ==
    \A a \in Action :
        o[a] = "Skipped" <=> \E d \in Deps[a] : o[d] \in {"Failed", "Skipped"}

(* A chain that starts at o's failures and ends with a. *)
Reached(o, a, n) == \E c \in Chains(n) : c[n] = a /\ o[c[1]] = "Failed"

(* Whatever a chain from a failure comes to is skipped. *)
LEMMA SkippedAlong ==
    ASSUME NEW o, Spread(o), NEW a \in Action, NEW n \in 2 .. Len(Order), Reached(o, a, n)
    PROVE  o[a] = "Skipped"
  <1>1. PICK c \in Chains(n) : c[n] = a /\ o[c[1]] = "Failed"
    BY DEF Reached
  <1>2. /\ n \in Nat /\ n >= 2
        /\ \A i \in 1 .. n : c[i] \in Action
        /\ \A i \in 1 .. n - 1 : c[i] \in Deps[c[i + 1]]
    BY <1>1, OrderLength DEF Chains
  <1>3. SUFFICES ASSUME o[a] # "Skipped" PROVE FALSE
    OBVIOUS
  <1> DEFINE Bad == {i \in Nat : i \in 2 .. n /\ o[c[i]] # "Skipped"}
  <1>4. Bad \in SUBSET Nat /\ n \in Bad
    BY <1>1, <1>2, <1>3
  <1>5. PICK i \in Bad : \A j \in Bad : i <= j
    <2> HIDE DEF Bad
    <2> QED
      BY <1>4, LeastOf
  <1>6. i \in 2 .. n /\ i \in Nat /\ o[c[i]] # "Skipped"
    BY <1>5
  <1>7. /\ i - 1 \in 1 .. n - 1 /\ i \in 1 .. n
        /\ c[i - 1] \in Deps[c[i]]
    BY <1>2, <1>6
  <1>8. o[c[i - 1]] \in {"Failed", "Skipped"}
    <2>1. CASE i = 2
      BY <1>1, <2>1
    <2>2. CASE i # 2
      <3>1. i - 1 \in 2 .. n /\ i - 1 \in Nat /\ ~(i <= i - 1)
        BY <1>2, <1>6, <2>2
      <3>2. i - 1 \notin Bad
        BY <1>5, <3>1
      <3> QED
        BY <3>1, <3>2
    <2> QED
      BY <2>1, <2>2
  <1> QED
    BY <1>2, <1>6, <1>7, <1>8 DEF Spread

(* Whatever is skipped has such a chain, no longer than its place in the order. *)
LEMMA SkippedFrom ==
    ASSUME NEW o, Spread(o), NEW p \in 1 .. Len(Order), o[Order[p]] = "Skipped"
    PROVE  \E n \in 2 .. p : Reached(o, Order[p], n)
  <1> DEFINE Bad == {q \in Nat : /\ q \in 1 .. Len(Order) /\ o[Order[q]] = "Skipped"
                                 /\ ~\E n \in 2 .. q : Reached(o, Order[q], n)}
  <1>0. SUFFICES ASSUME Bad # {} PROVE FALSE
    BY OrderLength
  <1>1. PICK q \in Bad : \A r \in Bad : q <= r
    <2>1. Bad \in SUBSET Nat
      OBVIOUS
    <2> HIDE DEF Bad
    <2> QED
      BY <1>0, <2>1, LeastOf
  <1>2. /\ q \in 1 .. Len(Order) /\ q \in Nat /\ o[Order[q]] = "Skipped"
        /\ ~\E n \in 2 .. q : Reached(o, Order[q], n)
    BY <1>1
  <1>3. Order[q] \in Action
    BY <1>2, GraphAssumption
  <1>4. PICK d \in Deps[Order[q]] : o[d] \in {"Failed", "Skipped"}
    BY <1>2, <1>3 DEF Spread
  <1>5. PICK j \in 1 .. q - 1 : Order[j] = d
    BY <1>2, <1>4, GraphAssumption
  <1>6. j \in 1 .. Len(Order) /\ j \in Nat /\ j < q /\ d \in Action /\ q >= 2
    BY <1>2, <1>5, OrderLength, GraphAssumption
  <1>7. CASE o[d] = "Failed"
    <2>1. PICK c : c = [i \in 1 .. 2 |-> IF i = 1 THEN d ELSE Order[q]]
      OBVIOUS
    <2>2. c \in [1 .. 2 -> Action] /\ c[1] = d /\ c[2] = Order[q]
      BY <1>3, <1>6, <2>1
    <2>3. c \in Chains(2)
      BY <1>4, <2>2 DEF Chains
    <2> QED
      BY <1>2, <1>6, <1>7, <2>2, <2>3 DEF Reached
  <1>8. CASE o[d] = "Skipped"
    <2>1. j \notin Bad
      BY <1>1, <1>6
    <2>2. PICK n \in 2 .. j : Reached(o, d, n)
      BY <1>5, <1>6, <1>8, <2>1
    <2>3. PICK c \in Chains(n) : c[n] = d /\ o[c[1]] = "Failed"
      BY <2>2 DEF Reached
    <2>4. /\ n \in Nat /\ n >= 2 /\ n + 1 \in 2 .. q
          /\ c \in [1 .. n -> Action]
          /\ \A i \in 1 .. n - 1 : c[i] \in Deps[c[i + 1]]
      BY <1>2, <1>6, <2>2, <2>3 DEF Chains
    <2>5. PICK e : e = [i \in 1 .. n + 1 |-> IF i = n + 1 THEN Order[q] ELSE c[i]]
      OBVIOUS
    <2>6. /\ e \in [1 .. n + 1 -> Action] /\ e[n + 1] = Order[q]
          /\ \A i \in 1 .. n : e[i] = c[i]
      BY <1>3, <2>4, <2>5
    <2>7. \A i \in 1 .. (n + 1) - 1 : e[i] \in Deps[e[i + 1]]
      <3> SUFFICES ASSUME NEW i \in 1 .. (n + 1) - 1 PROVE e[i] \in Deps[e[i + 1]]
        OBVIOUS
      <3>1. CASE i = n
        BY <1>4, <2>3, <2>4, <2>6, <3>1
      <3>2. CASE i # n
        <4>1. i \in 1 .. n - 1 /\ i \in 1 .. n /\ i + 1 \in 1 .. n
          BY <2>4, <3>2
        <4> QED
          BY <2>4, <2>6, <4>1
      <3> QED
        BY <3>1, <3>2
    <2>8. e \in Chains(n + 1) /\ e[1] = c[1]
      BY <2>4, <2>6, <2>7 DEF Chains
    <2> QED
      BY <1>2, <2>3, <2>4, <2>6, <2>8 DEF Reached
  <1> QED
    BY <1>4, <1>7, <1>8

(* The same of whole chains: what is downstream of a failure is skipped, all *)
(* of it and nothing else.                                                   *)
THEOREM FailureIsContainedAlways == Spec => []FailureIsContained
  <1>1. FailuresPropagate => FailureIsContained
    <2> SUFFICES ASSUME FailuresPropagate,
                        NEW b \in Builder, run[b].at = "done", NEW a \in Action
                 PROVE  /\ run[b].outcome[a] # "Pending"
                        /\ run[b].outcome[a] = "Skipped" <=>
                             \E n \in 2 .. Len(Order) : Reached(run[b].outcome, a, n)
      BY DEF FailureIsContained, Reached
    <2>1. PICK o : o = run[b].outcome
      OBVIOUS
    <2>2. Spread(o) /\ o[a] # "Pending"
      BY <2>1 DEF FailuresPropagate, Spread
    <2>3. PICK p \in 1 .. Len(Order) : Order[p] = a
      BY GraphAssumption
    <2>4. o[a] = "Skipped" => \E n \in 2 .. p : Reached(o, a, n)
      BY <2>2, <2>3, SkippedFrom
    <2>5. \A n \in 2 .. p : n \in 2 .. Len(Order)
      BY <2>3, OrderLength
    <2>6. (\E n \in 2 .. Len(Order) : Reached(o, a, n)) => o[a] = "Skipped"
      BY <2>2, SkippedAlong
    <2> QED
      BY <2>1, <2>2, <2>4, <2>5, <2>6
  <1> QED
    BY <1>1, FailuresPropagateAlways, PTL
============================================================================
