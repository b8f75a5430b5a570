----------------------------- MODULE JournalProofs -----------------------------
(***************************************************************************)
(* What the hash chain of the journal is worth: for any entries, any number*)
(* of appends, reopenings, crashes, I/O errors and edits, and files of any *)
(* length.  The argument is that a link determines the whole chain behind  *)
(* it, and that the last line of a file whose tail was not cut is chained  *)
(* to every record append() returned.                                      *)
(***************************************************************************)
EXTENDS Journal, TLAPS, WellFoundedInduction

(* The links 1 .. n of c follow one another from Genesis. *)
IsChain(c, n) ==
    /\ n \in Nat
    /\ \A i \in 1 .. n :
         \E e : c[i] = Link(i - 1, IF i = 1 THEN Genesis ELSE c[i - 1], e)

(* There is a chain of n links that ends in `link`. *)
Chained(link, n) == n > 0 /\ \E c : IsChain(c, n) /\ c[n] = link

(* That chain holds record r's link. *)
Covers(link, n, r) ==
    /\ r.index \in 0 .. n - 1
    /\ \E c : IsChain(c, n) /\ c[n] = link /\ c[r.index + 1] = r.link

IsRecord(r) ==
    r = [index |-> r.index, prev |-> r.prev, entry |-> r.entry, link |-> r.link]

-----------------------------------------------------------------------------
(* Chains.                                                                   *)

(* Of a set of numbers there is a least. *)
LEMMA LeastNumber ==
    ASSUME NEW S \in SUBSET Nat, S # {}
    PROVE  \E x \in S : \A y \in S : x <= y
  <1> DEFINE R == OpToRel(<, Nat)
  <1>1. \A i, j \in Nat : ~(<<i, j>> \in R) => j <= i
    BY DEF OpToRel
  <1>2. IsWellFoundedOn(R, Nat)
    BY NatLessThanWellFounded
  <1> HIDE DEF R
  <1>3. PICK x \in S : \A y \in S : ~(<<y, x>> \in R)
    BY <1>2, WFMin
  <1> QED
    BY <1>1, <1>3

(* Two chains that end in one link are one chain. *)
LEMMA ChainsMeet ==
    ASSUME NEW c, NEW m, NEW d, NEW n, IsChain(c, m), IsChain(d, n),
           m > 0, n > 0, c[m] = d[n]
    PROVE  m = n /\ \A i \in 1 .. m : c[i] = d[i]
  <1>1. m \in Nat /\ n \in Nat
    BY DEF IsChain
  <1>2. ASSUME NEW i \in 1 .. m, i \in 1 .. n, c[i] = d[i], i > 1
        PROVE  c[i - 1] = d[i - 1]
    <2>1. c[i][2] = c[i - 1]
      <3>1. PICK e : c[i] = Link(i - 1, c[i - 1], e)
        BY <1>2 DEF IsChain
      <3> QED
        BY <3>1 DEF Link
    <2>2. d[i][2] = d[i - 1]
      <3>1. PICK e : d[i] = Link(i - 1, d[i - 1], e)
        BY <1>2 DEF IsChain
      <3> QED
        BY <3>1 DEF Link
    <2> QED
      BY <1>2, <2>1, <2>2
  <1>3. m = n
    <2>1. c[m][1] = m - 1
      <3>1. PICK p, e : c[m] = Link(m - 1, p, e)
        BY <1>1 DEF IsChain
      <3> QED
        BY <3>1 DEF Link
    <2>2. d[n][1] = n - 1
      <3>1. PICK p, e : d[n] = Link(n - 1, p, e)
        BY <1>1 DEF IsChain
      <3> QED
        BY <3>1 DEF Link
    <2> QED
      BY <1>1, <2>1, <2>2
  <1> DEFINE S == {k \in Nat : k < m /\ c[m - k] # d[m - k]}
  <1>4. S = {}
    <2> SUFFICES ASSUME S # {}
                 PROVE  FALSE
      OBVIOUS
    <2>1. PICK k \in S : \A j \in S : k <= j
      <3>1. S \in SUBSET Nat
        OBVIOUS
      <3> HIDE DEF S
      <3> QED
        BY <3>1, LeastNumber
    <2>2. k # 0
      BY <1>1, <1>3
    <2>3. /\ k - 1 \in Nat /\ k - 1 < m /\ ~(k <= k - 1)
          /\ m - (k - 1) \in 1 .. m /\ m - (k - 1) > 1 /\ m - (k - 1) - 1 = m - k
      BY <1>1, <2>2
    <2>4. c[m - (k - 1)] = d[m - (k - 1)]
      BY <2>1, <2>3
    <2> QED
      BY <1>2, <1>3, <2>3, <2>4
  <1>5. ASSUME NEW i \in 1 .. m
        PROVE  c[i] = d[i]
    <2>1. m - i \in Nat /\ m - i < m /\ m - (m - i) = i
      BY <1>1
    <2> QED
      BY <1>4, <2>1
  <1> QED
    BY <1>3, <1>5

(* The record that append() makes next extends the chain. *)
LEMMA ChainGrows ==
    ASSUME NEW c, NEW n, NEW h, NEW e, IsChain(c, n),
           n = 0 => h = Genesis, n # 0 => h = c[n]
    PROVE  \E d : /\ IsChain(d, n + 1) /\ d[n + 1] = Link(n, h, e)
                  /\ \A i \in 1 .. n : d[i] = c[i]
  <1>1. n \in Nat
    BY DEF IsChain
  <1>2. PICK d : d = [i \in 1 .. n + 1 |-> IF i = n + 1 THEN Link(n, h, e) ELSE c[i]]
    OBVIOUS
  <1>3. d[n + 1] = Link(n, h, e) /\ \A i \in 1 .. n : d[i] = c[i]
    BY <1>1, <1>2
  <1>4. ASSUME NEW i \in 1 .. n + 1
        PROVE  \E f : d[i] = Link(i - 1, IF i = 1 THEN Genesis ELSE d[i - 1], f)
    <2>1. CASE i = n + 1
      <3>1. i - 1 = n /\ (i # 1 => n \in 1 .. n) /\ (i = 1 <=> n = 0)
        BY <1>1, <2>1
      <3>2. h = IF i = 1 THEN Genesis ELSE d[i - 1]
        BY <1>3, <3>1
      <3> QED
        BY <1>3, <2>1, <3>1, <3>2
    <2>2. CASE i # n + 1
      <3>1. i \in 1 .. n /\ (i # 1 => i - 1 \in 1 .. n)
        BY <1>1, <2>2
      <3>2. PICK f : c[i] = Link(i - 1, IF i = 1 THEN Genesis ELSE c[i - 1], f)
        BY <3>1 DEF IsChain
      <3> QED
        BY <1>3, <3>1, <3>2
    <2> QED
      BY <2>1, <2>2
  <1> QED
    BY <1>1, <1>3, <1>4 DEF IsChain

(* The links of a file that verifies are a chain, from its start to any line.*)
LEMMA FileIsChain ==
    ASSUME NEW f, Len(f) \in Nat, Verified(f), NEW n \in 0 .. Len(f),
           NEW c, c = [i \in 1 .. Len(f) |-> f[i].link]
    PROVE  IsChain(c, n)
  <1>1. ASSUME NEW i \in 1 .. n
        PROVE  \E e : c[i] = Link(i - 1, IF i = 1 THEN Genesis ELSE c[i - 1], e)
    <2>1. i \in 1 .. Len(f) /\ (i # 1 => i - 1 \in 1 .. Len(f))
      OBVIOUS
    <2>2. /\ f[i].index = i - 1
          /\ f[i].prev = IF i = 1 THEN Genesis ELSE f[i - 1].link
          /\ f[i].link = Link(f[i].index, f[i].prev, f[i].entry)
      BY <2>1 DEF Verified
    <2>3. c[i] = f[i].link /\ (i # 1 => c[i - 1] = f[i - 1].link)
      BY <2>1
    <2>4. c[i] = Link(i - 1, IF i = 1 THEN Genesis ELSE c[i - 1], f[i].entry)
      BY <2>2, <2>3
    <2> QED
      BY <2>4
  <1>2. n \in Nat
    OBVIOUS
  <1> QED
    BY <1>1, <1>2, Zenon DEF IsChain

-----------------------------------------------------------------------------
(* The inductive invariant.                                                  *)

Typed ==
    /\ \E S : file \in Seq(S)
    /\ bare \in BOOLEAN /\ edited \in BOOLEAN /\ cut \in BOOLEAN /\ torn \in BOOLEAN

(* Edits change what a record says and not the link it was written with. *)
LinesChained ==
    \A i \in 1 .. Len(file) :
        file[i] # Garbage =>
            /\ IsRecord(file[i]) /\ file[i].index \in Nat
            /\ Chained(file[i].link, file[i].index + 1)

HeadChained ==
    handle = "open" =>
        /\ next_index \in Nat
        /\ IF next_index = 0 THEN head = Genesis ELSE Chained(head, next_index)
        /\ file = <<>> => head = Genesis

AckedRecords ==
    \A r \in acked : IsRecord(r) /\ r.link = Link(r.index, r.prev, r.entry)

(* Unless the tail was cut off, the head and a last line that parses are     *)
(* chained to every record append() returned.                                *)
AckedCovered ==
    ~cut =>
        /\ file = <<>> => acked = {}
        /\ handle = "open" => \A r \in acked : Covers(head, next_index, r)
        /\ file # <<>> /\ Last(file) # Garbage =>
              \A r \in acked : Covers(Last(file).link, Last(file).index + 1, r)

AnchorsChained ==
    \A a \in anchors :
        \E c, n : /\ IsChain(c, n) /\ n > 0 /\ c[n] = a.link
                  /\ a.entries = [i \in 1 .. n |-> c[i][3]]

(* Without edits and torn writes an open journal is at the end of its file.  *)
AtTheEnd ==
    /\ cut => edited
    /\ ~edited /\ ~torn =>
          /\ Verified(file) /\ ~bare
          /\ handle = "open" =>
                /\ next_index = Len(file)
                /\ head = IF file = <<>> THEN Genesis ELSE Last(file).link

Chains == Typed /\ LinesChained /\ HeadChained /\ AckedRecords /\ AckedCovered

Inv == Chains /\ AnchorsChained /\ AtTheEnd

(* The record append() is about to write. *)
LEMMA NewRecord ==
    ASSUME HeadChained, handle = "open", NEW e, NEW r, r = Record(next_index, head, e)
    PROVE  /\ IsRecord(r) /\ r # Garbage /\ r.index \in Nat /\ r.index = next_index
           /\ r.prev = head /\ r.link = Link(r.index, r.prev, r.entry)
           /\ Chained(r.link, r.index + 1)
           /\ Covers(r.link, r.index + 1, r)
           /\ \A q : Covers(head, next_index, q) => Covers(r.link, r.index + 1, q)
  <1>1. next_index \in Nat
    BY DEF HeadChained
  <1>2. /\ r.index = next_index /\ r.prev = head /\ r.entry = e
        /\ r.link = Link(next_index, head, e) /\ IsRecord(r)
    BY DEF Record, IsRecord
  <1>3. r # Garbage
    <2>1. "index" \in DOMAIN r /\ "index" \notin DOMAIN Garbage
      BY DEF Record, Garbage
    <2> QED
      BY <2>1
  <1>4. ASSUME NEW c, IsChain(c, next_index),
               head = IF next_index = 0 THEN Genesis ELSE c[next_index]
        PROVE  \E d : /\ IsChain(d, r.index + 1) /\ d[r.index + 1] = r.link
                      /\ \A i \in 1 .. next_index : d[i] = c[i]
    <2>1. \E d : /\ IsChain(d, next_index + 1)
                 /\ d[next_index + 1] = Link(next_index, head, e)
                 /\ \A i \in 1 .. next_index : d[i] = c[i]
      BY <1>4, ChainGrows
    <2> QED
      BY <1>2, <2>1
  <1>5. \E c : IsChain(c, next_index)
                 /\ head = IF next_index = 0 THEN Genesis ELSE c[next_index]
    <2>1. CASE next_index = 0
      <3>1. IsChain(<<>>, next_index)
        BY <1>1, <2>1 DEF IsChain
      <3> QED
        BY <2>1, <3>1 DEF HeadChained
    <2>2. CASE next_index # 0
      BY <2>2 DEF HeadChained, Chained
    <2> QED
      BY <2>1, <2>2
  <1>6. PICK d : IsChain(d, r.index + 1) /\ d[r.index + 1] = r.link
    BY <1>4, <1>5
  <1>7. Chained(r.link, r.index + 1)
    BY <1>1, <1>2, <1>6 DEF Chained
  <1>8. Covers(r.link, r.index + 1, r)
    BY <1>1, <1>2, <1>6 DEF Covers
  <1>9. ASSUME NEW q, Covers(head, next_index, q)
        PROVE  Covers(r.link, r.index + 1, q)
    <2>1. PICK c : IsChain(c, next_index) /\ c[next_index] = head
                     /\ c[q.index + 1] = q.link
      BY <1>9 DEF Covers
    <2>2. q.index \in 0 .. next_index - 1
      BY <1>9 DEF Covers
    <2>3. next_index # 0 /\ q.index + 1 \in 1 .. next_index
          /\ q.index \in 0 .. (r.index + 1) - 1
      BY <1>1, <1>2, <2>2
    <2>4. PICK b : /\ IsChain(b, r.index + 1) /\ b[r.index + 1] = r.link
                   /\ \A i \in 1 .. next_index : b[i] = c[i]
      BY <1>4, <2>1, <2>3
    <2> QED
      BY <2>1, <2>3, <2>4 DEF Covers
  <1> QED
    BY <1>1, <1>2, <1>3, <1>7, <1>8, <1>9

(* A write leaves the lines before the last alone; the last line is then the *)
(* record, or does not parse.                                                *)
Written(r) ==
    /\ \E S : file' \in Seq(S)
    /\ Len(file') > 0
    /\ \A i \in 1 .. Len(file') - 1 : i \in 1 .. Len(file) /\ file'[i] = file[i]
    /\ file'[Len(file')] \in {r, Garbage}
    /\ file' # <<>> /\ Last(file') = file'[Len(file')]

LEMMA ExtendWrites ==
    ASSUME Typed, NEW r, NEW mode, Extend(r, mode)
    PROVE  /\ mode = "nothing" => file' = file /\ bare' = bare
           /\ mode # "nothing" => Written(r)
           /\ mode = "whole" /\ ~bare => file' = Append(file, r) /\ bare' = FALSE
           /\ bare' \in BOOLEAN
  <1>1. PICK S : file \in Seq(S)
    BY DEF Typed
  <1>2. PICK T : T = S \cup {r, Garbage}
    OBVIOUS
  <1>3. file \in Seq(T) /\ r \in T /\ Garbage \in T /\ Len(file) \in Nat
    BY <1>1, <1>2
  <1>4. CASE mode = "nothing"
    BY <1>4 DEF Extend, Typed
  <1>5. CASE mode # "nothing"
    <2>1. PICK line : line = IF mode = "part" THEN Garbage ELSE r
      OBVIOUS
    <2>2. /\ file' = IF bare THEN Append(Front(file), Garbage) ELSE Append(file, line)
          /\ bare' = (mode # "whole")
      BY <1>5, <2>1 DEF Extend
    <2>3. PICK f : f = IF bare THEN Front(file) ELSE file
      OBVIOUS
    <2>4. /\ f \in Seq(T) /\ Len(f) \in Nat /\ Len(f) <= Len(file)
          /\ \A i \in 1 .. Len(f) : f[i] = file[i]
      BY <1>3, <2>3 DEF Front
    <2>5. PICK x \in {r, Garbage} : file' = Append(f, x)
      BY <2>1, <2>2, <2>3
    <2>6. x \in T
      BY <1>3, <2>5
    <2>7. /\ file' \in Seq(T) /\ Len(file') = Len(f) + 1 /\ file'[Len(f) + 1] = x
          /\ \A i \in 1 .. Len(f) : file'[i] = f[i]
      BY <2>4, <2>5, <2>6
    <2>8. file' # <<>> /\ Last(file') = file'[Len(file')]
      BY <2>4, <2>7 DEF Last
    <2>9. Written(r)
      BY <2>4, <2>5, <2>7, <2>8 DEF Written
    <2> QED
      BY <1>5, <2>1, <2>2, <2>9
  <1> QED
    BY <1>4, <1>5

LEMMA WriteKeepsLines ==
    ASSUME LinesChained, NEW r, IsRecord(r), r.index \in Nat, Chained(r.link, r.index + 1),
           file' = file \/ Written(r), Len(file') \in Nat
    PROVE  LinesChained'
  <1> SUFFICES ASSUME NEW i \in 1 .. Len(file'), file'[i] # Garbage
               PROVE  /\ IsRecord(file'[i]) /\ file'[i].index \in Nat
                      /\ Chained(file'[i].link, file'[i].index + 1)
    BY DEF LinesChained
  <1>1. CASE file' = file
    BY <1>1 DEF LinesChained
  <1>2. CASE Written(r)
    <2>1. CASE i = Len(file')
      <3>1. file'[i] = r
        BY <1>2, <2>1 DEF Written
      <3> QED
        BY <3>1
    <2>2. CASE i # Len(file')
      <3>1. i \in 1 .. Len(file') - 1
        BY <2>2
      <3>2. i \in 1 .. Len(file) /\ file'[i] = file[i]
        BY <1>2, <3>1 DEF Written
      <3> QED
        BY <3>2 DEF LinesChained
    <2> QED
      BY <2>1, <2>2
  <1> QED
    BY <1>1, <1>2

(* After a write by an open journal, a last line that parses is chained to   *)
(* every record returned before it, and to the record itself when it is the  *)
(* one written.                                                              *)
LEMMA WriteCovers ==
    ASSUME Chains, handle = "open", ~cut, NEW e, NEW r, r = Record(next_index, head, e),
           file' = file \/ Written(r)
    PROVE  /\ \A q \in acked : Covers(r.link, r.index + 1, q)
           /\ file' # <<>> /\ Last(file') # Garbage =>
                 /\ \A q \in acked : Covers(Last(file').link, Last(file').index + 1, q)
                 /\ Written(r) => Last(file') = r
           /\ file' = <<>> => acked = {}
  <1>1. \A q \in acked : Covers(r.link, r.index + 1, q)
    BY NewRecord DEF Chains, AckedCovered
  <1>2. CASE Written(r)
    <2>1. file' # <<>> /\ Last(file') \in {r, Garbage}
      BY <1>2 DEF Written
    <2> QED
      BY <1>1, <2>1
  <1>3. CASE file' = file /\ ~Written(r)
    BY <1>1, <1>3 DEF Chains, AckedCovered
  <1> QED
    BY <1>2, <1>3

LEMMA AppendOkChains ==
    ASSUME Chains, NEW e \in Entries, AppendOk(e)
    PROVE  Chains'
  <1>1. PICK r : r = Record(next_index, head, e)
    OBVIOUS
  <1>2. /\ handle = "open" /\ handle' = "open" /\ Extend(r, "whole")
        /\ acked' = acked \cup {r} /\ head' = r.link /\ next_index' = next_index + 1
        /\ edited' = edited /\ cut' = cut /\ torn' = torn
    BY <1>1 DEF AppendOk
  <1>3. Written(r) /\ bare' \in BOOLEAN
    <2>1. PICK mode : mode = "whole"
      OBVIOUS
    <2>2. Typed /\ Extend(r, mode) /\ mode # "nothing"
      BY <1>2, <2>1 DEF Chains
    <2> QED
      BY <2>2, ExtendWrites
  <1>4. /\ IsRecord(r) /\ r.index \in Nat /\ r.index = next_index
        /\ r.link = Link(r.index, r.prev, r.entry)
        /\ Chained(r.link, r.index + 1) /\ Covers(r.link, r.index + 1, r)
    BY <1>1, <1>2, NewRecord DEF Chains
  <1>5. Typed'
    BY <1>2, <1>3 DEF Chains, Typed, Written
  <1>6. LinesChained'
    <2>1. Len(file') \in Nat
      BY <1>3 DEF Written
    <2> QED
      BY <1>3, <1>4, <2>1, WriteKeepsLines DEF Chains
  <1>7. HeadChained'
    <2>1. next_index' \in Nat /\ next_index' # 0 /\ Chained(head', next_index')
      BY <1>2, <1>4
    <2>2. file' # <<>>
      BY <1>3 DEF Written
    <2> QED
      BY <2>1, <2>2 DEF HeadChained
  <1>8. AckedRecords'
    BY <1>2, <1>4 DEF Chains, AckedRecords
  <1>9. AckedCovered'
    <2> SUFFICES ASSUME ~cut
                 PROVE  /\ file' # <<>>
                        /\ \A q \in acked' : Covers(head', next_index', q)
                        /\ Last(file') # Garbage =>
                             \A q \in acked' :
                                Covers(Last(file').link, Last(file').index + 1, q)
      BY <1>2 DEF AckedCovered
    <2>1. file' # <<>>
      BY <1>3 DEF Written
    <2>2. /\ \A q \in acked : Covers(r.link, r.index + 1, q)
          /\ Last(file') # Garbage => Last(file') = r
      BY <1>1, <1>2, <1>3, <2>1, WriteCovers
    <2> QED
      BY <1>2, <1>4, <2>1, <2>2
  <1> QED
    BY <1>5, <1>6, <1>7, <1>8, <1>9 DEF Chains

(* A write that fails, or that the process does not survive: nothing is      *)
(* returned.                                                                 *)
LEMMA UnackedChains ==
    ASSUME Chains, NEW e, NEW mode, handle = "open",
           Extend(Record(next_index, head, e), mode),
           \/ UNCHANGED <<handle, head, next_index>>
           \/ handle' = "closed",
           UNCHANGED <<acked, edited, cut>>, torn' \in BOOLEAN
    PROVE  Chains'
  <1>1. PICK r : r = Record(next_index, head, e)
    OBVIOUS
  <1>2. (file' = file \/ Written(r)) /\ bare' \in BOOLEAN
    BY <1>1, ExtendWrites DEF Chains
  <1>3. IsRecord(r) /\ r.index \in Nat /\ Chained(r.link, r.index + 1)
    BY <1>1, NewRecord DEF Chains
  <1>4. Typed'
    BY <1>2 DEF Chains, Typed, Written
  <1>5. LinesChained'
    <2>1. Len(file') \in Nat
      BY <1>2 DEF Written, Chains, Typed
    <2> QED
      BY <1>2, <1>3, <2>1, WriteKeepsLines DEF Chains
  <1>6. HeadChained'
    <2>1. file' = <<>> => file = <<>>
      BY <1>2 DEF Written
    <2> QED
      BY <2>1 DEF Chains, HeadChained
  <1>7. AckedRecords'
    BY DEF Chains, AckedRecords
  <1>8. AckedCovered'
    <2> SUFFICES ASSUME ~cut
                 PROVE  /\ file' = <<>> => acked = {}
                        /\ handle' = "open" =>
                              \A q \in acked : Covers(head', next_index', q)
                        /\ file' # <<>> /\ Last(file') # Garbage =>
                             \A q \in acked :
                                Covers(Last(file').link, Last(file').index + 1, q)
      BY DEF AckedCovered
    <2>1. handle' = "open" => \A q \in acked : Covers(head', next_index', q)
      BY DEF Chains, AckedCovered
    <2> QED
      BY <1>1, <1>2, <2>1, WriteCovers
  <1> QED
    BY <1>4, <1>5, <1>6, <1>7, <1>8 DEF Chains

(* open() takes up the chain of the last line. *)
LEMMA OpenChains ==
    ASSUME Chains, Open
    PROVE  Chains'
  <1>1. UNCHANGED <<file, bare, acked, anchors, edited, cut, torn>>
    BY DEF Open
  <1>2. Typed' /\ LinesChained' /\ AckedRecords'
    BY <1>1 DEF Chains, Typed, LinesChained, AckedRecords
  <1>3. Len(file) \in Nat
    BY DEF Chains, Typed
  <1>4. CASE ~Parses(file)
    <2>1. handle' # "open"
      BY <1>4 DEF Open
    <2>2. HeadChained' /\ AckedCovered'
      BY <1>1, <2>1 DEF Chains, HeadChained, AckedCovered
    <2> QED
      BY <1>2, <2>2 DEF Chains
  <1>5. CASE Parses(file) /\ file = <<>>
    <2>1. head' = Genesis /\ next_index' = 0
      BY <1>5 DEF Open
    <2>2. HeadChained'
      BY <2>1 DEF HeadChained
    <2>3. AckedCovered'
      BY <1>1, <1>5 DEF Chains, AckedCovered
    <2> QED
      BY <1>2, <2>2, <2>3 DEF Chains
  <1>6. CASE Parses(file) /\ file # <<>>
    <2>1. Len(file) > 0 /\ Len(file) \in 1 .. Len(file)
      BY <1>3, <1>6 DEF Chains, Typed
    <2>2. /\ head' = file[Len(file)].link /\ next_index' = file[Len(file)].index + 1
          /\ Last(file) = file[Len(file)]
      BY <1>6 DEF Open, Last
    <2>3. file[Len(file)] # Garbage
      BY <1>6, <2>1 DEF Parses
    <2>4. /\ file[Len(file)].index \in Nat
          /\ Chained(file[Len(file)].link, file[Len(file)].index + 1)
      BY <2>1, <2>3 DEF Chains, LinesChained
    <2>5. HeadChained'
      BY <1>1, <1>6, <2>2, <2>4 DEF HeadChained
    <2>6. AckedCovered'
      BY <1>1, <1>6, <2>2, <2>3 DEF Chains, AckedCovered
    <2> QED
      BY <1>2, <2>5, <2>6 DEF Chains
  <1> QED
    BY <1>4, <1>5, <1>6

(* An edit leaves the links. *)
LEMMA EditChains ==
    ASSUME Chains, NEW i \in 1 .. Len(file), NEW e \in Entries, EditEntry(i, e)
    PROVE  Chains'
  <1>1. /\ handle = "closed" /\ handle' = "closed"
        /\ file[i] # Garbage
        /\ file' = [file EXCEPT ![i] = [file[i] EXCEPT !.entry = e]]
        /\ UNCHANGED <<bare, acked, cut, torn>> /\ edited' = TRUE
    BY DEF EditEntry
  <1>2. PICK S : file \in Seq(S)
    BY DEF Chains, Typed
  <1>3. PICK r : r = [file[i] EXCEPT !.entry = e]
    OBVIOUS
  <1>4. PICK T : T = S \cup {r}
    OBVIOUS
  <1>5. file \in Seq(T) /\ r \in T /\ Len(file) \in Nat
    BY <1>2, <1>4
  <1>6. /\ file' \in Seq(T) /\ Len(file') = Len(file) /\ file'[i] = r
        /\ \A j \in 1 .. Len(file) : j # i => file'[j] = file[j]
    BY <1>1, <1>3, <1>5
  <1>7. IsRecord(file[i]) /\ file[i].index \in Nat
          /\ Chained(file[i].link, file[i].index + 1)
    BY <1>1 DEF Chains, LinesChained
  <1>8. r.index = file[i].index /\ r.link = file[i].link /\ IsRecord(r)
    BY <1>3, <1>7 DEF IsRecord
  <1>9. Typed'
    BY <1>1, <1>6 DEF Chains, Typed
  <1>10. LinesChained'
    <2> SUFFICES ASSUME NEW j \in 1 .. Len(file), file'[j] # Garbage
                 PROVE  /\ IsRecord(file'[j]) /\ file'[j].index \in Nat
                        /\ Chained(file'[j].link, file'[j].index + 1)
      BY <1>6 DEF LinesChained
    <2>1. CASE j = i
      BY <1>6, <1>7, <1>8, <2>1
    <2>2. CASE j # i
      <3>1. file'[j] = file[j]
        BY <1>6, <2>2
      <3> QED
        BY <3>1 DEF Chains, LinesChained
    <2> QED
      BY <2>1, <2>2
  <1>11. HeadChained' /\ AckedRecords'
    BY <1>1 DEF Chains, HeadChained, AckedRecords
  <1>12. AckedCovered'
    <2> SUFFICES ASSUME ~cut
                 PROVE  /\ file' # <<>>
                        /\ Last(file') # Garbage =>
                             \A q \in acked :
                                Covers(Last(file').link, Last(file').index + 1, q)
      BY <1>1 DEF AckedCovered
    <2>1. Len(file) > 0 /\ file # <<>> /\ file' # <<>>
      BY <1>5, <1>6
    <2>2. Last(file) = file[Len(file)] /\ Last(file') = file'[Len(file)]
      BY <1>6 DEF Last
    <2>3. CASE i = Len(file)
      BY <1>1, <1>6, <1>8, <2>1, <2>2, <2>3 DEF Chains, AckedCovered
    <2>4. CASE i # Len(file)
      <3>1. Last(file') = Last(file)
        BY <1>5, <1>6, <2>1, <2>2, <2>4
      <3> QED
        BY <2>1, <3>1 DEF Chains, AckedCovered
    <2> QED
      BY <2>3, <2>4
  <1> QED
    BY <1>9, <1>10, <1>11, <1>12 DEF Chains

(* A deletion before the end leaves the last line. *)
LEMMA DeleteChains ==
    ASSUME Chains, NEW i \in 1 .. Len(file), DeleteLine(i)
    PROVE  Chains'
  <1>1. /\ handle = "closed" /\ handle' = "closed"
        /\ file' = SubSeq(file, 1, i - 1) \o SubSeq(file, i + 1, Len(file))
        /\ UNCHANGED <<acked, torn>> /\ edited' = TRUE
        /\ cut' = (cut \/ i = Len(file)) /\ bare' = (bare /\ i # Len(file))
    BY DEF DeleteLine, RemoveAt
  <1>2. PICK S : file \in Seq(S)
    BY DEF Chains, Typed
  <1>3. i \in Nat /\ i >= 1 /\ i <= Len(file) /\ Len(file) \in Nat
    BY <1>2
  <1>4. PICK a, b : a = SubSeq(file, 1, i - 1) /\ b = SubSeq(file, i + 1, Len(file))
    OBVIOUS
  <1>5. /\ a \in Seq(S) /\ Len(a) = i - 1 /\ \A j \in 1 .. i - 1 : a[j] = file[j]
    BY <1>2, <1>3, <1>4
  <1>6. /\ b \in Seq(S) /\ Len(b) = Len(file) - i
        /\ \A j \in 1 .. Len(file) - i : b[j] = file[j + i]
    <2>1. CASE i = Len(file)
      BY <1>2, <1>3, <1>4, <2>1
    <2>2. CASE i < Len(file)
      BY <1>2, <1>3, <1>4, <2>2
    <2> QED
      BY <1>3, <2>1, <2>2
  <1>7. /\ file' \in Seq(S) /\ Len(file') = Len(file) - 1
        /\ \A j \in 1 .. Len(file) - 1 :
              file'[j] = IF j < i THEN file[j] ELSE file[j + 1]
    <2>1. file' = a \o b
      BY <1>1, <1>4
    <2>2. file' \in Seq(S) /\ Len(file') = Len(file) - 1
      BY <1>3, <1>5, <1>6, <2>1
    <2>3. ASSUME NEW j \in 1 .. Len(file) - 1
          PROVE  file'[j] = IF j < i THEN file[j] ELSE file[j + 1]
      <3>1. CASE j < i
        BY <1>3, <1>5, <1>6, <2>1, <3>1
      <3>2. CASE ~(j < i)
        <4>1. j - Len(a) \in 1 .. Len(b) /\ (j - Len(a)) + i = j + 1
          BY <1>3, <1>5, <1>6, <3>2
        <4>2. file'[j] = b[j - Len(a)]
          BY <1>3, <1>5, <1>6, <2>1, <3>2
        <4> QED
          BY <1>6, <3>2, <4>1, <4>2
      <3> QED
        BY <3>1, <3>2
    <2> QED
      BY <2>2, <2>3
  <1>8. Typed'
    BY <1>1, <1>7 DEF Chains, Typed
  <1>9. LinesChained'
    <2> SUFFICES ASSUME NEW j \in 1 .. Len(file) - 1, file'[j] # Garbage
                 PROVE  /\ IsRecord(file'[j]) /\ file'[j].index \in Nat
                        /\ Chained(file'[j].link, file'[j].index + 1)
      BY <1>7 DEF LinesChained
    <2>1. PICK k \in 1 .. Len(file) : file'[j] = file[k]
      <3>1. j \in 1 .. Len(file) /\ j + 1 \in 1 .. Len(file)
        BY <1>3
      <3> QED
        BY <1>7, <3>1
    <2> QED
      BY <2>1 DEF Chains, LinesChained
  <1>10. HeadChained' /\ AckedRecords'
    BY <1>1 DEF Chains, HeadChained, AckedRecords
  <1>11. AckedCovered'
    <2> SUFFICES ASSUME ~cut, i # Len(file)
                 PROVE  /\ file' # <<>>
                        /\ Last(file') # Garbage =>
                             \A q \in acked :
                                Covers(Last(file').link, Last(file').index + 1, q)
      BY <1>1 DEF AckedCovered
    <2>1. Len(file) - 1 \in 1 .. Len(file) - 1 /\ ~(Len(file) - 1 < i)
            /\ Len(file) - 1 + 1 = Len(file)
      BY <1>3
    <2>2. file' # <<>> /\ file # <<>> /\ Last(file') = file[Len(file)]
            /\ Last(file) = file[Len(file)]
      BY <1>2, <1>3, <1>7, <2>1 DEF Last
    <2> QED
      BY <2>2 DEF Chains, AckedCovered
  <1> QED
    BY <1>8, <1>9, <1>10, <1>11 DEF Chains

LEMMA StepChains == Chains /\ [Next]_vars => Chains'
  <1> SUFFICES ASSUME Chains, [Next]_vars
               PROVE  Chains'
    OBVIOUS
  <1>1. ASSUME UNCHANGED <<file, bare, acked, edited, cut, torn>>,
               handle' = "closed" \/ UNCHANGED <<handle, head, next_index>>
        PROVE  Chains'
    BY <1>1 DEF Chains, Typed, LinesChained, HeadChained, AckedRecords, AckedCovered
  <1>2. CASE UNCHANGED vars \/ Close \/ Publish
    BY <1>1, <1>2 DEF vars, Close, Publish
  <1>3. CASE Open
    BY <1>3, OpenChains
  <1>4. CASE \E e \in Entries : AppendOk(e)
    BY <1>4, AppendOkChains
  <1>5. CASE \E e \in Entries, mode \in FaultModes : AppendFails(e, mode)
    <2>1. PICK e \in Entries, mode \in FaultModes : AppendFails(e, mode)
      BY <1>5
    <2>2. /\ handle = "open" /\ Extend(Record(next_index, head, e), mode)
          /\ UNCHANGED <<handle, head, next_index, acked, edited, cut>>
          /\ torn' \in BOOLEAN
      BY <2>1 DEF AppendFails
    <2> QED
      BY <2>2, UnackedChains
  <1>6. CASE \E e \in Entries, mode \in CrashModes : CrashInAppend(e, mode)
    <2>1. PICK e \in Entries, mode \in CrashModes : CrashInAppend(e, mode)
      BY <1>6
    <2>2. /\ handle = "open" /\ Extend(Record(next_index, head, e), mode)
          /\ handle' = "closed" /\ UNCHANGED <<acked, edited, cut>> /\ torn' \in BOOLEAN
      BY <2>1 DEF CrashInAppend
    <2> QED
      BY <2>2, UnackedChains
  <1>7. CASE \/ \E i \in 1 .. Len(file), e \in Entries : EditEntry(i, e)
             \/ \E i \in 1 .. Len(file) : DeleteLine(i)
    BY <1>7, EditChains, DeleteChains
  <1> QED
    BY <1>2, <1>3, <1>4, <1>5, <1>6, <1>7 DEF Next

(* A published head is the end of a chain that holds the entries published. *)
LEMMA StepAnchors == Chains /\ AnchorsChained /\ [Next]_vars => AnchorsChained'
  <1> SUFFICES ASSUME Chains, AnchorsChained, [Next]_vars
               PROVE  AnchorsChained'
    OBVIOUS
  <1>1. CASE Publish
    <2>1. PICK a : a = [link |-> head, entries |-> EntriesOf(file)]
      OBVIOUS
    <2>2. anchors' = anchors \cup {a}
      BY <1>1, <2>1 DEF Publish
    <2>3. PICK c : c = [i \in 1 .. Len(file) |-> file[i].link]
      OBVIOUS
    <2>4. PICK n : n = Len(file)
      OBVIOUS
    <2>5. /\ Verified(file) /\ Last(file).link = head
          /\ file # <<>> /\ n \in Nat /\ n > 0 /\ n \in 1 .. n
      BY <1>1, <2>4 DEF Publish, Chains, Typed, HeadChained
    <2>6. IsChain(c, n)
      <3>1. n \in 0 .. Len(file) /\ Len(file) \in Nat
        BY <2>4, <2>5
      <3> QED
        BY <2>3, <2>5, <3>1, FileIsChain
    <2>7. c[n] = a.link
      BY <2>1, <2>3, <2>4, <2>5 DEF Last
    <2>8. ASSUME NEW i \in 1 .. n
          PROVE  file[i].entry = c[i][3]
      <3>1. c[i] = Link(file[i].index, file[i].prev, file[i].entry)
        BY <2>3, <2>4, <2>5 DEF Verified
      <3> QED
        BY <3>1 DEF Link
    <2>9. a.entries = [i \in 1 .. n |-> c[i][3]]
      BY <2>1, <2>4, <2>8 DEF EntriesOf
    <2>10. \E b, m : /\ IsChain(b, m) /\ m > 0 /\ b[m] = a.link
                     /\ a.entries = [i \in 1 .. m |-> b[i][3]]
      BY <2>5, <2>6, <2>7, <2>9
    <2>11. \A x \in anchors' : x \in anchors \/ x = a
      BY <2>2
    <2>12. ASSUME NEW x \in anchors'
           PROVE  \E b, m : /\ IsChain(b, m) /\ m > 0 /\ b[m] = x.link
                            /\ x.entries = [i \in 1 .. m |-> b[i][3]]
      <3>1. CASE x \in anchors
        BY <3>1, Zenon DEF AnchorsChained
      <3>2. CASE x = a
        <4>1. x.link = a.link /\ x.entries = a.entries
          BY <3>2
        <4> QED
          BY <2>10, <4>1
      <3> QED
        BY <2>11, <3>1, <3>2
    <2> QED
      BY <2>12 DEF AnchorsChained
  <1>2. CASE ~Publish
    <2>1. anchors' = anchors
      BY <1>2 DEF Next, vars, Open, Close, AppendOk, AppendFails, CrashInAppend,
                  EditEntry, DeleteLine
    <2> QED
      BY <2>1 DEF AnchorsChained
  <1> QED
    BY <1>1, <1>2

(* A file that verifies still does when the next record is appended. *)
LEMMA AppendVerifies ==
    ASSUME NEW S, NEW f \in Seq(S), Verified(f), NEW r, r # Garbage, r.index = Len(f),
           r.prev = IF f = <<>> THEN Genesis ELSE Last(f).link,
           r.link = Link(r.index, r.prev, r.entry)
    PROVE  /\ Verified(Append(f, r)) /\ Len(Append(f, r)) = Len(f) + 1
           /\ Append(f, r) # <<>> /\ Last(Append(f, r)) = r
  <1>1. PICK T : T = S \cup {r}
    OBVIOUS
  <1>2. f \in Seq(T) /\ r \in T /\ Len(f) \in Nat
    BY <1>1
  <1>3. PICK g : g = Append(f, r)
    OBVIOUS
  <1>4. /\ g \in Seq(T) /\ Len(g) = Len(f) + 1 /\ g[Len(f) + 1] = r
        /\ \A i \in 1 .. Len(f) : g[i] = f[i]
    BY <1>2, <1>3
  <1>5. g # <<>> /\ Last(g) = r
    BY <1>2, <1>4 DEF Last
  <1>6. ASSUME NEW i \in 1 .. Len(g)
        PROVE  /\ g[i] # Garbage /\ g[i].index = i - 1
               /\ g[i].prev = IF i = 1 THEN Genesis ELSE g[i - 1].link
               /\ g[i].link = Link(g[i].index, g[i].prev, g[i].entry)
    <2>1. CASE i = Len(f) + 1
      <3>1. g[i] = r /\ r.index = i - 1
        BY <1>2, <1>4, <2>1
      <3>2. r.prev = IF i = 1 THEN Genesis ELSE g[i - 1].link
        <4>1. CASE i = 1
          BY <1>2, <2>1, <4>1
        <4>2. CASE i # 1
          <5>1. f # <<>> /\ Len(f) \in 1 .. Len(f) /\ i - 1 = Len(f)
            BY <1>2, <1>4, <2>1, <4>2
          <5> QED
            BY <1>4, <4>2, <5>1 DEF Last
        <4> QED
          BY <4>1, <4>2
      <3> QED
        BY <3>1, <3>2
    <2>2. CASE i # Len(f) + 1
      <3>1. i \in 1 .. Len(f) /\ (i # 1 => i - 1 \in 1 .. Len(f))
        BY <1>2, <1>4, <2>2
      <3>2. /\ f[i] # Garbage /\ f[i].index = i - 1
            /\ f[i].prev = IF i = 1 THEN Genesis ELSE f[i - 1].link
            /\ f[i].link = Link(f[i].index, f[i].prev, f[i].entry)
        BY <3>1 DEF Verified, Parses
      <3> QED
        BY <1>4, <3>1, <3>2
    <2> QED
      BY <2>1, <2>2
  <1> QED
    BY <1>3, <1>4, <1>5, <1>6 DEF Verified, Parses

(* The record of append() at the end of a file that verifies. *)
LEMMA WriteAtTheEnd ==
    ASSUME Chains, AtTheEnd, ~edited, ~torn, handle = "open", NEW e, NEW mode,
           mode = "whole", Extend(Record(next_index, head, e), mode)
    PROVE  /\ Verified(file') /\ ~bare' /\ Len(file') = next_index + 1
           /\ file' # <<>> /\ Last(file').link = Record(next_index, head, e).link
  <1>1. PICK r : r = Record(next_index, head, e)
    OBVIOUS
  <1>2. PICK S : file \in Seq(S)
    BY DEF Chains, Typed
  <1>3. /\ Verified(file) /\ ~bare /\ next_index = Len(file)
        /\ head = IF file = <<>> THEN Genesis ELSE Last(file).link
    BY DEF AtTheEnd
  <1>4. file' = Append(file, r) /\ bare' = FALSE
    BY <1>1, <1>3, ExtendWrites DEF Chains
  <1>5. /\ r # Garbage /\ r.index = next_index /\ r.prev = head
        /\ r.link = Link(r.index, r.prev, r.entry)
    BY <1>1, NewRecord DEF Chains
  <1>6. /\ Verified(Append(file, r)) /\ Len(Append(file, r)) = Len(file) + 1
        /\ Append(file, r) # <<>> /\ Last(Append(file, r)) = r
    BY <1>2, <1>3, <1>5, AppendVerifies
  <1> QED
    BY <1>1, <1>3, <1>4, <1>6

LEMMA StepAtTheEnd == Chains /\ AtTheEnd /\ [Next]_vars => AtTheEnd'
  <1> SUFFICES ASSUME Chains, AtTheEnd, [Next]_vars
               PROVE  AtTheEnd'
    OBVIOUS
  <1>1. ASSUME UNCHANGED <<file, bare, edited, cut, torn>>,
               handle' # "open" \/ UNCHANGED <<handle, head, next_index>>
        PROVE  AtTheEnd'
    BY <1>1 DEF AtTheEnd
  <1>2. CASE UNCHANGED vars \/ Close \/ Publish
    BY <1>1, <1>2 DEF vars, Close, Publish
  <1>3. CASE Open
    <2>1. UNCHANGED <<file, bare, edited, cut, torn>>
      BY <1>3 DEF Open
    <2>2. CASE ~Parses(file)
      BY <1>1, <1>3, <2>1, <2>2 DEF Open
    <2>3. CASE Parses(file) /\ file = <<>>
      <3>1. head' = Genesis /\ next_index' = 0
        BY <1>3, <2>3 DEF Open
      <3> QED
        BY <2>1, <2>3, <3>1 DEF AtTheEnd
    <2>4. CASE Parses(file) /\ file # <<>>
      <3>1. head' = Last(file).link /\ next_index' = Last(file).index + 1
        BY <1>3, <2>4 DEF Open
      <3>2. Len(file) \in Nat /\ Len(file) \in 1 .. Len(file)
        BY <2>4 DEF Chains, Typed
      <3>3. Verified(file) => next_index' = Len(file)
        BY <3>1, <3>2 DEF Verified, Last
      <3> QED
        BY <2>1, <2>4, <3>1, <3>3 DEF AtTheEnd
    <2> QED
      BY <2>2, <2>3, <2>4
  <1>4. CASE \E e \in Entries : AppendOk(e)
    <2>1. PICK e \in Entries : AppendOk(e)
      BY <1>4
    <2>2. PICK mode : mode = "whole"
      OBVIOUS
    <2>3. /\ handle = "open" /\ Extend(Record(next_index, head, e), mode)
          /\ head' = Record(next_index, head, e).link /\ next_index' = next_index + 1
          /\ UNCHANGED <<edited, cut, torn>>
      BY <2>1, <2>2 DEF AppendOk
    <2>4. CASE edited \/ torn
      BY <2>3, <2>4 DEF AtTheEnd
    <2>5. CASE ~edited /\ ~torn
      <3>1. /\ Verified(file') /\ ~bare' /\ Len(file') = next_index + 1
            /\ file' # <<>> /\ Last(file').link = Record(next_index, head, e).link
        BY <2>2, <2>3, <2>5, WriteAtTheEnd
      <3> QED
        BY <2>3, <3>1 DEF AtTheEnd
    <2> QED
      BY <2>4, <2>5
  <1>5. CASE \E e \in Entries, mode \in FaultModes : AppendFails(e, mode)
    <2>1. PICK e \in Entries, mode \in FaultModes : AppendFails(e, mode)
      BY <1>5
    <2>2. /\ Extend(Record(next_index, head, e), mode) /\ torn' = (torn \/ mode # "nothing")
          /\ UNCHANGED <<handle, head, next_index, edited, cut>>
      BY <2>1 DEF AppendFails
    <2>3. CASE mode = "nothing"
      BY <2>2, <2>3 DEF AtTheEnd, Extend
    <2>4. CASE mode # "nothing"
      BY <2>2, <2>4 DEF AtTheEnd
    <2> QED
      BY <2>3, <2>4
  <1>6. CASE \E e \in Entries, mode \in CrashModes : CrashInAppend(e, mode)
    <2>1. PICK e \in Entries, mode \in CrashModes : CrashInAppend(e, mode)
      BY <1>6
    <2>2. /\ handle = "open" /\ Extend(Record(next_index, head, e), mode)
          /\ torn' = (torn \/ mode \in {"part", "bare"})
          /\ handle' = "closed" /\ UNCHANGED <<edited, cut>>
      BY <2>1 DEF CrashInAppend
    <2>3. mode \in Modes
      BY JournalAssumption
    <2>4. CASE mode = "nothing"
      BY <2>2, <2>4 DEF AtTheEnd, Extend
    <2>5. CASE mode = "whole"
      <3>1. CASE edited \/ torn
        BY <2>2, <3>1 DEF AtTheEnd
      <3>2. CASE ~edited /\ ~torn
        <4>1. Verified(file') /\ ~bare'
          BY <2>2, <2>5, <3>2, WriteAtTheEnd
        <4> QED
          BY <2>2, <4>1 DEF AtTheEnd
      <3> QED
        BY <3>1, <3>2
    <2>6. CASE mode \in {"part", "bare"}
      BY <2>2, <2>6 DEF AtTheEnd
    <2> QED
      BY <2>3, <2>4, <2>5, <2>6 DEF Modes
  <1>7. CASE \/ \E i \in 1 .. Len(file), e \in Entries : EditEntry(i, e)
             \/ \E i \in 1 .. Len(file) : DeleteLine(i)
    <2>1. edited'
      BY <1>7 DEF EditEntry, DeleteLine
    <2> QED
      BY <2>1 DEF AtTheEnd
  <1> QED
    BY <1>2, <1>3, <1>4, <1>5, <1>6, <1>7 DEF Next

LEMMA InitInv == Init => Inv
  <1> SUFFICES ASSUME Init
               PROVE  Inv
    OBVIOUS
  <1>1. /\ file = <<>> /\ bare = FALSE /\ handle = "closed" /\ head = Genesis
        /\ acked = {} /\ anchors = {} /\ edited = FALSE /\ cut = FALSE /\ torn = FALSE
    BY DEF Init
  <1>2. Typed
    <2>1. file \in Seq({})
      BY <1>1
    <2> QED
      BY <1>1, <2>1 DEF Typed
  <1>3. LinesChained /\ HeadChained /\ AckedRecords /\ AckedCovered /\ AnchorsChained
    BY <1>1 DEF LinesChained, HeadChained, AckedRecords, AckedCovered, AnchorsChained
  <1>4. AtTheEnd
    BY <1>1 DEF AtTheEnd, Verified, Parses
  <1> QED
    BY <1>2, <1>3, <1>4 DEF Inv, Chains

LEMMA Invariance == Spec => []Inv
  <1>1. Inv /\ [Next]_vars => Inv'
    BY StepChains, StepAnchors, StepAtTheEnd DEF Inv
  <1> QED
    BY InitInv, <1>1, PTL DEF Spec

-----------------------------------------------------------------------------
(* What the invariant promises.                                              *)

(* Two records with the same digest are the same record. *)
LEMMA SameLink ==
    ASSUME NEW q, NEW r, IsRecord(q), IsRecord(r),
           q.link = Link(q.index, q.prev, q.entry), r.link = Link(r.index, r.prev, r.entry),
           q.link = r.link
    PROVE  q = r
  <1>1. q.link[1] = q.index /\ q.link[2] = q.prev /\ q.link[3] = q.entry
    BY DEF Link
  <1>2. r.link[1] = r.index /\ r.link[2] = r.prev /\ r.link[3] = r.entry
    BY DEF Link
  <1>3. q.index = r.index /\ q.prev = r.prev /\ q.entry = r.entry
    BY <1>1, <1>2
  <1> QED
    BY <1>3 DEF IsRecord

LEMMA ChainEvident == Chains => EditsAreEvident
  <1> SUFFICES ASSUME Chains, ~cut, Verified(file), NEW r \in acked
               PROVE  r.index < Len(file) /\ file[r.index + 1] = r
    BY DEF EditsAreEvident, HoldsAcked
  <1>1. PICK n : n = Len(file)
    OBVIOUS
  <1>2. file # <<>> /\ n \in Nat /\ n > 0 /\ n \in 1 .. n /\ Last(file) = file[n]
    BY <1>1 DEF Chains, AckedCovered, Typed, Last
  <1>3. PICK c : c = [i \in 1 .. Len(file) |-> file[i].link]
    OBVIOUS
  <1>4. IsChain(c, n) /\ c[n] = file[n].link
    <2>1. n \in 0 .. Len(file) /\ Len(file) \in Nat
      BY <1>1, <1>2
    <2>2. IsChain(c, n)
      BY <1>3, <2>1, FileIsChain
    <2> QED
      BY <1>1, <1>2, <1>3, <2>2
  <1>5. Covers(file[n].link, n, r)
    <2>1. file[n] # Garbage /\ file[n].index = n - 1
      BY <1>1, <1>2 DEF Verified, Parses
    <2>2. Covers(Last(file).link, Last(file).index + 1, r)
      BY <1>2, <2>1 DEF Chains, AckedCovered
    <2>3. Last(file).index + 1 = n
      BY <1>2, <2>1
    <2> QED
      BY <1>2, <2>2, <2>3
  <1>6. PICK d : IsChain(d, n) /\ d[n] = file[n].link /\ d[r.index + 1] = r.link
    BY <1>5 DEF Covers
  <1>7. PICK k : k = r.index + 1
    OBVIOUS
  <1>8. r.index \in 0 .. n - 1 /\ k \in 1 .. n
    BY <1>2, <1>5, <1>7 DEF Covers
  <1>9. \A i \in 1 .. n : c[i] = d[i]
    <2>1. IsChain(c, n) /\ IsChain(d, n) /\ n > 0 /\ c[n] = d[n]
      BY <1>2, <1>4, <1>6
    <2> QED
      BY <2>1, ChainsMeet, Zenon
  <1>10. file[k].link = r.link
    BY <1>1, <1>3, <1>6, <1>7, <1>8, <1>9
  <1>11. /\ IsRecord(file[k]) /\ file[k].link = Link(file[k].index, file[k].prev, file[k].entry)
    BY <1>1, <1>8 DEF Verified, Parses, Chains, LinesChained
  <1>12. IsRecord(r) /\ r.link = Link(r.index, r.prev, r.entry)
    BY DEF Chains, AckedRecords
  <1>13. file[k] = r
    BY <1>10, <1>11, <1>12, SameLink
  <1> QED
    BY <1>1, <1>2, <1>7, <1>8, <1>13

LEMMA AnchorsPin == Chains /\ AnchorsChained => AnchorsPinHistory
  <1> SUFFICES ASSUME Chains, AnchorsChained, Verified(file), NEW a \in anchors,
                      NEW k \in 1 .. Len(file), file[k].link = a.link
               PROVE  SubSeq(EntriesOf(file), 1, k) = a.entries
    BY DEF AnchorsPinHistory
  <1>1. Len(file) \in Nat
    BY DEF Chains, Typed
  <1>2. PICK d, n : IsChain(d, n) /\ n > 0 /\ d[n] = a.link
                      /\ a.entries = [i \in 1 .. n |-> d[i][3]]
    BY DEF AnchorsChained
  <1>3. PICK c : c = [i \in 1 .. Len(file) |-> file[i].link]
    OBVIOUS
  <1>4. IsChain(c, k) /\ c[k] = d[n] /\ k > 0
    <2>1. k \in 0 .. Len(file)
      OBVIOUS
    <2>2. IsChain(c, k)
      BY <1>1, <1>3, <2>1, FileIsChain
    <2> QED
      BY <1>2, <1>3, <2>2
  <1>5. k = n /\ \A i \in 1 .. k : c[i] = d[i]
    <2>1. IsChain(c, k) /\ IsChain(d, n) /\ k > 0 /\ n > 0 /\ c[k] = d[n]
      BY <1>2, <1>4
    <2>2. \A m, b, p : IsChain(c, m) /\ IsChain(b, p) /\ m > 0 /\ p > 0 /\ c[m] = b[p]
                         => m = p
      BY ChainsMeet, Zenon
    <2>3. k = n
      BY <2>1, <2>2, Zenon
    <2>4. ASSUME NEW b, NEW p, IsChain(b, p), p > 0, IsChain(d, n), n > 0, b[p] = d[n]
          PROVE  \A i \in 1 .. p : b[i] = d[i]
      BY <2>4, ChainsMeet
    <2>5. \A i \in 1 .. k : c[i] = d[i]
      BY <2>1, <2>4
    <2> QED
      BY <2>3, <2>5
  <1>6. ASSUME NEW i \in 1 .. k
        PROVE  file[i].entry = d[i][3]
    <2>1. i \in 1 .. Len(file)
      BY <1>1
    <2>2. d[i] = Link(file[i].index, file[i].prev, file[i].entry)
      BY <1>3, <1>5, <2>1 DEF Verified
    <2> QED
      BY <2>2 DEF Link
  <1>7. SubSeq(EntriesOf(file), 1, k) = [i \in 1 .. k |-> file[i].entry]
    <2>1. PICK S : file \in Seq(S)
      BY DEF Chains, Typed
    <2>2. PICK T : T = {file[i].entry : i \in 1 .. Len(file)}
      OBVIOUS
    <2>3. EntriesOf(file) \in Seq(T) /\ Len(EntriesOf(file)) = Len(file)
      BY <1>1, <2>2 DEF EntriesOf
    <2>4. SubSeq(EntriesOf(file), 1, k) = [i \in 1 .. k |-> EntriesOf(file)[i]]
      BY <1>1, <2>3
    <2>5. \A i \in 1 .. k : EntriesOf(file)[i] = file[i].entry
      BY <1>1 DEF EntriesOf
    <2> QED
      BY <2>4, <2>5
  <1> QED
    BY <1>2, <1>5, <1>6, <1>7

(* verified(): whatever was appended, crashed, failed and edited since, a    *)
(* file that verifies and whose tail was not cut off holds every record that *)
(* append() returned, where it returned it.                                  *)
THEOREM EditsEvident == Spec => []EditsAreEvident
  <1>1. Inv => EditsAreEvident
    BY ChainEvident DEF Inv
  <1> QED
    BY Invariance, <1>1, PTL

(* Journal::head and replay's anchor: a published digest fixes every entry   *)
(* before it, in every file that verifies and holds it.                      *)
THEOREM HistoryPinned == Spec => []AnchorsPinHistory
  <1>1. Inv => AnchorsPinHistory
    BY AnchorsPin DEF Inv
  <1> QED
    BY Invariance, <1>1, PTL

(* append() and its sync: without edits and torn writes the file verifies    *)
(* and holds every record returned, through reopenings, crashes and errors.  *)
THEOREM AckedDurable == Spec => []AckedSurvive
  <1>1. Inv => AckedSurvive
    <2>1. Inv /\ ~edited /\ ~torn => Verified(file) /\ ~cut
      BY DEF Inv, AtTheEnd
    <2> QED
      BY <2>1, ChainEvident DEF Inv, EditsAreEvident, AckedSurvive
  <1> QED
    BY Invariance, <1>1, PTL
================================================================================
