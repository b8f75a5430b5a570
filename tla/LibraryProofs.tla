----------------------------- MODULE LibraryProofs -----------------------------
(* Proofs about the library's shared objects, each for any threads, keys,     *)
(* tasks and sizes: the key-value store, the swarm coordinator, the memory    *)
(* pool and the tensor buffers.                                               *)
EXTENDS CoordinationProofs, Storage, Swarm, Memory

-----------------------------------------------------------------------------
(* The key-value store. *)

(* v is the number of a put to a key with these files. *)
Wrote(v, name) == v \in DOMAIN puts /\ FileOf[puts[v]] = name

(* Where a call has the number of a put in hand. *)
Carrying == {"openData", "fillData", "openMeta", "fillMeta", "readMeta"}

Busy(c) ==
    /\ "at" \in DOMAIN c /\ "key" \in DOMAIN c /\ c.key \in StoreKey
    /\ c.at \in Carrying => "value" \in DOMAIN c /\ Wrote(c.value, FileOf[c.key])

CallsSound ==
    /\ DOMAIN call = StoreThread
    /\ \A t \in StoreThread : call[t] = NoCall \/ Busy(call[t])

(* A file holds nothing, a torn write, or what some put to it wrote. *)
FilesSound ==
    /\ DOMAIN file = Range(FileOf)
    /\ \A name \in DOMAIN file :
          /\ DOMAIN file[name] = {"data", "meta"}
          /\ \A part \in {"data", "meta"} :
                file[name][part] \in {Absent, Torn} \/ Wrote(file[name][part], name)

(* The threads between their insertion and their count. *)
Late == Within("order") \cup Within("count")

Listed(k) == \E i \in 1 .. Len(lru) : lru[i] = k

CacheSound ==
    /\ lru \in Seq(StoreKey) /\ Distinct(lru)
    /\ counted \in Nat /\ IsFiniteSet(Late)
    /\ Cached \subseteq StoreKey /\ IsFiniteSet(Cached)
    /\ \A k \in Cached : Listed(k) \/ \E t \in Within("order") : call[t].key = k
    /\ Cardinality(Cached) <= counted + Cardinality(Late)

StoreInv ==
    /\ puts \in Seq(StoreKey)
    /\ CallsSound /\ FilesSound /\ CacheSound /\ ReadsAreWhole

(* What was put stays put. *)
LEMMA WroteKept ==
    ASSUME puts \in Seq(StoreKey), puts' = puts \/ \E k \in StoreKey : puts' = Append(puts, k),
           NEW v, NEW name, Wrote(v, name)
    PROVE  Wrote(v, name)'
  <1>1. DOMAIN puts \subseteq DOMAIN puts' /\ \A i \in DOMAIN puts : puts'[i] = puts[i]
    OBVIOUS
  <1> QED
    BY <1>1 DEF Wrote

(* One call moves to c, and nobody puts anything. *)
LEMMA OneCall ==
    ASSUME CallsSound, NEW t \in StoreThread, NEW c, call' = [call EXCEPT ![t] = c],
           puts' = puts, c = NoCall \/ Busy(c)
    PROVE  /\ CallsSound' /\ call'[t] = c
           /\ \A u \in StoreThread : u # t => call'[u] = call[u]
  <1>1. call'[t] = c /\ DOMAIN call' = StoreThread /\ \A u \in StoreThread : u # t => call'[u] = call[u]
    BY DEF CallsSound
  <1>2. \A d : Busy(d) => Busy(d)'
    BY DEF Busy, Wrote
  <1>3. CallsSound'
    BY <1>1, <1>2 DEF CallsSound, NoCall
  <1> QED
    BY <1>1, <1>3

(* A call that goes on keeps what the calls are. *)
LEMMA Going ==
    ASSUME CallsSound, NEW t \in StoreThread, call[t].at # "idle",
           NEW place, place \in Carrying => call[t].at \in Carrying,
           NEW d, d = [call[t] EXCEPT !.at = place]
    PROVE  Busy(d) /\ d.at = place /\ d.key = call[t].key
  <1>1. PICK c : c = call[t]
    OBVIOUS
  <1>2. Busy(c)
    BY <1>1 DEF CallsSound, NoCall
  <1>3. DOMAIN d = DOMAIN c /\ d.at = place /\ d.key = c.key /\ ("value" \in DOMAIN c => d.value = c.value)
    BY <1>1, <1>2 DEF Busy
  <1> QED
    BY <1>1, <1>2, <1>3 DEF Busy

(* Calls that move elsewhere leave the cache's books as they are. *)
LEMMA CacheStays ==
    ASSUME CacheSound, cache' = cache, lru' = lru, counted' = counted,
           \A u \in StoreThread : \/ call'[u].at = call[u].at /\ call'[u].key = call[u].key
                                  \/ /\ call[u].at \notin {"order", "count"}
                                     /\ call'[u].at \notin {"order", "count"}
    PROVE  CacheSound'
  <1>1. Within("order")' = Within("order") /\ Within("count")' = Within("count")
    BY DEF Within
  <1>2. \A t \in Within("order") : call'[t].key = call[t].key
    BY DEF Within
  <1>3. Late' = Late /\ Cached' = Cached /\ \A k : Listed(k)' = Listed(k)
    BY <1>1 DEF Late, Cached, Listed
  <1>4. \A k \in Cached : Listed(k) \/ \E t \in Within("order")' : call'[t].key = k
    BY <1>1, <1>2 DEF CacheSound
  <1> QED
    BY <1>3, <1>4 DEF CacheSound

(* Entries that are removed are taken off the size, down to nothing. *)
LEMMA RemovedFits ==
    ASSUME NEW C, IsFiniteSet(C), NEW V, NEW n \in Nat, NEW l \in Nat, Cardinality(C) <= n + l
    PROVE  /\ IsFiniteSet(C \ V) /\ Less(n, Cardinality(V \cap C)) \in Nat
           /\ Cardinality(C \ V) <= Less(n, Cardinality(V \cap C)) + l
  <1>1. IsFiniteSet(C \ V) /\ Cardinality(C \ V) = Cardinality(C) - Cardinality(C \cap V)
    BY FS_Difference
  <1>2. V \cap C = C \cap V /\ C \cap V \in SUBSET C
    OBVIOUS
  <1>3. PICK m : m = Cardinality(V \cap C)
    OBVIOUS
  <1>4. m \in Nat /\ Cardinality(C) \in Nat /\ m <= Cardinality(C) /\ Cardinality(C \ V) = Cardinality(C) - m
    BY <1>1, <1>2, <1>3, FS_Subset, FS_CardinalityType
  <1>5. Less(n, m) \in Nat /\ Cardinality(C) - m <= Less(n, m) + l
    BY <1>4 DEF Less
  <1> QED
    BY <1>1, <1>3, <1>4, <1>5

(* The order without some keys. *)
LEMMA WithoutIs ==
    ASSUME lru \in Seq(StoreKey), Distinct(lru), NEW keys, NEW r, r = Without(keys)
    PROVE  /\ r \in Seq(StoreKey) /\ Distinct(r)
           /\ \A k \in StoreKey : (\E i \in 1 .. Len(r) : r[i] = k) <=> k \notin keys /\ Listed(k)
  <1>1. /\ r \in Seq(StoreKey) /\ (Distinct(lru) => Distinct(r))
        /\ \A x : (\E i \in 1 .. Len(r) : r[i] = x)
                     <=> x \in StoreKey \ keys /\ \E i \in 1 .. Len(lru) : lru[i] = x
    <2>1. PICK q, keep : q = lru /\ keep = StoreKey \ keys
      OBVIOUS
    <2>2. q \in Seq(StoreKey) /\ r = Retained(q, keep)
      BY <2>1 DEF Without
    <2>3. r \in Seq(StoreKey) /\ Keeps(q, keep, r)
      BY <2>2, RetainedIs
    <2> QED
      BY <2>1, <2>3 DEF Keeps
  <1> QED
    BY <1>1 DEF Listed

(* A key that is taken out of the order and put at its end. *)
LEMMA MovedToEnd ==
    ASSUME lru \in Seq(StoreKey), Distinct(lru), NEW k \in StoreKey,
           lru' = Append(Without({k}), k)
    PROVE  /\ lru' \in Seq(StoreKey) /\ Distinct(lru') /\ Listed(k)'
           /\ \A j \in StoreKey : Listed(j) => Listed(j)'
  <1>1. PICK r : r = Without({k})
    OBVIOUS
  <1>2. /\ r \in Seq(StoreKey) /\ Distinct(r)
        /\ \A j \in StoreKey : (\E i \in 1 .. Len(r) : r[i] = j) <=> j \notin {k} /\ Listed(j)
    BY <1>1, WithoutIs
  <1>3. PICK n : n = Len(r)
    OBVIOUS
  <1>4. /\ n \in Nat /\ lru' \in Seq(StoreKey) /\ Len(lru') = n + 1 /\ lru'[n + 1] = k
        /\ \A i \in 1 .. n : lru'[i] = r[i]
    BY <1>1, <1>2, <1>3
  <1>5. \A i \in 1 .. n + 1 : i \in 1 .. n \/ i = n + 1
    BY <1>4
  <1>6. \A i \in 1 .. n : r[i] # k
    BY <1>2, <1>3
  <1>7. Distinct(lru')
    <2> SUFFICES ASSUME NEW i \in 1 .. n + 1, NEW j \in 1 .. n + 1, lru'[i] = lru'[j]
                 PROVE  i = j
      BY <1>4 DEF Distinct
    <2>1. i \in 1 .. n \/ i = n + 1
      BY <1>5
    <2>2. j \in 1 .. n \/ j = n + 1
      BY <1>5
    <2> QED
      BY <2>1, <2>2, <1>2, <1>3, <1>4, <1>6 DEF Distinct
  <1>8. Listed(k)'
    <2>1. n + 1 \in 1 .. Len(lru')
      BY <1>4
    <2> QED
      BY <2>1, <1>4 DEF Listed
  <1>9. ASSUME NEW j \in StoreKey, Listed(j), j # k PROVE Listed(j)'
    <2>1. PICK i : i \in 1 .. n /\ r[i] = j
      BY <1>2, <1>3, <1>9
    <2>2. lru'[i] = j
      BY <2>1, <1>4
    <2>3. i \in 1 .. Len(lru')
      BY <2>1, <1>4, <1>5
    <2> QED
      BY <2>2, <2>3 DEF Listed
  <1> QED
    BY <1>4, <1>7, <1>8, <1>9

(* What a step that moves one call leaves sound. *)
LEMMA QuietCall ==
    ASSUME StoreInv, NEW t \in StoreThread, NEW d, call' = [call EXCEPT ![t] = d],
           d = NoCall \/ Busy(d), file' = file, puts' = puts, returned' = returned
    PROVE  /\ puts' \in Seq(StoreKey) /\ CallsSound' /\ FilesSound' /\ ReadsAreWhole'
           /\ call'[t] = d /\ \A u \in StoreThread : u # t => call'[u] = call[u]
  <1>1. CallsSound' /\ call'[t] = d /\ \A u \in StoreThread : u # t => call'[u] = call[u]
    BY OneCall DEF StoreInv
  <1>2. FilesSound' /\ ReadsAreWhole' /\ puts' \in Seq(StoreKey)
    BY DEF StoreInv, FilesSound, ReadsAreWhole, Wrote
  <1> QED
    BY <1>1, <1>2

(* The cache stays sound when only calls outside it move. *)
LEMMA CacheQuiet ==
    ASSUME StoreInv, NEW t \in StoreThread, NEW d, call' = [call EXCEPT ![t] = d],
           d = NoCall \/ Busy(d), file' = file, puts' = puts, returned' = returned,
           cache' = cache, lru' = lru, counted' = counted,
           call[t].at \notin {"order", "count"}, d.at \notin {"order", "count"}
    PROVE  StoreInv'
  <1>1. /\ puts' \in Seq(StoreKey) /\ CallsSound' /\ FilesSound' /\ ReadsAreWhole'
        /\ call'[t] = d /\ \A u \in StoreThread : u # t => call'[u] = call[u]
    BY QuietCall
  <1>2. CacheSound'
    <2>1. CacheSound
      BY DEF StoreInv
    <2>2. \A u \in StoreThread : \/ call'[u].at = call[u].at /\ call'[u].key = call[u].key
                                 \/ /\ call[u].at \notin {"order", "count"}
                                    /\ call'[u].at \notin {"order", "count"}
      BY <1>1
    <2> QED
      BY <2>1, <2>2, CacheStays
  <1> QED
    BY <1>1, <1>2 DEF StoreInv

(* A call that is in some step has a key, and one that carries a value has  *)
(* the number of a put to its files.                                        *)
LEMMA InCall ==
    ASSUME CallsSound, NEW t \in StoreThread, call[t].at # "idle"
    PROVE  Busy(call[t])
  BY DEF CallsSound, NoCall

(* Looking at the size, at the order, at the cache and at the files. *)
LEMMA LookingKeeps ==
    ASSUME StoreInv, NEW t \in StoreThread,
           \/ Measure(t) \/ Scan(t) \/ ScanCache(t) \/ EvictCache(t)
           \/ (\E k \in StoreKey : BeginGet(t, k)) \/ ReadData(t) \/ LookFile(t)
    PROVE  StoreInv'
  <1>0. CallsSound /\ FilesSound
    BY DEF StoreInv
  <1> DEFINE Quiet(d) ==
        /\ call' = [call EXCEPT ![t] = d] /\ (d = NoCall \/ Busy(d))
        /\ file' = file /\ puts' = puts /\ returned' = returned
        /\ cache' = cache /\ lru' = lru /\ counted' = counted
        /\ call[t].at \notin {"order", "count"} /\ d.at \notin {"order", "count"}
  <1>q. (\E d : Quiet(d)) => StoreInv'
    BY CacheQuiet
  <1>1. CASE Measure(t)
    <2>1. call[t].at = "measure"
      BY <1>1 DEF Measure
    <2>2. Busy(call[t])
      BY <1>0, <2>1, InCall
    <2>3. PICK excess : excess = Less(counted + 1, CacheSize)
      OBVIOUS
    <2>4. PICK d : d = [at |-> IF excess = 0 THEN "insert" ELSE "scan",
                        key |-> call[t].key, value |-> call[t].value, excess |-> excess]
      OBVIOUS
    <2>5. Busy(d) /\ d.at \notin {"order", "count"}
      BY <2>2, <2>4 DEF Busy, Carrying
    <2>6. call' = [call EXCEPT ![t] = d]
      BY <1>1, <2>3, <2>4 DEF Measure
    <2>7. Quiet(d)
      BY <1>1, <2>1, <2>5, <2>6 DEF Measure
    <2> QED
      BY <2>7, <1>q
  <1>2. ASSUME NEW p, NEW place, place \notin Carrying, place \notin {"order", "count"},
               p \notin {"idle", "order", "count"},
               call[t].at = p, Goes(t, place),
               UNCHANGED <<file, puts, returned, cache, lru, counted>>
        PROVE  StoreInv'
    <2>1. PICK d : d = [call[t] EXCEPT !.at = place]
      OBVIOUS
    <2>2. Busy(d) /\ d.at = place
      BY <1>0, <1>2, <2>1, Going
    <2>3. call' = [call EXCEPT ![t] = d]
      BY <1>2, <2>1 DEF Goes
    <2>4. Quiet(d)
      BY <1>2, <2>2, <2>3
    <2> QED
      BY <2>4, <1>q
  <1>3. CASE Scan(t)
    BY <1>3, <1>2 DEF Scan, Carrying
  <1>4. CASE ScanCache(t)
    <2>1. call[t].at = "scanCache"
      BY <1>4 DEF ScanCache
    <2>2. Busy(call[t])
      BY <1>0, <2>1, InCall
    <2>3. PICK v : v = Victims(call[t].excess)
      OBVIOUS
    <2>4. PICK d : d = [at |-> "evict", key |-> call[t].key, value |-> call[t].value, victims |-> v]
      OBVIOUS
    <2>5. Busy(d) /\ d.at \notin {"order", "count"}
      BY <2>2, <2>4 DEF Busy, Carrying
    <2>6. call' = [call EXCEPT ![t] = d]
      BY <1>4, <2>3, <2>4 DEF ScanCache
    <2>7. Quiet(d)
      BY <1>4, <2>1, <2>5, <2>6 DEF ScanCache
    <2> QED
      BY <2>7, <1>q
  <1>5. CASE EvictCache(t)
    BY <1>5, <1>2 DEF EvictCache, Carrying
  <1>6. ASSUME NEW k \in StoreKey, BeginGet(t, k) PROVE StoreInv'
    <2>1. PICK d : d = [at |-> IF k \in Cached THEN "touch" ELSE "readData", key |-> k]
      OBVIOUS
    <2>2. Busy(d) /\ d.at \notin {"order", "count"}
      BY <2>1 DEF Busy, Carrying
    <2>3. Quiet(d)
      BY <1>6, <2>1, <2>2 DEF BeginGet, Begins, NoCall
    <2> QED
      BY <2>3, <1>q
  <1>7. CASE ReadData(t)
    <2>1. call[t].at = "readData"
      BY <1>7 DEF ReadData
    <2>2. Busy(call[t])
      BY <1>0, <2>1, InCall
    <2>3. PICK data : data = file[FileOf[call[t].key]].data
      OBVIOUS
    <2>4. FileOf[call[t].key] \in DOMAIN file
      BY <2>2, <1>0, StorageAssumption DEF Busy, FilesSound, Range
    <2>5. data \in {Absent, Torn} \/ Wrote(data, FileOf[call[t].key])
      BY <1>0, <2>3, <2>4 DEF FilesSound
    <2>6. PICK d : d = IF data \in {Absent, Torn} THEN NoCall
                       ELSE [at |-> "readMeta", key |-> call[t].key, value |-> data]
      OBVIOUS
    <2>7. (d = NoCall \/ Busy(d)) /\ d.at \notin {"order", "count"}
      BY <2>2, <2>5, <2>6 DEF Busy, NoCall
    <2>8. call' = [call EXCEPT ![t] = d]
      BY <1>7, <2>3, <2>6 DEF ReadData
    <2>9. Quiet(d)
      BY <1>7, <2>1, <2>7, <2>8 DEF ReadData
    <2> QED
      BY <2>9, <1>q
  <1>8. CASE LookFile(t)
    <2>1. PICK part \in {"data", "meta"} :
             /\ call[t].at = IF part = "data" THEN "lookData" ELSE "lookMeta"
             /\ \/ Goes(t, IF part = "data" THEN "unlinkData" ELSE "unlinkMeta")
                \/ call' = [call EXCEPT ![t] = AfterFile(t, part)]
             /\ UNCHANGED <<file, puts, returned, cache, lru, counted>>
      BY <1>8 DEF LookFile
    <2>2. CASE Goes(t, IF part = "data" THEN "unlinkData" ELSE "unlinkMeta")
      <3>1. PICK p, place : /\ p = IF part = "data" THEN "lookData" ELSE "lookMeta"
                            /\ place = IF part = "data" THEN "unlinkData" ELSE "unlinkMeta"
        OBVIOUS
      <3>2. /\ place \notin Carrying /\ place \notin {"order", "count"}
            /\ p \notin {"idle", "order", "count"} /\ call[t].at = p /\ Goes(t, place)
        BY <2>1, <2>2, <3>1 DEF Carrying
      <3> QED
        BY <3>2, <2>1, <1>2
    <2>3. CASE call' = [call EXCEPT ![t] = AfterFile(t, part)]
      <3>1. PICK d : d = AfterFile(t, part)
        OBVIOUS
      <3>2. Busy(call[t])
        BY <1>0, <2>1, InCall
      <3>3. (d = NoCall \/ Busy(d)) /\ d.at \notin {"order", "count"}
        BY <3>1, <3>2 DEF AfterFile, Busy, NoCall, Carrying
      <3>4. Quiet(d)
        BY <2>1, <2>3, <3>1, <3>3
      <3> QED
        BY <3>4, <1>q
    <2> QED
      BY <2>1, <2>2, <2>3
  <1> QED
    BY <1>1, <1>3, <1>4, <1>5, <1>6, <1>7, <1>8

(* read_from_disk() returns what has its checksum: one put's data and       *)
(* metadata, for the key they were put for when no two keys share files.    *)
LEMMA ReadMetaKeeps ==
    ASSUME StoreInv, IsInjective(FileOf), NEW t \in StoreThread, ReadMeta(t)
    PROVE  StoreInv'
  <1>0. CallsSound /\ call[t].at = "readMeta"
    BY DEF StoreInv, ReadMeta
  <1>1. Busy(call[t])
    BY <1>0, InCall
  <1>2. PICK k, v, meta : k = call[t].key /\ v = call[t].value /\ meta = file[FileOf[k]].meta
    OBVIOUS
  <1>3. k \in StoreKey /\ v \in DOMAIN puts /\ FileOf[puts[v]] = FileOf[k] /\ puts[v] \in StoreKey
    BY <1>0, <1>1, <1>2 DEF Busy, Carrying, Wrote, StoreInv
  <1>4. puts[v] = k
    BY <1>3, StorageAssumption DEF IsInjective
  <1>5. /\ UNCHANGED <<file, cache, lru, counted, puts>>
        /\ \/ /\ v = meta /\ returned' = returned \cup {[key |-> k, data |-> v, meta |-> meta]}
              /\ Goes(t, "measure")
           \/ Returns(t) /\ returned' = returned
    BY <1>2 DEF ReadMeta, ChecksumHolds
  <1>6. PICK d : /\ call' = [call EXCEPT ![t] = d] /\ (d = NoCall \/ Busy(d))
                 /\ d.at \notin {"order", "count"}
    <2>1. CASE Goes(t, "measure")
      <3>1. PICK d : d = [call[t] EXCEPT !.at = "measure"]
        OBVIOUS
      <3>2. Busy(d) /\ d.at = "measure"
        BY <1>0, <3>1, Going DEF Carrying
      <3> QED
        BY <2>1, <3>1, <3>2 DEF Goes
    <2>2. CASE Returns(t)
      <3>1. NoCall.at \notin {"order", "count"} /\ call' = [call EXCEPT ![t] = NoCall]
        BY <2>2 DEF Returns, NoCall
      <3> QED
        BY <3>1
    <2> QED
      BY <1>5, <2>1, <2>2
  <1>7. CallsSound' /\ call'[t] = d /\ \A u \in StoreThread : u # t => call'[u] = call[u]
    BY <1>0, <1>5, <1>6, OneCall
  <1>8. CacheSound'
    <2>1. \A u \in StoreThread : \/ call'[u].at = call[u].at /\ call'[u].key = call[u].key
                                 \/ /\ call[u].at \notin {"order", "count"}
                                    /\ call'[u].at \notin {"order", "count"}
      BY <1>0, <1>6, <1>7
    <2> QED
      BY <2>1, <1>5, CacheStays DEF StoreInv
  <1>9. FilesSound' /\ puts' \in Seq(StoreKey)
    BY <1>5 DEF StoreInv, FilesSound, Wrote
  <1>10. ReadsAreWhole'
    BY <1>3, <1>4, <1>5 DEF StoreInv, ReadsAreWhole
  <1> QED
    BY <1>7, <1>8, <1>9, <1>10 DEF StoreInv

(* Each file holds nothing, a torn write or some put's value, afterwards too. *)
LEMMA FileChanges ==
    ASSUME FilesSound, NEW name \in DOMAIN file, NEW part \in {"data", "meta"}, NEW new,
           new \in {Absent, Torn} \/ Wrote(new, name),
           file' = [file EXCEPT ![name][part] = new], puts' = puts
    PROVE  FilesSound'
  <1>1. PICK old : old = file[name]
    OBVIOUS
  <1>2. PICK changed : changed = [old EXCEPT ![part] = new]
    OBVIOUS
  <1>3. file' = [file EXCEPT ![name] = changed]
    BY <1>1, <1>2
  <1>4. /\ DOMAIN changed = {"data", "meta"} /\ changed[part] = new
        /\ \A p \in {"data", "meta"} : p # part => changed[p] = old[p]
    BY <1>1, <1>2 DEF FilesSound
  <1>5. DOMAIN file' = DOMAIN file /\ \A n \in DOMAIN file : file'[n] = IF n = name THEN changed ELSE file[n]
    BY <1>3
  <1>6. \A v, n : Wrote(v, n)' <=> Wrote(v, n)
    BY DEF Wrote
  <1> HIDE DEF Wrote
  <1>7. ASSUME NEW n \in DOMAIN file, NEW p \in {"data", "meta"}
        PROVE  DOMAIN file'[n] = {"data", "meta"} /\ (file'[n][p] \in {Absent, Torn} \/ Wrote(file'[n][p], n))
    <2>1. CASE n = name /\ p = part
      BY <2>1, <1>4, <1>5
    <2>2. CASE n = name /\ p # part
      BY <2>2, <1>1, <1>4, <1>5 DEF FilesSound
    <2>3. CASE n # name
      BY <2>3, <1>5 DEF FilesSound
    <2> QED
      BY <2>1, <2>2, <2>3
  <1> QED
    BY <1>5, <1>6, <1>7 DEF FilesSound

(* The file of a key in hand exists as a name. *)
LEMMA HasFile ==
    ASSUME FilesSound, NEW c, Busy(c)
    PROVE  FileOf[c.key] \in DOMAIN file
  BY StorageAssumption DEF Busy, FilesSound, Range

(* fs::write truncates the file. *)
LEMMA OpenFileKeeps ==
    ASSUME StoreInv, NEW t \in StoreThread, OpenFile(t)
    PROVE  StoreInv'
  <1>0. CallsSound /\ FilesSound
    BY DEF StoreInv
  <1>1. PICK part \in {"data", "meta"} :
           /\ call[t].at = IF part = "data" THEN "openData" ELSE "openMeta"
           /\ file' = [file EXCEPT ![FileOf[call[t].key]][part] = Torn]
           /\ call' = [call EXCEPT ![t].at = IF part = "data" THEN "fillData" ELSE "fillMeta",
                                   ![t].named = TRUE]
    BY DEF OpenFile
  <1>2. UNCHANGED <<cache, lru, counted, puts, returned>>
    BY DEF OpenFile
  <1>3. Busy(call[t]) /\ call[t].at \in Carrying /\ call[t].at \notin {"order", "count"}
    BY <1>0, <1>1, InCall DEF Carrying
  <1>4. PICK c, place : c = call[t] /\ place = IF part = "data" THEN "fillData" ELSE "fillMeta"
    OBVIOUS
  <1>5. PICK d : d = [c EXCEPT !.at = place, !.named = TRUE]
    OBVIOUS
  <1>6. /\ DOMAIN d = DOMAIN c /\ d.at = place /\ d.key = c.key
        /\ "value" \in DOMAIN c => d.value = c.value
    BY <1>3, <1>4, <1>5 DEF Busy
  <1>7. Busy(d) /\ d.at \notin {"order", "count"}
    BY <1>3, <1>4, <1>6 DEF Busy, Carrying
  <1>8. call' = [call EXCEPT ![t] = d]
    BY <1>1, <1>4, <1>5
  <1>9. CallsSound' /\ call'[t] = d /\ \A u \in StoreThread : u # t => call'[u] = call[u]
    BY <1>0, <1>2, <1>7, <1>8, OneCall
  <1>10. CacheSound'
    <2>1. \A u \in StoreThread : \/ call'[u].at = call[u].at /\ call'[u].key = call[u].key
                                 \/ /\ call[u].at \notin {"order", "count"}
                                    /\ call'[u].at \notin {"order", "count"}
      BY <1>3, <1>7, <1>9
    <2> QED
      BY <2>1, <1>2, CacheStays DEF StoreInv
  <1>11. FilesSound'
    <2>1. PICK name : name = FileOf[call[t].key]
      OBVIOUS
    <2>2. name \in DOMAIN file
      BY <2>1, <1>0, <1>3, HasFile
    <2>3. file' = [file EXCEPT ![name][part] = Torn]
      BY <2>1, <1>1
    <2> QED
      BY <2>2, <2>3, <1>0, <1>2, FileChanges
  <1> QED
    BY <1>2, <1>9, <1>10, <1>11 DEF StoreInv, ReadsAreWhole

(* ... and then writes what was put. *)
LEMMA FillFileKeeps ==
    ASSUME StoreInv, NEW t \in StoreThread, FillFile(t)
    PROVE  StoreInv'
  <1>0. CallsSound /\ FilesSound
    BY DEF StoreInv
  <1>1. PICK part \in {"data", "meta"} :
           /\ call[t].at = IF part = "data" THEN "fillData" ELSE "fillMeta"
           /\ \/ \E new \in Filled(file[FileOf[call[t].key]][part], call[t].value) :
                   file' = [file EXCEPT ![FileOf[call[t].key]][part] = new]
              \/ UNCHANGED file
           /\ Goes(t, IF part = "data" THEN "openMeta" ELSE "measure")
    BY DEF FillFile
  <1>2. UNCHANGED <<cache, lru, counted, puts, returned>>
    BY DEF FillFile
  <1>3. Busy(call[t]) /\ call[t].at \in Carrying /\ call[t].at \notin {"order", "count"}
    BY <1>0, <1>1, InCall DEF Carrying
  <1>4. PICK place : place = IF part = "data" THEN "openMeta" ELSE "measure"
    OBVIOUS
  <1>5. PICK d : d = [call[t] EXCEPT !.at = place]
    OBVIOUS
  <1>6. call[t].at # "idle"
    BY <1>1
  <1>7. Busy(d) /\ d.at = place
    BY <1>0, <1>3, <1>5, <1>6, Going
  <1>8. call' = [call EXCEPT ![t] = d]
    BY <1>1, <1>4, <1>5 DEF Goes
  <1>9. CallsSound' /\ call'[t] = d /\ \A u \in StoreThread : u # t => call'[u] = call[u]
    BY <1>0, <1>2, <1>7, <1>8, OneCall
  <1>10. CacheSound'
    <2>1. \A u \in StoreThread : \/ call'[u].at = call[u].at /\ call'[u].key = call[u].key
                                 \/ /\ call[u].at \notin {"order", "count"}
                                    /\ call'[u].at \notin {"order", "count"}
      BY <1>3, <1>4, <1>7, <1>9
    <2> QED
      BY <2>1, <1>2, CacheStays DEF StoreInv
  <1>11. FilesSound'
    <2>1. CASE UNCHANGED file
      BY <2>1, <1>0, <1>2 DEF FilesSound, Wrote
    <2>2. ASSUME NEW new \in Filled(file[FileOf[call[t].key]][part], call[t].value),
                 file' = [file EXCEPT ![FileOf[call[t].key]][part] = new]
          PROVE  FilesSound'
      <3>1. PICK name, value : name = FileOf[call[t].key] /\ value = call[t].value
        OBVIOUS
      <3>2. name \in DOMAIN file /\ Wrote(value, name)
        BY <3>1, <1>0, <1>3, HasFile DEF Busy
      <3>3. new \in {Absent, Torn} \/ Wrote(new, name)
        BY <2>2, <3>1, <3>2 DEF Filled
      <3>4. file' = [file EXCEPT ![name][part] = new]
        BY <2>2, <3>1
      <3> QED
        BY <3>2, <3>3, <3>4, <1>0, <1>2, FileChanges
    <2> QED
      BY <1>1, <2>1, <2>2
  <1> QED
    BY <1>2, <1>9, <1>10, <1>11 DEF StoreInv, ReadsAreWhole

(* remove_file: who writes to the file writes to one without a name.        *)
LEMMA UnlinkKeeps ==
    ASSUME StoreInv, NEW t \in StoreThread, Unlink(t)
    PROVE  StoreInv'
  <1>0. CallsSound /\ FilesSound
    BY DEF StoreInv
  <1>1. PICK part \in {"data", "meta"} :
           /\ call[t].at = IF part = "data" THEN "unlinkData" ELSE "unlinkMeta"
           /\ \/ Returns(t) /\ UNCHANGED file
              \/ /\ file' = [file EXCEPT ![FileOf[call[t].key]][part] = Absent]
                 /\ call' = [u \in StoreThread |->
                       CASE u = t -> AfterFile(t, part)
                         [] u # t /\ Writes(u, FileOf[call[t].key], part) -> [call[u] EXCEPT !.named = FALSE]
                         [] OTHER -> call[u]]
    BY DEF Unlink
  <1>2. UNCHANGED <<cache, lru, counted, puts, returned>>
    BY DEF Unlink
  <1>3. Busy(call[t]) /\ call[t].at \notin {"order", "count"}
    BY <1>0, <1>1, InCall
  <1>4. CASE Returns(t) /\ UNCHANGED file
    <2>1. PICK d : d = NoCall
      OBVIOUS
    <2>2. call' = [call EXCEPT ![t] = d] /\ d.at \notin {"order", "count"}
      BY <1>4, <2>1 DEF Returns, NoCall
    <2> QED
      BY <2>1, <2>2, <1>2, <1>3, <1>4, CacheQuiet
  <1>5. CASE file' # file \/ ~Returns(t)
    <2>1. PICK name, after : name = FileOf[call[t].key] /\ after = AfterFile(t, part)
      OBVIOUS
    <2>2. /\ file' = [file EXCEPT ![name][part] = Absent]
          /\ call' = [u \in StoreThread |->
                       CASE u = t -> after
                         [] u # t /\ Writes(u, name, part) -> [call[u] EXCEPT !.named = FALSE]
                         [] OTHER -> call[u]]
      BY <1>1, <1>5, <2>1
    <2>3. DOMAIN call' = StoreThread /\ call'[t] = after
      BY <2>2
    <2>4. ASSUME NEW u \in StoreThread, u # t
          PROVE  \/ call'[u] = call[u]
                 \/ Busy(call[u]) /\ call'[u] = [call[u] EXCEPT !.named = FALSE]
      <3>1. CASE Writes(u, name, part)
        <4>1. call[u].at # "idle"
          BY <3>1 DEF Writes
        <4> QED
          BY <4>1, <3>1, <2>2, <2>4, <1>0, InCall
      <3>2. CASE ~Writes(u, name, part)
        BY <3>2, <2>2, <2>4
      <3> QED
        BY <3>1, <3>2
    <2>5. (after = NoCall \/ Busy(after)) /\ after.at \notin {"order", "count"}
      BY <2>1, <1>3 DEF AfterFile, NoCall, Busy, Carrying
    <2>6. ASSUME NEW u \in StoreThread, u # t
          PROVE  /\ call'[u] = NoCall \/ Busy(call'[u])
                 /\ call'[u].at = call[u].at /\ call'[u].key = call[u].key
      <3>1. CASE call'[u] = call[u]
        BY <3>1, <1>0 DEF CallsSound
      <3>2. CASE Busy(call[u]) /\ call'[u] = [call[u] EXCEPT !.named = FALSE]
        <4>1. PICK c : c = call[u]
          OBVIOUS
        <4>2. PICK d : d = [c EXCEPT !.named = FALSE]
          OBVIOUS
        <4>3. DOMAIN d = DOMAIN c /\ d.at = c.at /\ d.key = c.key /\ ("value" \in DOMAIN c => d.value = c.value)
          BY <3>2, <4>1, <4>2 DEF Busy
        <4>4. Busy(d)
          BY <3>2, <4>1, <4>3 DEF Busy
        <4> QED
          BY <3>2, <4>1, <4>2, <4>3, <4>4
      <3> QED
        BY <2>4, <2>6, <3>1, <3>2
    <2>7. \A c : Busy(c) => Busy(c)'
      BY <1>2 DEF Busy, Wrote
    <2>8. CallsSound'
      <3>1. \A u \in StoreThread : call'[u] = NoCall \/ Busy(call'[u])
        BY <2>3, <2>5, <2>6
      <3> QED
        BY <3>1, <2>3, <2>7 DEF CallsSound, NoCall
    <2>9. CacheSound'
      <3>1. \A u \in StoreThread : \/ call'[u].at = call[u].at /\ call'[u].key = call[u].key
                                   \/ /\ call[u].at \notin {"order", "count"}
                                      /\ call'[u].at \notin {"order", "count"}
        BY <1>3, <2>3, <2>5, <2>6
      <3> QED
        BY <3>1, <1>2, CacheStays DEF StoreInv
    <2>10. FilesSound'
      <3>1. name \in DOMAIN file
        BY <2>1, <1>0, <1>3, HasFile
      <3> QED
        BY <3>1, <2>2, <1>0, <1>2, FileChanges
    <2> QED
      BY <1>2, <2>8, <2>9, <2>10 DEF StoreInv, ReadsAreWhole
  <1> QED
    BY <1>4, <1>5

(* put() has a number that no put had. *)
LEMMA BeginWriteKeeps ==
    ASSUME StoreInv, NEW t \in StoreThread, NEW k \in StoreKey, BeginWrite(t, k)
    PROVE  StoreInv'
  <1>1. /\ CallsSound /\ FilesSound /\ call[t].at = "idle" /\ puts \in Seq(StoreKey)
        /\ puts' = Append(puts, k)
        /\ UNCHANGED <<file, cache, lru, counted, returned>>
    BY DEF StoreInv, BeginWrite, Begins, NoCall
  <1>2. PICK d : d = [at |-> "openData", key |-> k, value |-> Len(puts) + 1, named |-> TRUE]
    OBVIOUS
  <1>3. call' = [call EXCEPT ![t] = d]
    BY <1>2 DEF BeginWrite
  <1>4. DOMAIN call' = StoreThread /\ call'[t] = d /\ \A u \in StoreThread : u # t => call'[u] = call[u]
    BY <1>1, <1>3 DEF CallsSound
  <1>5. puts' \in Seq(StoreKey) /\ Len(puts) + 1 \in DOMAIN puts' /\ puts'[Len(puts) + 1] = k
    BY <1>1
  <1>6. \A v, name : Wrote(v, name) => Wrote(v, name)'
    <2>1. DOMAIN puts \subseteq DOMAIN puts' /\ \A i \in DOMAIN puts : puts'[i] = puts[i]
      BY <1>1
    <2> QED
      BY <2>1 DEF Wrote
  <1>7. Busy(d)'
    BY <1>2, <1>5 DEF Busy, Wrote
  <1>8. \A c : Busy(c) => Busy(c)'
    <2> HIDE DEF Wrote
    <2> QED
      BY <1>6 DEF Busy
  <1>9. CallsSound'
    <2> HIDE DEF Busy
    <2>1. ASSUME NEW u \in StoreThread, NEW c, c = call'[u]
          PROVE  c = NoCall \/ Busy(c)'
      <3>1. u # t => c = call[u]
        BY <2>1, <1>4
      <3>2. u = t => c = d
        BY <2>1, <1>4
      <3>3. call[u] = NoCall \/ Busy(call[u])
        BY <1>1 DEF CallsSound
      <3> QED
        BY <3>1, <3>2, <3>3, <1>7, <1>8
    <2> QED
      BY <2>1, <1>4 DEF CallsSound, NoCall
  <1>10. FilesSound'
    <2>1. file' = file
      BY <1>1
    <2> HIDE DEF Wrote
    <2> QED
      BY <2>1, <1>1, <1>6 DEF FilesSound
  <1>11. CacheSound'
    <2>1. \A u \in StoreThread : \/ call'[u].at = call[u].at /\ call'[u].key = call[u].key
                                 \/ /\ call[u].at \notin {"order", "count"}
                                    /\ call'[u].at \notin {"order", "count"}
      BY <1>1, <1>2, <1>4
    <2> QED
      BY <2>1, <1>1, CacheStays DEF StoreInv
  <1>12. ReadsAreWhole'
    BY <1>1 DEF StoreInv, ReadsAreWhole
  <1> QED
    BY <1>5, <1>9, <1>10, <1>11, <1>12 DEF StoreInv

(* Keys that leave the cache leave the size, and are not missed in the order.*)
LEMMA RemovingKeeps ==
    ASSUME CacheSound, NEW keys, cache' = Uncached(keys),
           counted' = Less(counted, Cardinality(keys \cap Cached)),
           lru' = lru \/ lru' = Without(keys),
           Within("order")' = Within("order"), Within("count")' = Within("count"),
           \A u \in Within("order") : call'[u].key = call[u].key
    PROVE  CacheSound'
  <1>1. PICK C : C = Cached
    OBVIOUS
  <1>2. Cached' = C \ keys
    BY <1>1 DEF Uncached, Cached
  <1>3. Late' = Late
    BY DEF Late
  <1>4. PICK l : l = Cardinality(Late)
    OBVIOUS
  <1>5. l \in Nat /\ counted \in Nat /\ IsFiniteSet(C) /\ Cardinality(C) <= counted + l
    BY <1>1, <1>4, FS_CardinalityType DEF CacheSound
  <1>6. /\ IsFiniteSet(C \ keys) /\ counted' \in Nat
        /\ Cardinality(C \ keys) <= counted' + l
    BY <1>1, <1>5, RemovedFits
  <1>7. /\ lru' \in Seq(StoreKey) /\ Distinct(lru')
        /\ \A k \in StoreKey : k \notin keys /\ Listed(k) => Listed(k)'
    <2>1. CASE lru' = lru
      BY <2>1 DEF CacheSound, Listed
    <2>2. CASE lru' = Without(keys)
      <3>1. PICK r : r = lru'
        OBVIOUS
      <3>2. lru \in Seq(StoreKey) /\ Distinct(lru) /\ r = Without(keys)
        BY <2>2, <3>1 DEF CacheSound
      <3>3. /\ r \in Seq(StoreKey) /\ Distinct(r)
            /\ \A k \in StoreKey : (\E i \in 1 .. Len(r) : r[i] = k) <=> k \notin keys /\ Listed(k)
        BY <3>2, WithoutIs
      <3> QED
        BY <3>1, <3>3 DEF Listed
    <2> QED
      BY <2>1, <2>2
  <1>8. \A k \in C \ keys : Listed(k)' \/ \E u \in Within("order")' : call'[u].key = k
    <2> HIDE DEF Listed
    <2> QED
      BY <1>1, <1>7 DEF CacheSound
  <1> QED
    BY <1>1, <1>2, <1>3, <1>4, <1>6, <1>7, <1>8 DEF CacheSound

(* The victims leave the order. *)
LEMMA EvictOrderKeeps ==
    ASSUME StoreInv, NEW t \in StoreThread, EvictOrder(t)
    PROVE  StoreInv'
  <1>1. /\ CallsSound /\ call[t].at = "evictOrder" /\ CacheSound
        /\ UNCHANGED <<file, puts, returned>>
    BY DEF StoreInv, EvictOrder
  <1>2. Busy(call[t])
    BY <1>1, InCall
  <1>3. PICK d, victims : /\ d = [at |-> "insert", key |-> call[t].key, value |-> call[t].value]
                          /\ victims = call[t].victims
    OBVIOUS
  <1>4. /\ call' = [call EXCEPT ![t] = d] /\ cache' = Uncached(victims) /\ lru' = Without(victims)
        /\ counted' = Less(counted, Cardinality(victims \cap Cached))
    BY <1>3 DEF EvictOrder
  <1>5. Busy(d) /\ d.at = "insert"
    BY <1>2, <1>3 DEF Busy, Carrying
  <1>6. /\ puts' \in Seq(StoreKey) /\ CallsSound' /\ FilesSound' /\ ReadsAreWhole'
        /\ call'[t] = d /\ \A u \in StoreThread : u # t => call'[u] = call[u]
    BY <1>1, <1>4, <1>5, QuietCall
  <1>7. /\ Within("order")' = Within("order") /\ Within("count")' = Within("count")
        /\ \A u \in Within("order") : call'[u].key = call[u].key
    BY <1>1, <1>5, <1>6 DEF Within
  <1>8. CacheSound'
    BY <1>1, <1>4, <1>7, RemovingKeeps
  <1> QED
    BY <1>6, <1>8 DEF StoreInv

(* A delete starts. *)
LEMMA BeginDeleteKeeps ==
    ASSUME StoreInv, NEW t \in StoreThread, NEW k \in StoreKey, BeginDelete(t, k)
    PROVE  StoreInv'
  <1>1. /\ CallsSound /\ call[t].at = "idle" /\ CacheSound
        /\ UNCHANGED <<file, puts, returned>> /\ lru' = lru
    BY DEF StoreInv, BeginDelete, Begins, NoCall
  <1>2. PICK d, keys : d = [at |-> "lookData", key |-> k] /\ keys = {k}
    OBVIOUS
  <1>3. /\ call' = [call EXCEPT ![t] = d] /\ cache' = Uncached(keys)
        /\ counted' = Less(counted, Cardinality(Cached \cap keys))
    BY <1>2 DEF BeginDelete, Removed
  <1>4. Cached \cap keys = keys \cap Cached
    OBVIOUS
  <1>5. Busy(d) /\ d.at = "lookData"
    BY <1>2 DEF Busy, Carrying
  <1>6. /\ puts' \in Seq(StoreKey) /\ CallsSound' /\ FilesSound' /\ ReadsAreWhole'
        /\ call'[t] = d /\ \A u \in StoreThread : u # t => call'[u] = call[u]
    BY <1>1, <1>3, <1>5, QuietCall
  <1>7. /\ Within("order")' = Within("order") /\ Within("count")' = Within("count")
        /\ \A u \in Within("order") : call'[u].key = call[u].key
    BY <1>1, <1>5, <1>6 DEF Within
  <1>8. CacheSound'
    BY <1>1, <1>3, <1>4, <1>7, RemovingKeeps
  <1> QED
    BY <1>6, <1>8 DEF StoreInv

(* A key that enters the cache has a thread that will count it. *)
LEMMA InsertEntryKeeps ==
    ASSUME StoreInv, NEW t \in StoreThread, InsertEntry(t)
    PROVE  StoreInv'
  <1>1. /\ CallsSound /\ call[t].at = "insert" /\ CacheSound
        /\ UNCHANGED <<file, puts, returned>> /\ lru' = lru /\ counted' = counted
    BY DEF StoreInv, InsertEntry
  <1>2. PICK d, k : d = [call[t] EXCEPT !.at = "order"] /\ k = call[t].key
    OBVIOUS
  <1>3. Busy(d) /\ d.at = "order" /\ d.key = k /\ k \in StoreKey
    <2>1. Busy(d) /\ d.at = "order" /\ d.key = k
      BY <1>1, <1>2, Going DEF Carrying
    <2> QED
      BY <2>1 DEF Busy
  <1>4. call' = [call EXCEPT ![t] = d]
    BY <1>2 DEF InsertEntry, Goes
  <1>5. /\ puts' \in Seq(StoreKey) /\ CallsSound' /\ FilesSound' /\ ReadsAreWhole'
        /\ call'[t] = d /\ \A u \in StoreThread : u # t => call'[u] = call[u]
    BY <1>1, <1>3, <1>4, QuietCall
  <1>6. PICK C, L : C = Cached /\ L = Late
    OBVIOUS
  <1>7. Cached' = C \cup {k}
    BY <1>2, <1>6 DEF InsertEntry, Cached
  <1>8. Within("order")' = Within("order") \cup {t} /\ Within("count")' = Within("count")
    BY <1>1, <1>3, <1>5 DEF Within
  <1>9. Late' = L \cup {t} /\ t \notin L
    <2>1. t \notin Within("order") /\ t \notin Within("count")
      BY <1>1 DEF Within
    <2> QED
      BY <2>1, <1>6, <1>8 DEF Late
  <1>10. IsFiniteSet(C) /\ IsFiniteSet(L) /\ counted \in Nat /\ Cardinality(C) <= counted + Cardinality(L)
    BY <1>1, <1>6 DEF CacheSound
  <1>11. /\ IsFiniteSet(C \cup {k}) /\ Cardinality(C) \in Nat
         /\ (Cardinality(C \cup {k}) = Cardinality(C) \/ Cardinality(C \cup {k}) = Cardinality(C) + 1)
    BY <1>10, FS_AddElement, FS_CardinalityType
  <1>12. IsFiniteSet(L \cup {t}) /\ Cardinality(L) \in Nat /\ Cardinality(L \cup {t}) = Cardinality(L) + 1
    BY <1>9, <1>10, FS_AddElement, FS_CardinalityType
  <1>13. Cardinality(C \cup {k}) <= counted + Cardinality(L \cup {t})
    BY <1>10, <1>11, <1>12
  <1>14. \A j \in C \cup {k} : Listed(j)' \/ \E u \in Within("order")' : call'[u].key = j
    <2>1. \A j : Listed(j)' <=> Listed(j)
      BY <1>1 DEF Listed
    <2>2. \A u \in Within("order") : call'[u].key = call[u].key
      BY <1>1, <1>5 DEF Within
    <2> HIDE DEF Listed
    <2>3. ASSUME NEW j \in C PROVE Listed(j)' \/ \E u \in Within("order")' : call'[u].key = j
      BY <2>1, <2>2, <1>1, <1>6, <1>8 DEF CacheSound
    <2> QED
      BY <2>3, <1>3, <1>5, <1>8
  <1>15. CacheSound'
    BY <1>1, <1>3, <1>6, <1>7, <1>9, <1>11, <1>12, <1>13, <1>14 DEF CacheSound
  <1> QED
    BY <1>5, <1>15 DEF StoreInv

(* The thread that inserted a key puts it into the order. *)
LEMMA PushOrderKeeps ==
    ASSUME StoreInv, NEW t \in StoreThread, PushOrder(t)
    PROVE  StoreInv'
  <1>1. /\ CallsSound /\ call[t].at = "order" /\ CacheSound
        /\ UNCHANGED <<file, puts, returned>> /\ cache' = cache /\ counted' = counted
    BY DEF StoreInv, PushOrder
  <1>2. PICK d, k : d = [call[t] EXCEPT !.at = "count"] /\ k = call[t].key
    OBVIOUS
  <1>3. Busy(d) /\ d.at = "count" /\ k \in StoreKey
    <2>1. Busy(d) /\ d.at = "count" /\ d.key = k
      BY <1>1, <1>2, Going DEF Carrying
    <2> QED
      BY <2>1 DEF Busy
  <1>4. call' = [call EXCEPT ![t] = d] /\ lru' = Append(Without({k}), k)
    BY <1>2 DEF PushOrder, Goes
  <1>5. /\ puts' \in Seq(StoreKey) /\ CallsSound' /\ FilesSound' /\ ReadsAreWhole'
        /\ call'[t] = d /\ \A u \in StoreThread : u # t => call'[u] = call[u]
    BY <1>1, <1>3, <1>4, QuietCall
  <1>6. /\ lru' \in Seq(StoreKey) /\ Distinct(lru') /\ Listed(k)'
        /\ \A j \in StoreKey : Listed(j) => Listed(j)'
    BY <1>1, <1>3, <1>4, MovedToEnd DEF CacheSound
  <1>7. /\ Within("order")' = Within("order") \ {t} /\ Within("count")' = Within("count") \cup {t}
        /\ t \in Within("order")
    BY <1>1, <1>3, <1>5 DEF Within
  <1>8. Late' = Late
    BY <1>7 DEF Late
  <1>9. Cached' = Cached
    BY <1>1 DEF Cached
  <1>10. \A j \in Cached : Listed(j)' \/ \E u \in Within("order")' : call'[u].key = j
    <2> HIDE DEF Listed
    <2> SUFFICES ASSUME NEW j \in Cached, ~Listed(j)' PROVE \E u \in Within("order")' : call'[u].key = j
      OBVIOUS
    <2>1. j \in StoreKey /\ ~Listed(j) /\ j # k
      BY <1>1, <1>6 DEF CacheSound
    <2>2. PICK u \in Within("order") : call[u].key = j
      BY <2>1, <1>1 DEF CacheSound
    <2>3. u \in StoreThread /\ u # t
      BY <2>1, <2>2, <1>2 DEF Within
    <2> QED
      BY <2>2, <2>3, <1>5, <1>7
  <1>11. CacheSound'
    BY <1>1, <1>6, <1>8, <1>9, <1>10 DEF CacheSound
  <1> QED
    BY <1>5, <1>11 DEF StoreInv

(* A read moves its key to the end of the order. *)
LEMMA TouchKeeps ==
    ASSUME StoreInv, NEW t \in StoreThread, Touch(t)
    PROVE  StoreInv'
  <1>1. /\ CallsSound /\ call[t].at = "touch" /\ CacheSound
        /\ UNCHANGED <<file, puts, returned>> /\ cache' = cache /\ counted' = counted
    BY DEF StoreInv, Touch
  <1>2. PICK d, k : d = NoCall /\ k = call[t].key
    OBVIOUS
  <1>3. k \in StoreKey /\ d.at = "idle"
    BY <1>1, <1>2, InCall DEF Busy, NoCall
  <1>4. call' = [call EXCEPT ![t] = d] /\ lru' = Append(Without({k}), k)
    BY <1>2 DEF Touch, Returns
  <1>5. /\ puts' \in Seq(StoreKey) /\ CallsSound' /\ FilesSound' /\ ReadsAreWhole'
        /\ call'[t] = d /\ \A u \in StoreThread : u # t => call'[u] = call[u]
    BY <1>1, <1>2, <1>4, QuietCall
  <1>6. /\ lru' \in Seq(StoreKey) /\ Distinct(lru')
        /\ \A j \in StoreKey : Listed(j) => Listed(j)'
    BY <1>1, <1>3, <1>4, MovedToEnd DEF CacheSound
  <1>7. /\ Within("order")' = Within("order") /\ Within("count")' = Within("count")
        /\ \A u \in Within("order") : call'[u].key = call[u].key
    BY <1>1, <1>3, <1>5 DEF Within
  <1>8. Late' = Late /\ Cached' = Cached
    BY <1>1, <1>7 DEF Late, Cached
  <1>9. \A j \in Cached : Listed(j)' \/ \E u \in Within("order")' : call'[u].key = j
    <2> HIDE DEF Listed
    <2> QED
      BY <1>1, <1>6, <1>7 DEF CacheSound
  <1>10. CacheSound'
    BY <1>1, <1>6, <1>8, <1>9 DEF CacheSound
  <1> QED
    BY <1>5, <1>10 DEF StoreInv

(* What was inserted is counted. *)
LEMMA CountSizeKeeps ==
    ASSUME StoreInv, NEW t \in StoreThread, CountSize(t)
    PROVE  StoreInv'
  <1>1. /\ CallsSound /\ call[t].at = "count" /\ CacheSound
        /\ UNCHANGED <<file, puts, returned>> /\ cache' = cache /\ lru' = lru /\ counted' = counted + 1
    BY DEF StoreInv, CountSize
  <1>2. PICK d : d = NoCall
    OBVIOUS
  <1>3. call' = [call EXCEPT ![t] = d] /\ d.at = "idle"
    BY <1>2 DEF CountSize, Returns, NoCall
  <1>4. /\ puts' \in Seq(StoreKey) /\ CallsSound' /\ FilesSound' /\ ReadsAreWhole'
        /\ call'[t] = d /\ \A u \in StoreThread : u # t => call'[u] = call[u]
    BY <1>1, <1>2, <1>3, QuietCall
  <1>5. /\ Within("order")' = Within("order") /\ Within("count")' = Within("count") \ {t}
        /\ t \notin Within("order") /\ t \in Within("count")
        /\ \A u \in Within("order") : call'[u].key = call[u].key
    BY <1>1, <1>3, <1>4 DEF Within
  <1>6. PICK L : L = Late
    OBVIOUS
  <1>7. Late' = L \ {t} /\ t \in L
    BY <1>5, <1>6 DEF Late
  <1>8. /\ IsFiniteSet(L \ {t}) /\ Cardinality(L \ {t}) = Cardinality(L) - 1
        /\ Cardinality(L) \in Nat /\ Cardinality(L \ {t}) \in Nat
    BY <1>1, <1>6, <1>7, FS_RemoveElement, FS_CardinalityType DEF CacheSound
  <1>9. Cached' = Cached /\ \A j : Listed(j)' <=> Listed(j)
    BY <1>1 DEF Cached, Listed
  <1>10. \A j \in Cached : Listed(j)' \/ \E u \in Within("order")' : call'[u].key = j
    <2> HIDE DEF Listed
    <2> QED
      BY <1>1, <1>5, <1>9 DEF CacheSound
  <1>11. counted \in Nat /\ counted' \in Nat /\ IsFiniteSet(Cached) /\ Cardinality(Cached) <= counted + Cardinality(L)
    BY <1>1, <1>6 DEF CacheSound
  <1>12. Cardinality(Cached) <= counted' + Cardinality(L \ {t})
    <2>1. Cardinality(Cached) \in Nat
      BY <1>11, FS_CardinalityType
    <2> QED
      BY <2>1, <1>1, <1>8, <1>11
  <1>13. CacheSound'
    BY <1>1, <1>7, <1>8, <1>9, <1>10, <1>11, <1>12 DEF CacheSound
  <1> QED
    BY <1>4, <1>13 DEF StoreInv

(* A process that starts has nothing in its cache and counts nothing. *)
LEMMA KillKeeps ==
    ASSUME StoreInv, Kill
    PROVE  StoreInv'
  <1>1. /\ cache' = <<>> /\ lru' = <<>> /\ counted' = 0
        /\ call' = [t \in StoreThread |-> NoCall] /\ UNCHANGED <<file, puts, returned>>
    BY DEF Kill
  <1>2. CacheSound'
    <2>1. Within("order")' = {} /\ Within("count")' = {}
      BY <1>1 DEF Within, NoCall
    <2>2. Late' = {} /\ Cached' = {}
      BY <2>1, <1>1 DEF Late, Cached
    <2> QED
      BY <2>2, <1>1, FS_EmptySet DEF CacheSound, Distinct
  <1> QED
    BY <1>1, <1>2 DEF StoreInv, CallsSound, FilesSound, ReadsAreWhole, Wrote

(* Whatever writers, deleters and kills did to a key's two files, get()     *)
(* returns from them one put's data with its metadata, for that key; and    *)
(* what is cached is in the order of eviction, each key once, and counted,  *)
(* or a thread is about to see to it.                                       *)
THEOREM StoreIsSoundAlways ==
    ASSUME IsInjective(FileOf)
    PROVE  StorageSpec => []StoreIsSound
  <1>1. StorageInit => StoreInv
    <2> SUFFICES ASSUME StorageInit PROVE StoreInv
      OBVIOUS
    <2>1. Within("order") = {} /\ Within("count") = {}
      BY DEF StorageInit, Within, NoCall
    <2>2. Late = {} /\ Cached = {}
      BY <2>1 DEF Late, Cached, StorageInit
    <2>3. CacheSound
      BY <2>2, FS_EmptySet DEF CacheSound, Distinct, StorageInit
    <2> QED
      BY <2>3 DEF StorageInit, StoreInv, CallsSound, FilesSound, ReadsAreWhole
  <1>2. StoreInv /\ [StorageNext]_storageVars => StoreInv'
    <2> SUFFICES ASSUME StoreInv, [StorageNext]_storageVars PROVE StoreInv'
      OBVIOUS
    <2>1. ASSUME NEW t \in StoreThread, NEW k \in StoreKey,
                 BeginWrite(t, k) \/ BeginGet(t, k) \/ BeginDelete(t, k)
          PROVE  StoreInv'
      BY <2>1, BeginWriteKeeps, LookingKeeps, BeginDeleteKeeps
    <2>2. ASSUME NEW t \in StoreThread, Measure(t) \/ Scan(t) \/ ScanCache(t) \/ EvictCache(t) \/ ReadData(t) \/ LookFile(t)
          PROVE  StoreInv'
      BY <2>2, LookingKeeps
    <2>3. ASSUME NEW t \in StoreThread, OpenFile(t) \/ FillFile(t) \/ EvictOrder(t) \/ InsertEntry(t)
                   \/ PushOrder(t) \/ CountSize(t) \/ Touch(t) \/ ReadMeta(t) \/ Unlink(t)
          PROVE  StoreInv'
      BY <2>3, OpenFileKeeps, FillFileKeeps, EvictOrderKeeps, InsertEntryKeeps, PushOrderKeeps,
         CountSizeKeeps, TouchKeeps, ReadMetaKeeps, UnlinkKeeps
    <2>4. CASE Kill
      BY <2>4, KillKeeps
    <2>5. CASE UNCHANGED storageVars
      <3>1. UNCHANGED <<file, cache, lru, counted, call, puts, returned>>
        BY <2>5 DEF storageVars
      <3>2. CallsSound' /\ FilesSound' /\ ReadsAreWhole' /\ puts' \in Seq(StoreKey)
        BY <3>1 DEF StoreInv, CallsSound, Busy, FilesSound, ReadsAreWhole, Wrote
      <3>3. CacheSound'
        BY <3>1, CacheStays DEF StoreInv
      <3> QED
        BY <3>2, <3>3 DEF StoreInv
    <2> QED
      BY <2>1, <2>2, <2>3, <2>4, <2>5 DEF StorageNext
  <1>3. StoreInv => StoreIsSound
    <2> SUFFICES ASSUME StoreInv PROVE CacheEvictable
      BY DEF StoreIsSound, StoreInv
    <2>1. CacheSound
      BY DEF StoreInv
    <2>2. \A k : Listed(k) => k \in ToSet(lru)
      BY <2>1 DEF Listed, ToSet, CacheSound
    <2>3. IsInjective(lru)
      BY <2>1 DEF IsInjective, Distinct, CacheSound
    <2>4. \A k \in Cached : k \in ToSet(lru) \cup {call[t].key : t \in Within("order")}
      <3> HIDE DEF Listed
      <3> QED
        BY <2>1, <2>2 DEF CacheSound
    <2> QED
      BY <2>1, <2>3, <2>4 DEF CacheEvictable, CacheSound, Late
  <1> QED
    BY <1>1, <1>2, <1>3, PTL DEF StorageSpec

-----------------------------------------------------------------------------
(* The swarm coordinator. *)

Queued(q, j) == \E i \in 1 .. Len(q) : q[i] = j

(* The one task of an agent that is not Idle. *)
HasTask(m, w, j) == Len(m[w].tasks) = 1 /\ m[w].tasks[1] = j

Agents(m) ==
    /\ DOMAIN m \subseteq Worker
    /\ \A w \in DOMAIN m :
          /\ DOMAIN m[w] = {"idle", "tasks"} /\ m[w].idle \in BOOLEAN
          /\ m[w].tasks \in Seq(Job)
          /\ m[w].idle => Len(m[w].tasks) = 0
          /\ ~m[w].idle => Len(m[w].tasks) = 1

(* A task is active in the name of the agent that has it, or of nobody and   *)
(* queued; what is queued nobody has.                                        *)
Assigned(m, q, a) ==
    /\ DOMAIN a \subseteq Job
    /\ \A w \in DOMAIN m : \A j \in Job : HasTask(m, w, j) => j \in DOMAIN a /\ a[j] = w /\ ~Queued(q, j)
    /\ \A j \in DOMAIN a : \/ a[j] = Nobody /\ Queued(q, j)
                           \/ a[j] \in DOMAIN m /\ HasTask(m, a[j], j)

Coordinated(m, q, a) == Agents(m) /\ q \in Seq(Job) /\ Distinct(q) /\ Assigned(m, q, a)

(* A task that was submitted is queued, active or finished. *)
Kept(q, a, f, s) ==
    \A j \in Job : /\ j \in s => Queued(q, j) \/ j \in DOMAIN a \/ Queued(f, j)
                   /\ Queued(q, j) \/ j \in DOMAIN a => j \in s

SwarmInv ==
    /\ Coordinated(members, queue, active)
    /\ IsFiniteSet(DOMAIN members) /\ DOMAIN members \subseteq seen
    /\ finished \in Seq(Job) /\ Kept(queue, active, finished, seen)

(* A queue without its i-th task. *)
LEMMA TakenOut ==
    ASSUME NEW S, NEW q \in Seq(S), Distinct(q), NEW i \in 1 .. Len(q), NEW r, r = RemoveAt(q, i)
    PROVE  /\ r \in Seq(S) /\ Distinct(r)
           /\ \A j : Queued(r, j) <=> Queued(q, j) /\ j # q[i]
  <1>1. PICK n, x : n = Len(q) /\ x = q[i]
    OBVIOUS
  <1>2. PICK u, v : u = SubSeq(q, 1, i - 1) /\ v = SubSeq(q, i + 1, n)
    OBVIOUS
  <1>3. /\ u \in Seq(S) /\ v \in Seq(S) /\ Len(u) = i - 1 /\ Len(v) = n - i /\ n \in Nat /\ i \in 1 .. n
        /\ \A k \in 1 .. i - 1 : u[k] = q[k]
        /\ \A k \in 1 .. n - i : v[k] = q[k + i]
    BY <1>1, <1>2
  <1>4. r = u \o v
    BY <1>1, <1>2 DEF RemoveAt
  <1>5. /\ r \in Seq(S) /\ Len(r) = n - 1
        /\ \A k \in 1 .. i - 1 : r[k] = q[k]
        /\ \A k \in i .. n - 1 : r[k] = q[k + 1]
    <2>0. /\ r \in Seq(S) /\ Len(r) = Len(u) + Len(v)
          /\ \A k \in 1 .. Len(u) : r[k] = u[k]
          /\ \A k \in 1 .. Len(v) : r[Len(u) + k] = v[k]
      <3>1. u \in Seq(S) /\ v \in Seq(S)
        BY <1>3
      <3> QED
        BY ONLY <3>1, <1>4, Joined
    <2>1. r \in Seq(S) /\ Len(r) = Len(u) + Len(v)
      BY <2>0
    <2>2. \A k \in 1 .. Len(u) : r[k] = u[k]
      BY <2>0
    <2>3. \A k \in 1 .. Len(v) : r[Len(u) + k] = v[k]
      BY <2>0
    <2>4. ASSUME NEW k \in i .. n - 1 PROVE r[k] = q[k + 1]
      <3>1. k - i + 1 \in 1 .. Len(v) /\ Len(u) + (k - i + 1) = k /\ (k - i + 1) + i = k + 1
        BY <1>3, <2>4
      <3>2. r[Len(u) + (k - i + 1)] = v[k - i + 1]
        BY <2>3, <3>1
      <3>3. v[k - i + 1] = q[(k - i + 1) + i]
        BY <1>3, <3>1
      <3> QED
        BY <3>1, <3>2, <3>3
    <2>5. \A k \in 1 .. i - 1 : r[k] = q[k]
      BY <1>3, <2>2
    <2> QED
      BY <2>1, <2>4, <2>5, <1>3
  <1> HIDE DEF Distinct
  <1>6. PICK g : g = [k \in 1 .. n - 1 |-> IF k < i THEN k ELSE k + 1]
    OBVIOUS
  <1>7. ASSUME NEW k \in 1 .. n - 1 PROVE g[k] \in 1 .. n /\ g[k] # i /\ r[k] = q[g[k]]
    <2>1. CASE k < i
      <3>1. k \in 1 .. i - 1 /\ g[k] = k
        BY <2>1, <1>3, <1>6
      <3> QED
        BY <3>1, <1>3, <1>5
    <2>2. CASE ~(k < i)
      <3>1. k \in i .. n - 1 /\ g[k] = k + 1 /\ k + 1 \in 1 .. n /\ k + 1 # i
        BY <2>2, <1>3, <1>6
      <3> QED
        BY <3>1, <1>5
    <2> QED
      BY <2>1, <2>2
  <1>8. \A k, l \in 1 .. n - 1 : g[k] = g[l] => k = l
    BY <1>3, <1>6
  <1>9. \A k \in 1 .. n : k # i => \E l \in 1 .. n - 1 : g[l] = k
    <2> SUFFICES ASSUME NEW k \in 1 .. n, k # i PROVE \E l \in 1 .. n - 1 : g[l] = k
      OBVIOUS
    <2>1. CASE k < i
      <3>1. k \in 1 .. n - 1 /\ g[k] = k
        BY <2>1, <1>3, <1>6
      <3> QED
        BY <3>1
    <2>2. CASE k > i
      <3>1. k - 1 \in 1 .. n - 1 /\ g[k - 1] = k
        BY <2>2, <1>3, <1>6
      <3> QED
        BY <3>1
    <2> QED
      BY <2>1, <2>2, <1>3
  <1>10. \A k, l \in 1 .. n : q[k] = q[l] => k = l
    BY <1>1 DEF Distinct
  <1>11. Distinct(r)
    <2>1. \A k, l \in 1 .. n - 1 : r[k] = r[l] => k = l
      BY <1>7, <1>8, <1>10
    <2> QED
      BY <2>1, <1>5 DEF Distinct
  <1>12. ASSUME NEW j PROVE Queued(r, j) <=> Queued(q, j) /\ j # x
    <2>1. ASSUME Queued(r, j) PROVE Queued(q, j) /\ j # x
      <3>1. PICK k \in 1 .. n - 1 : r[k] = j
        BY <2>1, <1>5 DEF Queued
      <3>2. g[k] \in 1 .. n /\ g[k] # i /\ q[g[k]] = j
        BY <3>1, <1>7
      <3> QED
        BY <3>2, <1>1, <1>10 DEF Queued
    <2>2. ASSUME Queued(q, j), j # x PROVE Queued(r, j)
      <3>1. PICK k \in 1 .. n : q[k] = j
        BY <2>2, <1>1 DEF Queued
      <3>2. k # i
        BY <3>1, <2>2, <1>1
      <3>3. PICK l \in 1 .. n - 1 : g[l] = k
        BY <3>1, <3>2, <1>9
      <3>4. r[l] = j
        BY <3>1, <3>3, <1>7
      <3> QED
        BY <3>4, <1>5 DEF Queued
    <2> QED
      BY <2>1, <2>2
  <1> QED
    BY <1>1, <1>5, <1>11, <1>12

(* What the assignment of a task to an idle agent does. *)
LEMMA AssignKeeps ==
    ASSUME NEW m, NEW q, NEW a, Coordinated(m, q, a), NEW w \in DOMAIN m, m[w].idle,
           NEW c, c = [members |-> m, queue |-> q, active |-> a],
           NEW m1, NEW q1, NEW a1,
           m1 = Assign(c, w).members, q1 = Assign(c, w).queue, a1 = Assign(c, w).active
    PROVE  /\ Coordinated(m1, q1, a1) /\ DOMAIN m1 = DOMAIN m
           /\ Assign(c, w) = [members |-> m1, queue |-> q1, active |-> a1]
           /\ \A v \in DOMAIN m : v # w => m1[v] = m[v]
           /\ \A j \in Job : Queued(q1, j) \/ j \in DOMAIN a1 <=> Queued(q, j) \/ j \in DOMAIN a
  <1>1. c.members = m /\ c.queue = q /\ c.active = a
    OBVIOUS
  <1>2. PICK B : B = Best(w, q)
    OBVIOUS
  <1>3. CASE B = {}
    <2>1. Assign(c, w) = c
      BY <1>1, <1>2, <1>3 DEF Assign
    <2> QED
      BY <2>1, <1>1
  <1>4. CASE B # {}
    <2>1. PICK i : i = CHOOSE k \in B : TRUE
      OBVIOUS
    <2>2. i \in B
      BY <2>1, <1>4
    <2>3. i \in 1 .. Len(q) /\ q \in Seq(Job) /\ Distinct(q)
      BY <2>2, <1>2 DEF Best, Coordinated
    <2>4. PICK j : j = q[i]
      OBVIOUS
    <2>5. j \in Job /\ Queued(q, j)
      BY <2>3, <2>4 DEF Queued
    <2>6. Assign(c, w) = [members |-> [m EXCEPT ![w] = [idle |-> FALSE, tasks |-> Append(m[w].tasks, j)]],
                          queue |-> RemoveAt(q, i),
                          active |-> [k \in DOMAIN a \cup {j} |-> IF k = j THEN w ELSE a[k]]]
      BY <1>1, <1>2, <1>4, <2>1, <2>4 DEF Assign, Dequeued
    <2>7. PICK e : e = [idle |-> FALSE, tasks |-> Append(m[w].tasks, j)]
      OBVIOUS
    <2>8. /\ m1 = [m EXCEPT ![w] = e] /\ q1 = RemoveAt(q, i)
          /\ a1 = [k \in DOMAIN a \cup {j} |-> IF k = j THEN w ELSE a[k]]
          /\ Assign(c, w) = [members |-> m1, queue |-> q1, active |-> a1]
      <3>1. PICK M, Q, A : /\ M = [m EXCEPT ![w] = e] /\ Q = RemoveAt(q, i)
                           /\ A = [k \in DOMAIN a \cup {j} |-> IF k = j THEN w ELSE a[k]]
        OBVIOUS
      <3>2. Assign(c, w) = [members |-> M, queue |-> Q, active |-> A]
        BY <2>6, <2>7, <3>1
      <3>3. m1 = M /\ q1 = Q /\ a1 = A
        BY <3>2
      <3> QED
        BY <3>1, <3>2, <3>3
    <2>9. /\ q1 \in Seq(Job) /\ Distinct(q1)
          /\ \A k : Queued(q1, k) <=> Queued(q, k) /\ k # j
      BY <2>3, <2>4, <2>8, TakenOut
    <2>10. /\ DOMAIN e = {"idle", "tasks"} /\ ~e.idle /\ e.idle \in BOOLEAN
           /\ e.tasks \in Seq(Job) /\ Len(e.tasks) = 1 /\ e.tasks[1] = j
      <3>1. m[w].tasks \in Seq(Job) /\ Len(m[w].tasks) = 0
        BY DEF Coordinated, Agents
      <3>2. PICK s : s = m[w].tasks
        OBVIOUS
      <3>3. e.tasks = Append(s, j) /\ s \in Seq(Job) /\ Len(s) = 0
        BY <3>1, <3>2, <2>7
      <3>4. e.tasks \in Seq(Job) /\ Len(e.tasks) = 1 /\ e.tasks[1] = j
        BY <3>3, <2>5
      <3> QED
        BY <3>4, <2>7
    <2>11. DOMAIN m1 = DOMAIN m /\ m1[w] = e /\ \A v \in DOMAIN m : v # w => m1[v] = m[v]
      BY <2>8
    <2>12. Agents(m1)
      BY <2>10, <2>11 DEF Coordinated, Agents
    <2>13. /\ \A k : HasTask(m1, w, k) <=> k = j
           /\ \A v \in DOMAIN m : v # w => \A k : HasTask(m1, v, k) <=> HasTask(m, v, k)
           /\ \A k : ~HasTask(m, w, k)
      BY <2>10, <2>11 DEF HasTask, Coordinated, Agents
    <2>14. /\ DOMAIN a1 = DOMAIN a \cup {j} /\ a1[j] = w
           /\ \A k \in DOMAIN a : k # j => a1[k] = a[k]
      BY <2>8
    <2>15. /\ DOMAIN a \subseteq Job
           /\ \A v \in DOMAIN m : \A k \in Job : HasTask(m, v, k) => k \in DOMAIN a /\ a[k] = v /\ ~Queued(q, k)
           /\ \A k \in DOMAIN a : \/ a[k] = Nobody /\ Queued(q, k)
                                  \/ a[k] \in DOMAIN m /\ HasTask(m, a[k], k)
      BY DEF Coordinated, Assigned
    <2> HIDE DEF HasTask, Queued
    <2>16. DOMAIN a1 \subseteq Job
      BY <2>5, <2>14, <2>15
    <2>17. ASSUME NEW v \in DOMAIN m1, NEW k \in Job, HasTask(m1, v, k)
           PROVE  k \in DOMAIN a1 /\ a1[k] = v /\ ~Queued(q1, k)
      <3>1. CASE v = w
        BY <3>1, <2>17, <2>9, <2>13, <2>14
      <3>2. CASE v # w
        <4>1. HasTask(m, v, k) /\ v \in DOMAIN m
          BY <3>2, <2>17, <2>11, <2>13
        <4>2. k \in DOMAIN a /\ a[k] = v /\ ~Queued(q, k)
          BY <4>1, <2>15
        <4>3. k # j
          BY <4>2, <2>5
        <4> QED
          BY <4>2, <4>3, <2>9, <2>14
      <3> QED
        BY <3>1, <3>2
    <2>18. ASSUME NEW k \in DOMAIN a1
           PROVE  \/ a1[k] = Nobody /\ Queued(q1, k)
                  \/ a1[k] \in DOMAIN m1 /\ HasTask(m1, a1[k], k)
      <3>1. CASE k = j
        BY <3>1, <2>11, <2>13, <2>14
      <3>2. CASE k # j
        <4>1. k \in DOMAIN a /\ a1[k] = a[k]
          BY <3>2, <2>14
        <4>2. CASE a[k] = Nobody /\ Queued(q, k)
          BY <4>1, <4>2, <3>2, <2>9
        <4>3. CASE a[k] \in DOMAIN m /\ HasTask(m, a[k], k)
          <5>1. a[k] # w
            BY <4>3, <2>13
          <5> QED
            BY <5>1, <4>1, <4>3, <2>11, <2>13
        <4> QED
          BY <4>1, <4>2, <4>3, <2>15
      <3> QED
        BY <3>1, <3>2
    <2>19. Coordinated(m1, q1, a1)
      BY <2>9, <2>12, <2>16, <2>17, <2>18 DEF Coordinated, Assigned
    <2>20. \A k \in Job : Queued(q1, k) \/ k \in DOMAIN a1 <=> Queued(q, k) \/ k \in DOMAIN a
      BY <2>5, <2>9, <2>14
    <2> QED
      BY <2>8, <2>11, <2>19, <2>20
  <1> QED
    BY <1>3, <1>4

(* schedule() is one assignment after the other. *)
LEMMA ScheduledSteps ==
    ASSUME NEW n \in Nat, NEW order, Len(order) = n
    PROVE  \E f : /\ f[0] = [members |-> members, queue |-> queue, active |-> active]
                  /\ Scheduled(order) = f[n]
                  /\ \A k \in 1 .. n : f[k] = Assign(f[k - 1], order[k])
  <1> DEFINE start == [members |-> members, queue |-> queue, active |-> active]
  <1> DEFINE Runs(f, k) ==
        f = [l \in 0 .. k |-> IF l = 0 THEN start ELSE Assign(f[l - 1], order[l])]
  <1>1. \A k \in Nat : \E f : Runs(f, k)
    <2> SUFFICES ASSUME NEW j \in Nat, ~\E f : Runs(f, j) PROVE FALSE
      OBVIOUS
    <2> DEFINE Bad == {k \in Nat : ~\E f : Runs(f, k)}
    <2>1. PICK k \in Bad : \A i \in Bad : k <= i
      <3>1. Bad \in SUBSET Nat /\ Bad # {}
        OBVIOUS
      <3> HIDE DEF Bad
      <3> QED
        BY <3>1, LeastOf
    <2> HIDE DEF start
    <2>2. CASE k = 0
      <3> DEFINE f == [l \in 0 .. 0 |-> start]
      <3>1. f = [l \in 0 .. 0 |-> IF l = 0 THEN start ELSE Assign(f[l - 1], order[l])]
        OBVIOUS
      <3> QED
        BY <3>1, <2>2
    <2>3. CASE k > 0
      <3>1. k - 1 \in Nat /\ k \in Nat
        BY <2>3
      <3> HIDE DEF Runs
      <3>2. \E f : Runs(f, k - 1)
        <4>1. k - 1 \notin Bad
          BY <2>1, <3>1
        <4> QED
          BY <4>1, <3>1
      <3>3. PICK f : Runs(f, k - 1)
        BY <3>2
      <3>4. PICK x : x = Assign(f[k - 1], order[k])
        OBVIOUS
      <3>5. PICK l : l = [i \in 0 .. k |-> IF i = k THEN x ELSE f[i]]
        OBVIOUS
      <3>6. \A i \in 0 .. k - 1 : f[i] = IF i = 0 THEN start ELSE Assign(f[i - 1], order[i])
        BY <3>3 DEF Runs
      <3>7. l[k] = x /\ \A i \in 0 .. k - 1 : l[i] = f[i]
        BY <3>1, <3>5
      <3>8. l[k] = Assign(l[k - 1], order[k])
        <4>1. l[k - 1] = f[k - 1]
          BY <3>1, <3>7
        <4> QED
          BY <4>1, <3>4, <3>7
      <3>9. ASSUME NEW i \in 0 .. k
            PROVE  l[i] = IF i = 0 THEN start ELSE Assign(l[i - 1], order[i])
        <4>1. CASE i = k
          BY <4>1, <3>8, <2>3
        <4>2. CASE i = 0
          BY <4>2, <3>1, <3>6, <3>7
        <4>3. CASE i # k /\ i # 0
          <5>1. i \in 0 .. k - 1 /\ i - 1 \in 0 .. k - 1
            BY <4>3, <3>1
          <5>2. l[i] = f[i] /\ l[i - 1] = f[i - 1]
            BY <5>1, <3>7
          <5>3. f[i] = Assign(f[i - 1], order[i])
            BY <5>1, <4>3, <3>6
          <5> QED
            BY <5>2, <5>3, <4>3
        <4> QED
          BY <4>1, <4>2, <4>3
      <3>10. l = [i \in 0 .. k |-> l[i]]
        BY <3>5
      <3>11. l = [i \in 0 .. k |-> IF i = 0 THEN start ELSE Assign(l[i - 1], order[i])]
        BY <3>9, <3>10
      <3> QED
        BY <3>11, <2>1 DEF Runs
    <2> QED
      BY <2>1, <2>2, <2>3
  <1> DEFINE f == CHOOSE f : Runs(f, n)
  <1>3. Runs(f, n)
    BY <1>1
  <1>4. Scheduled(order) = f[n]
    BY DEF Scheduled
  <1> HIDE DEF start
  <1>5. \A k \in 0 .. n : f[k] = IF k = 0 THEN start ELSE Assign(f[k - 1], order[k])
    <2> HIDE DEF f
    <2> QED
      BY <1>3
  <1> HIDE DEF f
  <1>6. f[0] = start /\ \A k \in 1 .. n : f[k] = Assign(f[k - 1], order[k])
    BY <1>5
  <1> QED
    BY <1>4, <1>6 DEF start

(* A coordinator in which the books are kept, with the agents it had and no  *)
(* other task than it had.                                                   *)
SameBooks(c) ==
    /\ c = [members |-> c.members, queue |-> c.queue, active |-> c.active]
    /\ Coordinated(c.members, c.queue, c.active) /\ DOMAIN c.members = DOMAIN members
    /\ \A j \in Job : (Queued(c.queue, j) \/ j \in DOMAIN c.active) <=> (Queued(queue, j) \/ j \in DOMAIN active)

(* The rounds of schedule() keep the books of agents and tasks. *)
LEMMA ScheduledKeeps ==
    ASSUME SwarmInv, NEW order \in SetToSeqs(IdleMembers)
    PROVE  SameBooks(Scheduled(order))
  <1>1. PICK n : n = Cardinality(IdleMembers)
    OBVIOUS
  <1>2. n \in Nat
    <2>1. IdleMembers \subseteq DOMAIN members /\ IsFiniteSet(DOMAIN members)
      BY DEF IdleMembers, SwarmInv
    <2> QED
      BY <2>1, <1>1, FS_Subset, FS_CardinalityType
  <1>3. /\ order \in [1 .. n -> IdleMembers]
        /\ \A i, j \in 1 .. n : i # j => order[i] # order[j]
    BY <1>1 DEF SetToSeqs
  <1>4. Len(order) = n
    BY <1>2, <1>3
  <1>5. PICK f : /\ f[0] = [members |-> members, queue |-> queue, active |-> active]
                 /\ Scheduled(order) = f[n]
                 /\ \A k \in 1 .. n : f[k] = Assign(f[k - 1], order[k])
    BY <1>2, <1>4, ScheduledSteps
  <1> DEFINE Good(k) ==
        /\ SameBooks(f[k])
        /\ \A i \in 1 .. n : i > k => f[k].members[order[i]].idle
  <1>6. Good(0)
    <2>1. PICK c : c = f[0]
      OBVIOUS
    <2>2. c.members = members /\ c.queue = queue /\ c.active = active
          /\ c = [members |-> c.members, queue |-> c.queue, active |-> c.active]
      BY <2>1, <1>5
    <2>3. SameBooks(c)
      BY <2>2 DEF SameBooks, SwarmInv
    <2>4. \A i \in 1 .. n : c.members[order[i]].idle
      BY <2>2, <1>3 DEF IdleMembers
    <2> QED
      BY <2>1, <2>3, <2>4
  <1>7. ASSUME NEW k \in 1 .. n, Good(k - 1) PROVE Good(k)
    <2>1. PICK c, w, d : c = f[k - 1] /\ w = order[k] /\ d = f[k]
      OBVIOUS
    <2>2. d = Assign(c, w)
      BY <2>1, <1>5
    <2>3. PICK m, q, a : m = c.members /\ q = c.queue /\ a = c.active
      OBVIOUS
    <2>4. PICK m1, q1, a1 : m1 = Assign(c, w).members /\ q1 = Assign(c, w).queue /\ a1 = Assign(c, w).active
      OBVIOUS
    <2>5. SameBooks(c) /\ \A i \in 1 .. n : i > k - 1 => m[order[i]].idle
      BY <2>1, <2>3, <1>7
    <2>6. /\ c = [members |-> m, queue |-> q, active |-> a] /\ Coordinated(m, q, a)
          /\ DOMAIN m = DOMAIN members
          /\ \A j \in Job : (Queued(q, j) \/ j \in DOMAIN a) <=> (Queued(queue, j) \/ j \in DOMAIN active)
      BY <2>3, <2>5 DEF SameBooks
    <2>7. w \in DOMAIN m /\ m[w].idle
      <3>1. w \in IdleMembers
        BY <2>1, <1>3
      <3>2. k > k - 1
        BY <1>2
      <3> QED
        BY <3>1, <3>2, <2>1, <2>5, <2>6 DEF IdleMembers
    <2>8. /\ Coordinated(m1, q1, a1) /\ DOMAIN m1 = DOMAIN m
          /\ Assign(c, w) = [members |-> m1, queue |-> q1, active |-> a1]
          /\ \A v \in DOMAIN m : v # w => m1[v] = m[v]
          /\ \A j \in Job : Queued(q1, j) \/ j \in DOMAIN a1 <=> Queued(q, j) \/ j \in DOMAIN a
      BY <2>4, <2>6, <2>7, AssignKeeps
    <2>9. d.members = m1 /\ d.queue = q1 /\ d.active = a1 /\ d = [members |-> m1, queue |-> q1, active |-> a1]
      BY <2>2, <2>8
    <2>10. SameBooks(d)
      BY <2>6, <2>8, <2>9 DEF SameBooks
    <2>11. ASSUME NEW i \in 1 .. n, i > k PROVE d.members[order[i]].idle
      <3>1. i # k /\ i > k - 1
        BY <2>11, <1>2
      <3>2. order[i] # w /\ order[i] \in DOMAIN m
        BY <3>1, <1>3, <2>1, <2>6 DEF IdleMembers
      <3> QED
        BY <3>1, <3>2, <2>5, <2>8, <2>9
    <2> QED
      BY <2>1, <2>10, <2>11
  <1>8. Good(n)
    <2> HIDE DEF Good
    <2> DEFINE Bad == {k \in 0 .. n : ~Good(k)}
    <2> SUFFICES ASSUME Bad # {} PROVE FALSE
      BY <1>2
    <2>1. PICK k \in Bad : \A i \in Bad : k <= i
      <3>1. Bad \in SUBSET Nat
        BY <1>2
      <3> HIDE DEF Bad
      <3> QED
        BY <3>1, LeastOf
    <2>2. k \in 0 .. n /\ ~Good(k) /\ k # 0
      BY <1>6
    <2>3. k \in 1 .. n /\ k - 1 \in 0 .. n /\ ~(k <= k - 1)
      BY <2>2, <1>2
    <2>4. Good(k - 1)
      BY <2>1, <2>3
    <2> QED
      BY <2>2, <2>3, <2>4, <1>7
  <1> QED
    BY <1>5, <1>8

(* schedule() keeps the invariant. *)
LEMMA ScheduleKeeps ==
    ASSUME SwarmInv, Schedule
    PROVE  SwarmInv'
  <1>1. PICK order \in SetToSeqs(IdleMembers) :
           /\ members' = Scheduled(order).members /\ queue' = Scheduled(order).queue
           /\ active' = Scheduled(order).active
    BY DEF Schedule
  <1>2. UNCHANGED <<finished, phase, seen>>
    BY DEF Schedule
  <1>3. PICK c, m, q, a : c = Scheduled(order) /\ m = c.members /\ q = c.queue /\ a = c.active
    OBVIOUS
  <1>4. SameBooks(c)
    BY <1>1, <1>3, ScheduledKeeps
  <1>5. /\ Coordinated(m, q, a) /\ DOMAIN m = DOMAIN members
        /\ \A j \in Job : (Queued(q, j) \/ j \in DOMAIN a) <=> (Queued(queue, j) \/ j \in DOMAIN active)
    BY <1>3, <1>4 DEF SameBooks
  <1>6. members' = m /\ queue' = q /\ active' = a
    BY <1>1, <1>3
  <1>7. Kept(q, a, finished, seen)
    <2> HIDE DEF Queued
    <2> QED
      BY <1>5 DEF SwarmInv, Kept
  <1> QED
    BY <1>2, <1>5, <1>6, <1>7 DEF SwarmInv

(* An agent registers. *)
LEMMA EnrolKeeps ==
    ASSUME SwarmInv, NEW w \in Worker, Register(w)
    PROVE  SwarmInv'
  <1>1. PICK m, e : m = members' /\ e = [idle |-> TRUE, tasks |-> <<>>]
    OBVIOUS
  <1>2. /\ w \notin seen /\ seen' = seen \cup {w} /\ UNCHANGED <<queue, active, finished>>
        /\ m = [v \in DOMAIN members \cup {w} |-> IF v = w THEN e ELSE members[v]]
    BY <1>1 DEF Register
  <1>3. w \notin DOMAIN members /\ w \notin Job
    BY <1>2, SwarmAssumption DEF SwarmInv, Job
  <1>4. DOMAIN m = DOMAIN members \cup {w} /\ m[w] = e /\ \A v \in DOMAIN members : m[v] = members[v]
    BY <1>2, <1>3
  <1>5. DOMAIN e = {"idle", "tasks"} /\ e.idle /\ e.idle \in BOOLEAN /\ e.tasks \in Seq(Job) /\ Len(e.tasks) = 0
    BY <1>1
  <1>6. Agents(m)
    BY <1>4, <1>5 DEF SwarmInv, Coordinated, Agents
  <1>7. /\ \A j : ~HasTask(m, w, j)
        /\ \A v \in DOMAIN members : \A j : HasTask(m, v, j) <=> HasTask(members, v, j)
    BY <1>4, <1>5 DEF HasTask
  <1>8. Assigned(m, queue, active)
    <2> HIDE DEF HasTask, Queued
    <2> QED
      BY <1>4, <1>7 DEF SwarmInv, Coordinated, Assigned
  <1>9. Kept(queue, active, finished, seen \cup {w})
    <2> HIDE DEF Queued
    <2> QED
      BY <1>3 DEF SwarmInv, Kept
  <1>10. IsFiniteSet(DOMAIN m)
    BY <1>4, FS_AddElement DEF SwarmInv
  <1> QED
    BY <1>1, <1>2, <1>4, <1>6, <1>8, <1>9, <1>10 DEF SwarmInv, Coordinated

(* A task is submitted. *)
LEMMA SubmitKeeps ==
    ASSUME SwarmInv, NEW j \in Job, Submit(j)
    PROVE  SwarmInv'
  <1>1. PICK q, r : q = queue /\ r = queue'
    OBVIOUS
  <1>2. /\ j \notin seen /\ seen' = seen \cup {j} /\ UNCHANGED <<members, active, finished>>
        /\ r = Append(q, j) /\ q \in Seq(Job)
    BY <1>1 DEF Submit, SwarmInv, Coordinated
  <1>3. ~Queued(q, j) /\ j \notin DOMAIN active
    BY <1>1, <1>2 DEF SwarmInv, Kept
  <1>4. PICK n : n = Len(q)
    OBVIOUS
  <1>5. /\ n \in Nat /\ r \in Seq(Job) /\ Len(r) = n + 1 /\ r[n + 1] = j
        /\ \A i \in 1 .. n : r[i] = q[i]
    BY <1>2, <1>4
  <1>6. \A i : i \in 1 .. n + 1 <=> i \in 1 .. n \/ i = n + 1
    BY <1>5
  <1>7. \A k : Queued(r, k) <=> Queued(q, k) \/ k = j
    BY <1>4, <1>5, <1>6 DEF Queued
  <1>8. Distinct(r)
    <2>1. Distinct(q)
      BY <1>1 DEF SwarmInv, Coordinated
    <2> SUFFICES ASSUME NEW i \in 1 .. n + 1, NEW k \in 1 .. n + 1, r[i] = r[k] PROVE i = k
      BY <1>5 DEF Distinct
    <2>2. (i \in 1 .. n \/ i = n + 1) /\ (k \in 1 .. n \/ k = n + 1)
      BY <1>6
    <2>3. \A l \in 1 .. n : q[l] # j
      BY <1>3, <1>4 DEF Queued
    <2> QED
      BY <2>1, <2>2, <2>3, <1>4, <1>5 DEF Distinct
  <1>9. Assigned(members, r, active)
    <2> HIDE DEF HasTask, Queued
    <2> QED
      BY <1>1, <1>3, <1>7 DEF SwarmInv, Coordinated, Assigned
  <1>10. Kept(r, active, finished, seen \cup {j})
    <2> HIDE DEF Queued
    <2> QED
      BY <1>1, <1>7 DEF SwarmInv, Kept
  <1>11. DOMAIN members \subseteq seen \cup {j}
    BY DEF SwarmInv
  <1> QED
    BY <1>1, <1>2, <1>5, <1>8, <1>9, <1>10, <1>11 DEF SwarmInv, Coordinated

(* The task of an agent that leaves goes to the front of the queue. *)
LEMMA UnregisterKeeps ==
    ASSUME SwarmInv, NEW w \in Worker, Unregister(w)
    PROVE  SwarmInv'
  <1>1. PICK m, q, a : m = members /\ q = queue /\ a = active
    OBVIOUS
  <1>2. PICK m1, q1, a1 : m1 = members' /\ q1 = queue' /\ a1 = active'
    OBVIOUS
  <1>3. PICK own, left, back : /\ own = m[w].tasks /\ left = Retained(own, DOMAIN a) /\ back = Reverse(left)
    OBVIOUS
  <1>4. /\ w \in DOMAIN m /\ q1 = back \o q /\ UNCHANGED <<finished, phase, seen>>
        /\ a1 = [j \in DOMAIN a |-> IF j \in ToSet(left) THEN Nobody ELSE a[j]]
        /\ m1 = [v \in DOMAIN m \ {w} |-> m[v]]
    BY <1>1, <1>2, <1>3 DEF Unregister
  <1>5. /\ Agents(m) /\ q \in Seq(Job) /\ Distinct(q) /\ Assigned(m, q, a)
        /\ IsFiniteSet(DOMAIN m) /\ DOMAIN m \subseteq seen /\ finished \in Seq(Job)
        /\ Kept(q, a, finished, seen)
    BY <1>1 DEF SwarmInv, Coordinated
  <1>6. /\ own \in Seq(Job) /\ m[w].idle \in BOOLEAN
        /\ m[w].idle => Len(own) = 0
        /\ ~m[w].idle => Len(own) = 1
    BY <1>3, <1>4, <1>5 DEF Agents
  <1>7. left \in Seq(Job) /\ Keeps(own, DOMAIN a, left)
    BY <1>3, <1>6, RetainedIs
  <1>8. /\ back = [i \in 1 .. Len(left) |-> left[(Len(left) - i) + 1]]
    BY <1>3 DEF Reverse
  <1>9. DOMAIN m1 = DOMAIN m \ {w} /\ \A v \in DOMAIN m : v # w => m1[v] = m[v]
    BY <1>4
  <1>10. Agents(m1) /\ IsFiniteSet(DOMAIN m1) /\ DOMAIN m1 \subseteq seen
    BY <1>5, <1>9, FS_Subset DEF Agents
  <1>11. \A v \in DOMAIN m : v # w => \A j : HasTask(m1, v, j) <=> HasTask(m, v, j)
    BY <1>9 DEF HasTask
  <1>12. CASE m[w].idle
    <2>1. Len(left) = 0
      BY <1>6, <1>7, <1>12 DEF Keeps
    <2>2. back = <<>> /\ ToSet(left) = {}
      BY <2>1, <1>7, <1>8 DEF ToSet
    <2>3. q1 = q /\ DOMAIN a1 = DOMAIN a /\ \A j \in DOMAIN a : a1[j] = a[j]
      BY <2>2, <1>4, <1>5
    <2>4. \A j : ~HasTask(m, w, j)
      BY <1>3, <1>6, <1>12 DEF HasTask
    <2>5. Assigned(m1, q1, a1)
      <3> HIDE DEF HasTask, Queued
      <3> QED
        BY <2>3, <2>4, <1>5, <1>9, <1>11 DEF Assigned
    <2>6. Kept(q1, a1, finished, seen)
      BY <2>3, <1>5 DEF Kept
    <2> QED
      BY <2>3, <2>5, <2>6, <1>2, <1>4, <1>5, <1>10 DEF SwarmInv, Coordinated
  <1>13. CASE ~m[w].idle
    <2>1. PICK j : j = own[1]
      OBVIOUS
    <2>2. j \in Job /\ Len(own) = 1 /\ HasTask(m, w, j) /\ \A k : HasTask(m, w, k) => k = j
      BY <2>1, <1>3, <1>6, <1>13 DEF HasTask
    <2>3. j \in DOMAIN a /\ a[j] = w /\ ~Queued(q, j)
      BY <2>2, <1>4, <1>5 DEF Assigned
    <2>4. Len(left) = 1 /\ left[1] = j
      <3>1. 1 \in 1 .. Len(own) /\ Len(left) \in Nat
        BY <2>2, <1>7
      <3>2. PICK i \in 1 .. Len(left) : left[i] = j
        BY <3>1, <2>1, <2>3, <1>7 DEF Keeps
      <3>3. Len(left) <= 1
        BY <2>2, <1>7 DEF Keeps
      <3>4. PICK l : l = Len(left)
        OBVIOUS
      <3>5. l \in Nat /\ i \in 1 .. l /\ l <= 1
        BY ONLY <3>1, <3>3, <3>4, i \in 1 .. Len(left)
      <3>6. l = 1 /\ i = 1
        BY ONLY <3>5
      <3> QED
        BY <3>2, <3>4, <3>6
    <2>5. back \in Seq(Job) /\ Len(back) = 1 /\ back[1] = j
      <3>1. back = [i \in 1 .. 1 |-> left[(1 - i) + 1]]
        BY <2>4, <1>8
      <3>2. back = [i \in 1 .. 1 |-> back[i]] /\ back[1] = j /\ \A i \in 1 .. 1 : back[i] \in Job
        BY <3>1, <2>2, <2>4
      <3> QED
        BY <3>2, SeqFromElements
    <2>6. \A k : k \in ToSet(left) <=> k = j
      <3>1. DOMAIN left = 1 .. 1
        BY <2>4, <1>7
      <3> QED
        BY <3>1, <2>4 DEF ToSet
    <2>7. DOMAIN a1 = DOMAIN a /\ a1[j] = Nobody /\ \A k \in DOMAIN a : k # j => a1[k] = a[k]
      BY <2>3, <2>6, <1>4
    <2>8. PICK n : n = Len(q)
      OBVIOUS
    <2>9. /\ n \in Nat /\ q1 \in Seq(Job) /\ Len(q1) = n + 1 /\ q1[1] = j
          /\ \A i \in 1 .. n : q1[1 + i] = q[i]
      <3>1. /\ q1 \in Seq(Job) /\ Len(q) \in Nat /\ Len(q1) = Len(back) + Len(q)
            /\ \A i \in 1 .. Len(back) : q1[i] = back[i]
            /\ \A i \in 1 .. Len(q) : q1[Len(back) + i] = q[i]
        <4>1. back \in Seq(Job) /\ q \in Seq(Job) /\ q1 = back \o q
          BY <2>5, <1>4, <1>5
        <4> QED
          BY ONLY <4>1, Joined
      <3> QED
        BY <3>1, <2>5, <2>8
    <2>10. ASSUME NEW i \in 1 .. n + 1, i # 1 PROVE i - 1 \in 1 .. n /\ q1[i] = q[i - 1]
      <3>1. i - 1 \in 1 .. n /\ 1 + (i - 1) = i
        BY <2>9, <2>10
      <3>2. q1[1 + (i - 1)] = q[i - 1]
        BY <3>1, <2>9
      <3> QED
        BY <3>1, <3>2
    <2>11. \A k : Queued(q1, k) <=> Queued(q, k) \/ k = j
      <3> SUFFICES ASSUME NEW k PROVE Queued(q1, k) <=> Queued(q, k) \/ k = j
        OBVIOUS
      <3>1. ASSUME Queued(q1, k) PROVE Queued(q, k) \/ k = j
        <4>1. PICK i \in 1 .. n + 1 : q1[i] = k
          BY <3>1, <2>9 DEF Queued
        <4> QED
          BY <4>1, <2>8, <2>9, <2>10 DEF Queued
      <3>2. ASSUME Queued(q, k) PROVE Queued(q1, k)
        <4>1. PICK i \in 1 .. n : q[i] = k
          BY <3>2, <2>8 DEF Queued
        <4>2. 1 + i \in 1 .. Len(q1) /\ q1[1 + i] = k
          BY <4>1, <2>9
        <4> QED
          BY <4>2 DEF Queued
      <3>3. Queued(q1, j)
        <4>1. 1 \in 1 .. Len(q1)
          BY <2>9
        <4> QED
          BY <4>1, <2>9 DEF Queued
      <3> QED
        BY <3>1, <3>2, <3>3
    <2>12. Distinct(q1)
      <3> SUFFICES ASSUME NEW i \in 1 .. n + 1, NEW k \in 1 .. n + 1, q1[i] = q1[k] PROVE i = k
        BY <2>9 DEF Distinct
      <3>1. \A l \in 1 .. n : q[l] # j
        BY <2>3, <2>8 DEF Queued
      <3>2. CASE i = 1 \/ k = 1
        BY <3>1, <3>2, <2>9, <2>10
      <3>3. CASE i # 1 /\ k # 1
        <4>1. i - 1 \in 1 .. n /\ k - 1 \in 1 .. n /\ q[i - 1] = q[k - 1]
          BY <3>3, <2>10
        <4>2. i - 1 = k - 1
          BY <4>1, <2>8, <1>5 DEF Distinct
        <4> QED
          BY <4>2
      <3> QED
        BY <3>2, <3>3
    <2>13. Assigned(m1, q1, a1)
      <3> HIDE DEF HasTask, Queued
      <3>1. /\ DOMAIN a \subseteq Job
            /\ \A v \in DOMAIN m : \A k \in Job : HasTask(m, v, k) => k \in DOMAIN a /\ a[k] = v /\ ~Queued(q, k)
            /\ \A k \in DOMAIN a : \/ a[k] = Nobody /\ Queued(q, k)
                                   \/ a[k] \in DOMAIN m /\ HasTask(m, a[k], k)
        BY <1>5 DEF Assigned
      <3>2. ASSUME NEW v \in DOMAIN m1, NEW k \in Job, HasTask(m1, v, k)
            PROVE  k \in DOMAIN a1 /\ a1[k] = v /\ ~Queued(q1, k)
        <4>1. v \in DOMAIN m /\ v # w /\ HasTask(m, v, k)
          BY <3>2, <1>9, <1>11
        <4>2. k \in DOMAIN a /\ a[k] = v /\ ~Queued(q, k)
          BY <4>1, <3>1
        <4>3. k # j
          BY <4>1, <4>2, <2>3
        <4> QED
          BY <4>2, <4>3, <2>7, <2>11
      <3>3. ASSUME NEW k \in DOMAIN a1
            PROVE  \/ a1[k] = Nobody /\ Queued(q1, k)
                   \/ a1[k] \in DOMAIN m1 /\ HasTask(m1, a1[k], k)
        <4>1. CASE k = j
          BY <4>1, <2>7, <2>11
        <4>2. CASE k # j
          <5>1. k \in DOMAIN a /\ a1[k] = a[k]
            BY <4>2, <2>7
          <5>2. CASE a[k] = Nobody /\ Queued(q, k)
            BY <5>1, <5>2, <2>11
          <5>3. CASE a[k] \in DOMAIN m /\ HasTask(m, a[k], k)
            <6>1. a[k] # w
              BY <5>3, <4>2, <2>2
            <6> QED
              BY <6>1, <5>1, <5>3, <1>9, <1>11
          <5> QED
            BY <5>1, <5>2, <5>3, <3>1
        <4> QED
          BY <4>1, <4>2
      <3>4. DOMAIN a1 \subseteq Job
        BY <3>1, <2>7
      <3> QED
        BY <3>2, <3>3, <3>4 DEF Assigned
    <2>14. Kept(q1, a1, finished, seen)
      <3> HIDE DEF Queued
      <3> QED
        BY <2>3, <2>7, <2>11, <1>5 DEF Kept
    <2> QED
      BY <2>9, <2>12, <2>13, <2>14, <1>2, <1>4, <1>5, <1>10 DEF SwarmInv, Coordinated
  <1> QED
    BY <1>6, <1>12, <1>13

(* A report on a task that is with nobody finishes what is still queued.     *)
LEMMA CompleteKeeps ==
    ASSUME SwarmInv, NEW j \in Job, Complete(j)
    PROVE  SwarmInv'
  <1>1. PICK m, q, a : m = members /\ q = queue /\ a = active
    OBVIOUS
  <1>2. PICK m1, a1, f1 : m1 = members' /\ a1 = active' /\ f1 = finished'
    OBVIOUS
  <1>3. /\ j \in DOMAIN a /\ UNCHANGED <<queue, phase, seen>>
        /\ a1 = [k \in DOMAIN a \ {j} |-> a[k]] /\ f1 = Append(finished, j)
        /\ m1 = [w \in DOMAIN m |-> IF w # a[j] THEN m[w]
                    ELSE [idle |-> TRUE, tasks |-> Retained(m[w].tasks, Job \ {j})]]
    BY <1>1, <1>2 DEF Complete
  <1>4. /\ Agents(m) /\ q \in Seq(Job) /\ Distinct(q) /\ Assigned(m, q, a)
        /\ IsFiniteSet(DOMAIN m) /\ DOMAIN m \subseteq seen /\ finished \in Seq(Job)
        /\ Kept(q, a, finished, seen)
    BY <1>1 DEF SwarmInv, Coordinated
  <1>5. DOMAIN a1 = DOMAIN a \ {j} /\ \A k \in DOMAIN a : k # j => a1[k] = a[k]
    BY <1>3
  <1>6. DOMAIN m1 = DOMAIN m /\ \A w \in DOMAIN m : w # a[j] => m1[w] = m[w]
    BY <1>3
  <1>7. f1 \in Seq(Job) /\ \A k : Queued(f1, k) <=> Queued(finished, k) \/ k = j
    <2>1. PICK f, n : f = finished /\ n = Len(f)
      OBVIOUS
    <2>2. f \in Seq(Job) /\ f1 = Append(f, j)
      BY <2>1, <1>3, <1>4
    <2>3. /\ n \in Nat /\ f1 \in Seq(Job) /\ Len(f1) = n + 1 /\ f1[n + 1] = j
          /\ \A i \in 1 .. n : f1[i] = f[i]
      BY <2>1, <2>2
    <2>4. \A i : i \in 1 .. n + 1 <=> i \in 1 .. n \/ i = n + 1
      BY <2>3
    <2> QED
      BY <2>1, <2>3, <2>4 DEF Queued
  <1>8. ASSUME NEW w \in DOMAIN m, w = a[j]
        PROVE  /\ DOMAIN m1[w] = {"idle", "tasks"} /\ m1[w].idle /\ m1[w].idle \in BOOLEAN
               /\ m1[w].tasks \in Seq(Job) /\ Len(m1[w].tasks) = 0
    <2>1. PICK own, left : own = m[w].tasks /\ left = Retained(own, Job \ {j})
      OBVIOUS
    <2>2. own \in Seq(Job)
      BY <2>1, <1>4 DEF Agents
    <2>3. left \in Seq(Job) /\ Keeps(own, Job \ {j}, left)
      BY <2>1, <2>2, RetainedIs
    <2>4. HasTask(m, w, j)
      <3>1. w # Nobody
        BY <1>4, SwarmAssumption DEF Agents
      <3> QED
        BY <3>1, <1>3, <1>4, <1>8 DEF Assigned
    <2>5. Len(own) = 1 /\ own[1] = j
      BY <2>1, <2>4 DEF HasTask
    <2>6. PICK l : l = Len(left)
      OBVIOUS
    <2>7. l \in Nat /\ l <= 1
      BY <2>3, <2>5, <2>6 DEF Keeps
    <2>8. l # 1
      <3> SUFFICES ASSUME l = 1 PROVE FALSE
        OBVIOUS
      <3>1. 1 \in 1 .. Len(left)
        <4>1. 1 \in 1 .. l
          BY ONLY l = 1
        <4> QED
          BY <4>1, <2>6
      <3>2. left[1] \in Job \ {j} /\ \E i \in 1 .. Len(own) : own[i] = left[1]
        BY <3>1, <2>3 DEF Keeps
      <3> QED
        BY <3>2, <2>5
    <2>9. Len(left) = 0
      BY <2>6, <2>7, <2>8
    <2>10. m1[w] = [idle |-> TRUE, tasks |-> left]
      BY <2>1, <1>3, <1>8
    <2> QED
      BY <2>3, <2>9, <2>10
  <1>9. Agents(m1)
    <2>1. ASSUME NEW w \in DOMAIN m
          PROVE  /\ DOMAIN m1[w] = {"idle", "tasks"} /\ m1[w].idle \in BOOLEAN
                 /\ m1[w].tasks \in Seq(Job)
                 /\ m1[w].idle => Len(m1[w].tasks) = 0
                 /\ ~m1[w].idle => Len(m1[w].tasks) = 1
      BY <1>4, <1>6, <1>8 DEF Agents
    <2> QED
      BY <2>1, <1>4, <1>6 DEF Agents
  <1>10. \A w \in DOMAIN m : w # a[j] => \A k : HasTask(m1, w, k) <=> HasTask(m, w, k)
    BY <1>6 DEF HasTask
  <1>11. \A w \in DOMAIN m : w = a[j] => \A k : ~HasTask(m1, w, k)
    BY <1>8 DEF HasTask
  <1>12. \A w \in DOMAIN m : w = a[j] => \A k \in Job : HasTask(m, w, k) => k = j
    <2> SUFFICES ASSUME NEW w \in DOMAIN m, w = a[j], NEW k \in Job, HasTask(m, w, k) PROVE k = j
      OBVIOUS
    <2>1. w # Nobody
      BY <1>4, SwarmAssumption DEF Agents
    <2>2. HasTask(m, w, j)
      BY <2>1, <1>3, <1>4 DEF Assigned
    <2> QED
      BY <2>2 DEF HasTask
  <1>13. Assigned(m1, q, a1)
    <2> HIDE DEF HasTask, Queued
    <2>1. /\ DOMAIN a \subseteq Job
          /\ \A v \in DOMAIN m : \A k \in Job : HasTask(m, v, k) => k \in DOMAIN a /\ a[k] = v /\ ~Queued(q, k)
          /\ \A k \in DOMAIN a : \/ a[k] = Nobody /\ Queued(q, k)
                                 \/ a[k] \in DOMAIN m /\ HasTask(m, a[k], k)
      BY <1>4 DEF Assigned
    <2>2. ASSUME NEW v \in DOMAIN m1, NEW k \in Job, HasTask(m1, v, k)
          PROVE  k \in DOMAIN a1 /\ a1[k] = v /\ ~Queued(q, k)
      <3>1. v \in DOMAIN m /\ v # a[j] /\ HasTask(m, v, k)
        BY <2>2, <1>6, <1>10, <1>11
      <3>2. k \in DOMAIN a /\ a[k] = v /\ ~Queued(q, k)
        BY <3>1, <2>1
      <3> QED
        BY <3>1, <3>2, <1>5
    <2>3. ASSUME NEW k \in DOMAIN a1
          PROVE  \/ a1[k] = Nobody /\ Queued(q, k)
                 \/ a1[k] \in DOMAIN m1 /\ HasTask(m1, a1[k], k)
      <3>1. k \in DOMAIN a /\ k # j /\ k \in Job /\ a1[k] = a[k]
        BY <2>1, <1>5
      <3>2. CASE a[k] = Nobody /\ Queued(q, k)
        BY <3>1, <3>2
      <3>3. CASE a[k] \in DOMAIN m /\ HasTask(m, a[k], k)
        <4>1. a[k] # a[j]
          BY <3>1, <3>3, <1>12
        <4> QED
          BY <4>1, <3>1, <3>3, <1>6, <1>10
      <3> QED
        BY <3>1, <3>2, <3>3, <2>1
    <2>4. DOMAIN a1 \subseteq Job
      BY <2>1, <1>5
    <2> QED
      BY <2>2, <2>3, <2>4 DEF Assigned
  <1>14. Kept(q, a1, f1, seen)
    <2> HIDE DEF Queued
    <2> QED
      BY <1>4, <1>5, <1>7 DEF Kept
  <1> QED
    BY <1>1, <1>2, <1>3, <1>4, <1>6, <1>7, <1>9, <1>13, <1>14 DEF SwarmInv, Coordinated

(* However agents come and go and whenever reports arrive, no task is lost, *)
(* none is with two agents, queued twice, or queued while an agent has it.  *)
THEOREM SwarmIsSoundAlways == SwarmSpec => []SwarmIsSound
  <1>1. SwarmInit => SwarmInv
    <2> SUFFICES ASSUME SwarmInit PROVE SwarmInv
      OBVIOUS
    <2>1. DOMAIN members = {} /\ DOMAIN active = {} /\ Len(queue) = 0 /\ queue \in Seq(Job) /\ finished \in Seq(Job)
      BY DEF SwarmInit
    <2> QED
      BY <2>1, FS_EmptySet DEF SwarmInit, SwarmInv, Coordinated, Agents, Assigned, Distinct, Kept, Queued
  <1>2. SwarmInv /\ [SwarmNext]_swarmVars => SwarmInv'
    <2> SUFFICES ASSUME SwarmInv, [SwarmNext]_swarmVars PROVE SwarmInv'
      OBVIOUS
    <2>1. ASSUME NEW w \in Worker, Register(w) \/ Unregister(w) PROVE SwarmInv'
      BY <2>1, EnrolKeeps, UnregisterKeeps
    <2>2. ASSUME NEW j \in Job, Submit(j) \/ Complete(j) PROVE SwarmInv'
      BY <2>2, SubmitKeeps, CompleteKeeps
    <2>3. CASE Schedule
      BY <2>3, ScheduleKeeps
    <2>4. CASE UNCHANGED <<members, queue, active, finished, seen>>
      BY <2>4 DEF SwarmInv
    <2> QED
      BY <2>1, <2>2, <2>3, <2>4 DEF SwarmNext, SetPhase, swarmVars
  <1>3. SwarmInv => SwarmIsSound
    <2> SUFFICES ASSUME SwarmInv PROVE SwarmIsSound
      OBVIOUS
    <2>1. /\ Agents(members) /\ queue \in Seq(Job) /\ Distinct(queue) /\ Assigned(members, queue, active)
          /\ finished \in Seq(Job) /\ Kept(queue, active, finished, seen)
      BY DEF SwarmInv, Coordinated
    <2>2. \A q \in Seq(Job) : \A j : j \in ToSet(q) <=> Queued(q, j)
      BY DEF ToSet, Queued
    <2>3. \A w \in DOMAIN members : \A j : j \in Has(w) => j \in Job /\ HasTask(members, w, j)
      <3> SUFFICES ASSUME NEW w \in DOMAIN members, NEW j, j \in Has(w) PROVE j \in Job /\ HasTask(members, w, j)
        OBVIOUS
      <3>1. PICK own : own = members[w].tasks
        OBVIOUS
      <3>2. /\ own \in Seq(Job) /\ (Len(own) = 0 \/ Len(own) = 1)
        BY <3>1, <2>1 DEF Agents
      <3>3. PICK i \in 1 .. Len(own) : own[i] = j
        BY <3>1, <3>2 DEF Has, ToSet
      <3>4. Len(own) = 1 /\ i = 1
        BY <3>2, <3>3
      <3> QED
        BY <3>1, <3>2, <3>3, <3>4 DEF HasTask
    <2> HIDE DEF HasTask, Queued
    <2>4. \A w \in DOMAIN members : \A j \in Has(w) : j \in DOMAIN active /\ active[j] = w /\ ~Queued(queue, j)
      BY <2>1, <2>3 DEF Assigned
    <2>5. ASSUME NEW j \in Job
          PROVE  Cardinality(Holders(j)) <= 1 /\ (j \in ToSet(queue) => Holders(j) = {})
      <3>1. \A v, w \in Holders(j) : v = w
        BY <2>4 DEF Holders
      <3>2. Holders(j) = {} \/ \E w : Holders(j) = {w}
        BY <3>1
      <3>3. Cardinality(Holders(j)) <= 1
        <4>1. PICK H : H = Holders(j)
          OBVIOUS
        <4>2. CASE H = {}
          <5>1. Cardinality({}) = 0
            BY FS_EmptySet
          <5> QED
            BY <5>1, <4>1, <4>2
        <4>3. ASSUME NEW w, H = {w} PROVE Cardinality(H) <= 1
          <5>1. Cardinality({w}) = 1
            BY FS_Singleton
          <5> QED
            BY <5>1, <4>3
        <4> QED
          BY <3>2, <4>1, <4>2, <4>3
      <3> QED
        BY <3>3, <2>1, <2>2, <2>4 DEF Holders
    <2>6. \A w \in DOMAIN members : Len(members[w].tasks) = IF members[w].idle THEN 0 ELSE 1
      BY <2>1 DEF Agents
    <2>7. IsInjective(queue)
      BY <2>1 DEF IsInjective, Distinct
    <2>8. \A j \in seen \cap Job : j \in ToSet(queue) \cup DOMAIN active \cup ToSet(finished)
      BY <2>1, <2>2 DEF Kept
    <2>9. \A j \in DOMAIN active : active[j] = Nobody => j \in ToSet(queue)
      <3>1. Nobody \notin DOMAIN members
        BY <2>1, SwarmAssumption DEF Agents
      <3> QED
        BY <3>1, <2>1, <2>2 DEF Assigned
    <2> QED
      BY <2>4, <2>5, <2>6, <2>7, <2>8, <2>9 DEF SwarmIsSound
  <1> QED
    BY <1>1, <1>2, <1>3, PTL DEF SwarmSpec

-----------------------------------------------------------------------------
(* Sums.                                                                     *)

Terms(a, n) == \A i \in 1 .. n : a[i] \in Nat

(* u has the sums of the first terms of a. *)
Sums(u, a, n) ==
    /\ u[0] = 0
    /\ \A k \in 1 .. n : u[k] = u[k - 1] + a[k]
    /\ \A k \in 0 .. n : u[k] \in Nat

(* The terms are added one after the other. *)
LEMMA TotalSteps ==
    ASSUME NEW n \in Nat, NEW a, Terms(a, n)
    PROVE  \E u : Sums(u, a, n) /\ Total(a, n) = u[n]
  <1> DEFINE Runs(f, m) == f = [k \in 0 .. m |-> IF k = 0 THEN 0 ELSE f[k - 1] + a[k]]
  <1>1. \A m \in Nat : \E f : Runs(f, m)
    <2> SUFFICES ASSUME NEW j \in Nat, ~\E f : Runs(f, j) PROVE FALSE
      OBVIOUS
    <2> DEFINE Bad == {m \in Nat : ~\E f : Runs(f, m)}
    <2>1. PICK m \in Bad : \A i \in Bad : m <= i
      <3>1. Bad \in SUBSET Nat /\ Bad # {}
        OBVIOUS
      <3> HIDE DEF Bad
      <3> QED
        BY <3>1, LeastOf
    <2>2. CASE m = 0
      <3> DEFINE f == [k \in 0 .. 0 |-> 0]
      <3>1. f = [k \in 0 .. 0 |-> IF k = 0 THEN 0 ELSE f[k - 1] + a[k]]
        OBVIOUS
      <3> QED
        BY <3>1, <2>2
    <2>3. CASE m > 0
      <3>1. m - 1 \in Nat /\ m \in Nat
        BY <2>3
      <3> HIDE DEF Runs
      <3>2. \E f : Runs(f, m - 1)
        <4>1. m - 1 \notin Bad
          BY <2>1, <3>1
        <4> QED
          BY <4>1, <3>1
      <3>3. PICK f : Runs(f, m - 1)
        BY <3>2
      <3>4. PICK x : x = f[m - 1] + a[m]
        OBVIOUS
      <3>5. PICK l : l = [k \in 0 .. m |-> IF k = m THEN x ELSE f[k]]
        OBVIOUS
      <3>6. \A k \in 0 .. m - 1 : f[k] = IF k = 0 THEN 0 ELSE f[k - 1] + a[k]
        BY <3>3 DEF Runs
      <3>7. l[m] = x /\ \A k \in 0 .. m - 1 : l[k] = f[k]
        BY <3>1, <3>5
      <3>8. l[m] = l[m - 1] + a[m]
        <4>1. l[m - 1] = f[m - 1]
          BY <3>1, <3>7
        <4> QED
          BY <4>1, <3>4, <3>7
      <3>9. \A k \in 0 .. m : l[k] = IF k = 0 THEN 0 ELSE l[k - 1] + a[k]
        <4> SUFFICES ASSUME NEW k \in 0 .. m
                     PROVE  l[k] = IF k = 0 THEN 0 ELSE l[k - 1] + a[k]
          OBVIOUS
        <4>1. CASE k = m
          BY <4>1, <3>8, <2>3
        <4>2. CASE k = 0
          BY <4>2, <3>1, <3>6, <3>7
        <4>3. CASE k # m /\ k # 0
          <5>1. k \in 0 .. m - 1 /\ k - 1 \in 0 .. m - 1
            BY <4>3, <3>1
          <5>2. l[k] = f[k] /\ l[k - 1] = f[k - 1]
            BY <5>1, <3>7
          <5>3. f[k] = f[k - 1] + a[k]
            BY <5>1, <4>3, <3>6
          <5> QED
            BY <5>2, <5>3, <4>3
        <4> QED
          BY <4>1, <4>2, <4>3
      <3>10. l = [k \in 0 .. m |-> l[k]]
        BY <3>5
      <3>11. l = [k \in 0 .. m |-> IF k = 0 THEN 0 ELSE l[k - 1] + a[k]]
        BY <3>9, <3>10
      <3> QED
        BY <3>11, <2>1 DEF Runs
    <2> QED
      BY <2>1, <2>2, <2>3
  <1> DEFINE u == CHOOSE f : Runs(f, n)
  <1>2. Runs(u, n)
    BY <1>1
  <1>3. Total(a, n) = u[n]
    BY DEF Total
  <1>4. \A k \in 0 .. n : u[k] = IF k = 0 THEN 0 ELSE u[k - 1] + a[k]
    <2> HIDE DEF u
    <2> QED
      BY <1>2
  <1> HIDE DEF u
  <1>5. u[0] = 0 /\ \A k \in 1 .. n : u[k] = u[k - 1] + a[k]
    BY <1>4
  <1>6. \A k \in 0 .. n : u[k] \in Nat
    <2> SUFFICES ASSUME NEW j \in 0 .. n, u[j] \notin Nat PROVE FALSE
      OBVIOUS
    <2> DEFINE Bad == {k \in 0 .. n : u[k] \notin Nat}
    <2>1. PICK k \in Bad : \A i \in Bad : k <= i
      <3>1. Bad \in SUBSET Nat /\ Bad # {}
        OBVIOUS
      <3> HIDE DEF Bad
      <3> QED
        BY <3>1, LeastOf
    <2>2. k \in 1 .. n /\ k - 1 \in 0 .. n
      BY <2>1, <1>5
    <2>3. u[k - 1] \in Nat
      BY <2>1, <2>2
    <2>4. u[k] \in Nat
      BY <2>2, <2>3, <1>5 DEF Terms
    <2> QED
      BY <2>1, <2>4
  <1>7. Sums(u, a, n)
    BY <1>5, <1>6 DEF Sums
  <1> QED
    BY <1>3, <1>7

(* One term more. *)
LEMMA TotalLonger ==
    ASSUME NEW n \in Nat, NEW a, Terms(a, n),
           NEW b, \A i \in 1 .. n : b[i] = a[i], b[n + 1] \in Nat
    PROVE  Total(b, n + 1) = Total(a, n) + b[n + 1]
  <1>0. PICK u : Sums(u, a, n) /\ Total(a, n) = u[n]
    BY TotalSteps
  <1>1. u[0] = 0 /\ \A k \in 1 .. n : u[k] = u[k - 1] + a[k]
    BY <1>0 DEF Sums
  <1>2. PICK m : m = n + 1
    OBVIOUS
  <1>3. m \in Nat /\ Terms(b, m)
    BY <1>2 DEF Terms
  <1>40. PICK v : Sums(v, b, m) /\ Total(b, m) = v[m]
    BY <1>3, TotalSteps
  <1>4. v[0] = 0 /\ \A k \in 1 .. m : v[k] = v[k - 1] + b[k]
    BY <1>40 DEF Sums
  <1>5. \A k \in 0 .. n : v[k] = u[k]
    <2> SUFFICES ASSUME NEW j \in 0 .. n, v[j] # u[j] PROVE FALSE
      OBVIOUS
    <2> DEFINE Bad == {k \in 0 .. n : v[k] # u[k]}
    <2>1. PICK k \in Bad : \A i \in Bad : k <= i
      <3>1. Bad \in SUBSET Nat /\ Bad # {}
        OBVIOUS
      <3> HIDE DEF Bad
      <3> QED
        BY <3>1, LeastOf
    <2>2. k \in 1 .. n /\ k - 1 \in 0 .. n /\ k \in 1 .. m
      BY <2>1, <1>1, <1>2, <1>4
    <2>3. v[k - 1] = u[k - 1]
      BY <2>1, <2>2
    <2>4. v[k] = u[k]
      BY <2>2, <2>3, <1>1, <1>4
    <2> QED
      BY <2>1, <2>4
  <1>6. v[m] = v[n] + b[m]
    BY <1>2, <1>3, <1>4
  <1>7. v[n] = u[n]
    BY <1>5
  <1> QED
    BY <1>0, <1>2, <1>40, <1>6, <1>7

(* One term larger by d. *)
LEMMA TotalMoves ==
    ASSUME NEW n \in Nat, NEW a, Terms(a, n),
           NEW b, NEW j \in 1 .. n, NEW d \in Nat, b[j] = a[j] + d,
           \A i \in 1 .. n : i # j => b[i] = a[i]
    PROVE  Total(b, n) = Total(a, n) + d
  <1>0. PICK u : Sums(u, a, n) /\ Total(a, n) = u[n]
    BY TotalSteps
  <1>1. /\ u[0] = 0 /\ \A k \in 1 .. n : u[k] = u[k - 1] + a[k]
        /\ \A k \in 0 .. n : u[k] \in Nat
    BY <1>0 DEF Sums
  <1>2. Terms(b, n)
    BY DEF Terms
  <1>30. PICK v : Sums(v, b, n) /\ Total(b, n) = v[n]
    BY <1>2, TotalSteps
  <1>3. v[0] = 0 /\ \A k \in 1 .. n : v[k] = v[k - 1] + b[k]
    BY <1>30 DEF Sums
  <1> DEFINE Follows(k) == (k < j => v[k] = u[k]) /\ (k >= j => v[k] = u[k] + d)
  <1>4. \A k \in 0 .. n : Follows(k)
    <2> SUFFICES ASSUME NEW i \in 0 .. n, ~Follows(i) PROVE FALSE
      OBVIOUS
    <2> DEFINE Bad == {k \in 0 .. n : ~Follows(k)}
    <2>1. PICK k \in Bad : \A l \in Bad : k <= l
      <3>1. Bad \in SUBSET Nat /\ Bad # {}
        OBVIOUS
      <3> HIDE DEF Bad
      <3> QED
        BY <3>1, LeastOf
    <2>2. k \in 1 .. n /\ k - 1 \in 0 .. n
      BY <2>1, <1>1, <1>3
    <2>3. Follows(k - 1)
      BY <2>1, <2>2
    <2>4. v[k] = v[k - 1] + b[k] /\ u[k] = u[k - 1] + a[k] /\ u[k - 1] \in Nat /\ a[k] \in Nat
      BY <2>2, <1>1, <1>3 DEF Terms
    <2>5. CASE k < j
      BY <2>2, <2>3, <2>4, <2>5, <2>1
    <2>6. CASE k = j
      BY <2>2, <2>3, <2>4, <2>6, <2>1
    <2>7. CASE k > j
      BY <2>2, <2>3, <2>4, <2>7, <2>1
    <2> QED
      BY <2>2, <2>5, <2>6, <2>7
  <1>5. Follows(n)
    BY <1>4
  <1>6. v[n] = u[n] + d
    BY <1>5
  <1> QED
    BY <1>0, <1>30, <1>6

-----------------------------------------------------------------------------
(* The memory pool: every block of a slab is free, once, or out.             *)

Books(slab, out) ==
    /\ DOMAIN slab = {"capacity", "free", "allocated"}
    /\ slab.capacity \in Nat /\ slab.free \in Seq(Nat) /\ Distinct(slab.free)
    /\ IsFiniteSet(out) /\ slab.allocated = Cardinality(out)
    /\ \A x : Queued(slab.free, x) \/ x \in out <=> x \in 0 .. slab.capacity - 1
    /\ \A x \in out : ~Queued(slab.free, x)

Out(h, c, i) == {x \in Nat : <<c, i, x>> \in h}

(* A block that is taken is out. *)
LEMMA TakenBooks ==
    ASSUME NEW slab, NEW out, Books(slab, out), slab.free # <<>>,
           NEW x, x = Last(slab.free), NEW new, new = Taken(slab)
    PROVE  Books(new, out \cup {x}) /\ x \in Nat
  <1>1. PICK q, n : q = slab.free /\ n = Len(q)
    OBVIOUS
  <1>2. q \in Seq(Nat) /\ n \in Nat /\ n # 0 /\ Distinct(q)
    BY <1>1 DEF Books
  <1>3. PICK r : r = Front(q)
    OBVIOUS
  <1>4. r \in Seq(Nat) /\ Len(r) = n - 1 /\ \A i \in 1 .. n - 1 : r[i] = q[i]
    BY <1>1, <1>2, <1>3 DEF Front
  <1>5. x = q[n] /\ x \in Nat
    BY <1>1, <1>2 DEF Last
  <1>6. /\ DOMAIN new = {"capacity", "free", "allocated"} /\ new.free = r
        /\ new.capacity = slab.capacity /\ new.allocated = slab.allocated + 1
    BY <1>1, <1>3 DEF Taken, Books
  <1>7. \A i : i \in 1 .. n <=> i \in 1 .. n - 1 \/ i = n
    BY <1>2
  <1>8. /\ Distinct(r) /\ ~Queued(r, x)
        /\ \A y : Queued(q, y) <=> Queued(r, y) \/ y = x
    <2>1. \A i, k \in 1 .. n : q[i] = q[k] => i = k
      BY <1>1, <1>2 DEF Distinct
    <2>2. n \in 1 .. n /\ \A i \in 1 .. n - 1 : i \in 1 .. n /\ i # n
      BY <1>2
    <2>3. Distinct(r)
      BY <2>1, <2>2, <1>4 DEF Distinct
    <2>4. ~Queued(r, x)
      BY <2>1, <2>2, <1>4, <1>5 DEF Queued
    <2>5. \A y : Queued(q, y) <=> \E i \in 1 .. n : q[i] = y
      BY <1>1 DEF Queued
    <2>6. \A y : Queued(r, y) <=> \E i \in 1 .. n - 1 : q[i] = y
      BY <1>4 DEF Queued
    <2>7. \A y : Queued(q, y) <=> Queued(r, y) \/ y = x
      BY <2>2, <2>5, <2>6, <1>5, <1>7
    <2> QED
      BY <2>3, <2>4, <2>7
  <1>9. /\ IsFiniteSet(out) /\ slab.allocated = Cardinality(out) /\ x \notin out
        /\ \A y : Queued(q, y) \/ y \in out <=> y \in 0 .. slab.capacity - 1
        /\ \A y \in out : ~Queued(q, y)
    BY <1>1, <1>8 DEF Books
  <1>10. IsFiniteSet(out \cup {x}) /\ Cardinality(out \cup {x}) = Cardinality(out) + 1
    BY <1>9, FS_AddElement
  <1> HIDE DEF Queued, Distinct
  <1>11. \A y : Queued(r, y) \/ y \in out \cup {x} <=> y \in 0 .. slab.capacity - 1
    BY <1>8, <1>9
  <1>12. \A y \in out \cup {x} : ~Queued(r, y)
    BY <1>8, <1>9
  <1>13. slab.capacity \in Nat
    BY DEF Books
  <1> QED
    BY <1>4, <1>5, <1>6, <1>8, <1>9, <1>10, <1>11, <1>12, <1>13 DEF Books

(* A block that is given back is free. *)
LEMMA GivenBooks ==
    ASSUME NEW slab, NEW out, Books(slab, out), NEW x \in out, x \in Nat,
           NEW new, new = Given(slab, x)
    PROVE  Books(new, out \ {x})
  <1>1. PICK q, n : q = slab.free /\ n = Len(q)
    OBVIOUS
  <1>2. q \in Seq(Nat) /\ n \in Nat /\ Distinct(q) /\ ~Queued(q, x)
    BY <1>1 DEF Books
  <1>3. PICK r : r = Append(q, x)
    OBVIOUS
  <1>4. r \in Seq(Nat) /\ Len(r) = n + 1 /\ r[n + 1] = x /\ \A i \in 1 .. n : r[i] = q[i]
    BY <1>1, <1>2, <1>3
  <1>5. /\ DOMAIN new = {"capacity", "free", "allocated"} /\ new.free = r
        /\ new.capacity = slab.capacity /\ new.allocated = slab.allocated - 1
    BY <1>1, <1>3 DEF Given, Books
  <1>6. \A i : i \in 1 .. n + 1 <=> i \in 1 .. n \/ i = n + 1
    BY <1>2
  <1>7. \A y : Queued(r, y) <=> Queued(q, y) \/ y = x
    BY <1>1, <1>4, <1>6 DEF Queued
  <1>8. Distinct(r)
    <2> SUFFICES ASSUME NEW i \in 1 .. n + 1, NEW k \in 1 .. n + 1, r[i] = r[k] PROVE i = k
      BY <1>4 DEF Distinct
    <2>1. (i \in 1 .. n \/ i = n + 1) /\ (k \in 1 .. n \/ k = n + 1)
      BY <1>6
    <2>2. \A l \in 1 .. n : q[l] # x
      BY <1>1, <1>2 DEF Queued
    <2> QED
      BY <2>1, <2>2, <1>1, <1>2, <1>4 DEF Distinct
  <1>9. /\ IsFiniteSet(out) /\ slab.allocated = Cardinality(out)
        /\ \A y : Queued(q, y) \/ y \in out <=> y \in 0 .. slab.capacity - 1
        /\ \A y \in out : ~Queued(q, y)
    BY <1>1 DEF Books
  <1>10. IsFiniteSet(out \ {x}) /\ Cardinality(out \ {x}) = Cardinality(out) - 1
    BY <1>9, FS_RemoveElement
  <1> HIDE DEF Queued, Distinct
  <1>11. \A y : Queued(r, y) \/ y \in out \ {x} <=> y \in 0 .. slab.capacity - 1
    BY <1>7, <1>9
  <1>12. \A y \in out \ {x} : ~Queued(r, y)
    BY <1>7, <1>9
  <1>13. slab.capacity \in Nat
    BY DEF Books
  <1> QED
    BY <1>4, <1>5, <1>8, <1>9, <1>10, <1>11, <1>12, <1>13 DEF Books

(* All blocks of a list that counts down are there once. *)
LEMMA DownIs ==
    ASSUME NEW n \in Nat, NEW q, q = Down(n)
    PROVE  q \in Seq(Nat) /\ Len(q) = n /\ Distinct(q) /\ \A x : Queued(q, x) <=> x \in 0 .. n - 1
  <1>1. q = [i \in 1 .. n |-> n - i]
    BY DEF Down
  <1>2. q = [i \in 1 .. n |-> q[i]] /\ \A i \in 1 .. n : q[i] = n - i /\ q[i] \in Nat
    BY <1>1
  <1>3. q \in Seq(Nat) /\ Len(q) = n
    BY <1>2, SeqFromElements
  <1>4. Distinct(q)
    BY <1>2, <1>3 DEF Distinct
  <1>5. ASSUME NEW x \in 0 .. n - 1 PROVE Queued(q, x)
    <2>1. n - x \in 1 .. n /\ n - (n - x) = x
      OBVIOUS
    <2> QED
      BY <2>1, <1>2, <1>3 DEF Queued
  <1>6. ASSUME NEW x, Queued(q, x) PROVE x \in 0 .. n - 1
    <2>1. PICK i \in 1 .. n : q[i] = x
      BY <1>3, <1>6 DEF Queued
    <2> QED
      BY <2>1, <1>2
  <1> QED
    BY <1>3, <1>4, <1>5, <1>6

(* A new slab: every block is free. *)
LEMMA FreshBooks ==
    ASSUME NEW n \in Nat
    PROVE  Books(Slab(n), {})
  <1>1. PICK q, s : q = Down(n) /\ s = Slab(n)
    OBVIOUS
  <1>2. q \in Seq(Nat) /\ Distinct(q) /\ \A x : Queued(q, x) <=> x \in 0 .. n - 1
    BY <1>1, DownIs
  <1>3. DOMAIN s = {"capacity", "free", "allocated"} /\ s.capacity = n /\ s.free = q /\ s.allocated = 0
    BY <1>1 DEF Slab
  <1> HIDE DEF Queued, Distinct
  <1>4. Books(s, {})
    BY <1>2, <1>3, FS_EmptySet DEF Books
  <1> QED
    BY <1>1, <1>4

(* A slab after reset. *)
LEMMA RefilledBooks ==
    ASSUME NEW slab, NEW out, Books(slab, out)
    PROVE  Books(Refilled(slab), {})
  <1>1. PICK n, q, s : n = slab.capacity /\ q = Down(n) /\ s = Refilled(slab)
    OBVIOUS
  <1>2. n \in Nat
    BY <1>1 DEF Books
  <1>3. q \in Seq(Nat) /\ Distinct(q) /\ \A x : Queued(q, x) <=> x \in 0 .. n - 1
    BY <1>1, <1>2, DownIs
  <1>4. DOMAIN s = {"capacity", "free", "allocated"} /\ s.capacity = n /\ s.free = q /\ s.allocated = 0
    BY <1>1 DEF Refilled, Books
  <1> HIDE DEF Queued, Distinct
  <1>5. Books(s, {})
    BY <1>2, <1>3, <1>4, FS_EmptySet DEF Books
  <1> QED
    BY <1>1, <1>5

(* The slabs of a class are a sequence, of records whose books are kept.     *)
Slabbed(s, h) ==
    /\ DOMAIN s = Class /\ \A c \in Class : \E S : s[c] \in Seq(S)
    /\ \A c \in Class : \A i \in 1 .. Len(s[c]) : Books(s[c][i], Out(h, c, i))
    /\ \A block \in h : \E c \in Class : \E i \in 1 .. Len(s[c]) : \E x \in Nat : block = <<c, i, x>>

(* q takes the place of the slabs of one class, and its books are kept. *)
Relisted(s, h, s1, h1, c, q) ==
    /\ DOMAIN s1 = DOMAIN s /\ s1[c] = q /\ \A d \in Class : d # c => s1[d] = s[d]
    /\ Len(s[c]) <= Len(q)
    /\ \A d \in Class, k \in Nat, x \in Nat : d # c => (<<d, k, x>> \in h1 <=> <<d, k, x>> \in h)
    /\ \A i \in 1 .. Len(q) : Books(q[i], Out(h1, c, i))
    /\ \A block \in h1 : block \in h \/ \E i \in 1 .. Len(q) : \E x \in Nat : block = <<c, i, x>>

(* The slabs of one class change, those of the others stay. *)
LEMMA SlabsChange ==
    ASSUME NEW s, NEW h, Slabbed(s, h), NEW c \in Class, NEW q, NEW S, q \in Seq(S),
           NEW s1, NEW h1, Relisted(s, h, s1, h1, c, q)
    PROVE  Slabbed(s1, h1)
  <1>1. DOMAIN s1 = Class /\ s1[c] = q /\ \A d \in Class : d # c => s1[d] = s[d]
    BY DEF Slabbed, Relisted
  <1>0. /\ \A d \in Class, k \in Nat, x \in Nat : d # c => (<<d, k, x>> \in h1 <=> <<d, k, x>> \in h)
        /\ \A i \in 1 .. Len(q) : Books(q[i], Out(h1, c, i))
        /\ \A block \in h1 : block \in h \/ \E i \in 1 .. Len(q) : \E x \in Nat : block = <<c, i, x>>
        /\ Len(s[c]) <= Len(q)
    BY DEF Relisted
  <1>2. \A d \in Class : \E T : s1[d] \in Seq(T)
    BY <1>1 DEF Slabbed
  <1>3. ASSUME NEW d \in Class, NEW i \in 1 .. Len(s1[d]) PROVE Books(s1[d][i], Out(h1, d, i))
    <2>1. CASE d = c
      BY <2>1, <1>0, <1>1
    <2>2. CASE d # c
      <3>1. s1[d] = s[d] /\ Len(s1[d]) \in Nat
        BY <2>2, <1>1 DEF Slabbed
      <3>2. i \in Nat /\ i \in 1 .. Len(s[d])
        BY <3>1
      <3>3. Out(h1, d, i) = Out(h, d, i)
        BY <2>2, <3>2, <1>0 DEF Out
      <3>4. Books(s[d][i], Out(h, d, i))
        BY <3>2 DEF Slabbed
      <3> QED
        BY <3>1, <3>3, <3>4
    <2> QED
      BY <2>1, <2>2
  <1>4. ASSUME NEW block \in h1
        PROVE  \E d \in Class : \E i \in 1 .. Len(s1[d]) : \E x \in Nat : block = <<d, i, x>>
    <2>1. CASE block \in h
      <3>0. PICK d \in Class : \E i \in 1 .. Len(s[d]) : \E x \in Nat : block = <<d, i, x>>
        BY <2>1 DEF Slabbed
      <3>1. PICK i \in 1 .. Len(s[d]), x \in Nat : block = <<d, i, x>>
        BY <3>0
      <3>2. i \in 1 .. Len(s1[d])
        <4>1. CASE d = c
          <5>1. PICK m, n : m = Len(s[c]) /\ n = Len(q)
            OBVIOUS
          <5>2. m \in Nat /\ n \in Nat /\ m <= n /\ i \in 1 .. m
            BY <5>1, <4>1, <1>0 DEF Slabbed
          <5>3. i \in 1 .. n
            BY <5>2
          <5> QED
            BY <5>1, <5>3, <4>1, <1>1
        <4>2. CASE d # c
          BY <4>2, <1>1
        <4> QED
          BY <4>1, <4>2
      <3> QED
        BY <3>1, <3>2
    <2>2. CASE \E i \in 1 .. Len(q) : \E x \in Nat : block = <<c, i, x>>
      BY <2>2, <1>1
    <2> QED
      BY <2>1, <2>2, <1>0
  <1> QED
    BY <1>1, <1>2, <1>3, <1>4 DEF Slabbed

(* There is a largest class. *)
LEMMA TopIs == Top \in Nat /\ \A c \in Class : c \in 1 .. Top
  <1>1. Class \subseteq Nat \ {0} /\ \E top \in Class \cup {0} : \A c \in Class : c <= top
    BY MemoryAssumption
  <1>2. \E top \in Class \cup {0} : \A c \in Class \cup {0} : top >= c
    BY <1>1
  <1>3. Top \in Class \cup {0} /\ \A c \in Class \cup {0} : Top >= c
    BY <1>2 DEF Top, Max
  <1> QED
    BY <1>1, <1>3

(* The slabs of two moments have the same capacities. *)
SameCapacities(s, t) ==
    \A c \in Class : /\ Len(t[c]) = Len(s[c])
                     /\ \A i \in 1 .. Len(s[c]) : t[c][i].capacity = s[c][i].capacity

(* Then the same bytes are in use. *)
LEMMA SamePool ==
    ASSUME NEW s, NEW t, SameCapacities(s, t)
    PROVE  InUse(t) = InUse(s)
  <1>1. \A c \in Class : Capacity(t, c) = Capacity(s, c)
    <2> SUFFICES ASSUME NEW c \in Class PROVE Capacity(t, c) = Capacity(s, c)
      OBVIOUS
    <2>1. PICK n : n = Len(s[c]) /\ n = Len(t[c])
      BY DEF SameCapacities
    <2>2. PICK a, b : a = [i \in 1 .. n |-> s[c][i].capacity] /\ b = [i \in 1 .. n |-> t[c][i].capacity]
      OBVIOUS
    <2>3. a = b
      BY <2>1, <2>2 DEF SameCapacities
    <2>4. Capacity(s, c) = Total(a, n) /\ Capacity(t, c) = Total(b, n)
      BY <2>1, <2>2 DEF Capacity
    <2> QED
      BY <2>3, <2>4
  <1>2. PICK a, b : /\ a = [c \in 1 .. Top |-> IF c \in Class THEN c * Capacity(s, c) ELSE 0]
                    /\ b = [c \in 1 .. Top |-> IF c \in Class THEN c * Capacity(t, c) ELSE 0]
    OBVIOUS
  <1>3. \A c \in 1 .. Top : a[c] = b[c]
    BY <1>1, <1>2
  <1>4. a = b
    BY <1>2, <1>3
  <1>5. InUse(s) = Total(a, Top) /\ InUse(t) = Total(b, Top)
    BY <1>2 DEF InUse
  <1> QED
    BY <1>4, <1>5

(* Capacities are numbers. *)
LEMMA CapacityIs ==
    ASSUME NEW s, NEW h, Slabbed(s, h), NEW c \in Class
    PROVE  /\ Capacity(s, c) \in Nat /\ Len(s[c]) \in Nat
           /\ \A i \in 1 .. Len(s[c]) : s[c][i].capacity \in Nat
  <1>1. Len(s[c]) \in Nat
    BY DEF Slabbed
  <1>2. \A i \in 1 .. Len(s[c]) : s[c][i].capacity \in Nat
    BY DEF Slabbed, Books
  <1>3. PICK n, a : n = Len(s[c]) /\ a = [i \in 1 .. n |-> s[c][i].capacity]
    OBVIOUS
  <1>4. n \in Nat /\ Terms(a, n)
    BY <1>1, <1>2, <1>3 DEF Terms
  <1>5. PICK u : Sums(u, a, n) /\ Total(a, n) = u[n]
    BY <1>4, TotalSteps
  <1>6. u[n] \in Nat
    BY <1>4, <1>5 DEF Sums
  <1>7. Capacity(s, c) = Total(a, n)
    BY <1>3 DEF Capacity
  <1> QED
    BY <1>1, <1>2, <1>5, <1>6, <1>7

(* In t class c has one slab more than in s. *)
Added(s, t, c, cap) ==
    /\ \A d \in Class : d # c => t[d] = s[d]
    /\ Len(t[c]) = Len(s[c]) + 1
    /\ \A i \in 1 .. Len(s[c]) : t[c][i] = s[c][i]
    /\ t[c][Len(s[c]) + 1].capacity = cap

(* Such a class has its bytes more. *)
LEMMA PoolGrows ==
    ASSUME NEW s, NEW h, Slabbed(s, h), NEW c \in Class, NEW cap \in Nat,
           NEW t, Added(s, t, c, cap)
    PROVE  InUse(t) = InUse(s) + c * cap
  <1>0. PICK n : n = Len(s[c])
    OBVIOUS
  <1>01. /\ \A d \in Class : d # c => t[d] = s[d]
         /\ Len(t[c]) = n + 1 /\ t[c][n + 1].capacity = cap
         /\ \A i \in 1 .. n : t[c][i] = s[c][i]
    BY <1>0 DEF Added
  <1>1. n \in Nat /\ \A i \in 1 .. n : s[c][i].capacity \in Nat
    BY <1>0, CapacityIs
  <1>2. Capacity(t, c) = Capacity(s, c) + cap
    <2>1. PICK m, a, b : /\ m = n + 1 /\ a = [i \in 1 .. n |-> s[c][i].capacity]
                         /\ b = [i \in 1 .. m |-> t[c][i].capacity]
      OBVIOUS
    <2>2. /\ Terms(a, n) /\ \A i \in 1 .. n : b[i] = a[i]
          /\ b[n + 1] = cap
      BY <1>01, <1>1, <2>1 DEF Terms
    <2>3. Total(b, n + 1) = Total(a, n) + b[n + 1]
      BY <1>1, <2>2, TotalLonger
    <2>4. Capacity(s, c) = Total(a, n) /\ Capacity(t, c) = Total(b, m)
      BY <1>0, <1>01, <2>1 DEF Capacity
    <2> QED
      BY <2>1, <2>2, <2>3, <2>4
  <1>3. PICK a, b : /\ a = [d \in 1 .. Top |-> IF d \in Class THEN d * Capacity(s, d) ELSE 0]
                    /\ b = [d \in 1 .. Top |-> IF d \in Class THEN d * Capacity(t, d) ELSE 0]
    OBVIOUS
  <1>4. Class \subseteq Nat
    BY MemoryAssumption
  <1>5. \A d \in Class : Capacity(s, d) \in Nat
    BY CapacityIs
  <1>6. \A d \in Class, x \in Nat : d * x \in Nat
    BY <1>4
  <1>7. Terms(a, Top)
    BY <1>3, <1>5, <1>6 DEF Terms
  <1>8. \A d \in 1 .. Top : d # c => b[d] = a[d]
    <2>1. \A d \in Class : d # c => Capacity(t, d) = Capacity(s, d)
      BY <1>01 DEF Capacity
    <2> QED
      BY <2>1, <1>3
  <1>9. c \in 1 .. Top /\ Top \in Nat
    BY TopIs
  <1>10. PICK x, y, d : x = Capacity(s, c) /\ y = x + cap /\ d = c * cap
    OBVIOUS
  <1>11. x \in Nat /\ c \in Nat /\ d \in Nat
    BY <1>4, <1>5, <1>6, <1>10
  <1>12. c * y = c * x + d
    BY <1>10, <1>11
  <1>13. b[c] = a[c] + d
    BY <1>2, <1>3, <1>9, <1>10, <1>12
  <1>14. Total(b, Top) = Total(a, Top) + d
    BY <1>7, <1>8, <1>9, <1>11, <1>13, TotalMoves
  <1>15. InUse(s) = Total(a, Top) /\ InUse(t) = Total(b, Top)
    BY <1>3 DEF InUse
  <1> QED
    BY <1>10, <1>14, <1>15

(* alloc() from a slab that has a block. *)
LEMMA ReuseKeeps ==
    ASSUME Slabbed(slabs, held), NEW c \in Class, Reuse(c)
    PROVE  Slabbed(slabs', held') /\ SameCapacities(slabs, slabs')
  <1>1. PICK p, s, h : p = slabs[c] /\ s = slabs /\ h = held
    OBVIOUS
  <1>2. PICK S : p \in Seq(S)
    BY <1>1 DEF Slabbed
  <1>3. PICK open, i : /\ open = {k \in DOMAIN p : p[k].free # <<>>} /\ i = Min(open)
    OBVIOUS
  <1>4. open # {} /\ slabs' = [s EXCEPT ![c][i] = Taken(@)] /\ held' = h \cup {<<c, i, Last(p[i].free)>>}
    BY <1>1, <1>3 DEF Reuse
  <1>5. i \in open
    <2>1. open \in SUBSET Nat
      BY <1>2, <1>3
    <2>2. \E x \in open : \A y \in open : x <= y
      BY <2>1, <1>4, LeastOf
    <2> QED
      BY <2>2, <1>3 DEF Min
  <1>6. i \in 1 .. Len(p) /\ p[i].free # <<>> /\ Len(p) \in Nat
    BY <1>2, <1>3, <1>5
  <1>7. PICK slab, out, x, new : /\ slab = p[i] /\ out = Out(h, c, i) /\ x = Last(slab.free) /\ new = Taken(slab)
    OBVIOUS
  <1>8. Books(slab, out)
    BY <1>1, <1>6, <1>7 DEF Slabbed
  <1>9. Books(new, out \cup {x}) /\ x \in Nat
    BY <1>6, <1>7, <1>8, TakenBooks
  <1>10. PICK q : q = [p EXCEPT ![i] = new]
    OBVIOUS
  <1>11. PICK T : T = S \cup {new}
    OBVIOUS
  <1>12. q \in Seq(T) /\ Len(q) = Len(p) /\ q[i] = new /\ \A k \in 1 .. Len(p) : k # i => q[k] = p[k]
    <2>1. q = [k \in 1 .. Len(p) |-> q[k]] /\ q[i] = new /\ \A k \in 1 .. Len(p) : k # i => q[k] = p[k]
      <3>1. DOMAIN p = 1 .. Len(p)
        BY <1>2, SeqElements
      <3>2. DOMAIN q = DOMAIN p /\ q = [k \in DOMAIN q |-> q[k]]
        BY <1>10
      <3>3. q[i] = new /\ \A k \in 1 .. Len(p) : k # i => q[k] = p[k]
        BY <3>1, <1>6, <1>10
      <3> QED
        BY <3>1, <3>2, <3>3
    <2>2. \A k \in 1 .. Len(p) : q[k] \in T
      <3>1. \A k \in 1 .. Len(p) : p[k] \in S
        BY <1>2, SeqElements
      <3> QED
        BY <2>1, <3>1, <1>11
    <2> QED
      BY <2>1, <2>2, <1>6, SeqFromElements
  <1>13. PICK s1, h1 : s1 = slabs' /\ h1 = held'
    OBVIOUS
  <1>14. s1 = [s EXCEPT ![c] = q] /\ h1 = h \cup {<<c, i, x>>}
    <2>1. s1 = [s EXCEPT ![c] = [s[c] EXCEPT ![i] = Taken(s[c][i])]]
      BY <1>4, <1>13
    <2> QED
      BY <2>1, <1>1, <1>4, <1>7, <1>10, <1>13
  <1>15. \A d \in Class, k \in Nat, y \in Nat : d # c => (<<d, k, y>> \in h1 <=> <<d, k, y>> \in h)
    BY <1>14
  <1>16. ASSUME NEW k \in 1 .. Len(q) PROVE Books(q[k], Out(h1, c, k))
    <2>1. k \in 1 .. Len(p) /\ k \in Nat
      BY <1>6, <1>12
    <2>2. CASE k = i
      <3>1. Out(h1, c, k) = out \cup {x}
        BY <2>2, <1>7, <1>9, <1>14 DEF Out
      <3> QED
        BY <3>1, <2>2, <1>9, <1>12
    <2>3. CASE k # i
      <3>1. Out(h1, c, k) = Out(h, c, k)
        BY <2>3, <1>14 DEF Out
      <3>2. Books(p[k], Out(h, c, k))
        BY <2>1, <1>1 DEF Slabbed
      <3> QED
        BY <3>1, <3>2, <2>1, <2>3, <1>12
    <2> QED
      BY <2>2, <2>3
  <1>17. \A block \in h1 : block \in h \/ \E k \in 1 .. Len(q) : \E y \in Nat : block = <<c, k, y>>
    BY <1>6, <1>9, <1>12, <1>14
  <1>18. Slabbed(s, h) /\ Len(s[c]) <= Len(q)
    BY <1>1, <1>6, <1>12
  <1>19. Slabbed(s1, h1)
    <2>1. DOMAIN s1 = DOMAIN s /\ s1[c] = q /\ \A d \in Class : d # c => s1[d] = s[d]
      BY <1>14, <1>18 DEF Slabbed
    <2>2. Relisted(s, h, s1, h1, c, q)
      BY <2>1, <1>15, <1>16, <1>17, <1>18 DEF Relisted
    <2> QED
      BY <2>2, <1>12, <1>18, SlabsChange
  <1>20. new.capacity = slab.capacity
    BY <1>7, <1>8 DEF Taken, Books
  <1>21. \A k \in 1 .. Len(p) : q[k].capacity = p[k].capacity
    BY <1>7, <1>12, <1>20
  <1>22. s1[c] = q /\ \A d \in Class : d # c => s1[d] = s[d]
    BY <1>14, <1>18 DEF Slabbed
  <1>23. SameCapacities(s, s1)
    BY <1>1, <1>12, <1>21, <1>22 DEF SameCapacities
  <1> QED
    BY <1>1, <1>13, <1>19, <1>23

(* alloc() from a new slab. *)
LEMMA GrowKeeps ==
    ASSUME Slabbed(slabs, held), NEW c \in Class, Grow(c)
    PROVE  Slabbed(slabs', held') /\ InUse(slabs') = InUse(slabs) + c * (InitialCapacity * GrowthFactor)
  <1>1. PICK p, s, h, n : p = slabs[c] /\ s = slabs /\ h = held /\ n = Len(p)
    OBVIOUS
  <1>2. PICK S : p \in Seq(S)
    BY <1>1 DEF Slabbed
  <1>3. PICK cap, fresh, x, new : /\ cap = InitialCapacity * GrowthFactor /\ fresh = Slab(cap)
                                  /\ x = Last(fresh.free) /\ new = Taken(fresh)
    OBVIOUS
  <1>4. slabs' = [s EXCEPT ![c] = Append(@, new)] /\ held' = h \cup {<<c, n + 1, x>>}
    BY <1>1, <1>3 DEF Grow
  <1>5. cap \in Nat /\ cap # 0
    <2>1. InitialCapacity \in Nat \ {0} /\ GrowthFactor \in Nat \ {0}
      BY MemoryAssumption
    <2> QED
      BY <2>1, <1>3
  <1>6. Books(fresh, {})
    BY <1>3, <1>5, FreshBooks
  <1>7. fresh.free # <<>>
    <2>1. fresh.free = Down(cap)
      BY <1>3 DEF Slab
    <2>2. PICK q : q = Down(cap)
      OBVIOUS
    <2>3. q \in Seq(Nat) /\ Len(q) = cap
      BY <2>2, <1>5, DownIs
    <2> QED
      BY <2>1, <2>2, <2>3, <1>5
  <1>8. Books(new, {} \cup {x}) /\ x \in Nat
    BY <1>3, <1>6, <1>7, TakenBooks
  <1>9. PICK q, T : q = Append(p, new) /\ T = S \cup {new}
    OBVIOUS
  <1>10. /\ n \in Nat /\ q \in Seq(T) /\ Len(q) = n + 1 /\ q[n + 1] = new
         /\ \A k \in 1 .. n : q[k] = p[k]
    <2>1. p \in Seq(T) /\ new \in T
      BY <1>2, <1>9
    <2> QED
      BY <2>1, <1>1, <1>9
  <1>11. PICK s1, h1 : s1 = slabs' /\ h1 = held'
    OBVIOUS
  <1>12. s1 = [s EXCEPT ![c] = q] /\ h1 = h \cup {<<c, n + 1, x>>}
    BY <1>1, <1>4, <1>9, <1>11
  <1>13. Out(h, c, n + 1) = {}
    <2> SUFFICES ASSUME NEW y \in Nat, <<c, n + 1, y>> \in h PROVE FALSE
      BY DEF Out
    <2>0. PICK d \in Class : \E k \in 1 .. Len(s[d]) : \E z \in Nat : <<c, n + 1, y>> = <<d, k, z>>
      BY <1>1 DEF Slabbed
    <2>1. PICK k \in 1 .. Len(s[d]), z \in Nat : <<c, n + 1, y>> = <<d, k, z>>
      BY <2>0
    <2>2. d = c /\ k = n + 1
      BY <2>1
    <2>3. n + 1 \in 1 .. n
      BY <2>1, <2>2, <1>1
    <2> QED
      BY <2>3, <1>10
  <1>14. \A d \in Class, k \in Nat, y \in Nat : d # c => (<<d, k, y>> \in h1 <=> <<d, k, y>> \in h)
    BY <1>12
  <1>15. ASSUME NEW k \in 1 .. Len(q) PROVE Books(q[k], Out(h1, c, k))
    <2>1. k \in Nat /\ (k \in 1 .. n \/ k = n + 1)
      BY <1>10
    <2>2. CASE k = n + 1
      <3>1. Out(h1, c, k) = {} \cup {x}
        BY <2>2, <1>8, <1>12, <1>13 DEF Out
      <3> QED
        BY <3>1, <2>2, <1>8, <1>10
    <2>3. CASE k \in 1 .. n /\ k # n + 1
      <3>1. Out(h1, c, k) = Out(h, c, k)
        BY <2>3, <1>12 DEF Out
      <3>2. Books(p[k], Out(h, c, k))
        BY <2>3, <1>1 DEF Slabbed
      <3> QED
        BY <3>1, <3>2, <2>3, <1>10
    <2> QED
      BY <2>1, <2>2, <2>3, <1>10
  <1>16. \A block \in h1 : block \in h \/ \E k \in 1 .. Len(q) : \E y \in Nat : block = <<c, k, y>>
    <2>1. n + 1 \in 1 .. Len(q)
      BY <1>10
    <2> QED
      BY <2>1, <1>8, <1>12
  <1>17. Slabbed(s, h) /\ Len(s[c]) <= Len(q)
    BY <1>1, <1>10
  <1>18. Slabbed(s1, h1)
    <2>1. DOMAIN s1 = DOMAIN s /\ s1[c] = q /\ \A d \in Class : d # c => s1[d] = s[d]
      BY <1>12, <1>17 DEF Slabbed
    <2>2. Relisted(s, h, s1, h1, c, q)
      BY <2>1, <1>14, <1>15, <1>16, <1>17 DEF Relisted
    <2> QED
      BY <2>2, <1>10, <1>17, SlabsChange
  <1>19. new.capacity = cap
    <2>1. fresh.capacity = cap /\ DOMAIN fresh = {"capacity", "free", "allocated"}
      BY <1>3 DEF Slab
    <2> QED
      BY <2>1, <1>3 DEF Taken
  <1>20. s1[c] = q /\ \A d \in Class : d # c => s1[d] = s[d]
    BY <1>12, <1>17 DEF Slabbed
  <1>21. Len(s1[c]) = n + 1 /\ (\A k \in 1 .. n : s1[c][k] = s[c][k]) /\ s1[c][n + 1].capacity = cap
    BY <1>1, <1>10, <1>19, <1>20
  <1>22. InUse(s1) = InUse(s) + c * cap
    <2>1. n = Len(s[c])
      BY <1>1
    <2>2. Added(s, s1, c, cap)
      BY <2>1, <1>20, <1>21 DEF Added
    <2> QED
      BY <2>2, <1>5, <1>17, PoolGrows
  <1> QED
    BY <1>1, <1>3, <1>11, <1>18, <1>22

(* dealloc() of a block that is out. *)
LEMMA DeallocKeeps ==
    ASSUME Slabbed(slabs, held), NEW block, Dealloc(block)
    PROVE  Slabbed(slabs', held') /\ SameCapacities(slabs, slabs')
  <1>0. block \in held
    BY DEF Dealloc
  <1>1. PICK c \in Class : \E k \in 1 .. Len(slabs[c]) : \E z \in Nat : block = <<c, k, z>>
    BY <1>0 DEF Slabbed
  <1>2. PICK p, s, h : p = slabs[c] /\ s = slabs /\ h = held
    OBVIOUS
  <1>3. PICK i \in 1 .. Len(p), x \in Nat : block = <<c, i, x>>
    BY <1>1, <1>2
  <1>4. PICK S : p \in Seq(S)
    BY <1>2 DEF Slabbed
  <1>5. Len(p) \in Nat /\ DOMAIN p = 1 .. Len(p) /\ \A k \in 1 .. Len(p) : p[k] \in S
    BY <1>4, SeqElements
  <1>6. PICK slab, out, new : /\ slab = p[i] /\ out = Out(h, c, i) /\ new = Given(slab, x)
    OBVIOUS
  <1>7. Books(slab, out) /\ x \in out
    BY <1>0, <1>2, <1>3, <1>6 DEF Slabbed, Out
  <1>8. Books(new, out \ {x})
    BY <1>6, <1>7, GivenBooks
  <1>9. PICK q, T : q = [p EXCEPT ![i] = new] /\ T = S \cup {new}
    OBVIOUS
  <1>10. q[i] = new /\ \A k \in 1 .. Len(p) : k # i => q[k] = p[k]
    BY <1>5, <1>9
  <1>11. q \in Seq(T) /\ Len(q) = Len(p)
    <2>1. q = [k \in 1 .. Len(p) |-> q[k]]
      BY <1>5, <1>9
    <2>2. \A k \in 1 .. Len(p) : q[k] \in T
      BY <1>5, <1>9, <1>10
    <2> QED
      BY <2>1, <2>2, <1>5, SeqFromElements
  <1>12. PICK s1, h1 : s1 = slabs' /\ h1 = held'
    OBVIOUS
  <1>13. s1 = [s EXCEPT ![c] = q] /\ h1 = h \ {<<c, i, x>>}
    <2>1. slabs' = [slabs EXCEPT ![block[1]][block[2]] = Given(@, block[3])] /\ held' = held \ {block}
      BY DEF Dealloc
    <2>2. block[1] = c /\ block[2] = i /\ block[3] = x
      BY <1>3
    <2>3. s1 = [s EXCEPT ![c] = [s[c] EXCEPT ![i] = Given(s[c][i], x)]]
      BY <2>1, <2>2, <1>2, <1>12
    <2> QED
      BY <2>1, <2>3, <1>2, <1>3, <1>6, <1>9, <1>12
  <1>14. \A d \in Class, k \in Nat, y \in Nat : d # c => (<<d, k, y>> \in h1 <=> <<d, k, y>> \in h)
    BY <1>13
  <1>15. ASSUME NEW k \in 1 .. Len(q) PROVE Books(q[k], Out(h1, c, k))
    <2>1. k \in 1 .. Len(p)
      BY <1>11
    <2>2. CASE k = i
      <3>1. Out(h1, c, k) = out \ {x}
        BY <2>2, <1>2, <1>6, <1>13 DEF Out
      <3> QED
        BY <3>1, <2>2, <1>8, <1>10
    <2>3. CASE k # i
      <3>1. Out(h1, c, k) = Out(h, c, k)
        BY <2>3, <1>13 DEF Out
      <3>2. Books(p[k], Out(h, c, k))
        BY <2>1, <1>2 DEF Slabbed
      <3> QED
        BY <3>1, <3>2, <2>1, <2>3, <1>10
    <2> QED
      BY <2>2, <2>3
  <1>16. \A b \in h1 : b \in h \/ \E k \in 1 .. Len(q) : \E y \in Nat : b = <<c, k, y>>
    BY <1>13
  <1>17. Slabbed(s, h) /\ Len(s[c]) <= Len(q)
    BY <1>2, <1>5, <1>11
  <1>18. DOMAIN s1 = DOMAIN s /\ s1[c] = q /\ \A d \in Class : d # c => s1[d] = s[d]
    BY <1>13, <1>17 DEF Slabbed
  <1>19. Relisted(s, h, s1, h1, c, q)
    BY <1>14, <1>15, <1>16, <1>17, <1>18 DEF Relisted
  <1>20. Slabbed(s1, h1)
    BY <1>11, <1>17, <1>19, SlabsChange
  <1>21. new.capacity = slab.capacity
    BY <1>6, <1>7 DEF Given, Books
  <1>22. \A k \in 1 .. Len(p) : q[k].capacity = p[k].capacity
    BY <1>6, <1>10, <1>21
  <1>23. SameCapacities(s, s1)
    BY <1>2, <1>11, <1>18, <1>22 DEF SameCapacities
  <1> QED
    BY <1>2, <1>12, <1>20, <1>23

(* reset(). *)
LEMMA ResetKeeps ==
    ASSUME Slabbed(slabs, held), Reset
    PROVE  Slabbed(slabs', held') /\ SameCapacities(slabs, slabs')
  <1>1. PICK s1, h1 : s1 = slabs' /\ h1 = held'
    OBVIOUS
  <1>2. s1 = [c \in Class |-> [i \in DOMAIN slabs[c] |-> Refilled(slabs[c][i])]] /\ h1 = {}
    BY <1>1 DEF Reset
  <1>3. ASSUME NEW c \in Class
        PROVE  /\ \E T : s1[c] \in Seq(T)
               /\ \A i \in 1 .. Len(s1[c]) : Books(s1[c][i], Out(h1, c, i))
               /\ Len(s1[c]) = Len(slabs[c])
               /\ \A i \in 1 .. Len(slabs[c]) : s1[c][i].capacity = slabs[c][i].capacity
    <2>1. PICK p, q, n : p = slabs[c] /\ q = s1[c] /\ n = Len(p)
      OBVIOUS
    <2>2. PICK S : p \in Seq(S)
      BY <2>1 DEF Slabbed
    <2>3. n \in Nat /\ DOMAIN p = 1 .. n
      BY <2>1, <2>2, SeqElements
    <2>4. q = [i \in 1 .. n |-> Refilled(p[i])]
      BY <2>1, <2>3, <1>2
    <2>5. PICK T : T = {q[i] : i \in 1 .. n}
      OBVIOUS
    <2>6. q = [i \in 1 .. n |-> q[i]] /\ \A i \in 1 .. n : q[i] \in T
      BY <2>4, <2>5
    <2>7. q \in Seq(T) /\ Len(q) = n
      BY <2>3, <2>6, SeqFromElements
    <2>8. ASSUME NEW i \in 1 .. n PROVE Books(q[i], Out(h1, c, i))
      <3>1. PICK slab, out : slab = p[i] /\ out = Out(held, c, i)
        OBVIOUS
      <3>2. Books(slab, out)
        BY <3>1, <2>1 DEF Slabbed
      <3>3. Books(Refilled(slab), {})
        BY <3>2, RefilledBooks
      <3>4. q[i] = Refilled(slab) /\ Out(h1, c, i) = {}
        BY <3>1, <2>4, <1>2 DEF Out
      <3> QED
        BY <3>3, <3>4
    <2>9. ASSUME NEW i \in 1 .. n PROVE q[i].capacity = p[i].capacity
      <3>1. PICK slab : slab = p[i]
        OBVIOUS
      <3>2. DOMAIN slab = {"capacity", "free", "allocated"}
        BY <3>1, <2>1 DEF Slabbed, Books
      <3>3. Refilled(slab).capacity = slab.capacity
        BY <3>2 DEF Refilled
      <3> QED
        BY <3>1, <3>3, <2>4
    <2> QED
      BY <2>1, <2>7, <2>8, <2>9
  <1>4. DOMAIN s1 = Class /\ h1 = {}
    BY <1>2
  <1>5. Slabbed(s1, h1)
    BY <1>3, <1>4 DEF Slabbed
  <1>6. SameCapacities(slabs, s1)
    BY <1>3 DEF SameCapacities
  <1> QED
    BY <1>1, <1>5, <1>6

(* The pool starts with one slab per class that is preallocated. *)
LEMMA PoolStarts ==
    ASSUME MemoryInit
    PROVE  Slabbed(slabs, held) /\ PoolFits
  <1>1. PICK s, n : s = slabs /\ n = InitialCapacity
    OBVIOUS
  <1>2. n \in Nat
    <2>1. InitialCapacity \in Nat \ {0}
      BY MemoryAssumption
    <2> QED
      BY <2>1, <1>1
  <1>3. s = [c \in Class |-> IF c \in Preallocated THEN <<Slab(n)>> ELSE <<>>] /\ held = {}
    BY <1>1 DEF MemoryInit
  <1>4. ASSUME NEW c \in Class
        PROVE  /\ \E T : s[c] \in Seq(T)
               /\ \A i \in 1 .. Len(s[c]) : Books(s[c][i], Out(held, c, i))
    <2>1. CASE c \notin Preallocated
      <3>1. s[c] = <<>>
        BY <2>1, <1>3
      <3> QED
        BY <3>1
    <2>2. CASE c \in Preallocated
      <3>1. PICK slab : slab = Slab(n)
        OBVIOUS
      <3>2. Books(slab, {})
        BY <3>1, <1>2, FreshBooks
      <3>3. s[c] = <<slab>>
        BY <2>2, <3>1, <1>3
      <3>4. s[c] \in Seq({slab}) /\ Len(s[c]) = 1 /\ s[c][1] = slab
        BY <3>3
      <3>5. \A i : Out(held, c, i) = {}
        BY <1>3 DEF Out
      <3>6. ASSUME NEW i \in 1 .. Len(s[c]) PROVE s[c][i] = slab
        BY <3>4
      <3> QED
        BY <3>2, <3>4, <3>5, <3>6
    <2> QED
      BY <2>1, <2>2
  <1>5. DOMAIN s = Class /\ held = {}
    BY <1>3
  <1>6. Slabbed(s, held)
    BY <1>4, <1>5 DEF Slabbed
  <1>7. ASSUME NEW c \in Class PROVE Capacity(s, c) = IF c \in Preallocated THEN n ELSE 0
    <2>1. PICK m, a : m = Len(s[c]) /\ a = [i \in 1 .. m |-> s[c][i].capacity]
      OBVIOUS
    <2>2. Capacity(s, c) = Total(a, m)
      BY <2>1 DEF Capacity
    <2>3. m \in Nat /\ Terms(a, m)
      <3>1. Len(s[c]) \in Nat /\ \A i \in 1 .. Len(s[c]) : s[c][i].capacity \in Nat
        BY <1>6, CapacityIs
      <3> QED
        BY <3>1, <2>1 DEF Terms
    <2>40. PICK u : Sums(u, a, m) /\ Total(a, m) = u[m]
      BY <2>3, TotalSteps
    <2>4. /\ u[0] = 0 /\ Total(a, m) = u[m]
          /\ \A k \in 1 .. m : u[k] = u[k - 1] + a[k]
      BY <2>40 DEF Sums
    <2>5. CASE c \notin Preallocated
      <3>1. m = 0
        BY <2>1, <2>5, <1>3
      <3> QED
        BY <3>1, <2>2, <2>4, <2>5
    <2>6. CASE c \in Preallocated
      <3>1. PICK slab : slab = Slab(n)
        OBVIOUS
      <3>2. slab.capacity = n
        BY <3>1 DEF Slab
      <3>3. s[c] = <<slab>>
        BY <2>6, <3>1, <1>3
      <3>4. m = 1
        BY <3>3, <2>1
      <3>5. a[1] = n
        BY <3>2, <3>3, <3>4, <2>1
      <3>6. u[1] = u[0] + a[1]
        BY <3>4, <2>4
      <3>7. u[1] = n
        BY <3>5, <3>6, <2>4, <1>2
      <3> QED
        BY <3>4, <3>7, <2>2, <2>4, <2>6
    <2> QED
      BY <2>5, <2>6
  <1>8. InUse(s) = Configured
    <2>1. PICK a, b : /\ a = [c \in 1 .. Top |-> IF c \in Class THEN c * Capacity(s, c) ELSE 0]
                      /\ b = [c \in 1 .. Top |-> IF c \in Preallocated THEN c * n ELSE 0]
      OBVIOUS
    <2>2. Preallocated \subseteq Class /\ Class \subseteq Nat
      BY MemoryAssumption
    <2>3. ASSUME NEW c \in 1 .. Top PROVE a[c] = b[c]
      <3>1. CASE c \in Preallocated
        BY <3>1, <2>1, <2>2, <1>7
      <3>2. CASE c \in Class \ Preallocated
        <4>1. Capacity(s, c) = 0 /\ c * 0 = 0
          BY <3>2, <2>2, <1>7
        <4> QED
          BY <4>1, <3>2, <2>1
      <3>3. CASE c \notin Class
        BY <3>3, <2>1, <2>2
      <3> QED
        BY <3>1, <3>2, <3>3
    <2>4. a = b
      BY <2>1, <2>3
    <2>5. InUse(s) = Total(a, Top) /\ Configured = Total(b, Top)
      BY <2>1, <1>1 DEF InUse, Configured
    <2> QED
      BY <2>4, <2>5
  <1>9. managed = Configured
    BY DEF MemoryInit
  <1> QED
    BY <1>1, <1>6, <1>8, <1>9 DEF PoolFits

(* The tensor buffers. *)

Viewing(hs, b) == {h \in DOMAIN hs : hs[h].buffer = b}

Handle(handle, n) ==
    /\ DOMAIN handle = {"buffer", "owned", "at", "len", "borrowed"}
    /\ handle.buffer \in 1 .. n /\ handle.borrowed \in BOOLEAN
    /\ handle.at \in Nat /\ handle.len \in Nat /\ handle.at + handle.len <= BufferLen

(* Who borrows a buffer is alone with it; a freed buffer nobody views.       *)
Referenced(hs, b, count, freed) ==
    /\ IsFiniteSet(Viewing(hs, b)) /\ count = Cardinality(Viewing(hs, b))
    /\ freed \in {0, 1} /\ (freed = 1 => Viewing(hs, b) = {})
    /\ \A h \in Viewing(hs, b) : hs[h].borrowed => Viewing(hs, b) = {h}

Viewed(hs, r, f) ==
    /\ \E n \in Nat : /\ DOMAIN r = 1 .. n /\ DOMAIN f = 1 .. n
                      /\ r \in Seq(Nat) /\ f \in Seq(Nat)
                      /\ \A h \in DOMAIN hs : Handle(hs[h], n)
    /\ DOMAIN hs \subseteq 1 .. MaxHandles
    /\ \A b \in DOMAIN r : Referenced(hs, b, r[b], f[b])

(* A new handle has a number of its own. *)
LEMMA FreshIs ==
    ASSUME Viewed(handles, refs, frees), Cardinality(DOMAIN handles) < MaxHandles
    PROVE  Fresh \in (1 .. MaxHandles) \ DOMAIN handles
  <1>1. PICK D, n, E : D = DOMAIN handles /\ n = MaxHandles /\ E = (1 .. n) \ D
    OBVIOUS
  <1>2. n \in Nat /\ D \subseteq 1 .. n /\ Cardinality(D) < n
    <2>1. MaxHandles \in Nat
      BY MemoryAssumption
    <2> QED
      BY <2>1, <1>1 DEF Viewed
  <1>3. E # {}
    <2> SUFFICES ASSUME D = 1 .. n PROVE FALSE
      BY <1>1, <1>2
    <2>1. Cardinality(1 .. n) = IF 1 > n THEN 0 ELSE n - 1 + 1
      BY <1>2, FS_Interval
    <2>2. Cardinality(1 .. n) = n
      BY <2>1, <1>2
    <2> QED
      BY <2>2, <1>2
  <1>4. E \in SUBSET Nat
    BY <1>1, <1>2
  <1>5. \E x \in E : \A y \in E : x <= y
    BY <1>3, <1>4, LeastOf
  <1>6. Min(E) \in E
    BY <1>5 DEF Min
  <1> QED
    BY <1>1, <1>6 DEF Fresh

(* from_vec(): a buffer of its own. *)
LEMMA FromVecKeeps ==
    ASSUME Viewed(handles, refs, frees), FromVec
    PROVE  Viewed(handles', refs', frees')
  <1>1. PICK hs, r, f, hs1, r1, f1, g : /\ hs = handles /\ r = refs /\ f = frees
                                        /\ hs1 = handles' /\ r1 = refs' /\ f1 = frees' /\ g = Fresh
    OBVIOUS
  <1>2. PICK n \in Nat : /\ DOMAIN r = 1 .. n /\ DOMAIN f = 1 .. n
                         /\ r \in Seq(Nat) /\ f \in Seq(Nat)
                         /\ \A h \in DOMAIN hs : Handle(hs[h], n)
    BY <1>1 DEF Viewed
  <1>3. Len(r) = n /\ Len(f) = n
    BY <1>2
  <1>4. PICK e : e = [buffer |-> n + 1, owned |-> TRUE, at |-> 0, len |-> BufferLen, borrowed |-> FALSE]
    OBVIOUS
  <1>5. /\ Cardinality(DOMAIN hs) < MaxHandles
        /\ hs1 = [h \in DOMAIN hs \cup {g} |-> IF h = g THEN e ELSE hs[h]]
        /\ r1 = Append(r, 1) /\ f1 = Append(f, 0)
    BY <1>1, <1>3, <1>4 DEF FromVec, Hold
  <1>6. g \in 1 .. MaxHandles /\ g \notin DOMAIN hs
    BY <1>1, <1>5, FreshIs
  <1>7. /\ DOMAIN hs1 = DOMAIN hs \cup {g} /\ hs1[g] = e /\ \A h \in DOMAIN hs : hs1[h] = hs[h]
    BY <1>5, <1>6
  <1>8. /\ DOMAIN r1 = 1 .. n + 1 /\ DOMAIN f1 = 1 .. n + 1 /\ r1 \in Seq(Nat) /\ f1 \in Seq(Nat)
        /\ r1[n + 1] = 1 /\ f1[n + 1] = 0
        /\ \A b \in 1 .. n : r1[b] = r[b] /\ f1[b] = f[b]
    BY <1>2, <1>3, <1>5
  <1>9. Handle(e, n + 1) /\ e.buffer = n + 1 /\ ~e.borrowed
    <2>1. BufferLen \in Nat
      BY MemoryAssumption
    <2> QED
      BY <2>1, <1>2, <1>4 DEF Handle
  <1>10. \A h \in DOMAIN hs : Handle(hs[h], n + 1) /\ hs[h].buffer \in 1 .. n
    BY <1>2 DEF Handle
  <1>11. ASSUME NEW b \in 1 .. n + 1 PROVE Referenced(hs1, b, r1[b], f1[b])
    <2>1. CASE b = n + 1
      <3>1. Viewing(hs1, b) = {g}
        BY <2>1, <1>2, <1>7, <1>9, <1>10 DEF Viewing
      <3>2. IsFiniteSet({g}) /\ Cardinality({g}) = 1
        BY FS_Singleton
      <3> QED
        <4>1. r1[b] = 1 /\ f1[b] = 0
          BY <2>1, <1>8
        <4>2. PICK V : V = {g}
          OBVIOUS
        <4>3. Viewing(hs1, b) = V /\ IsFiniteSet(V) /\ Cardinality(V) = 1 /\ \A h \in V : V = {h}
          BY <3>1, <3>2, <4>2
        <4> QED
          BY <4>1, <4>3 DEF Referenced
    <2>2. CASE b \in 1 .. n /\ b # n + 1
      <3>1. Viewing(hs1, b) = Viewing(hs, b)
        BY <2>2, <1>7, <1>9 DEF Viewing
      <3>2. Referenced(hs, b, r[b], f[b])
        BY <2>2, <1>1, <1>2 DEF Viewed
      <3>3. \A h \in Viewing(hs, b) : hs1[h] = hs[h]
        BY <1>7 DEF Viewing
      <3> QED
        BY <2>2, <3>1, <3>2, <3>3, <1>8 DEF Referenced
    <2> QED
      BY <2>1, <2>2, <1>2
  <1>12. DOMAIN hs1 \subseteq 1 .. MaxHandles
    BY <1>1, <1>6, <1>7 DEF Viewed
  <1>13. \A h \in DOMAIN hs1 : Handle(hs1[h], n + 1)
    BY <1>7, <1>9, <1>10
  <1>14. n + 1 \in Nat
    BY <1>2
  <1>15. Viewed(hs1, r1, f1)
    BY <1>8, <1>11, <1>12, <1>13, <1>14 DEF Viewed
  <1> QED
    BY <1>1, <1>15

(* slice() and clone(): one view more of the buffer. *)
LEMMA SliceKeeps ==
    ASSUME Viewed(handles, refs, frees), NEW h0 \in DOMAIN handles,
           NEW offset \in 0 .. BufferLen, NEW len \in 0 .. BufferLen, Slice(h0, offset, len)
    PROVE  Viewed(handles', refs', frees')
  <1>1. PICK hs, r, f, hs1, r1, g : /\ hs = handles /\ r = refs /\ f = frees
                                    /\ hs1 = handles' /\ r1 = refs' /\ g = Fresh
    OBVIOUS
  <1>2. PICK n \in Nat : /\ DOMAIN r = 1 .. n /\ DOMAIN f = 1 .. n
                         /\ r \in Seq(Nat) /\ f \in Seq(Nat)
                         /\ \A h \in DOMAIN hs : Handle(hs[h], n)
    BY <1>1 DEF Viewed
  <1>3. PICK o, b0 : o = hs[h0] /\ b0 = o.buffer
    OBVIOUS
  <1>4. PICK e : e = [o EXCEPT !.owned = FALSE, !.at = @ + offset, !.len = len]
    OBVIOUS
  <1>5. /\ ~o.borrowed /\ offset + len <= o.len /\ Cardinality(DOMAIN hs) < MaxHandles
        /\ hs1 = [h \in DOMAIN hs \cup {g} |-> IF h = g THEN e ELSE hs[h]]
        /\ r1 = [r EXCEPT ![b0] = @ + 1] /\ frees' = f
    BY <1>1, <1>3, <1>4 DEF Slice, Hold
  <1>6. g \in 1 .. MaxHandles /\ g \notin DOMAIN hs
    BY <1>1, <1>5, FreshIs
  <1>7. /\ DOMAIN hs1 = DOMAIN hs \cup {g} /\ hs1[g] = e /\ \A h \in DOMAIN hs : hs1[h] = hs[h]
    BY <1>5, <1>6
  <1>8. Handle(o, n) /\ b0 \in 1 .. n /\ h0 \in Viewing(hs, b0)
    BY <1>1, <1>2, <1>3 DEF Handle, Viewing
  <1>9. Handle(e, n) /\ e.buffer = b0 /\ ~e.borrowed
    <2>1. /\ DOMAIN e = DOMAIN o /\ e.buffer = b0 /\ e.borrowed = o.borrowed
          /\ e.at = o.at + offset /\ e.len = len
      BY <1>3, <1>4, <1>8 DEF Handle
    <2>2. BufferLen \in Nat
      BY MemoryAssumption
    <2>3. /\ o.at \in Nat /\ o.len \in Nat /\ offset \in Nat /\ len \in Nat
          /\ o.at + o.len <= BufferLen /\ offset + len <= o.len
      BY <2>2, <1>5, <1>8 DEF Handle
    <2>4. e.at \in Nat /\ e.len \in Nat /\ e.at + e.len <= BufferLen
      <3>1. PICK x, y, z : x = o.at /\ y = o.len /\ z = BufferLen
        OBVIOUS
      <3>2. x + offset \in Nat /\ (x + offset) + len <= z
        BY <2>2, <2>3, <3>1
      <3> QED
        BY <2>1, <2>3, <3>1, <3>2
    <2> QED
      BY <2>1, <2>4, <1>5, <1>8 DEF Handle
  <1>10. /\ DOMAIN r1 = 1 .. n /\ r1[b0] = r[b0] + 1 /\ \A b \in 1 .. n : b # b0 => r1[b] = r[b]
    BY <1>2, <1>5, <1>8
  <1>11. r1 \in Seq(Nat)
    <2>1. r1 = [b \in 1 .. n |-> r1[b]]
      BY <1>2, <1>5
    <2>2. \A b \in 1 .. n : r1[b] \in Nat
      <3>1. \A b \in 1 .. n : r[b] \in Nat
        BY <1>2
      <3> QED
        BY <3>1, <1>8, <1>10
    <2> QED
      BY <2>1, <2>2, SeqFromElements
  <1>12. ASSUME NEW b \in 1 .. n PROVE Referenced(hs1, b, r1[b], f[b])
    <2>1. Referenced(hs, b, r[b], f[b])
      BY <1>1, <1>2 DEF Viewed
    <2>2. \A h \in Viewing(hs, b) : hs1[h] = hs[h]
      BY <1>7 DEF Viewing
    <2>3. CASE b = b0
      <3>1. PICK V : V = Viewing(hs, b0)
        OBVIOUS
      <3>2. Viewing(hs1, b) = V \cup {g} /\ g \notin V
        BY <2>3, <3>1, <1>6, <1>7, <1>9 DEF Viewing
      <3>3. IsFiniteSet(V) /\ r[b0] = Cardinality(V) /\ f[b0] \in {0, 1} /\ (f[b0] = 1 => V = {})
        BY <2>1, <2>3, <3>1 DEF Referenced
      <3>4. IsFiniteSet(V \cup {g}) /\ Cardinality(V \cup {g}) = Cardinality(V) + 1
        BY <3>2, <3>3, FS_AddElement
      <3>5. \A h \in V : ~hs[h].borrowed
        <4> SUFFICES ASSUME NEW h \in V, hs[h].borrowed PROVE FALSE
          OBVIOUS
        <4>1. V = {h}
          BY <2>1, <2>3, <3>1 DEF Referenced
        <4> QED
          BY <4>1, <3>1, <1>3, <1>5, <1>8
      <3>6. \A h \in V \cup {g} : ~hs1[h].borrowed
        BY <2>2, <2>3, <3>1, <3>5, <1>7, <1>9
      <3>7. f[b0] # 1
        BY <3>1, <3>3, <1>8
      <3> QED
        BY <2>3, <3>2, <3>3, <3>4, <3>6, <3>7, <1>10 DEF Referenced
    <2>4. CASE b # b0
      <3>1. Viewing(hs1, b) = Viewing(hs, b)
        BY <2>4, <1>7, <1>9 DEF Viewing
      <3> QED
        BY <2>1, <2>2, <2>4, <3>1, <1>10 DEF Referenced
    <2> QED
      BY <2>3, <2>4
  <1>13. DOMAIN hs1 \subseteq 1 .. MaxHandles
    BY <1>1, <1>6, <1>7 DEF Viewed
  <1>14. \A h \in DOMAIN hs1 : Handle(hs1[h], n)
    BY <1>2, <1>7, <1>9
  <1>15. Viewed(hs1, r1, f)
    BY <1>2, <1>10, <1>11, <1>12, <1>13, <1>14 DEF Viewed
  <1> QED
    BY <1>1, <1>5, <1>15

(* A borrow starts when the handle is the only one, and ends. *)
LEMMA BorrowKeeps ==
    ASSUME Viewed(handles, refs, frees), NEW h0 \in DOMAIN handles, BorrowMut(h0) \/ EndBorrow(h0)
    PROVE  Viewed(handles', refs', frees')
  <1>1. PICK hs, r, f, hs1 : hs = handles /\ r = refs /\ f = frees /\ hs1 = handles'
    OBVIOUS
  <1>2. PICK n \in Nat : /\ DOMAIN r = 1 .. n /\ DOMAIN f = 1 .. n
                         /\ r \in Seq(Nat) /\ f \in Seq(Nat)
                         /\ \A h \in DOMAIN hs : Handle(hs[h], n)
    BY <1>1 DEF Viewed
  <1>3. PICK o, b0 : o = hs[h0] /\ b0 = o.buffer
    OBVIOUS
  <1>4. PICK on \in BOOLEAN : /\ hs1 = [hs EXCEPT ![h0].borrowed = on]
                              /\ refs' = r /\ frees' = f /\ (on => r[b0] = 1)
    BY <1>1, <1>3 DEF BorrowMut, EndBorrow
  <1>5. PICK e : e = [o EXCEPT !.borrowed = on]
    OBVIOUS
  <1>6. Handle(o, n) /\ b0 \in 1 .. n
    BY <1>1, <1>2, <1>3 DEF Handle
  <1>7. /\ DOMAIN e = DOMAIN o /\ e.buffer = b0 /\ e.borrowed = on /\ e.at = o.at /\ e.len = o.len
    BY <1>3, <1>5, <1>6 DEF Handle
  <1>8. Handle(e, n)
    BY <1>3, <1>6, <1>7 DEF Handle
  <1>9. /\ DOMAIN hs1 = DOMAIN hs /\ hs1[h0] = e /\ \A h \in DOMAIN hs : h # h0 => hs1[h] = hs[h]
    <2>1. hs1 = [hs EXCEPT ![h0] = e]
      BY <1>3, <1>4, <1>5
    <2> QED
      BY <2>1, <1>1
  <1>10. \A b : Viewing(hs1, b) = Viewing(hs, b)
    BY <1>1, <1>3, <1>7, <1>9 DEF Viewing
  <1>11. ASSUME NEW b \in 1 .. n PROVE Referenced(hs1, b, r[b], f[b])
    <2>1. Referenced(hs, b, r[b], f[b])
      BY <1>1, <1>2 DEF Viewed
    <2>2. PICK V : V = Viewing(hs, b)
      OBVIOUS
    <2>3. ASSUME NEW h \in V, hs1[h].borrowed PROVE V = {h}
      <3>1. CASE h = h0
        <4>1. on /\ b = b0 /\ r[b] = 1
          BY <2>2, <2>3, <3>1, <1>3, <1>4, <1>7, <1>9 DEF Viewing
        <4>2. IsFiniteSet(V) /\ Cardinality(V) = 1
          BY <2>1, <2>2, <4>1 DEF Referenced
        <4>3. \E x : V = {x}
          BY <4>2, FS_Singleton
        <4> QED
          BY <4>3, <2>3
      <3>2. CASE h # h0
        <4>1. hs[h].borrowed
          BY <3>2, <2>2, <2>3, <1>9 DEF Viewing
        <4> QED
          BY <4>1, <2>1, <2>2, <2>3 DEF Referenced
      <3> QED
        BY <3>1, <3>2
    <2> QED
      BY <2>1, <2>2, <2>3, <1>10 DEF Referenced
  <1>12. \A h \in DOMAIN hs1 : Handle(hs1[h], n)
    BY <1>2, <1>8, <1>9
  <1>13. DOMAIN hs1 \subseteq 1 .. MaxHandles
    BY <1>1, <1>9 DEF Viewed
  <1>14. Viewed(hs1, r, f)
    BY <1>2, <1>11, <1>12, <1>13 DEF Viewed
  <1> QED
    BY <1>1, <1>4, <1>14

(* drop(): the last one that looks frees what it owns. *)
LEMMA DiscardKeeps ==
    ASSUME Viewed(handles, refs, frees), NEW h0 \in DOMAIN handles, Discard(h0)
    PROVE  Viewed(handles', refs', frees')
  <1>1. PICK hs, r, f, hs1, r1, f1 : /\ hs = handles /\ r = refs /\ f = frees
                                     /\ hs1 = handles' /\ r1 = refs' /\ f1 = frees'
    OBVIOUS
  <1>2. PICK n \in Nat : /\ DOMAIN r = 1 .. n /\ DOMAIN f = 1 .. n
                         /\ r \in Seq(Nat) /\ f \in Seq(Nat)
                         /\ \A h \in DOMAIN hs : Handle(hs[h], n)
    BY <1>1 DEF Viewed
  <1>3. PICK b0, last : b0 = hs[h0].buffer /\ last \in BOOLEAN /\ (last <=> r[b0] = 1 /\ hs[h0].owned)
    <2>1. \E last : last \in BOOLEAN /\ (last <=> r[hs[h0].buffer] = 1 /\ hs[h0].owned)
      <3>1. CASE r[hs[h0].buffer] = 1 /\ hs[h0].owned
        BY <3>1
      <3>2. CASE ~(r[hs[h0].buffer] = 1 /\ hs[h0].owned)
        BY <3>2
      <3> QED
        BY <3>1, <3>2
    <2> QED
      BY <2>1
  <1>4. /\ r1 = [r EXCEPT ![b0] = @ - 1]
        /\ f1 = [f EXCEPT ![b0] = IF last THEN @ + 1 ELSE @]
        /\ hs1 = [g \in DOMAIN hs \ {h0} |-> hs[g]]
    BY <1>1, <1>3 DEF Discard, Frees
  <1>5. b0 \in 1 .. n /\ h0 \in Viewing(hs, b0)
    BY <1>1, <1>2, <1>3 DEF Handle, Viewing
  <1>6. /\ DOMAIN r1 = 1 .. n /\ DOMAIN f1 = 1 .. n
        /\ r1[b0] = r[b0] - 1 /\ f1[b0] = IF last THEN f[b0] + 1 ELSE f[b0]
        /\ \A b \in 1 .. n : b # b0 => r1[b] = r[b] /\ f1[b] = f[b]
    BY <1>2, <1>4, <1>5
  <1>7. DOMAIN hs1 = DOMAIN hs \ {h0} /\ \A h \in DOMAIN hs1 : hs1[h] = hs[h]
    BY <1>4
  <1>8. PICK V : V = Viewing(hs, b0)
    OBVIOUS
  <1>9. /\ IsFiniteSet(V) /\ r[b0] = Cardinality(V) /\ f[b0] \in {0, 1} /\ (f[b0] = 1 => V = {})
        /\ \A h \in V : hs[h].borrowed => V = {h}
    BY <1>1, <1>2, <1>5, <1>8 DEF Viewed, Referenced
  <1>10. /\ IsFiniteSet(V \ {h0}) /\ Cardinality(V \ {h0}) = Cardinality(V) - 1
         /\ Cardinality(V) \in Nat /\ Cardinality(V \ {h0}) \in Nat
    BY <1>5, <1>8, <1>9, FS_RemoveElement, FS_CardinalityType
  <1>11. f[b0] = 0 /\ f1[b0] \in {0, 1} /\ (f1[b0] = 1 => last)
    BY <1>3, <1>5, <1>6, <1>8, <1>9
  <1>12. f1[b0] = 1 => V \ {h0} = {}
    <2> SUFFICES ASSUME f1[b0] = 1 PROVE V \ {h0} = {}
      OBVIOUS
    <2>1. Cardinality(V \ {h0}) = 0
      BY <1>3, <1>9, <1>10, <1>11
    <2> QED
      BY <2>1, <1>10, FS_EmptySet
  <1>13. Viewing(hs1, b0) = V \ {h0}
    BY <1>7, <1>8 DEF Viewing
  <1>14. \A b : b # b0 => Viewing(hs1, b) = Viewing(hs, b)
    BY <1>3, <1>7 DEF Viewing
  <1>15. ASSUME NEW b \in 1 .. n PROVE Referenced(hs1, b, r1[b], f1[b])
    <2>1. CASE b = b0
      <3>1. ASSUME NEW h \in V \ {h0} PROVE ~hs1[h].borrowed
        <4>1. hs1[h] = hs[h]
          BY <3>1, <1>7, <1>8 DEF Viewing
        <4> QED
          BY <4>1, <3>1, <1>5, <1>8, <1>9
      <3> QED
        BY <2>1, <3>1, <1>6, <1>9, <1>10, <1>11, <1>12, <1>13 DEF Referenced
    <2>2. CASE b # b0
      <3>1. Referenced(hs, b, r[b], f[b])
        BY <1>1, <1>2 DEF Viewed
      <3>2. Viewing(hs1, b) = Viewing(hs, b) /\ \A h \in Viewing(hs, b) : hs1[h] = hs[h]
        BY <2>2, <1>7, <1>14 DEF Viewing
      <3> QED
        BY <2>2, <3>1, <3>2, <1>6 DEF Referenced
    <2> QED
      BY <2>1, <2>2
  <1>16. r1 \in Seq(Nat) /\ f1 \in Seq(Nat)
    <2>1. r1 = [b \in 1 .. n |-> r1[b]] /\ f1 = [b \in 1 .. n |-> f1[b]]
      BY <1>2, <1>4
    <2>2. \A b \in 1 .. n : r[b] \in Nat /\ f[b] \in Nat
      BY <1>2
    <2>3. r1[b0] \in Nat /\ f1[b0] \in Nat
      BY <1>6, <1>9, <1>10, <1>11
    <2>4. \A b \in 1 .. n : r1[b] \in Nat /\ f1[b] \in Nat
      BY <2>2, <2>3, <1>6
    <2> QED
      BY <2>1, <2>4, SeqFromElements
  <1>17. \A h \in DOMAIN hs1 : Handle(hs1[h], n)
    BY <1>2, <1>7
  <1>18. DOMAIN hs1 \subseteq 1 .. MaxHandles
    BY <1>1, <1>7 DEF Viewed
  <1>19. Viewed(hs1, r1, f1)
    BY <1>2, <1>6, <1>15, <1>16, <1>17, <1>18 DEF Viewed
  <1> QED
    BY <1>1, <1>19

MemoryInv == Slabbed(slabs, held) /\ PoolFits /\ Viewed(handles, refs, frees)

(* Every step of the pool and of the buffers keeps the invariant. *)
LEMMA MemoryKeeps ==
    ASSUME MemoryInv, [MemoryNext]_memoryVars
    PROVE  MemoryInv'
  <1>0. ASSUME SameCapacities(slabs, slabs'), managed' = managed PROVE PoolFits'
    <2>1. PICK s, t : s = slabs /\ t = slabs'
      OBVIOUS
    <2>2. InUse(t) = InUse(s)
      BY <1>0, <2>1, SamePool
    <2> QED
      BY <1>0, <2>1, <2>2 DEF MemoryInv, PoolFits
  <1>1. ASSUME NEW c \in Class, Reuse(c) PROVE MemoryInv'
    <2>1. Slabbed(slabs', held') /\ SameCapacities(slabs, slabs')
      BY <1>1, ReuseKeeps DEF MemoryInv
    <2>2. UNCHANGED <<managed, handles, refs, frees>>
      BY <1>1 DEF Reuse, bufferVars
    <2>3. PoolFits'
      BY <2>1, <2>2, <1>0
    <2> QED
      BY <2>1, <2>2, <2>3 DEF MemoryInv
  <1>8. ASSUME NEW c \in Class, Grow(c) PROVE MemoryInv'
    <2>1. PICK s, t, more : /\ s = slabs /\ t = slabs'
                            /\ more = c * (InitialCapacity * GrowthFactor)
      OBVIOUS
    <2>2. Slabbed(slabs', held') /\ InUse(t) = InUse(s) + more
      BY <1>8, <2>1, GrowKeeps DEF MemoryInv
    <2>3. managed' = managed + more /\ managed' <= MaxTotal
      BY <1>8, <2>1 DEF Grow, Bytes, Slab
    <2>4. UNCHANGED <<handles, refs, frees>>
      BY <1>8 DEF Grow, bufferVars
    <2>5. PoolFits'
      BY <2>1, <2>2, <2>3 DEF MemoryInv, PoolFits
    <2> QED
      BY <2>2, <2>4, <2>5 DEF MemoryInv
  <1>2. ASSUME NEW block \in held, Dealloc(block) PROVE MemoryInv'
    <2>1. Slabbed(slabs', held') /\ SameCapacities(slabs, slabs')
      BY <1>2, DeallocKeeps DEF MemoryInv
    <2>2. UNCHANGED <<managed, handles, refs, frees>>
      BY <1>2 DEF Dealloc, bufferVars
    <2>3. PoolFits'
      BY <2>1, <2>2, <1>0
    <2> QED
      BY <2>1, <2>2, <2>3 DEF MemoryInv
  <1>3. CASE Reset
    <2>1. Slabbed(slabs', held') /\ SameCapacities(slabs, slabs')
      BY <1>3, ResetKeeps DEF MemoryInv
    <2>2. UNCHANGED <<managed, handles, refs, frees>>
      BY <1>3 DEF Reset, bufferVars
    <2>3. PoolFits'
      BY <2>1, <2>2, <1>0
    <2> QED
      BY <2>1, <2>2, <2>3 DEF MemoryInv
  <1>4. CASE FromVec
    <2>1. Viewed(handles', refs', frees')
      BY <1>4, FromVecKeeps DEF MemoryInv
    <2>2. UNCHANGED <<slabs, managed, held>>
      BY <1>4 DEF FromVec, poolVars
    <2> QED
      BY <2>1, <2>2 DEF MemoryInv, PoolFits
  <1>5. ASSUME NEW h \in DOMAIN handles, NEW offset \in 0 .. BufferLen, NEW len \in 0 .. BufferLen,
               Slice(h, offset, len)
        PROVE  MemoryInv'
    <2>1. Viewed(handles', refs', frees')
      BY <1>5, SliceKeeps DEF MemoryInv
    <2>2. UNCHANGED <<slabs, managed, held>>
      BY <1>5 DEF Slice, poolVars
    <2> QED
      BY <2>1, <2>2 DEF MemoryInv, PoolFits
  <1>6. ASSUME NEW h \in DOMAIN handles, BorrowMut(h) \/ EndBorrow(h) \/ Discard(h) PROVE MemoryInv'
    <2>1. Viewed(handles', refs', frees')
      BY <1>6, BorrowKeeps, DiscardKeeps DEF MemoryInv
    <2>2. UNCHANGED <<slabs, managed, held>>
      BY <1>6 DEF BorrowMut, EndBorrow, Discard, poolVars
    <2> QED
      BY <2>1, <2>2 DEF MemoryInv, PoolFits
  <1>7. CASE UNCHANGED memoryVars
    <2>1. UNCHANGED <<slabs, managed, held, handles, refs, frees>>
      BY <1>7 DEF memoryVars, poolVars, bufferVars
    <2> QED
      BY <2>1 DEF MemoryInv, PoolFits
  <1> QED
    BY <1>1, <1>2, <1>3, <1>4, <1>5, <1>6, <1>7, <1>8 DEF MemoryNext

(* It holds at the start. *)
LEMMA MemoryStarts ==
    ASSUME MemoryInit
    PROVE  MemoryInv
  <1>1. handles = <<>> /\ refs = <<>> /\ frees = <<>>
    BY DEF MemoryInit
  <1>2. 0 \in Nat /\ DOMAIN refs = 1 .. 0 /\ DOMAIN frees = 1 .. 0 /\ DOMAIN handles = {}
        /\ refs \in Seq(Nat) /\ frees \in Seq(Nat)
    BY <1>1
  <1>3. Viewed(handles, refs, frees)
    BY <1>2 DEF Viewed
  <1> QED
    BY <1>3, PoolStarts DEF MemoryInv

(* The blocks in the words of the property. *)
LEMMA BlocksRestated == MemoryInv => BlocksAccounted
  <1> SUFFICES ASSUME MemoryInv, NEW c \in Class, NEW i \in DOMAIN slabs[c]
               PROVE  LET slab == slabs[c][i]
                          out == {block[3] : block \in {b \in held : b[1] = c /\ b[2] = i}}
                      IN /\ IsInjective(slab.free)
                         /\ ToSet(slab.free) \cap out = {}
                         /\ ToSet(slab.free) \cup out = 0 .. slab.capacity - 1
                         /\ slab.allocated = Cardinality(out)
    BY DEF BlocksAccounted
  <1>1. PICK p, slab, out : p = slabs[c] /\ slab = p[i] /\ out = Out(held, c, i)
    OBVIOUS
  <1>2. i \in 1 .. Len(p) /\ i \in Nat
    <2>1. PICK S : p \in Seq(S)
      BY <1>1 DEF MemoryInv, Slabbed
    <2>2. Len(p) \in Nat /\ DOMAIN p = 1 .. Len(p)
      BY <2>1, SeqElements
    <2> QED
      BY <1>1, <2>2
  <1>3. Books(slab, out)
    BY <1>1, <1>2 DEF MemoryInv, Slabbed
  <1>4. out = {block[3] : block \in {b \in held : b[1] = c /\ b[2] = i}}
    <2>1. ASSUME NEW block \in held, block[1] = c, block[2] = i
          PROVE  block[3] \in Nat /\ block = <<c, i, block[3]>>
      <3>1. PICK d \in Class : \E k \in 1 .. Len(slabs[d]) : \E x \in Nat : block = <<d, k, x>>
        BY DEF MemoryInv, Slabbed
      <3>2. PICK k \in 1 .. Len(slabs[d]), x \in Nat : block = <<d, k, x>>
        BY <3>1
      <3>3. d = c /\ k = i /\ block[3] = x
        BY <2>1, <3>2
      <3> QED
        BY <3>2, <3>3
    <2>2. ASSUME NEW y, y \in out
          PROVE  y \in {block[3] : block \in {b \in held : b[1] = c /\ b[2] = i}}
      <3>1. <<c, i, y>> \in held
        BY <1>1, <2>2 DEF Out
      <3>2. PICK block : block = <<c, i, y>>
        OBVIOUS
      <3>3. block \in held /\ block[1] = c /\ block[2] = i /\ block[3] = y
        BY <3>1, <3>2
      <3> QED
        BY <3>3
    <2>3. ASSUME NEW y, y \in {block[3] : block \in {b \in held : b[1] = c /\ b[2] = i}}
          PROVE  y \in out
      <3>1. PICK block \in held : block[1] = c /\ block[2] = i /\ block[3] = y
        BY <2>3
      <3>2. y \in Nat /\ block = <<c, i, y>>
        BY <3>1, <2>1
      <3> QED
        BY <3>2, <1>1 DEF Out
    <2> QED
      BY <2>2, <2>3
  <1>5. IsInjective(slab.free)
    BY <1>3 DEF Books, IsInjective, Distinct
  <1>6. \A x : x \in ToSet(slab.free) <=> Queued(slab.free, x)
    BY <1>3 DEF Books, ToSet, Queued
  <1> HIDE DEF Queued
  <1>7. ToSet(slab.free) \cap out = {} /\ ToSet(slab.free) \cup out = 0 .. slab.capacity - 1
    BY <1>3, <1>6 DEF Books
  <1>8. slab.allocated = Cardinality(out)
    BY <1>3 DEF Books
  <1> QED
    BY <1>1, <1>4, <1>5, <1>7, <1>8

(* The views in the words of the property. *)
LEMMA ViewsRestated == MemoryInv => ViewsAreSound
  <1> SUFFICES ASSUME MemoryInv, NEW b \in DOMAIN refs
               PROVE  /\ refs[b] = Cardinality(Views(b))
                      /\ frees[b] <= 1 /\ (frees[b] = 1 => Views(b) = {})
                      /\ \A h \in Views(b) :
                            /\ handles[h].at + handles[h].len <= BufferLen
                            /\ handles[h].borrowed => Views(b) = {h}
    BY DEF ViewsAreSound
  <1>1. Viewed(handles, refs, frees) /\ Views(b) = Viewing(handles, b)
    BY DEF MemoryInv, Views, Viewing
  <1>2. Referenced(handles, b, refs[b], frees[b])
    BY <1>1 DEF Viewed
  <1>3. \A h \in Views(b) : handles[h].at + handles[h].len <= BufferLen
    BY <1>1 DEF Viewed, Handle, Viewing
  <1> QED
    BY <1>1, <1>2, <1>3 DEF Referenced

(* A block of the pool is free or in one caller's hands, never both and     *)
(* never twice on the free list, through any order of growth, reuse and     *)
(* resets; the pool counts its slabs' bytes and grows no further than its    *)
(* limit.  A tensor buffer is freed once at most and only when nobody can    *)
(* see it, views of views stay inside it, and who writes to it is alone.     *)
THEOREM MemoryIsSoundAlways == MemorySpec => []MemoryIsSound
  <1>1. MemoryInit => MemoryInv
    BY MemoryStarts
  <1>2. MemoryInv /\ [MemoryNext]_memoryVars => MemoryInv'
    BY MemoryKeeps
  <1>3. MemoryInv => MemoryIsSound
    BY BlocksRestated, ViewsRestated DEF MemoryInv, MemoryIsSound
  <1> QED
    BY <1>1, <1>2, <1>3, PTL DEF MemorySpec
=============================================================================
