--------------------------------- MODULE Storage ---------------------------------
(* KeyValueStore of RecursiveMachineIntelligence/src/core/storage.rs: values  *)
(* in files, with a bounded cache in front.  Threads call put, get and delete *)
(* and interleave at every file call and lock; a thread between two locks it  *)
(* nests holds the first.  The process may be killed and started again.       *)
(* A value is the number of the put that brought it and counts one byte.      *)
EXTENDS Integers, Sequences, FiniteSets, SequencesExt, FiniteSetsExt, Retain

CONSTANTS
    StoreThread, StoreKey,
    FileOf,         \* key_to_path: the name of a key's two files, where "/" is "__"
    CacheSize,      \* max_cache_bytes
    MaxCalls,       \* bound: the calls of put, get and delete
    MaxKills        \* bound: the times the process is killed

ASSUME StorageAssumption ==
    /\ {CacheSize, MaxCalls, MaxKills} \subseteq Nat
    /\ DOMAIN FileOf = StoreKey

VARIABLES
    file,       \* by name: the contents of its .data and .meta
    cache,      \* the cached keys and their values
    lru,        \* lru_order
    counted,    \* current_cache_bytes
    call,       \* by thread: the call it is in
    puts,       \* history: the key of each put
    returned,   \* history: what get found on disk, data with metadata
    calls, kills

storageVars == <<file, cache, lru, counted, call, puts, returned, calls, kills>>

Absent == 0     \* no such file
Torn == -1      \* not one put's contents: empty, or one's over another's

NoCall == [at |-> "idle"]

StorageInit ==
    /\ file = [name \in Range(FileOf) |-> [data |-> Absent, meta |-> Absent]]
    /\ cache = <<>> /\ lru = <<>> /\ counted = 0
    /\ call = [t \in StoreThread |-> NoCall]
    /\ puts = <<>> /\ returned = {} /\ calls = 0 /\ kills = 0

Cached == DOMAIN cache
Without(keys) == Retained(lru, StoreKey \ keys)
Uncached(keys) == [k \in Cached \ keys |-> cache[k]]
Less(n, m) == IF n > m THEN n - m ELSE 0    \* saturating_sub

Begins(t) == call[t] = NoCall /\ calls < MaxCalls /\ calls' = calls + 1
Goes(t, place) == call' = [call EXCEPT ![t].at = place]
Returns(t) == call' = [call EXCEPT ![t] = NoCall]

(* Who holds a lock while it waits for the next: get has a hit under its read*)
(* lock on the cache, evict_if_needed scans under one on the order, and then *)
(* evicts under its write lock on the cache.                                 *)
Others(t, place) == {u \in StoreThread \ {t} : call[u].at = place}
CanReadCache(t) == Others(t, "evictOrder") = {}
CanWriteCache(t) == CanReadCache(t) /\ Others(t, "touch") = {}
CanWriteOrder(t) == Others(t, "scanCache") = {}

-----------------------------------------------------------------------------
(* put_raw: the data file, the metadata file, the cache.                     *)

BeginWrite(t, k) ==
    /\ Begins(t)
    /\ puts' = Append(puts, k)
    /\ call' = [call EXCEPT ![t] =
          [at |-> "openData", key |-> k, value |-> Len(puts) + 1, named |-> TRUE]]
    /\ UNCHANGED <<file, cache, lru, counted, returned, kills>>

(* fs::write truncates ... *)
OpenFile(t) == \E part \in {"data", "meta"} :
    /\ call[t].at = IF part = "data" THEN "openData" ELSE "openMeta"
    /\ file' = [file EXCEPT ![FileOf[call[t].key]][part] = Torn]
    /\ call' = [call EXCEPT ![t].at = IF part = "data" THEN "fillData" ELSE "fillMeta",
                            ![t].named = TRUE]
    /\ UNCHANGED <<cache, lru, counted, puts, returned, calls, kills>>

(* ... and then writes, to a file that may have lost its name, or hold what  *)
(* another has written since: the end of something longer remains.           *)
Filled(old, new) == IF old = Torn THEN {new} ELSE {new, Torn}

FillFile(t) == \E part \in {"data", "meta"} :
    /\ call[t].at = IF part = "data" THEN "fillData" ELSE "fillMeta"
    /\ \/ /\ call[t].named
          /\ \E new \in Filled(file[FileOf[call[t].key]][part], call[t].value) :
                file' = [file EXCEPT ![FileOf[call[t].key]][part] = new]
       \/ ~call[t].named /\ UNCHANGED file
    /\ Goes(t, IF part = "data" THEN "openMeta" ELSE "measure")
    /\ UNCHANGED <<cache, lru, counted, puts, returned, calls, kills>>

-----------------------------------------------------------------------------
(* update_cache.                                                             *)

(* evict_if_needed looks at the size once. *)
Measure(t) ==
    /\ call[t].at = "measure"
    /\ LET excess == Less(counted + 1, CacheSize) IN
       call' = [call EXCEPT ![t] = [at |-> IF excess = 0 THEN "insert" ELSE "scan",
                                    key |-> @.key, value |-> @.value, excess |-> excess]]
    /\ UNCHANGED <<file, cache, lru, counted, puts, returned, calls, kills>>

Scan(t) ==
    /\ call[t].at = "scan"
    /\ Goes(t, "scanCache")
    /\ UNCHANGED <<file, cache, lru, counted, puts, returned, calls, kills>>

(* The oldest cached keys that together make up the excess. *)
Victims(n) ==
    LET old == Retained(lru, Cached)
    IN ToSet(SubSeq(old, 1, Min({n, Len(old)})))

ScanCache(t) ==
    /\ call[t].at = "scanCache" /\ CanReadCache(t)
    /\ call' = [call EXCEPT ![t] = [at |-> "evict", key |-> @.key, value |-> @.value,
                                    victims |-> Victims(@.excess)]]
    /\ UNCHANGED <<file, cache, lru, counted, puts, returned, calls, kills>>

EvictCache(t) ==
    /\ call[t].at = "evict" /\ CanWriteCache(t)
    /\ Goes(t, "evictOrder")
    /\ UNCHANGED <<file, cache, lru, counted, puts, returned, calls, kills>>

EvictOrder(t) ==
    /\ call[t].at = "evictOrder" /\ CanWriteOrder(t)
    /\ cache' = Uncached(call[t].victims)
    /\ lru' = Without(call[t].victims)
    /\ counted' = Less(counted, Cardinality(call[t].victims \cap Cached))
    /\ call' = [call EXCEPT ![t] = [at |-> "insert", key |-> @.key, value |-> @.value]]
    /\ UNCHANGED <<file, puts, returned, calls, kills>>

InsertEntry(t) ==
    /\ call[t].at = "insert" /\ CanWriteCache(t)
    /\ cache' = [k \in Cached \cup {call[t].key} |->
                    IF k = call[t].key THEN call[t].value ELSE cache[k]]
    /\ Goes(t, "order")
    /\ UNCHANGED <<file, lru, counted, puts, returned, calls, kills>>

PushOrder(t) ==
    /\ call[t].at = "order" /\ CanWriteOrder(t)
    /\ lru' = Append(Without({call[t].key}), call[t].key)
    /\ Goes(t, "count")
    /\ UNCHANGED <<file, cache, counted, puts, returned, calls, kills>>

(* Also for a key that was cached, whose old size stays counted. *)
CountSize(t) ==
    /\ call[t].at = "count"
    /\ counted' = counted + 1
    /\ Returns(t)
    /\ UNCHANGED <<file, cache, lru, puts, returned, calls, kills>>

-----------------------------------------------------------------------------
(* get_raw.                                                                  *)

BeginGet(t, k) ==
    /\ Begins(t) /\ CanReadCache(t)
    /\ call' = [call EXCEPT ![t] =
          [at |-> IF k \in Cached THEN "touch" ELSE "readData", key |-> k]]
    /\ UNCHANGED <<file, cache, lru, counted, puts, returned, kills>>

Touch(t) ==
    /\ call[t].at = "touch" /\ CanWriteOrder(t)
    /\ lru' = Append(Without({call[t].key}), call[t].key)
    /\ Returns(t)
    /\ UNCHANGED <<file, cache, counted, puts, returned, calls, kills>>

(* read_from_disk: no file, or one that does not decompress, ends the call.  *)
ReadData(t) ==
    /\ call[t].at = "readData"
    /\ LET data == file[FileOf[call[t].key]].data IN
       call' = [call EXCEPT ![t] = IF data \in {Absent, Torn} THEN NoCall
                                   ELSE [at |-> "readMeta", key |-> @.key, value |-> data]]
    /\ UNCHANGED <<file, cache, lru, counted, puts, returned, calls, kills>>

(* Mutant: the data is not compared with the checksum. *)
ChecksumAny(data, meta) == meta # Torn

(* Without metadata the checksum is 0, which the data does not have. *)
ChecksumHolds(data, meta) == data = meta

ReadMeta(t) ==
    /\ call[t].at = "readMeta"
    /\ LET meta == file[FileOf[call[t].key]].meta IN
       \/ /\ ChecksumHolds(call[t].value, meta)
          /\ returned' = returned \cup {[key |-> call[t].key, data |-> call[t].value, meta |-> meta]}
          /\ Goes(t, "measure")
       \/ /\ ~ChecksumHolds(call[t].value, meta)
          /\ Returns(t) /\ UNCHANGED returned
    /\ UNCHANGED <<file, cache, lru, counted, puts, calls, kills>>

-----------------------------------------------------------------------------
(* delete: the cache, the data file, the metadata file.                      *)

(* Mutant: an entry that is deleted is taken off the size twice. *)
RemovedTwice(k) == 2 * Cardinality(Cached \cap {k})

Removed(k) == Cardinality(Cached \cap {k})

BeginDelete(t, k) ==
    /\ Begins(t) /\ CanWriteCache(t)
    /\ cache' = Uncached({k})
    /\ counted' = Less(counted, Removed(k))
    /\ call' = [call EXCEPT ![t] = [at |-> "lookData", key |-> k]]
    /\ UNCHANGED <<file, lru, puts, returned, kills>>

AfterFile(t, part) ==
    IF part = "data" THEN [at |-> "lookMeta", key |-> call[t].key] ELSE NoCall

(* exists() ... *)
LookFile(t) == \E part \in {"data", "meta"} :
    /\ call[t].at = IF part = "data" THEN "lookData" ELSE "lookMeta"
    /\ \/ /\ file[FileOf[call[t].key]][part] # Absent
          /\ Goes(t, IF part = "data" THEN "unlinkData" ELSE "unlinkMeta")
       \/ /\ file[FileOf[call[t].key]][part] = Absent
          /\ call' = [call EXCEPT ![t] = AfterFile(t, part)]
    /\ UNCHANGED <<file, cache, lru, counted, puts, returned, calls, kills>>

Writes(u, name, part) ==
    /\ call[u].at = IF part = "data" THEN "fillData" ELSE "fillMeta"
    /\ FileOf[call[u].key] = name

(* ... and remove_file, which ends the call when another was faster.         *)
Unlink(t) == \E part \in {"data", "meta"} :
    LET name == FileOf[call[t].key] IN
    /\ call[t].at = IF part = "data" THEN "unlinkData" ELSE "unlinkMeta"
    /\ \/ /\ file[name][part] = Absent
          /\ Returns(t) /\ UNCHANGED file
       \/ /\ file[name][part] # Absent
          /\ file' = [file EXCEPT ![name][part] = Absent]
          /\ call' = [u \in StoreThread |->
                CASE u = t -> AfterFile(t, part)
                  [] u # t /\ Writes(u, name, part) -> [call[u] EXCEPT !.named = FALSE]
                  [] OTHER -> call[u]]
    /\ UNCHANGED <<cache, lru, counted, puts, returned, calls, kills>>

(* The process is killed; the files stay as they are. *)
Kill ==
    /\ kills < MaxKills
    /\ kills' = kills + 1
    /\ cache' = <<>> /\ lru' = <<>> /\ counted' = 0
    /\ call' = [t \in StoreThread |-> NoCall]
    /\ UNCHANGED <<file, puts, returned, calls>>

StorageNext ==
    \/ \E t \in StoreThread :
          \/ \E k \in StoreKey : BeginWrite(t, k) \/ BeginGet(t, k) \/ BeginDelete(t, k)
          \/ OpenFile(t) \/ FillFile(t)
          \/ Measure(t) \/ Scan(t) \/ ScanCache(t) \/ EvictCache(t) \/ EvictOrder(t)
          \/ InsertEntry(t) \/ PushOrder(t) \/ CountSize(t)
          \/ Touch(t) \/ ReadData(t) \/ ReadMeta(t) \/ LookFile(t) \/ Unlink(t)
    \/ Kill

StorageSpec == StorageInit /\ [][StorageNext]_storageVars

-----------------------------------------------------------------------------
Within(place) == {t \in StoreThread : call[t].at = place}

(* What get takes from the disk is one put's data with that put's metadata,  *)
(* for its key, whatever writers, deleters and kills did to the two files.   *)
ReadsAreWhole ==
    \A r \in returned : r.data = r.meta /\ r.data \in DOMAIN puts /\ puts[r.data] = r.key

(* The cache can always be emptied again: what is cached is in the order, or *)
(* its thread is about to put it there, and no more is cached than the size  *)
(* counts and the threads past their insertion will count.                   *)
CacheEvictable ==
    /\ \A k \in Cached : k \in ToSet(lru) \cup {call[t].key : t \in Within("order")}
    /\ IsInjective(lru)
    /\ Cardinality(Cached) <= counted + Cardinality(Within("order") \cup Within("count"))

StoreIsSound == ReadsAreWhole /\ CacheEvictable

(* storage.rs:149: "High-performance key-value store with LRU cache".  When  *)
(* no call is open, what is cached of a key is what is stored of it.         *)
CacheFollowsFiles ==
    (\A t \in StoreThread : call[t] = NoCall) =>
        \A k \in Cached : file[FileOf[k]].data = cache[k]

(* storage.rs:157: "Maximum cache size in bytes". *)
CacheFits == Cardinality(Cached) <= CacheSize

(* storage.rs:159: "Current cache size". *)
SizeIsCurrent ==
    (\A t \in StoreThread : call[t] = NoCall) => counted = Cardinality(Cached)

(* Two threads never hold what the other one waits for: the scan takes the   *)
(* order and then the cache, the eviction the cache and then the order.      *)
NoEmbrace ==
    \A t, u \in StoreThread : ~(call[t].at = "scanCache" /\ call[u].at = "evictOrder")
=============================================================================
