-------------------------------- MODULE Workspace --------------------------------
(* The shared workspace of RecursiveMachineIntelligence/src/core/             *)
(* collaboration.rs: a versioned store of keys that threads write to and      *)
(* watch.  A write takes several steps between its locks, and threads         *)
(* interleave there.  Keys and prefixes are sequences of names; the prefix    *)
(* `*` is, like the empty one, <<>>.                                          *)
EXTENDS Integers, Sequences

CONSTANTS
    Thread,
    Key, Prefix,
    WatchDepth,    \* the capacity of a watcher's channel
    MaxWrites,     \* bound: the puts
    MaxWatches     \* bound: the watchers

ASSUME WorkspaceAssumption ==
    /\ Key \subseteq Seq(STRING) /\ Prefix \subseteq Seq(STRING)
    /\ {WatchDepth, MaxWrites, MaxWatches} \subseteq Nat

VARIABLES
    entries,    \* by key: the version, and the version its metadata is of (0: none)
    version,    \* the global counter
    watchers,   \* the senders, with what was sent: see Watch
    doing       \* by thread: the step it is about to take

workspaceVars == <<entries, version, watchers, doing>>

Idle == [step |-> "idle"]

WorkspaceInit ==
    /\ entries = <<>> /\ version = 0
    /\ watchers = <<>>
    /\ doing = [t \in Thread |-> Idle]

-----------------------------------------------------------------------------
Watches(prefix, key) == Len(prefix) <= Len(key) /\ prefix = SubSeq(key, 1, Len(prefix))

(* Mutant: an event that finds the channel full is lost. *)
TrySendLossy(w, event) ==
    IF w.pending < WatchDepth
    THEN [w EXCEPT !.sent = @ \cup {event}, !.pending = @ + 1]
    ELSE w

(* A watcher whose channel is full is struck off. *)
TrySend(w, event) ==
    IF w.pending < WatchDepth
    THEN [w EXCEPT !.sent = @ \cup {event}, !.pending = @ + 1]
    ELSE [w EXCEPT !.open = FALSE]

-----------------------------------------------------------------------------
(* put, put_with_metadata and put_tensor: the version is drawn first.        *)
BeginPut(t, k, meta) ==
    /\ doing[t] = Idle
    /\ version < MaxWrites
    /\ version' = version + 1
    /\ doing' = [doing EXCEPT ![t] =
          [step |-> "insert", key |-> k, version |-> version + 1, meta |-> meta]]
    /\ UNCHANGED <<entries, watchers>>

(* Under the lock of the entries; the metadata of a key that is there stays. *)
Insert(t) ==
    /\ doing[t].step = "insert"
    /\ LET k == doing[t].key
           new == [version |-> doing[t].version,
                   meta |-> IF k \in DOMAIN entries THEN entries[k].meta ELSE 0]
       IN entries' = [j \in DOMAIN entries \cup {k} |-> IF j = k THEN new ELSE entries[j]]
    /\ doing' = [doing EXCEPT ![t].step = "notify"]
    /\ UNCHANGED <<version, watchers>>

(* Under the lock of the watchers. *)
Notify(t) ==
    /\ doing[t].step = "notify"
    /\ watchers' = [i \in DOMAIN watchers |->
          IF watchers[i].open /\ Watches(watchers[i].prefix, doing[t].key)
          THEN TrySend(watchers[i], [key |-> doing[t].key, version |-> doing[t].version])
          ELSE watchers[i]]
    /\ doing' = [doing EXCEPT ![t] =
          IF doing[t].meta THEN [doing[t] EXCEPT !.step = "meta"] ELSE Idle]
    /\ UNCHANGED <<entries, version>>

(* The second half of put_with_metadata, on whatever has the key by then. *)
SetMetadata(t) ==
    /\ doing[t].step = "meta"
    /\ entries' = [k \in DOMAIN entries |->
          IF k = doing[t].key THEN [entries[k] EXCEPT !.meta = doing[t].version] ELSE entries[k]]
    /\ doing' = [doing EXCEPT ![t] = Idle]
    /\ UNCHANGED <<version, watchers>>

(* delete: the watchers hear of it when the key was there. *)
Delete(t, k) ==
    /\ doing[t] = Idle
    /\ k \in DOMAIN entries
    /\ entries' = [j \in DOMAIN entries \ {k} |-> entries[j]]
    /\ doing' = [doing EXCEPT ![t] = [step |-> "notify", key |-> k, version |-> 0, meta |-> FALSE]]
    /\ UNCHANGED <<version, watchers>>

(* watch.  found is what the caller reads right after: get of every key.     *)
Watch(prefix) ==
    /\ Len(watchers) < MaxWatches
    /\ watchers' = Append(watchers, [prefix |-> prefix, open |-> TRUE, pending |-> 0,
          sent |-> {},
          found |-> {[key |-> k, version |-> entries[k].version] : k \in DOMAIN entries}])
    /\ UNCHANGED <<entries, version, doing>>

(* The watcher takes an event from its channel. *)
Receive(i) ==
    /\ watchers[i].pending > 0
    /\ watchers' = [watchers EXCEPT ![i].pending = @ - 1]
    /\ UNCHANGED <<entries, version, doing>>

WorkspaceNext ==
    \/ \E t \in Thread :
          \/ \E k \in Key : Delete(t, k) \/ \E meta \in BOOLEAN : BeginPut(t, k, meta)
          \/ Insert(t) \/ Notify(t) \/ SetMetadata(t)
    \/ \E prefix \in Prefix : Watch(prefix)
    \/ \E i \in DOMAIN watchers : Receive(i)

WorkspaceSpec == WorkspaceInit /\ [][WorkspaceNext]_workspaceVars

-----------------------------------------------------------------------------
(* Nothing is missed: what is in the store under a watcher's prefix, it found*)
(* there when it came, or was told of, or is about to be told of by the      *)
(* thread that wrote it; and so with what it found and is there no more.     *)
(* Only a watcher that was struck off, and so knows, can be behind.          *)
UpdatesAreSeen ==
    \A i \in DOMAIN watchers : watchers[i].open =>
        LET w == watchers[i]
            told == w.sent \cup
                {[key |-> doing[t].key, version |-> doing[t].version] :
                    t \in {u \in Thread : doing[u].step = "notify"}}
        IN /\ \A k \in DOMAIN entries : Watches(w.prefix, k) =>
                 [key |-> k, version |-> entries[k].version] \in w.found \cup told
           /\ \A f \in w.found : Watches(w.prefix, f.key) /\ f.key \notin DOMAIN entries =>
                 [key |-> f.key, version |-> 0] \in told

(* collaboration.rs:98: "Entry version (incremented on each write)".      *)
VersionsAdvance ==
    [][\A k \in DOMAIN entries \cap DOMAIN entries' :
          entries'[k].version >= entries[k].version]_workspaceVars

(* collaboration.rs:78: "Thread-safe via `RwLock`".  When no thread is at    *)
(* work, the metadata of an entry (the shape of a tensor) is of the write    *)
(* that its value is of, or older and never replaced.                        *)
TensorsAreWhole ==
    (\A t \in Thread : doing[t] = Idle) =>
        \A k \in DOMAIN entries : entries[k].meta <= entries[k].version
=============================================================================
