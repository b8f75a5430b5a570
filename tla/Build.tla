-------------------------------- MODULE Build --------------------------------
(* ribosome: Scheduler::build (sched.rs) over the store of cas.rs, with the   *)
(* remedies of heal.rs.  Several builds, each a process of its own, share one *)
(* store; the file system interleaves their calls, a process may be killed    *)
(* between any two of them, and a stored blob may rot or disappear.           *)
(*                                                                            *)
(* A digest is the content it names.  An action has one output and one tool;  *)
(* an action without dependencies reads the one source file.                  *)
EXTENDS Integers, Sequences, FiniteSets

CONSTANTS
    Builder,        \* the processes
    Action,
    Order,          \* topological_order of the graph
    Deps,           \* deps_of
    Pinned,         \* the actions that ask for an accelerator
    OptedIn,        \* ... and that carry ribosome.fallback=1
    Unpinned,       \* the actions whose tool is "+unpinned"
    Flaky,          \* the actions whose tool may fail
    Gpu,            \* the builders with a worker that has the accelerator
    Shared,         \* open_shared
    Source, None,
    MaxRot,         \* bound: the blobs that rot or get lost
    MaxCrashes      \* bound: the processes killed

ASSUME GraphAssumption ==
    /\ Source \notin Action /\ None \notin Action \cup Builder \cup {Source}
    /\ Deps \in [Action -> SUBSET Action]
    /\ Order \in Seq(Action)
    /\ \A a \in Action : \E i \in 1 .. Len(Order) : Order[i] = a
    /\ \A i, j \in 1 .. Len(Order) : Order[i] = Order[j] => i = j
    /\ \A i \in 1 .. Len(Order) : \A d \in Deps[Order[i]] :
          \E j \in 1 .. i - 1 : Order[j] = d
ASSUME SortAssumption ==
    /\ OptedIn \subseteq Pinned /\ Pinned \cup Unpinned \cup Flaky \subseteq Action
    /\ Gpu \subseteq Builder /\ Shared \in BOOLEAN /\ {MaxRot, MaxCrashes} \subseteq Nat

VARIABLES
    run,        \* each process: where it is in build() and run_one()
    blobs,      \* digests whose path exists in cas/
    bad,        \* ... with contents that do not hash to them
    partial,    \* digests whose .partial name exists
    badPartial, \* ... not (yet) filled
    claims,     \* well-formed entries of actions/: key and output digest
    torn,       \* keys whose entry is malformed
    rots, crashes

store == <<blobs, bad, partial, badPartial>>
cache == <<claims, torn>>
faults == <<rots, crashes>>
vars == <<run, store, cache, faults>>

MaxTransientRetries == 2    \* HealPolicy::default
MaxCorruptionRetries == 1

Reads(a) == IF Deps[a] = {} THEN {Source} ELSE Deps[a]

Places == {"new", "next", "lookup", "verify", "invalidate", "evict", "read", "execute",
           "check", "open", "fill", "rename", "claim", "claimFill", "done", "aborted"}
Outcomes == {"Pending", "CacheHit", "Built", "Healed", "Failed", "Skipped"}
Handles == {"none", "partial", "blob", "claim", "gone"}

(* produced starts with the source; out is the digest in hand; handle is     *)
(* the name under which the file being written is reachable.                 *)
Fresh == [at |-> "new", pos |-> 0, attempt |-> 0, relaxed |-> FALSE, unread |-> {},
          tainted |-> FALSE, out |-> Source, handle |-> "none",
          produced |-> [i \in Action \cup {Source} |-> IF i = Source THEN Source ELSE None],
          outcome |-> [a \in Action |-> "Pending"]]

Init ==
    /\ run = [b \in Builder |-> Fresh]
    /\ blobs = {} /\ bad = {} /\ partial = {} /\ badPartial = {}
    /\ claims = {} /\ torn = {}
    /\ rots = 0 /\ crashes = 0

-----------------------------------------------------------------------------
(* Keys, contents and remedies.                                              *)

Current(b) == Order[run[b].pos]

(* Mutant: the relaxed action keeps the key of the one that was asked for. *)
KeyPlatformAsAsked(b) == IF Current(b) \in Pinned THEN "gpu" ELSE "any"

(* relax_platform drops the pin, and the action is keyed again. *)
KeyPlatform(b) ==
    IF Current(b) \in Pinned /\ ~run[b].relaxed THEN "gpu" ELSE "any"

(* action_key, over the digests produced upstream. *)
Key(b) ==
    [action |-> Current(b), platform |-> KeyPlatform(b),
     inputs |-> [i \in Reads(Current(b)) |-> run[b].produced[i]]]

(* What the tool makes: from the inputs, for the platform it runs on, and,   *)
(* when it is not pinned, as the compiler of that machine does.              *)
Make(b) ==
    [action |-> Current(b),
     platform |-> IF Current(b) \in Pinned /\ ~run[b].relaxed THEN "gpu" ELSE "any",
     inputs |-> [i \in Reads(Current(b)) |-> run[b].produced[i]],
     tool |-> IF Current(b) \in Unpinned THEN b ELSE None]

(* What a tool makes of bytes that are not what they are taken for. *)
Garbage(b) == [Make(b) EXCEPT !.inputs = [i \in Reads(Current(b)) |-> None]]

(* Mutant: get does not rehash. *)
ReadsBack(d) == d \in blobs

(* Cas::get. *)
Verifies(d) == d \in blobs \ bad

(* Mutant: anything may be published anywhere. *)
MayPublishAll(a) == TRUE

MayPublish(a) == ~Shared \/ a \notin Unpinned

(* Mutant: a skipped action does not break its dependents. *)
BreaksFailedOnly(o) == o = "Failed"

(* In `broken`: not a success. *)
Breaks(o) == o \in {"Failed", "Skipped"}

(* Mutant: one retry too many. *)
RetriesTransientOnceMore(n) == n <= MaxTransientRetries + 1

(* on_exec_error, Transient. *)
RetriesTransient(n) == n < MaxTransientRetries

(* on_cas_error, Corrupt or Missing. *)
RetriesBadBlob(n) == n < MaxCorruptionRetries

Goto(b, place) == run' = [run EXCEPT ![b].at = place]

Retry(b) == [run[b] EXCEPT !.at = "lookup", !.attempt = @ + 1]

(* Mutant: the attempt is not counted. *)
RetryReadUncounted(b) == [run[b] EXCEPT !.at = "lookup"]

(* A corrupt or missing input is answered with EvictAndRetry; this arm of    *)
(* run_one takes the attempt from the remedy and leaves the blob.            *)
RetryRead(b) == Retry(b)

(* run_one returns, and build() goes on with the next action. *)
Return(r, a, o) ==
    [r EXCEPT !.at = "next", !.pos = @ + 1, !.attempt = 0, !.relaxed = FALSE,
              !.unread = {}, !.tainted = FALSE, !.out = None, !.handle = "none",
              !.outcome[a] = o]

Fail(b) == run' = [run EXCEPT ![b] = Return(run[b], Current(b), "Failed")]

Success(b) == IF run[b].attempt = 0 THEN "Built" ELSE "Healed"

-----------------------------------------------------------------------------
(* build.                                                                    *)

(* main.rs puts the source into the store before the scheduler runs. *)
StartProcess(b) ==
    /\ run[b].at = "new"
    /\ Goto(b, "check")
    /\ UNCHANGED <<store, cache, faults>>

Finish(b) ==
    /\ run[b].at = "next" /\ run[b].pos > Len(Order)
    /\ Goto(b, "done")
    /\ UNCHANGED <<store, cache, faults>>

Skip(b) ==
    /\ run[b].at = "next" /\ run[b].pos <= Len(Order)
    /\ \E d \in Deps[Current(b)] : Breaks(run[b].outcome[d])
    /\ run' = [run EXCEPT ![b] = Return(run[b], Current(b), "Skipped")]
    /\ UNCHANGED <<store, cache, faults>>

RunOne(b) ==
    /\ run[b].at = "next" /\ run[b].pos <= Len(Order)
    /\ \A d \in Deps[Current(b)] : ~Breaks(run[b].outcome[d])
    /\ Goto(b, "lookup")
    /\ UNCHANGED <<store, cache, faults>>

-----------------------------------------------------------------------------
(* run_one: the cache.                                                       *)

(* A malformed entry reads as a miss. *)
Lookup(b) ==
    /\ run[b].at = "lookup"
    /\ \/ \E c \in claims :
             /\ c.key = Key(b)
             /\ run' = [run EXCEPT ![b].at = "verify", ![b].out = c.out]
       \/ /\ \A c \in claims : c.key # Key(b)
          /\ run' = [run EXCEPT ![b].at = "read", ![b].unread = Reads(Current(b)),
                                ![b].tainted = FALSE]
    /\ UNCHANGED <<store, cache, faults>>

VerifyAndAdopt(b) ==
    /\ run[b].at = "verify"
    /\ \/ /\ Verifies(run[b].out)
          /\ run' = [run EXCEPT ![b] =
                Return([run[b] EXCEPT !.produced[Current(b)] = run[b].out],
                       Current(b), "CacheHit")]
       \/ /\ ~Verifies(run[b].out) /\ RetriesBadBlob(run[b].attempt)
          /\ Goto(b, "invalidate")
       \/ /\ ~Verifies(run[b].out) /\ ~RetriesBadBlob(run[b].attempt)
          /\ Fail(b)
    /\ UNCHANGED <<store, cache, faults>>

(* invalidate removes the entry; whoever is writing it writes to a file      *)
(* without a name.                                                           *)
Invalidate(b) ==
    /\ run[b].at = "invalidate"
    /\ claims' = {c \in claims : c.key # Key(b)}
    /\ torn' = torn \ {Key(b)}
    /\ run' = [c \in Builder |->
          IF c = b THEN [run[b] EXCEPT !.at = "evict"]
          ELSE IF run[c].handle = "claim" /\ Key(c) = Key(b)
               THEN [run[c] EXCEPT !.handle = "gone"] ELSE run[c]]
    /\ UNCHANGED <<store, faults>>

(* The other processes' handles on the file at a blob's path, once the file  *)
(* has lost that path.                                                       *)
Unnamed(c, d) ==
    IF run[c].handle = "blob" /\ run[c].out = d
    THEN [run[c] EXCEPT !.handle = "gone"] ELSE run[c]

Evict(b) ==
    /\ run[b].at = "evict"
    /\ blobs' = blobs \ {run[b].out} /\ bad' = bad \ {run[b].out}
    /\ run' = [c \in Builder |-> IF c = b THEN Retry(b) ELSE Unnamed(c, run[b].out)]
    /\ UNCHANGED <<partial, badPartial, cache, faults>>

-----------------------------------------------------------------------------
(* run_one: inputs and execution.                                            *)

ReadInput(b) ==
    \E i \in run[b].unread : LET d == run[b].produced[i] IN
        /\ run[b].at = "read"
        /\ \/ /\ Verifies(d)
              /\ run' = [run EXCEPT ![b].unread = @ \ {i},
                                    ![b].tainted = @ \/ d \in bad,
                                    ![b].at = IF run[b].unread = {i} THEN "execute" ELSE @]
           \/ /\ ~Verifies(d) /\ RetriesBadBlob(run[b].attempt)
              /\ run' = [run EXCEPT ![b] = RetryRead(b)]
           \/ /\ ~Verifies(d) /\ ~RetriesBadBlob(run[b].attempt)
              /\ Fail(b)
        /\ UNCHANGED <<store, cache, faults>>

Capable(b) == Current(b) \notin Pinned \/ run[b].relaxed \/ b \in Gpu

(* NoCapablePlatform: Substitute or Escalate. *)
ExecuteIncapable(b) ==
    /\ run[b].at = "execute" /\ ~Capable(b)
    /\ \/ /\ Current(b) \in OptedIn
          /\ run' = [run EXCEPT ![b] = [Retry(b) EXCEPT !.relaxed = TRUE]]
       \/ Current(b) \notin OptedIn /\ Fail(b)
    /\ UNCHANGED <<store, cache, faults>>

ExecuteOk(b) ==
    /\ run[b].at = "execute" /\ Capable(b)
    /\ run' = [run EXCEPT ![b].at = "check",
                          ![b].out = IF run[b].tainted THEN Garbage(b) ELSE Make(b)]
    /\ UNCHANGED <<store, cache, faults>>

ExecuteTransient(b) ==
    /\ run[b].at = "execute" /\ Capable(b) /\ Current(b) \in Flaky
    /\ \/ RetriesTransient(run[b].attempt) /\ run' = [run EXCEPT ![b] = Retry(b)]
       \/ ~RetriesTransient(run[b].attempt) /\ Fail(b)
    /\ UNCHANGED <<store, cache, faults>>

(* Deterministic, ToolNotFound, MissingOutput: Escalate. *)
ExecuteFails(b) ==
    /\ run[b].at = "execute" /\ Capable(b) /\ Current(b) \in Flaky
    /\ Fail(b)
    /\ UNCHANGED <<store, cache, faults>>

-----------------------------------------------------------------------------
(* Cas::put, of the source (pos = 0) or of an output.                        *)

(* put has returned Ok: the source is stored, or run_one enters the output   *)
(* in produced and publishes the claim.                                      *)
Stored(b) ==
    IF run[b].pos = 0
    THEN [run[b] EXCEPT !.at = "next", !.pos = 1, !.out = None]
    ELSE LET r == [run[b] EXCEPT !.produced[Current(b)] = run[b].out] IN
         IF MayPublish(Current(b)) THEN [r EXCEPT !.at = "claim"]
                                   ELSE Return(r, Current(b), Success(b))

(* A path that exists is taken for the blob. *)
CheckBlob(b) ==
    /\ run[b].at = "check"
    /\ \/ run[b].out \in blobs /\ run' = [run EXCEPT ![b] = Stored(b)]
       \/ run[b].out \notin blobs /\ Goto(b, "open")
    /\ UNCHANGED <<store, cache, faults>>

(* fs::write creates or truncates the one .partial name of the digest. *)
OpenPartial(b) ==
    /\ run[b].at = "open"
    /\ partial' = partial \cup {run[b].out}
    /\ badPartial' = badPartial \cup {run[b].out}
    /\ run' = [run EXCEPT ![b].at = "fill", ![b].handle = "partial"]
    /\ UNCHANGED <<blobs, bad, cache, faults>>

(* ... and fills the file it opened, wherever that is by now. *)
FillPartial(b) ==
    /\ run[b].at = "fill"
    /\ badPartial' = IF run[b].handle = "partial" THEN badPartial \ {run[b].out} ELSE badPartial
    /\ bad' = IF run[b].handle = "blob" THEN bad \ {run[b].out} ELSE bad
    /\ run' = [run EXCEPT ![b].at = "rename", ![b].handle = "none"]
    /\ UNCHANGED <<blobs, partial, cache, faults>>

(* rename moves whatever has the .partial name; without one it is an error,  *)
(* which ends the process or fails the action.                               *)
RenamePartial(b) == LET d == run[b].out IN
    /\ run[b].at = "rename"
    /\ \/ /\ d \in partial
          /\ blobs' = blobs \cup {d}
          /\ bad' = IF d \in badPartial THEN bad \cup {d} ELSE bad \ {d}
          /\ partial' = partial \ {d} /\ badPartial' = badPartial \ {d}
          /\ run' = [c \in Builder |->
                IF c = b THEN Stored(b)
                ELSE IF run[c].handle = "partial" /\ run[c].out = d
                     THEN [run[c] EXCEPT !.handle = "blob"] ELSE Unnamed(c, d)]
       \/ /\ d \notin partial
          /\ IF run[b].pos = 0 THEN Goto(b, "aborted") ELSE Fail(b)
          /\ UNCHANGED store
    /\ UNCHANGED <<cache, faults>>

(* ActionCache::put writes the entry in place. *)
OpenClaim(b) ==
    /\ run[b].at = "claim"
    /\ claims' = {c \in claims : c.key # Key(b)}
    /\ torn' = torn \cup {Key(b)}
    /\ run' = [run EXCEPT ![b].at = "claimFill", ![b].handle = "claim"]
    /\ UNCHANGED <<store, faults>>

FillClaim(b) ==
    /\ run[b].at = "claimFill"
    /\ IF run[b].handle = "claim"
       THEN /\ claims' = {c \in claims : c.key # Key(b)} \cup
                            {[key |-> Key(b), out |-> run[b].out]}
            /\ torn' = torn \ {Key(b)}
       ELSE UNCHANGED cache
    /\ run' = [run EXCEPT ![b] = Return(run[b], Current(b), Success(b))]
    /\ UNCHANGED <<store, faults>>

-----------------------------------------------------------------------------
(* The environment.                                                          *)

(* The process is killed, and somebody builds again. *)
Crash(b) ==
    /\ run[b].at \notin {"new", "done", "aborted"} /\ crashes < MaxCrashes
    /\ run' = [run EXCEPT ![b] = Fresh]
    /\ crashes' = crashes + 1
    /\ UNCHANGED <<store, cache, rots>>

Rot(d) ==
    /\ rots < MaxRot /\ d \in blobs \ bad
    /\ bad' = bad \cup {d}
    /\ rots' = rots + 1
    /\ UNCHANGED <<run, blobs, partial, badPartial, cache, crashes>>

Lose(d) ==
    /\ rots < MaxRot /\ d \in blobs
    /\ blobs' = blobs \ {d} /\ bad' = bad \ {d}
    /\ run' = [c \in Builder |-> Unnamed(c, d)]
    /\ rots' = rots + 1
    /\ UNCHANGED <<partial, badPartial, cache, crashes>>

Work(b) ==
    \/ Finish(b) \/ Skip(b) \/ RunOne(b)
    \/ Lookup(b) \/ VerifyAndAdopt(b) \/ Invalidate(b) \/ Evict(b)
    \/ ReadInput(b)
    \/ ExecuteIncapable(b) \/ ExecuteOk(b) \/ ExecuteTransient(b) \/ ExecuteFails(b)
    \/ CheckBlob(b) \/ OpenPartial(b) \/ FillPartial(b) \/ RenamePartial(b)
    \/ OpenClaim(b) \/ FillClaim(b)

Next ==
    \/ \E b \in Builder : StartProcess(b) \/ Work(b) \/ Crash(b)
    \/ \E d \in blobs : Rot(d) \/ Lose(d)

(* A process that is not killed keeps running. *)
Spec == Init /\ [][Next]_vars /\ \A b \in Builder : WF_vars(Work(b))

-----------------------------------------------------------------------------
(* Properties.                                                               *)

TypeOK ==
    /\ \A b \in Builder : LET r == run[b] IN
          /\ r.at \in Places /\ r.pos \in 0 .. Len(Order) + 1 /\ r.handle \in Handles
          \* Two retries, and one substitution after them.
          /\ r.attempt \in 0 .. MaxTransientRetries + 1
          /\ r.outcome \in [Action -> Outcomes]
    /\ bad \subseteq blobs /\ badPartial \subseteq partial
    /\ {c.key : c \in claims} \cap torn = {}

(* A claim tells the truth about its key whoever reads it (cas.rs:211-215,   *)
(* heal.rs:29-32): its output was made from the inputs and for the platform  *)
(* in the key, and in a shared store by a compiler that everyone has.        *)
ClaimsTrue ==
    \A c \in claims :
        /\ c.out.action = c.key.action /\ c.out.inputs = c.key.inputs
        /\ c.out.platform = c.key.platform
        /\ Shared => c.out.tool = None

(* What a build adopts, from a worker or from the cache, is the product of   *)
(* this build's own inputs, and for the accelerator where one was asked for, *)
(* unless this builder has none and the action opted into the fallback.      *)
BuildsAreFaithful ==
    \A b \in Builder : \A a \in Action : LET o == run[b].produced[a] IN
        o # None =>
            /\ o.action = a
            /\ o.inputs = [i \in Reads(a) |-> run[b].produced[i]]
            /\ a \in Pinned => o.platform = "gpu" \/ (a \in OptedIn /\ b \notin Gpu)

(* The chains of n actions, each a dependency of the next.  The graph has no *)
(* cycle, so none is longer than the order.                                  *)
Chains(n) == {c \in [1 .. n -> Action] : \A i \in 1 .. n - 1 : c[i] \in Deps[c[i + 1]]}

(* A failure is contained (sched.rs:17-24): a finished build has skipped the *)
(* actions downstream of a failure, all of them and no other.                *)
FailureIsContained ==
    \A b \in Builder : run[b].at = "done" =>
        \A a \in Action :
            /\ run[b].outcome[a] # "Pending"
            /\ run[b].outcome[a] = "Skipped" <=>
                 \E n \in 2 .. Len(Order) : \E c \in Chains(n) :
                    c[n] = a /\ run[b].outcome[c[1]] = "Failed"

(* Healing comes to an end: a build that is not killed reports (the attempt  *)
(* counter is shared by retries, evictions and substitutions).               *)
BuildsEnd ==
    \A b \in Builder : run[b].at = "next" ~> run[b].at \in {"done", "new"}

(* cas.rs:23-24: a corrupt blob is an error "which heal then repairs by      *)
(* evicting and rebuilding".  While the tools work, no action fails for      *)
(* inputs that other actions make.                                           *)
CorruptionIsHealed ==
    \A b \in Builder : \A a \in Action :
        Deps[a] # {} => run[b].outcome[a] # "Failed"

(* cas.rs:126-127: "a crash mid-write cannot leave a truncated blob sitting  *)
(* at a digest".  Without rot, a bad blob is one that is being written.      *)
BlobsComplete ==
    \A d \in bad : \E b \in Builder : run[b].handle = "blob" /\ run[b].out = d
=============================================================================
