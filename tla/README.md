# MachineGenetics: the verification project

TLA+ models of the control planes of this repository, the TLC runs that check
them on small instances and the TLAPS proofs of what holds on every instance.
They cover **germline**, the control plane of recursive self-improvement (which
generation of a program is in authority, how it got there, and what is on record
about it); **ribosome**'s build scheduler over its shared store; the coordination
objects of the **prototype**'s agent runtime (leases, message bus, task graph,
merge engine); and the **RecursiveMachineIntelligence** library's Raft node, shared
workspace, memory pool, key-value store and swarm coordinator.
`PROJECT.json` maps every definition to the lines it models.

## 1. Inventory

### The system

The repository is a family of crates around MAGE, a language for machine-written
programs.

| Part | State it keeps | Operations | Hard behaviour |
|---|---|---|---|
| `germline/` lineage | generations, champion, events, next id | `next_id`, `add`, `promote`, `refuse`, `demote_champion`, `roll_back_to`, `replay` | long sequences of moves; approvals that went stale |
| `germline/` gate | an episode's registered criteria, suite, evaluator | `adjudicate`, `approve` | the live gate is public and may be edited after registration |
| `germline/` cycle | one candidate from proposal to commit | `propose`, `evaluate`, `shadow`, `adjudicate`, `commit` | several cycles over one lineage; a commit that fails half way |
| `germline/` journal | a hash-chained file, its head and next index | `open`, `append`, `read_all`, `verified`, `head` | crashes inside a write, failed syncs, edits of the file |
| `germline/` supervisor | samples of the new champion | `observe`, `reset` | four failure modes tested in order, windows and thresholds |
| `germline/` runner | loop counters, the open cycle, proposers' records | `run`, `one_cycle`, `supervise`, `resume` | crash between any two appends; errors of appends; termination |
| `germline/` attest, manifest, variation, directed, pareto, workload | (mostly none) | signing, scoring, proposing, dominance, measuring | external or pure |
| `ribosome/` store | blobs by digest, action cache, both plain files | `put`, `get`, `evict`; `lookup`, `put`, `invalidate` | processes on one shared directory, file call by file call; kills; rot |
| `ribosome/` scheduler and healer | outcomes, `produced`, `broken`; an attempt counter per action | `build`, `run_one`, `on_cas_error`, `on_exec_error`, `relax_platform` | retry, eviction and substitution in one loop; a failure skips what depends on it |
| `prototype/` leases | active leases, clock, wait-for graph | `acquire`, `release`, `release_all`, `tick`, and the public `default_timeout` | nested regions, expiry, deadlock |
| `prototype/` swarm bus | a priority queue per agent, subscriptions, counters | `register_agent`, `subscribe`, `send`, `recv`, `drain` | a full mailbox, overtaking, broadcasts |
| `prototype/` task graph | tasks, dependencies both ways | `add_task`, `add_dep`, `assign_agents`, `complete_task`; order, waves, critical path | edges added late, cycles, ties |
| `prototype/` merge engine | winners by target, history | `apply`, `apply_batch` | order, repetition, equal times |
| `prototype/` agent runtime | owns the four above | forwards each call to one of them | none: `&mut self` |
| `prototype/` compiler, consensus rounds, hot reload, sandbox | syntax trees; small phase machines | passes; guard and assignment | |
| `RecursiveMachineIntelligence/` Raft node | term, vote, role, log, commit and leader's indices | `start_election`, `propose` and four message handlers | lost, repeated, late, reordered messages |
| ... shared workspace | entries with versions, watchers' channels | `put` and variants, `delete`, `watch` | three locks per write, threads between them; channels that fill up |
| ... memory pool and tensor buffers | slabs with free lists; handles on counted memory | `alloc`, `dealloc`, `reset`; `slice`, `clone`, `as_bytes_mut`, `drop` | growth and reset; who frees, who writes |
| ... key-value store | two files per key; a cache, its order and its size | `put`, `get`, `delete` | four locks, of which two are taken in both orders; files written in place |
| ... swarm coordinator | agents, task queue, active and completed tasks | `register_agent`, `unregister_agent`, `submit_task`, `schedule`, `complete_task` | agents that leave with a task, reports that come late |
| ... BFT node, transport, discovery, delegation; numerical kernels | | library calls | |
| `forge/` registry | packages, blocks, cache | publish, resolve | version resolution |
| `arena/`, `kb/`, `skb/`, `framework/`, `editors/`, `scripts/` | data, measurement, tooling | | |

### How the parts of germline interact

`Runner::run` is a sequential loop. Each turn asks a *workload* (external) for a
candidate and its measurements, drives one `Cycle` over the `Lineage` through the
`Episode`'s gate, and, when the candidate is promoted, watches it with a
`Supervisor`; a failure demotes it to a generation whose artifact the workload
still materializes. Every transition is appended to the `Journal`. After a crash
the lineage is rebuilt by `Lineage::replay` and the loop by `Runner::resume`. A
`Cycle` borrows the lineage only inside `adjudicate` and `commit`, so as a library
germline allows several cycles over one lineage.

### How the other parts interact

* **ribosome**: one `ribosome build` is a process that runs the actions of a graph in
  topological order, each to its end. Processes meet only in the store, which
  `--shared` lets several of them use: blobs, temporary names and claims are files
  there, without locks. The healer is a pure function from an error and the attempts
  so far to a remedy; what is done with the remedy is `run_one`'s.
* **Agent runtime**: `AgentRuntime` holds a lease manager, a bus and a task graph, and
  the merge engine stands beside it. The objects share no state, and every call is a
  call of one of them under `&mut self`.
* **Raft**: the library has no thread and no socket; its caller says when a timeout has
  passed and carries messages between nodes. Nothing is persisted, so a node that dies
  does not come back.
* **Workspace, memory and store**: called by threads; a lock or an atomic counter at each
  step. The swarm coordinator has one caller at a time (`&mut self`), whose agents come and
  go and report when they like.

### What makes it correct

* Authority: one champion, explained by the events; a failed generation never
  returns; authority goes back only to something that runs.
* Promotions: earned on held-out evidence, under the criteria that were
  registered, against the very champion that is displaced; guard axes do not
  erode along an ancestry.
* History: append-only; edits of the file are evident; a published head pins what
  came before it.
* Durability: what replays from disk is what the live run had, at every point
  where it can die, and an append that fails leaves a journal that replays.
* The loop: it ends, it supervises before it proposes, a recorded failure ends
  authority.
* Builds: a claim in the cache is about what its key says; what a build adopts was
  made of its own inputs for its own platform; a failure fails exactly what depends on
  it; every build ends, however its store decays.
* Agents: leases exclude each other over nested regions and last as long as they were
  given for; mail is ordered and accounted for; a task starts after what it depends on
  and work gets done; replicas converge.
* Raft: one leader per term, logs that agree, a leader's log that only grows, and
  what is committed stays.
* Workspace: a watcher hears of everything or knows that it does not. Memory: a block
  has one holder, a buffer is freed once, after its last reader, and written by one.
  Store: what is read is one put's value, whole. Swarm: no task is lost or with two agents.

## 2. Modules

| Module | Models | Notes |
|---|---|---|
| `Lineage` | `lib.rs` data types, `lineage.rs` transitions | operators from a lineage to a lineage: the live run and the replay apply the same ones, as in the code |
| `Gate` | `gate.rs` | `adjudicate` as the set of reasons to refuse; `Approval` |
| `Authority` | (abstract) | the promise: one holder, a failure is final, only former holders get authority back |
| `Succession` | `cycle.rs` over `Lineage` and `Gate` | any number of interleaved cycles, an operator's demotions and rollbacks, an edited gate, artifacts that come and go |
| `Supervision` | `supervisor.rs` | `Push` and `Diagnose`: counts and sums of the samples, which is all `observe` reads |
| `Replay` | `Lineage::replay`, the `Entry` type, `ProposerRecord` | one step of the fold per entry |
| `Runner` | `runner.rs` with the cycle it drives | one action per append, crash and resume |
| `Journal` | `journal.rs` | the file line by line, with what a crash or an error leaves |
| `Build` | `sched.rs`, `heal.rs`, `cas.rs` | several builders, one step per file call |
| `Raft` | `RaftNode` of RMI's `distributed/consensus.rs` | one action per handler; messages are sets that only grow |
| `Leases`, `Bus`, `Tasks`, `Crdt` | `prototype/src/lease.rs`, `swarm_bus.rs`, `decompose.rs`, `crdt.rs` | one action per call |
| `Workspace` | the `SharedWorkspace` of RMI's `core/collaboration.rs` | one step per lock |
| `Memory` | RMI's `runtime/memory_pool.rs` | one action per call under the lock or on the counter |
| `Storage` | `KeyValueStore` of RMI's `core/storage.rs` | one step per lock and per file call |
| `Swarm` | `SwarmCoordinator` of RMI's `core/swarm.rs` | one action per call |
| `Retain` | `retain` and `filter` of Rust's sequences | what `Tasks`, `Storage` and `Swarm` use them for |
| `LineageProofs`, `SuccessionProofs`, `RunnerProofs`, `JournalProofs`, `BuildProofs`, `RaftProofs` | | proofs about one component each, section 5 |
| `CoordinationProofs` | | proofs about `Leases`, `Workspace`, `Crdt`, `Bus` and `Tasks` |
| `LibraryProofs` | | proofs about `Storage`, `Swarm` and `Memory` |
| `MCSuccession`, `MCRunner`, `MCJournal`, `MCRaft`, `MCBuild` | | values for TLC |
| `MCCoordination` | `AgentRuntime` and the objects beside it | composes `Leases`, `Bus`, `Tasks`, `Crdt`, `Workspace`, `Memory`, `Storage` and `Swarm` |

`Gate` extends `Lineage`; `Succession` extends `Gate` and refines `Authority`;
`Replay` extends `Gate`; `Runner` extends `Replay` and `Supervision` and refines
`Authority` on what its disk records. `MCCoordination` extends the eight modules of
objects. As these share no state, the interleaving of their calls cannot matter and a
product of their states would only cost time: the variable `driven` says which of them
a behaviour is about, and the others stand still.

### State and code

* A `Lineage` is a record. The `Vec<Generation>` is split in `order` (positions),
  `data` (parent, artifact, measurement: no transition changes them) and `status`
  (`Absent` for an id that `get` does not find). Fitness values are small integers,
  the gate's margins the same; digests are the values they digest, so equal digests
  mean equal contents (hash collisions and signatures are left out).
* In `Succession`, `cycles[id]` is the `Cycle` that owns `id`; `gate` is the live
  `Episode.gate` against the constant `RegisteredGate`; `store` is what the
  `materialized` callback answers. The journal is left out there (`Runner` has it).
* In `Runner`, a step ends where the code appends to the journal, so a `Crash` may
  come between any two appends and between a change of the lineage in memory and
  the append that records it (`Commit` then `JournalPromotion`, `DemoteFailed` then
  `JournalDemotion`). `journal` is what is on disk and `disk` the value
  `Lineage::replay` gives it; as replay is a left fold, each `Write` applies
  one more `ReplayEntry`. A failed append (`ok = FALSE`) writes nothing here and
  takes the branch the code takes: `?` leads to `failed` and `WorkloadFailed`,
  `let _ =` goes on. Notes are kept only where their failure or place matters.
  The workload's answers and the external proposer's scores are chosen at every
  call. Supervision scores are relative to the champion's at promotion.
* In `Journal`, a line is a record or `Garbage`; `bare` says the file lacks its
  final newline, so that the next write continues the last line. A crash or an
  I/O error leaves nothing, part of the line, the line without its newline, or the
  whole line. `EditEntry` and `DeleteLine` are edits by somebody else.
* In `Build`, a digest *is* the content it names: a record of the action, the platform,
  the inputs and, for an unpinned tool, the machine. `blobs` are the paths that exist,
  `bad` those whose bytes do not hash to their name, `partial` and `badPartial` the same
  for the one temporary name a digest has. A process that has a file open has a
  `handle`, by which a write reaches the file wherever it was renamed to meanwhile.
  `run[b]` is the program counter through `build` and `run_one`; `attempt` and
  `relaxed` are `run_one`'s locals. `Rot` and `Lose` are the disk's doing; `Crash` kills a
  process, after which somebody starts the build again.
* In `Raft`, indices are positions in the log. A message stays in its set once sent, so
  that it may arrive late, again, or never; `SeenTerm` and its companions are `step_down`.
  Refusals that change nothing at the candidate are not kept.
* In `Leases`, a region is the sequence of names its path is, so that `Covers` is the
  prefix test of the code. In `Bus`, a message carries its number, urgency and sender;
  `received` and `addressed` are history. In `Tasks`, `rdeps` is the converse of `deps`
  and is left out. In `Crdt`, an
  author's hash is a constant, so that the tie-break is the code's.
* In `Workspace`, `doing[t]` is where a thread is between the locks of a write. Values
  are their versions. What `watch` found is what its caller reads right after.
* In `Memory`, a slab is a capacity, a free list and a count; a block is its class, its
  slab and its index. `held` (what callers have) and `frees` are history. Callers are
  taken to give a block back once, in its class, and not after a `reset`. The buffers'
  counters are atomic and their orderings are taken as sufficient.
* In `Storage`, a value is the number of its put and counts one byte, so that the checksum
  holds exactly when data and metadata are of one put. `file` has the contents of a name's
  two files, `Torn` when they are no put's; `call[t].at` is where a thread is, and a thread
  at `touch`, `scanCache` or `evictOrder` holds the lock it took before. `named` says that
  the file a writer has open still has its name. `FileOf` is `key_to_path`.
* In `Swarm`, `members[w]` is an agent's state and its tasks; a queued copy of a task is
  its id, as everything queued is Pending; `active[j]` is whom a task is assigned to, and
  `Nobody` after its agent left. Every agent and every task has a new id.

## 3. Runs

| Run | Question | Bounds |
|---|---|---|
| `succession` | Does authority stay explained, earned and recoverable when cycles, demotions, rollbacks, lost artifacts and edits of the gate interleave? | 3 generations, 1 artifact, 7 measurements (a drifting chain and one for each way to be refused), 2 gates, 1 shadow run, 3 events |
| `runner` | Killed anywhere and resumed, does the run continue from what it recorded? | 4 ids, 2 cycles per run, 1 restart, window of 3 |
| `runner_faults` | And when one append fails anywhere? | as above with 1 failed append, built-in search |
| `runner_ends` | From an empty lineage, with every diagnosis: does it end, having supervised and demoted? | 3 cycles, 4 kinds of sample |
| `journal` | What do crashes, errors and edits do to the file? | 3 lines, 2 entries, 3 mishaps |
| `build` | Do two builds on one store stay true, faithful, contained and finite? | a machine with and one without an accelerator; compile (unpinned), tune (wants the accelerator, may do without, may fail), link; 1 blob rots or is lost, 1 kill |
| `raft` | Elections and replication over a bad network | 3 nodes (symmetric), 3 terms, 3 elections, logs to 2, 1 AppendEntries, any number of deliveries |
| `coordination` | The eight objects, each under every sequence of calls | leases: 2 agents, 3 regions (two nested), 3 leases, 2 ticks; bus: 2 agents, depth 2, 3 sends; tasks: 3 tasks, 2 agents, 3 edges; merge: 2 replicas, 2 authors, 2 targets, 2 times; workspace: 2 threads, 2 keys (nested), 2 writes, 1 watcher with room for 1; memory: 2 classes, limit 5, 1 buffer of 2, 3 handles; store: 2 threads, 2 keys, 3 calls, room for 1, 1 kill; swarm: 3 agents of which 2 at a time, 3 tasks, each completed at most twice |

What they check:

* `RecordExplainsAuthority`: the champion is the one the last move left in
  authority, nobody else is marked so, the quarantined are those with a Demoted
  event. `PromotionsEarned`: a stale approval or an edited gate never gets a
  promotion. `AncestryRatchet`: small allowed losses do not add up along an
  ancestry. `HistoryAppendOnly`, `FallbackIsRunnable`: action properties.
  `RefinesAuthority`: `Succession` implements `Authority`.
* `ReplayFollowsLive`, `TallySurvives` (`CountersSurvive` and `TrustSurvives`):
  lineage, cycle number,
  refusals in a row and proposer's trust rebuilt from disk are the live ones.
  `PromotionsHavePaperTrail`: a promotion on disk follows one proposal, an
  evaluation and an approving verdict. `ReportAnchorsJournal`: nothing is written
  after the published head. `DurableAuthority`: authority as the disk has it keeps
  the promise of `Authority`. `JournalReplays`: replay never refuses the journal.
* `RecordedFailureEndsAuthority`, `SupervisedBeforeProposing` and the liveness
  property `RunsEnd`.
* `EditsAreEvident`, `AnchorsPinHistory`, `AckedSurvive`.
* `ClaimsTrue`: an entry of the cache names what its key's action makes of the key's
  inputs on the key's platform. `BuildsAreFaithful`: what a build adopts as produced
  was made from what it produced upstream. `FailureIsContained`: an action is skipped
  exactly when a chain of dependencies leads to it from one that failed. `BuildsEnd`: a build
  that is not killed ends, however retries, evictions and substitutions alternate.
* `ElectionSafety`, `LogMatching` and `LeaderAppendOnly` are Raft's, over this code.
* `LeasesExclude`: no two agents hold incompatible leases on overlapping regions and
  none is held past its time; `LeasesHonoured`: a lease ends by release or by time and
  its id is not given twice. `MailIsKept` (in order and accounted for): what an agent receives is
  by urgency and then by number, and each copy is delivered, waiting or counted as
  dropped. `TasksWait`: a task in progress had its dependencies of that time completed;
  `PlansAreSound`: order, waves and critical path against their definitions;
  `TasksFinish`: the work gets done unless a cycle appears. `ReplicasConverge`:
  replicas that applied the same operations have the same winners, and none of them
  kept a loser. `UpdatesAreSeen`: a watcher that was not struck off
  was told, or is about to be, of all it did not find. `MemoryIsSound`: a block is
  free, once, or held by one caller, and the slab counts those that are held
  (`BlocksAccounted`); the pool's total is its slabs' bytes, and over the limit only if
  it was configured so, and then it does not grow (`PoolFits`); a buffer is freed
  at most once and after its last view, views stay inside, a writer is alone
  (`ViewsAreSound`).
  `StoreIsSound`: a value
  read from disk is one put's, under its key, whatever writers, deletes and kills did to
  the two files; and what is cached can be evicted (it is in the order, or about to be, and
  the size counts it). `SwarmIsSound`: no task is lost, none is with two agents or queued
  while an agent has it, an agent has one task or is Idle.

Why the bounds are enough: three generations are the smallest lineage in which a
fallback has to skip a generation, in which an approval can be stale because of
another promotion, and in which a guard can drift over two promotions; two cycles
per run and a restart give a crash inside, before and after every append and a run
that continues from a partial cycle; three samples are the least that Malfunction
needs. Three lines are the shortest file with a record before and after the one
that is edited or torn. Larger values change counts rather than cases, and the
proofs of section 5, which state all the safety properties, do without
bounds on them. Two builders and
three actions give a hit on the other's claim, a substitution that changes the key, and
an action that is skipped because one before it was; one rotten blob is one of the
source, of an intermediate or of a result. Three elections let two candidates meet and
an old leader come back; one AppendEntries that may arrive at any later time, again and
again, is enough for each mutant and the violation below needs two. Two writers of one
key, two leases with one above the other, two authors at one time, a channel of one and
three handles (an owner, a slice and the slice's clone), two threads in a store with room
for one value, and a second agent while the first one's report is out are the least at
which the hazards in `PROJECT.json` occur; two threads blocking each other in the store
takes a fourth call (`MCEmbrace`), and twice the time.

Deadlock checking is off: lineages at their bound, halted runs and refused
journals may really stop.

Fairness: `WF_vars(Step)` in `Runner`. `run` is a sequential loop
without locks or waits, and a workload is taken to answer every call, so
a run that is up takes its next step. Crashes and restarts are never fair: nobody
is obliged to kill or to restart a run. In `Build`, `WF_vars(Work(b))` per builder
that is not killed: a build is a sequential loop whose calls return. Rot, kills and
failing tools are not fair. In `MCCoordination`, weak fairness of `Progress`: whoever
drives the task graph keeps assigning what is ready and agents complete what they
have; adding tasks and edges is not fair.

### Runs that end in a violation

Each states what a document or a comment says, and TLC shows what the code does.

| Run | Said | Shown |
|---|---|---|
| `lost_calibration` | "Resumable: `Lineage::replay` rebuilds each proposer's record" (`runner.rs:318`) | one lost Calibrated entry makes replay refuse the whole journal |
| `journal_torn` | "a truncated final line costs one record instead of the whole file" (`journal.rs:163`) | `open` refuses a file with a partial last line |
| `raft_completeness` | "guaranteeing the Leader Completeness property" (RMI `distributed/consensus.rs:19`) | a late AppendEntries cuts entries that were acknowledged since; the leader has committed them, and a node without them is elected (2 terms, 2 messages) |
| `build_repair` | corruption "which `super::heal` then repairs by evicting and rebuilding" (`cas.rs:23`) | the remedy for a bad *input* is taken as a bare retry, which reads the same bytes and fails |

### Further configurations

These are no runs of `PROJECT.json`; each line below is a counterexample that one can
replay with `tlc -config <file> <module>`, and all but one are about a sentence of the
repository. A configuration with several lines lists several properties, and TLC stops at
the first one violated: `-continue` makes it go on to the others.

| Configuration | Module | Said | Shown |
|---|---|---|---|
| `MCUnapproved` | `MCSuccession` | "Authority moves **only on the gate's approval**" (`GERMLINE.md:81`) | `commit` adds the candidate before `promote` refuses a stale approval; `roll_back_to` then accepts that Candidate |
| `MCUnsupervised` | `MCRunner` | "Supervise the new champion before proposing anything else" (`runner.rs:374`) | killed between the promotion's entry and supervision, the resumed run never supervises it |
| `MCDivergence` | `MCRunner` | `MetricDivergence` "optimized metric up **while** held-out down" (`GERMLINE.md:261`) | `supervise` never sets the optimized baseline, so this diagnosis is never made |
| `MCLostDemotion` | `MCRunner` | "failure → fallback, fully journalled" (`GERMLINE.md:425`) | the demotion's append may fail unnoticed; the journal keeps the failed generation in authority |
| `MCBuildTorn` | `MCBuild` | "a crash mid-write cannot leave a truncated blob sitting at a digest" (`cas.rs:126`) | two processes share the digest's temporary name: one renames the file the other has just truncated, and that one is killed |
| `MCDeadlockUnreported` | `MCCoordination` | "Detects deadlocks via a wait-for graph" (`lease.rs:11`) | nothing adds an edge to that graph; two agents wait for each other with a Conflict each |
| `MCTasks` | `MCCoordination` | "tasks whose deps are satisfied" (`decompose.rs:10`) | an edge added to a Ready task does not take its readiness back |
| `MCTasks` | `MCCoordination` | "Max tasks this agent can handle concurrently" (`decompose.rs:67`) | capacity is counted per call of `assign_agents`; the next call starts from zero |
| `MCWorkspace` | `MCCoordination` | "Entry version (incremented on each write)" (`collaboration.rs:98`) | the version is drawn before the lock, so an older write may land last |
| `MCWorkspace` | `MCCoordination` | "Thread-safe via `RwLock`" (`collaboration.rs:78`) | metadata is set after the notification, by then on another write's value |
| `MCBufferLeak` | `MCCoordination` | "Last reference and we own the data" (`memory_pool.rs:566`) | an owner dropped before its last view leaves memory that nobody frees: the last reference then owns nothing |
| `MCEmbrace` | `MCCoordination` | (no sentence; the locks are there for threads) | the scan for victims holds the order and waits for the cache, another thread's eviction holds the cache and waits for the order: both wait for good |
| `MCStorage` | `MCCoordination` | "key-value store with LRU cache" (`storage.rs:149`) | a reader that caches what it read before a newer put, or a delete, leaves it there: later reads get the old value |
| `MCStorage` | `MCCoordination` | "Maximum cache size in bytes" (`storage.rs:157`) | two threads find room for one each; also, a value larger than the cache is cached |
| `MCSharedFile` | `MCCoordination` | "Retrieve a value" (`storage.rs:241`) | `a/b` and `a__b` have one file name, and a key reads the other's value |
| `MCSwarm` | `MCCoordination` | "Marks an active task finished" (`swarm.rs:1126`) | `unregister_agent` leaves the task active with nobody and queues a copy; a late report completes the one and the next agent the other |
| `MCSwarm` | `MCCoordination` | "IDs of tasks that must complete before this one can run" (`swarm.rs:147`) | `schedule` does not look at dependencies |
| `MCSwarm` | `MCCoordination` | "Temporarily halted; scheduling is suspended" (`swarm.rs:894`) | `schedule` does not look at the coordinator's state |

Observations without a run. The gate's high-water mark is that of the chains
of the candidate's parent and of the champion, so promotions on alternating
branches may fall below the best the lineage ever held; `AncestryRatchet` states
what is kept. And when `sync_all` fails with the line already in the file, the next
append repeats its index, so the chain no longer verifies: `AckedSurvive` excepts
exactly these states (`torn`). `AgentRuntime::register_agent` does not register the agent
with the bus, so mail to an agent of the runtime is dropped; deregistering an agent
leaves its tasks InProgress, and nothing in the runtime calls `complete_task`. An
operation's author is hashed to a number, and two authors with one hash (`"Aa"` and
`"BB"` are a pair) are a tie that the order of arrival decides: `AgentHash` is injective
in the run. The prototype's consensus rounds let `integrate` accept what was rejected and
`resolve` after one vote, and `assign_agents` returns an error after it has assigned
part of what it was asked for. `MemoryPool::with_config` does
not compare what it allocates with `max_total_bytes`, and two configured sizes of one class
count that class twice in `total_managed` and keep one slab (`Preallocated` is a set, so the
second does not happen in the model). In the store, a put over a cached key counts its old size as
well (`SizeIsCurrent`), and so does a value that two readers cache at once, so the counted
size grows until every put evicts. In the swarm, `active_tasks` counts tasks that are
assigned to nobody (`ActiveAreAssigned`).

## 4. Mutants

Every property of a passing run is broken by a changed definition that stands
beside the original (`Mutant:` comments): a dropped check, a wrong order, an
off-by-one. They are no part of the specifications.

## 5. Proofs

`SuccessionProofs` proves, for every value of the constants and any number of
open cycles:

* `TypeCorrect`: `Spec => []TypeOK`;
* `AuthorityExplained`: `Spec => []RecordExplainsAuthority`;
* `AllPromotionsEarned`: `Spec => []PromotionsEarned`;
* `HistoryOnlyGrows`: `Spec => HistoryAppendOnly`;
* `ImplementsAuthority`: `Spec => RefinesAuthority`;
* `FallbackRuns`: `Spec => FallbackIsRunnable`;
* `LossesNeverAddUp`: `Spec => []AncestryRatchet`.

From the assumptions: `MaxId` is a natural number, `None` is neither an integer nor
an artifact, the axes, gates, evidence and bounds have their types. TLC evaluates
them on every run.

None of the three invariants is inductive alone. The inductive invariant `IInv` adds to
`TypeOK` and `Explained(lin)`:

* `CycleSound` for every id: an id not yet handed out has no cycle; a cycle that may
  still commit has not added its generation (otherwise `add` would rewrite what an
  earlier promotion was earned with); an approval it holds names this cycle, names a
  known incumbent, and was earned against that incumbent (so a commit whose approval
  is not stale promotes something earned against the champion it displaces);
* `RecordSound`: every promotion names generations of the lineage, and was earned.

`IInv` was checked with TLC before it was proved. `LineageProofs` has the lemmas on
the record operators: which fields each transition changes, that the appended event
is the one the moves end with, that each transition keeps `Explained`, and that the
fallback `demote_champion` picks is a retired generation whose artifact is in the
store. `SuccessionProofs` then has one lemma per action and `NextSound` to
put them together; `FallbackTarget` takes the greatest position, which exists
by the least-element theorem of `WellFoundedInduction`.

The three theorems about steps use `IInv` before and after each one.
`Grows` says what one step may do to the lineage: append at most one generation and
at most one event, and keep everything already known; that a quarantine is final
follows because `Explained` ties it to a `Demoted` event, and events stay. For the
refinement, with the holder, those that ever held authority and the fallen as its
view, a promotion is a grant, a demotion is `Authority`'s demotion, a rollback is a
return or (to a generation that never held authority) a grant, and everything else
stutters. `FallbackRuns` needs one more invariant, `VectorComplete`: every generation the
lineage knows is in its vector.

The ratchet is about chains of parents, which the code walks and a proof by induction over
their length could not. `LinesSound` says instead: every known generation and every cycle's
candidate descends from a known generation; and once a candidate is approved it is above the
line of its *parent*. The chain of a known generation does not change as the lineage grows
(`OldChain`), so what the gate measured against is still the line of the parent at the
commit, and the candidate's own chain is that line and itself.

`RunnerProofs` proves, for any workload's answers, bounds, windows and policies:

* `RunnerTypeCorrect`: `Spec => []TypeOK`, and `ReportsAnchor`: `Spec => []ReportAnchorsJournal`;
* `DiskKeepsAuthority`: `Spec => DurableAuthority`, the refinement of `Authority` by what the
  disk records;
* `JournalsReplay`: `[](Scores = {} \/ faults = 0 => JournalReplays)`;
* `ReplayIsLive` and `TalliesSurvive`: `[](faults = 0 => ReplayFollowsLive)` and
  `[](faults = 0 => TallySurvives)`;
* `PromotionsDocumented`: `Spec => []PromotionsHavePaperTrail`;
* `FailuresEndAuthority` and `SupervisionFirst`:
  `[](restarts = 0 => RecordedFailureEndsAuthority)` and
  `[](restarts = 0 => SupervisedBeforeProposing)`.

The hypotheses are what the code needs, not what the proof does: with an external proposer a
lost Calibrated entry is the violation `lost_calibration`, a lost demotion is `MCLostDemotion`,
and a restart before supervision is `MCUnsupervised`. They hold in the runs that check these
properties (`runner` has no faults, `runner_ends` no restarts). Genesis is assumed to be
a lineage with one champion and no events (`GenesisAssumption`). Three inductive invariants
build on each other:

* `Sound`: types; what replays is a sound lineage (`ReplaySound(disk)`); the live lineage's
  events explain its authority and its ids are taken; and after a change of authority in
  memory the event to be written is its last (`EventPending`);
* `Follows`: between two appends the live lineage and the one on disk agree on champion,
  status and data (`Synced`), also when the append of an event is still to come (then the
  live one is what the disk's becomes by that event); with no append lost also on events,
  counters and the proposer's record (`Faultless`); and replay refused nothing (`Rebuilt`);
* `Trail`: the ids of the proposals on disk are spent for the live lineage and for replay
  (`IdsSpent`), so that no id is proposed twice, over restarts too; the entries of the open
  cycle are on disk in order (`OpenTrail`), and those of every promotion (`PromotionsTrail`).

`FirstLife` is the fourth, about a run before its first restart: whoever is in authority
when a candidate is proposed is validated, and no failure is on record of who remains so.

`JournalProofs` proves `EditsEvident`, `HistoryPinned` and `AckedDurable`, that is
`[]EditsAreEvident`, `[]AnchorsPinHistory` and `[]AckedSurvive`, for any entries and any
length. A link is an injective function of index, previous link and entry, so it determines
the whole chain behind it. `Chains` says that every record of the file, the open handle's
head and every acknowledged record hang on such a chain; `AnchorsChained` says so of the
published heads; `AtTheEnd` that a file nobody edited or tore verifies and that the handle
continues it.

`BuildProofs` proves, for any acyclic graph (given with an order that respects it, without
repetition: `GraphAssumption`, `SortAssumption`) and any number of processes: `TypeCorrect`,
`ClaimsTrueAlways`, `FaithfulAlways`, and `FailureIsContainedAlways`. The last goes by
`FailuresPropagate`: a finished build has decided every action and skipped exactly those with
a direct dependency that failed or was skipped. Along a chain from a failure all is skipped
then (`SkippedAlong`, by the first of the chain that is not), and an action that is skipped
has such a chain, no longer than its place in the order (`SkippedFrom`). The inductive invariant is `Inv`: for each process
(`Process`) what is in its hands at each place of `run_one` and `put` fits the action, the
inputs and the platform it is about (`InHand`), what is produced is made of what was
produced before (`Faithful`, `Ahead`), outcomes propagate (`Decided`); of the files (`Files`)
that what is bad exists and no torn claim passes for a whole one; and `ClaimsTrue`.

`RaftProofs` proves, for a cluster of any finite size, any bounds and any messages in
flight:

* `TypeCorrect`: `Spec => []TypeOK`;
* `OneLeaderPerTerm`: `Spec => []ElectionSafety`;
* `LeadersOnlyAppend`: `Spec => LeaderAppendOnly`;
* `LogsMatch`: `Spec => []LogMatching`.

From the assumptions: the cluster is finite and not empty, `None` is no node, the bounds
are natural numbers. The argument for elections is about the ballots ever sent. `Votes`
says: a counted vote is backed by a granted ballot of the node's present term
(`VotesCounted`); whoever stands or leads voted for itself (`OwnVote`); a granted ballot
binds its voter while the voter is in its term (`BallotsBind`); one voter's granted
ballots of one term name one candidate (`OneVote`); a leader counted a quorum
(`LeaderHasQuorum`). Two leaders of one term then share a voter (`QuorumsIntersect`, from
the cardinality theorems), who voted for one of them. For a leader's log, `AppendsBacked`
adds that every AppendEntries ever sent is backed by a quorum that elected its sender in
its term, so none that is not stale can reach another leader of that term, and the
handler that cuts a log never runs at its own leader.

For `LogsMatch` an entry is seen with its index and the term of the entry before it, its
*link*: what the consistency check of `handle_append_entries` compares. `LogInv` says that
over all logs and all entries under way, index and term determine the link (`Linked`), and
that each link was written by the node elected in its term, which has that index in its log
while it leads (`LinksLed`), so that a leader never gives one index two entries. Logs that
agree on one link agree on the one before, down to the start; the least index at which they
differ gives the contradiction.

`CoordinationProofs` and `LibraryProofs` prove about the objects, each for any callers,
values and bounds, that their specifications imply:

| Theorem | Property | Inductive invariant |
|---|---|---|
| `LeasesExcludeAlways`, `LeasesHonouredAlways` | `LeasesExclude`, `LeasesHonoured` | with the types, so that the clock does not run backwards. The conflicts of a grant are looked for from the wanted region, the invariant speaks of both directions (`Symmetric`) |
| `UpdatesAreSeenAlways` | `UpdatesAreSeen` | types of watchers and of threads in a write: a thread between its insertion and its notification still has the key and version in hand |
| `ReplicasConvergeAlways` | `ReplicasConverge` | `CrdtInv`: of each target in its history a replica has the newest operation, and author and time determine an operation. A batch is followed by an induction along its merges |
| `MailIsKeptAlways` | `MailIsKept` | `BusInv`: mailboxes by urgency; of what an agent received or will receive, equal urgencies by number (`Fifo`), all numbers below the next; and the counters as cardinalities, of the copies addressed and of the places where mail is |
| `TasksWaitAlways` | `TasksWait` | with types: dependencies are ids. `assign_agents` and the readiness computed after a completion follow the code's passes |
| `PlansAreSoundAlways` | `PlansAreSound` | types, and that there are no more tasks than costs; the rest is about any graph (see below) |
| `StoreIsSoundAlways` | `StoreIsSound` | `StoreInv`: a file holds nothing, a torn write, or what some put to it wrote, and so does what a call has in hand; the cached keys are in the order or their thread is about to put them there, the count lags by the threads between insertion and count |
| `SwarmIsSoundAlways` | `SwarmIsSound` | `SwarmInv`: an active task is in the name of the one agent that has it, or of nobody and queued; the queue has no task twice; a submitted task is queued, active or finished. Kept by each round of `schedule` |
| `MemoryIsSoundAlways` | `MemoryIsSound` | `MemoryInv`: per slab, free list and blocks out are disjoint, together all blocks, and counted (`Slabbed`); `PoolFits`, whose sum over the classes changes in one term when a class gets a slab; references count the handles, a freed buffer has none, a borrowed handle is the only one (`Viewed`) |

Two of them have a hypothesis: `IsInjective(AgentHash)` (two authors with one hash and time
are a tie that the order of arrival decides, see above) and `IsInjective(FileOf)` (without it
`MCSharedFile` is a violation). `SwarmAssumption` says that ids of agents and tasks differ,
which are uuids.

Induction along a loop of the code (a batch, a queue that is filtered, the idle agents) is
made by a least counterexample: `LeastOf` gives the least step at which the claim about a
recursive function fails, also where the function itself must be shown to exist
(`RetainedSteps`, `ScheduledSteps`, `TotalSteps`; in general `Recursion`). For this the models
write such loops as recursive functions.

The plans of `Tasks` are each a recursion over the graph, and the property compares them with
sets of tasks and of chains. `OrderSound`: what is in the queue of `topological_order` has its
dependencies before it, and what is not has one that is not (`InQueue`, kept by each round,
`QueueStep`), so what stays out is a set in which each task waits for another. `WavesSound`: a
wave holds what the wave before frees (`Waves`), so a chain is no longer than the wave of its end
(`ChainsFit`) and a task outside a wave has a chain longer than that (`ChainsReach`); without a
cycle all are in the last one (`AllInWaves`). On that rests that the distances of
`critical_path` exist at all (`DistanceIs`, which computes them along the waves). `CostsSound`:
no chain costs more than the distance of its end, and the traced one costs just that
(`ChainCosts`, from the end back); the trace reaches a task without dependencies, for otherwise
it would be a chain of more tasks than there are (`CriticalIs`).

Liveness under fairness (`RunsEnd`, `BuildsEnd`, `TasksFinish`) is out of the prover's reach and
only model-checked.

## 6. Not modelled

* germline: the cryptography of `attest.rs`; the generators of `variation.rs` and
  `directed.rs` and which of several proposers wins a cycle (nondeterministic in
  `Runner`); the dominance filter of `pareto.rs`; `workload.rs` adapters;
  `Supervisor::reset`, which only tests call; hash collisions.
* ribosome: the parser and checks that make the graph, remote workers, toolchains,
  provenance, the command line. Digests do not collide.
* prototype: the compiler (the greater part of the repository's lines: passes over syntax
  trees, types, evaluation, code generation, whose correctness is about the semantics of
  a language); consensus rounds, hot reload, sandboxes and semantic versions, where a
  model would restate a guard and an assignment per operation.
* RecursiveMachineIntelligence: numerical kernels; the BFT node, which keeps neither a
  request nor a digest, so that agreement cannot be stated over it; snapshots, which are
  never sent; `apply_committed`; transport and discovery; delegation and registries; the
  store's expiry (which `put` never sets), tensor files, shards and checkpoints; the swarm's
  proposals, workflows and presets;
  orderings of atomics weaker than sequential consistency.
* forge, arena, knowledge bases, framework and editors.

`PROJECT.json` has the reason for each. The models stay far from most of the
repository's lines, as most of these are the compiler's and the kernels'.

## 7. Plan

1. **Proofs**: what the next models add; the phases of the swarm coordinator.
2. **Model**: `Supervision` as a machine of its own with `reset`; the forge registry;
   the workspace's delegation.
