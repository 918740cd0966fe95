# Beachcomber in TLA+

Beachcomber is a daemon that keeps the answers shell prompts, editors and
scripts ask for again and again (a branch, a battery, a cloud profile) in a
cache. A *Source* produces an answer for one directory (its *instance*): it runs
a script or built-in code, stores a *record*, and is run again when its files
change, when its poll is due, or when a read finds the record out of date. The
hard part is everything that happens at once: readers, the scheduler's loop,
runs that call other Sources and wait for theirs, timeouts, reloads of the
configuration, and evictions.

These modules model that part, and the parts around it where steps of several
actors meet: the daemon that owns the socket, what clients put and what expires
it, the streams and watches that tell of changes, memos, the daemon's own
configuration, and the read that climbs to its answer and stacks it. TLC checks them on small
instances, and TLAPS proves theorems about the first of them for all instances.
`PROJECT.json` says which lines of the source each definition stands for.

- [The system](#the-system): its components and what makes each correct
- [The modules](#the-modules): what models what
- [The runs](#the-runs): what each checks, its bounds and its fairness
- [The proofs](#the-proofs)
- [Findings](#findings)
- [What is not modelled, and the plan](#what-is-not-modelled-and-the-plan)

## The system

Paths are under `src/src/` of the repository unless they say otherwise.

| Component | State it keeps | Operations | Talks to |
|---|---|---|---|
| Run table (`run.rs`) | a slot per instance: the run in flight, one queued behind it, a mark of a reload; who waits on whom | `start`, `outcome`, `wait`, `launch`, `settle`, `supersede`, `stop` | cache (stores), failback, registry epochs; called by readers, the loop and runs |
| Source calls (`provider/source_call.rs`) | the calls of each run under way (thread-local) | `run_call`, `warm_called` | run table, cache |
| Failback (`FailureState`, `scheduler/mod.rs`) | failures in a row and the end of a backoff, per instance | `record_failure`, `record_success`, `is_suppressed` | run table, reload |
| Provider registry (`provider/registry.rs`) | the Sources in force, their epoch; what each was retired at; roots; what each instance last called | `retire`, `unless_retired`, `replace`, `set_callees`, `with_callees`, `callers_of` | everything |
| Reload (`Scheduler::reload`) | none of its own: a plan | plan, retire, forgive, overtake, restamp, evict, retune, replace | run table, registry, cache, lifecycle |
| Lifecycle registry (`scheduler/lifecycle.rs`) | an entry per instance (and per static address): Active or a decay step, a poll timer, a step's deadline | `demand`, `on_fsevent`, `tick_holding`, `retune`, `remove` | the loop, which owns it |
| Scheduler loop (`scheduler/mod.rs`) | watched paths, settling instances, the lifecycle registry | one `select!`: messages, file events, settled registrations, quiet files, self-test, tick | registrar, cache, run table |
| Watcher (`watcher.rs`) | registrations asked for and made; the barrier's sentinels | `watch`, `unwatch`, `replace_backend`, `pass`, `hear` | the loop, readers |
| Cache (`cache.rs`) | records by provider, path and source; their schedules; seeds, puts and the addresses they were made at; memos; tree stamps | `put_source`, `remove_source`, `restamp_schedule`, `apply_static_write`, `evict_put`, `reseed_static`, `write_memo`, `evict_memo`, `drop_memo_hashes_under`, `tree_*`, `read_merged` | run table, server, loop, watch streams |
| Put store (`persist.rs`) | puts kept over a restart | `open`, `record`, `expire` | cache, server |
| Server (`server.rs`), queries (`query.rs`) | none kept; a connection's request | get, put, watch, refresh, introspect | all of the above |
| Watch streams (`watcher_registry.rs`) | a channel per namespace and path | `subscribe`, `notify`, `gc` | cache, server |
| Singleton (`singleton/`) | the pid file and its lock | acquire, supersede, reap, clean up | the daemon's start |
| Daemon (`daemon/`) | the stop token, the heartbeat, the watched configuration | start, replay, stop, watchdog, configuration watch | all of the above |
| Library (`libbeachcomber/src/watch.rs`, `resolve.rs`) | the streams a resolved watch follows and what its last resolution read | `open`, `next`, `follow`, `take_buffered` | server |
| Configuration, shapes, engine, plugins, CLI, SDKs | none shared | parsing, evaluation, formatting, one request over a socket | |

How they interact. A read, a poll, a quiet file or a call of a run asks the run
table for a run of an instance, saying what would do (`Want`): any, one that
sees the inputs as they are now, a fresh one. The table answers with a run in
flight, one that replaces it, one queued behind it, a new one, or none (the
failback holds it, or the record there will do). A run executes on a blocking
thread; a task beside it applies the timeout and settles it. Runs call other
instances and wait for their runs, on their own threads. The loop is one task:
what it does in one arm is not interleaved with its other arms, but readers, run
threads and settling tasks are interleaved with everything. A reload is one
arm of the loop and takes the registry from one epoch to the next while runs of
older epochs go on.

What makes each correct, and is hard to test:

- **Run table.** No waiter is forgotten however its run leaves its slot; an
  answer given to one who saw a change is computed after it; an older record
  never replaces a newer; runs that call one another never wait in a ring; what
  the failback holds does not start; a thread that waits is let go.
- **Reload.** Nothing computed by what it retired is stored after it evicted;
  no failure of the old body holds the new one back; a caller whose run it
  overtakes is told; the schedule stored is the one in force.
- **Lifecycle.** Files are watched exactly while an instance is Active; nothing
  is evicted early, nor from under an instance that calls it and stays; once
  nobody asks, all leave whose calls do not go round; no record outlives its lifecycle.
- **Singleton.** A socket that was started for is served (not always where a daemon
  unlinks another's pid path: [Also seen](#also-seen)); nobody is killed who does
  not hold the lock.
- **Puts.** What a client put and no one replaced is there until it expires, over
  a restart too, and nothing replaced comes back.
- **Watch streams.** The last change is sent, whatever was written while the
  stream subscribed, read or changed its setup; channels are neither lost to a
  subscriber nor kept for nobody.
- **Watcher.** A read after a change sees the change, unless the barrier ran out.
- **Memos.** An invalidated memo is never read; each has a lifecycle that ends it.
- **Layers.** A read gives what the layers stack to, after any sequence of puts.
- **Climb.** A read is answered from the nearest place there is an answer, and what
  it waited for is in it.
- **Resolved watch.** A change of anything a value was made of is seen; and what the
  watch changes itself, by the runs its reads begin and the memos it writes back, makes
  it resolve again only so often.
- **Configuration watch.** An edit is put in force, whenever it was made; what a
  later change is judged against is what is in force.

`PROJECT.json` lists every hazard at its line, with the properties that would
catch it, or why none does yet.

## The modules

| Module | Models | Extends |
|---|---|---|
| `Runs` | the run table, the threads and tasks of runs, their callers, the failback | |
| `MCRuns` | small instances of it | `RunsFlight` |
| `Reload` | a reload, step by step, beside all of `Runs` | `Runs` |
| `MCReload` | a small instance of it | `Reload`, `RunsFlight` |
| `Lifecycle` | the lifecycle registry and the loop that keeps it | |
| `MCLifecycle` | small instances of it | `Lifecycle` |
| `SingleFlight` | what the run table promises, and nothing of how | |
| `RunsFlight` | that `Runs` implements it: the refinement mapping | `Runs` |
| `Singleton` | daemons that contend for a socket | |
| `Puts` | puts in the cache, the store's file and the scheduler, over restarts | |
| `Streams` | the daemon's watch streams | |
| `Watching` | tree watches, the registrar, the barrier, and reads behind it | |
| `FanIn` | the library's watch of a resolved value | |
| `ConfigWatch` | the daemon's watch of its configuration | |
| `Memos` | memos stored, invalidated and evicted | |
| `Layers` | the layers of a namespace and the read that stacks them | |
| `Climb` | a read: the instances of its Sources, climbed together, and the Sources its lines call | |
| `MCParts` | small instances of the last nine | those nine |
| `RunsProofs`, `LifecycleProofs` | theorems | `Runs`, `Lifecycle` |
| `RunLife` | the shapes of a step of the run table, and what stays true of a run | `Runs` |
| `RunLifeProofs`, `ReloadProofs` | theorems | `RunLife` and `RunsProofs`; `Reload` and `RunsFlight` |
| `PartsProofs`, `WatchesProofs` | theorems | `Streams`, `Memos` and `Singleton`; `ConfigWatch`, `Watching` and `FanIn` |
| `PutsProofs` | theorems | `Puts` |
| `ReadsProofs` | theorems | `Climb`, `Layers`, `PutsProofs` (its induction) |

### Runs

`slots` is `Table.slots`; `state[r]` the `State` that all waiters on run `r`
share (its end, or where they go); `waits` is `Table.waits`; `job[r]` what the
run's `Settle` holds; `thread[r]` its blocking thread; `todo` what an actor that
has let go of the table's lock has still to do. Runs are numbered as they are
made. Data is abstracted to what properties tell apart: an instance's inputs are
a version that grows; a run stamps the version it sees as it begins; a record is
the run that stored it. A registry is its epoch.

An action is one hold of the table's lock with what goes before it:

| Action | Code |
|---|---|
| `Start` = `StartJoin`, `StartReplace`, `StartQueue`, `StartNew`, `StartNone` | `Runs::start`, arm by arm |
| `Ask`, `Fire` | a request's call of it, and the loop's, which does not wait |
| `Work` | the effects after the lock: `State::finish`, `Runs::launch` |
| `Begin`, `Call` | the thread stamps its inputs and executes; it calls another instance, with the ring check (`Table::ask`: `Hop`, `Met`, `ClosesRing`) under the same hold |
| `ThreadFollows`, `ThreadWakes`, `CallerFollows`, `Answered` | `Run::wait`, `Run::outcome`: on to the run its run was moved to, or the end |
| `Ended`, `Timeout`, `DropTask` | the execution returns; the timeout; the task is dropped. Each settles (`Settle`) |
| `ReturnsLate` | the thread of a run cut off returns, to nobody |
| `Settle` = `SettleOwn`, `SettleReplaced` | `Runs::settle`: record, what runs next, who is told |
| `Stop` | `stop_scheduler`, as far as the table sees it: from here on the task of a run may be dropped before its run ends (`DropTask`), as the runtime does when it goes down |
| `Change`, `Expire`, `Forget`, `GivesUp`, `Moves` | inputs change, a backoff ends, the instance is evicted, a caller leaves or asks again |

`Begin` takes the look at the inputs, the word of what it saw and the start of the
execution as one step. In the code a reader may come between the look and the word
(`run.rs:584-599`) and not yet find the run's stamp: it then replaces or queues where it
might have joined, which no property minds. `FailedOnce` counts failures up to the
threshold and no further; the code's count goes on, for the length of the backoff, which
is not modelled.

A run that is replaced in flight is told so after the lock goes, as in the code
(`run.rs:434-437`): see [Also seen](#also-seen).

### SingleFlight and RunsFlight

`SingleFlight` is the specification a reader of the table would write: per
instance at most one run in flight and one behind it; a run takes the flight, is
queued, overtakes it, or ends and lets the next in; only the run in flight
stores, as it ends; and who holds a run is told once, after it has left the
table, either how it ended (truly: `Stored` if and only if it stored) or where to
go, a later run of the same instance. It knows no threads, locks, tasks,
failback or reload. `RunsFlight` maps `Runs` to it by what is in the slots and
the shared states; the one thing that has to be computed is `kept`, the runs
whose result was stored, since between the store and the word to the waiters
only what an actor has left to do (`todo`) tells it. `KeepsFlight` is checked of
`Runs` and of `Reload`, which overtakes runs from outside the table's own code.

### Reload

`Scheduler::reload` as its steps, `pc` saying which comes next: `Plan`,
`Retire`, `ClearFailures`, `InFlight` (the list of runs in flight is taken),
`Overtake` and `RestampOvertaken` (for each of them), `Evict`, `Retune`,
`Replace`. Between any two of them come the steps of `Runs`: the loop does
nothing else meanwhile (`Track` and `Decay` want `pc = "serving"`), but requests
ask through either registry and runs of any epoch settle. A change to a Source
is one of: its body, its schedule, its failback, its removal, its addition.

### Lifecycle

`entry` is `LifecycleRegistry.entries`. Time is relative: an entry counts down
to its next step and its next poll and stops at 0, when it is due; `Pass` is a
second. `Tick` may come at any time and may be late. `callees` is the registry's
map of what each instance last called, `watched` the instances whose files are
watched, `settling` those whose files changed and have yet to go quiet.

| Action | Code |
|---|---|
| `Read`, `Demand` | a read starts the run it needs and sends its demand; the loop takes it (`QueryActivity`): it is one for everything the instance is known to call |
| `FileEvent`, `Settled` | a file event of an Active instance; its files have gone quiet |
| `Tick` | `tick_holding`, then the polls fired, the watches dropped, and the evictions |
| `Call`, `RanCalling`, `RunEnds` | what the loop sees of a run: it starts others, says what it called, and stores, or does not |
| `Pass`, `Quieten` | time; nobody reads any more and no file changes |

`Evicted` is written as what the code's loop computes: the greatest set of
instances at the end of their last step of which none is called by an instance
here and outside it. `idle`, the time since the last demand, is counted for the
properties only.

### Singleton

Processes, each started once, and the file system between them: which inode the
pid path names (`pidFile`), what is written in it (`pidIn`), who holds its flock
(`lockOf`), which listener the socket path names (`sock`). `stage[p]` is the next
system call process *p* makes, so that whatever another does between two of them
can happen: `Open`, `Lock` or `Contended`, `Read`, `Probe`, `Kill`, `Await`, then
`Clear` and `Write` of the record, the socket's `Look`, `Unlink` and `Bind`, and
on the way out `Unpid` and `Close`. A process killed before it handles signals
dies at once; one told to stop leaves in order; one killed outright leaves both
paths behind (`Dies`). A new build on disk (`disk`) makes a serving daemon leave
and a starting one supersede. Graces and deadlines may run out at any time.

`owed` is a history of the property's: the starts after which somebody should serve.
One leaves it when it fails with an error its spawner sees, or is told to stop from
outside. When a daemon is killed, or leaves because it was told from outside, those
stay that have yet to look (`Fresh`); and so when a daemon is superseded that is `Adrift`,
whose pid path another daemon has unlinked.

### Puts

`InCache`, `InStore` and `SendWritten` are the three steps of a `put`; they
interleave over connections and with the loop, which takes the messages
(`HearWritten`) and evicts in two steps (`EvictPut`, `ExpireEntry`). `Restart`
is the death of the daemon at any point: memory goes, `puts.json` stays, and
`Again` puts what it holds again, before the socket is bound. A put that takes
the last of an outer put's value may take that put's address with it (`Emptied`),
which is a choice here, as it is for an expiry (`DropAddress`); in `Layers` the values are
kept and it is computed.
`before`, `ended`, `life` and `cut` are history: which puts were over when
another began, which the properties need to say "replaced".

### Streams

A stream plans its chain, subscribes link by link, reads link by link, sends, and
waits; a reload gives it another setup while the old one's receivers are
dropped. Writers store and then notify. A channel's queue is one bit, since a
receiver that lags does what one that has a message does
(`server.rs`, `Lagged`). Channels have generations, so that a subscriber left on
a removed one is told from one on the channel writers find.

### Watching

The tree's version; the events under way, in order; the loop's arms that mark a
tree watched, changed or unwatched, one of them in two steps; the registrar's table and
its worker, which registers on a thread of its own and may fail; runs, which
stamp the tree and then read it; and the barrier, whose `pass` a reader takes
under its lock: a sentinel is touched, and waited for until the loop hears it or
the wait runs out. `mistaken` and `excused` are history: what is known to go
wrong (the finding, and a barrier that ran out) is told apart from the rest.

### FanIn

`ResolvedWatch`, with the library's resolution and as much of the daemon as it meets.
A *node* is the data at an address, which decides which addresses a render reads next;
beside it lies the *memo* of a leaf piped through `cache()`, with the hash of the inputs
it was rendered of. Both are in a frame, so both make news.

| Action | Code |
|---|---|
| `FetchNode` = `RunsAtOnce`, `RunGoesOn`, or neither | a read of the next address the render names. A record that is due, or any when the opening forces, is run: the run ends within the read's wait, or the read answers with what there is and the run stores later (`RunEnds`) |
| `ResolutionEnds`, `WriteBack`, `Follow` | the value is there; the memos its leaves missed are written back, one by one, each of which the daemon may refuse; what was read becomes the set of streams |
| `AnswerWatch`, `ServeWatch` | the daemon opens or refuses a watch, and reads again when woken |
| `TakeFrames` | the frames of all streams at once, and one re-resolution if one of them is news |
| `ResolutionFails`, `ResolutionLost`, `WatchEnds` | an error that ends the watch; one after which its caller asks for the next, the notices being taken (`watch.rs:649`); no stream left |
| `ChangeNode`, `ChangeMemo`, `ComesDue`, `DaemonEnds` | others: a write; a memo evicted, dropped or stored by another reader; a record whose lifetime ends or whose input changes, of which nobody is told |

A memo whose lifetime ends is one whose hash is dropped. Left out: a caller that waits
for nothing and so takes a stale memo, the watch of facet keys, the cancel, and a caller
that goes on after a subscription could not be sent.

### ConfigWatch

Files with their modification times, edited at any time and with clocks that
differ; the start's load, gate and first look; events that may be lost; the
debounce; the poll; the load again, file by file; and what follows: nothing, a
reload that the scheduler puts in force later, or the end of the daemon.

### Memos

`write_memo` in its steps (list the directory, drop what the leaf overlaps from
one entry and then the other, store in one and then the other), which hold the
provider's listing; `evict_memo`, which holds it too; an invalidation, which
reads the listing once and then goes from directory to directory and leaf to
leaf without it; and the messages and the lifecycle entries of memos.

### Layers

An address holds what a Source stored, what the configuration's files seed at the
farthest link, and what was put, with the put addresses. Trees are functions of
their leaves, so that merging, cutting and dropping are function operators.
`PutTree`, `RemovePut` and `EvictAddress` do to the map and the addresses what
`apply_static_write`, `remove_put` and `evict_put` do, `ReadMerged` is the read,
fold by fold, with the record each leaf comes from. `ReadsAsStacked` says the same
by no fold: a leaf shows if no layer in front of its own hides it.

### Climb

One `get`. Directories are named by their depth, the one read deepest and `~` at
0; a Source's `root` is a function of the directory it is asked for. `Reach`
asks every Source for its next instance (`NextOf`, which is `InstanceWalk`'s
`Ask` and `Found`), `Visit` takes those of the nearest depth one by one, as their
records are found, and starts the runs they need; `Settle` waits for the runs
one by one, each of which stores, fails, is a fault or is given up at its
deadline; `LookAgain` is the merged read (`ClimbMerged`), after which
a read that may stop early answers or goes on. `Top` is the end of all chains,
`WarmCalled` the Sources the lines call. A record either has the field or not,
and `Others` changes that at any time. `unread` is history: the runs the read has
seen end since it last looked. In `Top` whether the last look found anything is a
choice: a read of a field may have found an object beside it, which is left to
`Layers`.

### MCParts

The nine parts above share no state with one another as they are modelled (each
has the little of the others it needs: `Puts` has leases, `Watching` has runs),
so one configuration answers for all: `part` chooses which one a behaviour is of,
and `PartsNext` leaves the other parts' variables as they began, always the same.
`PartView` leaves them out of the fingerprint: two states of a part differ only in
its own variables. `SingletonView` leaves out, besides, what a process knew that has
ended, and whom it would signal where it is not about to: nothing reads either
again, so nothing is merged whose futures differ.

## The runs

Every property has a mutant: an operator of the same module that changes a
definition the way a plausible bug would, under which TLC finds the property
violated in the same configuration.

| Run | Asks | Instance |
|---|---|---|
| `runs_one` | one instance whose inputs change, asked for in all five ways: is a waiter lost, an answer too old, a record put back, a held run started, the promise of `SingleFlight` kept? | 1 instance, 1 caller beside the loop, 3 runs, 2 versions, failback after 1 failure |
| `runs_round` | instances that read one another in a ring of three, with timeouts and a stop: do they ever wait in a ring? | 3 instances, 3 runs |
| `runs_released` | is a waiting thread let go? (liveness) | 2 instances, one calls the other, 3 runs, 2 versions |
| `reload_safe` | is anything retired stored, an old failure counted, an overtaken run left with nothing queued? | 1 instance, 3 runs, 1 reload, 2 versions |
| `reload_live` | is a caller told, reload or not (liveness), and is `SingleFlight` kept under a reload? | 1 instance, 1 caller, 2 runs, 1 reload |
| `reload_old_body` | finding 1 | as `reload_safe` |
| `lifecycle_leave` | do watches follow states, is an eviction ever early or from under a caller, and do all leave once it is quiet, or does a call go round? | 2 instances that may call each other; one polls, one only watches |
| `lifecycle_orphan` | finding 2 | 1 instance |
| `parts` | the properties of the nine parts | below |
| `climb_put`, `puts_expiry`, `watching_failed` | findings 3, 4 and 5 | one part each, as `parts` |

Bounds of the runs before `parts`, and why they do. `MaxRun`: three runs of one instance
are one in flight, one that replaces it or is queued behind it, and one behind
that: all a slot can hold, and one run out of it (replaced or cut off) whose
thread and task go on. `MaxVersion` 2: before a change and after it. `MaxEpoch` 1:
registries before and after; a run under the older is late for the newer.
`Threshold` 1: the failback holds from the first failure, which lets it hold with
the fewest runs (Sources may say so: `failback` accepts 1). Three instances make
the shortest ring that no pair of runs shows. In `Lifecycle`, windows of 1 and one
decay step already give a deadline that is early, on time and late, at each
state; two instances that may each call the other give calls one way, both ways and
none, taken up and given up at any time; calls in a chain of three and longer are covered
by the theorem `CalleesKept`. The theorems hold for every bound.

Bounds of the parts:

- *Singleton*: 3 processes, and a second build or 1 outside kill. An owner, one that is
  between opening the pid file and locking it, and one that comes after. Four
  processes were explored too, and show no more. The theorem holds for any number;
  the case it leaves out (`Adrift`) takes five, in a schedule too long for a run.
- *Puts*: 2 connections, 3 nodes (one above two), 3 puts of 5 kinds (above with a
  ttl and persisted, or without; below with a ttl and persisted; a removal; and a
  persisted one beside), or 2 puts and 1 restart. Three puts are one replaced, one that
  replaces it and one beside them; a second restart begins from a file as the first.
- *Streams*: 2 streams, 1 writer, 2 links of which a reload adds the second to the
  chain, 2 writes, or 1 and a reload. Two streams make the collection of a channel
  by one meet the subscription of another.
- *Watching*: 1 instance, 1 reader, 1 change, 2 sentinels, and 2 asks for a watch
  and 1 barrier or 1 and 2. Two asks are one that is stale when it settles; two barriers with two
  sentinels wrap round.
- *FanIn*: 2 addresses, of which the root decides whether the other is read; the root
  is a cached leaf whose hash is of the other, which is a Source's and may come due; 2
  values, 1 output, 2 changes (a resolution or a write lost is one). Three addresses
  with 1 change, and both addresses cached, were explored too, and show no more. The
  theorems hold for any graph.
- *ConfigWatch*: 2 files, 3 edits of 6 kinds. Three are one that is being read as
  another lands, and one that mends or undoes.
- *Memos*: 2 writers, 1 directory, 2 leaves of which one lies above the other, 3
  memos, one of which may be there at first.
- *Layers*: 2 links, 2 configuration files, 4 places (the root, one below it, two
  below that), 2 puts, removals or expiries of 5 trees, any 3 trees from Sources
  and files. Two are an outer and an inner, in either order, or one and what takes
  it away.
- *Climb*: 2 Sources, each cascading or nearest, 4 directories below `~` and 5 ways
  to find a root in them (two roots, one inside the other; one; none; the one that
  is `$HOME` in some reads; one that lies below the directory asked for, which a
  walk finds again), 1 instance the lines call, 1 change by others, and 8 reads:
  of a field with a put at `~`, at the middle root, and without, with `$HOME`
  above and without, from `~`; of a whole, forced or waited for without end; and
  through lines that call. Two nested roots are the least that has something
  nearer than `~` and farther than the nearest.

Runs are not reused once `MaxRun` are made, versions stop at `MaxVersion`, reloads
at `MaxEpoch`, the parts' counters at theirs, and a daemon that stops does nothing
more: so all but the `lifecycle` runs say `CHECK_DEADLOCK FALSE`. What could really
deadlock in `Runs`, threads, is the property `NoDeadlock`. `Lifecycle` never stops
and checks for deadlock.

Fairness. `Runs` and `Reload`: what an actor has left to do after the lock is done;
a run's task settles it, by its return or by its timeout (a `tokio` timer, so it
does whatever the Source does); a waiter notified wakes (`Condvar`, `Notify`). No
Source is assumed to return, nobody to ask, and no one effect is preferred to
another of the same run. `Lifecycle`: the loop ticks (an interval of a second)
and time passes. Nothing else: neither that runs end nor that demands arrive. `AllLeave`
excepts instances that keep each other by calls that go round, and no more: without the
exception TLC finds it violated (see [Also seen](#also-seen)). `CallsGoRound` says of some set of instances
that each is, again and again, called by another of the set that is here. The
parts have no fairness and state no liveness: "is seen" and "is in force" are
said of the states where nothing is on its way (`Quiet`, `FanInRests`,
`WatchRests`, `AtRest`).

What they show: with the five exceptions of the findings, every property holds.
Where a property names an exception of its own (`excused`, `wentBack`, `early`,
`ghosts`, `crossed`, `cut`, `failed`, rivals in `Puts`, and `Adrift`, which `owed` leaves out),
that is a case the code does
get wrong or leaves open, and [Also seen](#also-seen) tells it.

## The proofs

`tlapm` checks 499 lemmas and theorems; no constant has a value in them. What is
assumed is what the modules say of their constants (`ConstantsAssumption`,
`LifecycleAssumption`, `StreamsAssumption`, `MemosAssumption`, `ProcAssumption` and `NumbersAssumption` of
`Singleton`, `ConfigWatchAssumption`, `WatchingAssumption`, `FanInAssumption`, `PutsAssumption`, `ClimbAssumption`,
`LayersAssumption`, `PathsAssumption`, `TreesAssumption`) and, of powers of two up to
2^17, what the code's shift gives (`RatesAssumption`), all of which TLC evaluates on
every run.

- **`RunsProofs!TypeCorrect`**, `Spec => []TypeOK`: one lemma for what starting a
  run does, one for settling, one per remaining group of actions.
- **`RunsProofs!TableKept`**: the table stays sound. Types do not suffice:
  `settle` launches what is queued, so it must not have begun (`QueuedHasNotBegun`),
  so nothing launched may still be queued (`LaunchedIsNotQueued`), so what is
  queued must differ from what runs (`QueuedBehindAnother`), and the runs of a
  slot must be its own (`SlotsOwnTheirRuns`). The inductive invariant is
  `IInv == TypeOK /\ TableSound /\ OvertakenHasNext /\ WaitersPointed`.
  `OvertakenHasNext` is what `settle` relies on when it expects a next run.
- **`RunsProofs!NoRingEver`**, `Spec => []NoRing`. A ring is a set of instances
  whose runs in flight each wait on one of the set. Only a call adds a wait, and
  `Met`, the set the walk of `Table::ask` reaches, is closed under waits; if the
  caller's instance is not in it, a ring made by the new wait would lie within it
  and was there before. Every other step drops waits (`FewerHops`), or puts in
  flight a run that has not begun and so, by `IInv`, waits on nothing.
- **`LifecycleProofs`**: `TypeCorrect`; `WatchesFollow`, inductive as it stands;
  `CalleesKept`, since the evicted are a union of sets each closed under callers
  that are here; and `LeavesInTime`, `Spec => NoEarlyEviction`. The last needs
  an invariant between two clocks: at decay step *n*, the time an instance has
  been idle plus the time left of the step is at least
  `window * (2^(n+1) - 1)`, the sum of its window and doubled steps up to *n*
  (`OnTheLadder`, beside `StepsInOrder`). A demand starts the sum again, time moves
  from one summand to the other, a late tick only adds, and a held instance,
  which does its last step again, has more than enough.
- **`RunLifeProofs`**. A step of `Runs` is put in one of a few *shapes*, which say
  what it does and not why: it leaves the table alone, hands a run over, queues one,
  marks a slot, settles a run, or does one thing left to do; and each thread and
  each caller moves as threads and callers do (`Shape` of `RunLife`; `StepShape`
  proves that every step of `Spec` has it). What follows is proved from
  shapes alone: `LifeInv`, with a lemma for each part of it and each shape. It says that
  what is left to do speaks of runs that are made, and of each launch once; that the
  runs of a slot are the last made of their instance (`SlotIsLatest`), so that
  a record is of a run before them and no run after it looks at older inputs
  (`RecordBehind`); that who is sent on is sent to a later run (`MovedOn`),
  so that a caller's need is met by whatever run it is sent to (`NeedMet`); and that
  a thread waits for a run of the instance the table has it waiting on
  (`WaitsOnKey`). From it: `NoRunLostEver`, `AnswersEver`, `RecordsForwardEver`;
  with `NoRing`, `NoDeadlockEver`; and, from the steps themselves, `FailbackHoldsEver`.
- **`ReloadProofs`**. A step of a reload has a shape too, so all of the above
  holds beside reloads (`PromisesThroughReloads`, `ForwardThroughReloads`,
  `FailbackThroughReloads`, `OvertakenHasNextEver`, and the types in
  `ReloadTypeCorrect`). `ReloadInv` adds where a retired record is between `Retire`
  and `Evict` (`NoRetiredRecord`: among the affected, then among those left to
  evict), and a retired failure until it is cleared (`NoRetiredFailure`); what keeps
  both is that a run is stored or counted only if its epoch is not retired, and
  keeps its epoch (`EpochStays`). They give `NothingRetiredStaysEver` and
  `NoInheritedFailbackEver`.
- **`ReloadProofs!KeepsFlightEver`**, `Spec => KeepsFlight`: `Runs` implements
  `SingleFlight`, shape by shape; and beside reloads, `FlightThroughReloads`.
  `FlightInv` is what the abstract step needs and the table only has because of how
  steps follow one another: what is said of a run is said after it left its slot
  (`LeftUnspoken`), and a run that is to be called stored has no second word said
  of it, which could be heard first (`StoredAlone`).

- **`PartsProofs`**, of watch streams: `StreamCaughtUpEver`, `SubscribedIsHeardEver` and
  `ChannelsCollectedEver`, from one invariant, `StreamsInv`. A stream subscribes to
  each link before it reads, so at every step each link of its chain has its receiver,
  on the channel writers find, or is still to be subscribed before the read
  (`HasEnd`, `SubscribesToAll`); and what it has read of a link is what the link
  holds, or it will look again: it has a permit, or one is coming from a receiver that
  heard or a writer still to notify (`UpToDate`, `WillLook`). A channel is collected under the lock that finds it has no receivers,
  so a channel somebody is subscribed to is never the one that is removed.
- **`PartsProofs`**, of memos: `DroppedIsMissedEver` and `MemosEndEver`, from
  `MemosInv`. One at a time has a provider's listing, and writes are numbered as they
  take it (`ListingHeld`, `Numbered`), so no memo stored after an invalidation looked
  has the number of one it saw; and a directory that holds a memo is listed
  (`HeldIsListed`), so the invalidation comes to it. Until it does, what it saw is
  among what it is still to drop (`SeenIsDropped`). A memo that is held has its writer
  still to tell of it, or a message with none behind it that overlaps it, or its lease
  (`LeaseComes`); the first of these gives way to the second only since a writer
  that is to tell has replaced what overlaps its memo, and finds there what it stored or what
  a later one did (`ReplacedAll`). Where the later one tells first, the
  directory is among the `crossed`.
- **`PartsProofs`**, of the singleton: `OnlyOwnersSignalledEver`, from `SingletonInv`.
  The flock of a file is its owner's from `Lock` to the end (`LocksOwned`, which
  needs `FilesOpen`: a process that owns has a file open, and a file that is made is one
  nobody has open, for there are more inodes than processes). A record names a
  process that has written it, and so has the lock or is dead; and so does what a
  superseding process read of one (`RecordsNamed`), however stale. And
  `NoStartUnservedEver`, from `ServedInv`. A start that came to nothing relied on
  another, which may itself be on its way out, or be ended by a third. What is kept
  is not that somebody serves but that, while a start relies on it (`Relying`),
  somebody serves, is placed to (`Placed`: it has its lock, and the socket is still to
  be seen to or is free), or may yet lock what the path names (`MayLock`): `ReliedOn`. A
  daemon told to stop by a start hands this on, for that start waits for its end
  (`TellerWaits`); and only who serves listens (`ListensServes`). The
  attempt to prove it without an exception met the one case that `Adrift` leaves out,
  and the schedule of five daemons under [Also seen](#also-seen) that reaches it.
- **`WatchesProofs`**, of the configuration: `BareKeysInForceEver`, which has to hold of
  every reload on its way too, and `EditsReachEver`. The gate compares times, the
  load reads contents, and an edit may fall between; `ConfigInv` says why that is
  enough. No time is given twice (`TimesPast`), so a file that has at the load the
  time it had at the look was read as it was when that time was made
  (`Stamped`), and a file edited in between has a time the next look finds new.
  What was loaded last is in force, or is the last reload on its way
  (`SentOn`); an edit before the first look is among the `early` (`EarlyRead`).
- **`WatchesProofs`**, of tree watches: `TableTellsTheTruthEver`, since the last
  command sent is what the table's ask says and the worker has not yet overtaken it
  (`TableInv`); and `ReadSeesChangeEver`. For the latter `WatchInv` relates three
  things that move apart: the tree, the stamps, and the queue of events. While an
  instance is watched, its stamps are no older than the tree, or an event of the
  change is queued and not heard (`Fresh`, `Coming`). So where a sentinel is queued
  whatever came before it is heard before it (`Reaches`, `SentinelComes`), and
  when it is heard no stamp that holds is older than the arrival of any read that
  the pass began for (`AllClear`, `PassSound`); nor does one become so before the
  read looks (`ReadSound`): no step makes a stamp hold that is older than the tree
  and did not hold before (`NothingOlder`), as stamps and trees only go forward
  (`StampsPast`).
- **`WatchesProofs`**, of the watch of a resolved value: `NoStormEver` and
  `FanInCaughtUpEver`, for every graph of addresses and of what leaves hash. The watch
  follows what it changes itself, so counting rounds and changes is not inductive.
  `FanInInv` pays each change two rounds, one for what changed and one for the memos that
  made stale (`RoundsPaid`): with one round left no data is new, and the memos answer for
  what was read but those that are being written (`Steady`), so that only those can be news;
  with none left nothing is (`Still`), and no frame is news. That a re-resolution of
  the same data comes to the same hashes, and so misses no memo that was just written, is
  because it reads the same addresses: what was read is the least set that the root's
  render leads to (`ReadWhole`, `Least`). What was read at an address is what
  there is, or its stream was woken, or has a frame to take (`WillHear`), and the last such
  frame is what there is unless the stream was woken since (`SentLast`), so that frames
  all like what was read leave nothing unheard.
- **`PutsProofs`**: `NoOldPutComesBackEver`, `PutStandsEver` and `PutExpiresEver`, from
  `PutsInv`. A put is three steps, in the cache, in the store and to the scheduler, and
  no lock spans them; the daemon may die between any two. What holds between
  them: the file has what the store has, and else only what the start has yet to
  record again or found over (`StoreKept`); a put that began after another had ended stands behind
  it in the store, the file, the replay and the queue (`PutsInOrder`); so a replay, which
  takes them in that order and before the socket is bound, never puts an older one over a
  newer, and what a put replaced is out of the cache from its first step on and out of
  the store from its second (`ReplacedIsGone`). The scheduler evicts by node, not
  by put, so that what stands must be the last it was told of at its node
  (`HeardInOrder`), and only a node once put to with a ttl has a lease
  (`LeasesArePut`); a put at a node without one is then in the cache, or in the replay that
  is about to make it again (`KeptIsThere`).
  What `Vec::retain` keeps, and in which order, is a recursive function (`Retained`), and
  what it does to a sequence of any length takes induction. The library's
  induction theorems are out of reach, but not its theorem that a nonempty subset of a
  well-founded set has a minimal element (`WFMin`): `CountUp` is induction over a *set*
  of numbers, over which it is shown that the elements kept of each prefix
  are those asked for, in their order (`Picks`).
- **`ReadsProofs`**, of a read: `WaitedIsShownEver`, whose invariant is a line (a run the
  read saw end is one it will still look for: `UnreadIsAwaited`), and
  `NearestAnswersEver`, from `ClimbInv`. A walk goes strictly up, so it ends within one
  step more than the directories there are, and what it finds on the way is the start
  of all it will (`WholeWalkGoesUp`, `OnTheWay`, for any number of directories by `CountUp`).
  That a read of several Sources leaves nothing nearer out is not
  so of each walk alone: it holds since a level takes the nearest of all walks' next
  roots, so whatever any walk has left is no nearer than anything visited (`NearestFirst`).
  The theorem has a hypothesis, `RootsSettle`: that no root found from farther
  up is deeper. It holds of every `root` that is a marker at or above the directory, as
  `lup` finds it, and TLC evaluates it of the rules the `parts` run has
  (`RulesSettle`). Lines that render some other directory may break it, and then a walk
  can come to a depth the read has been past.
- **`ReadsProofs`**, of layers: `AddressesHoldEver`. A put makes leaves and an address, and
  drops those of the addresses below it; the leaves of the map it lands in give way where they
  are in its way. That every address still holds something, and every leaf still has an
  address, through `PutTree`, `RemovePut`, `EvictAddress` and the rest, is what a
  read relies on when it cuts the lower layers at the addresses.
- **`ReadsProofs`**, of what a read returns: `ReadsAsStackedEver`, from the above. A
  layer is a set of claims, a leaf each and whose it is; `Stacked(A, B)` is what shows of
  `A` in front of `B`, and `Gives(read, S)` says that a read's fields and its records are
  those of `S`. The code never computes it so: it inserts leaf by leaf, lets an object that
  lands on a leaf drop it and a leaf that lands on an object replace it, and keeps
  the records in step in a map of its own. One merge nevertheless gives the overlay in
  front of the base (`MergeGives`, by what lands, `LandedIs`, and what goes, `GoneIs`).
  Layers from the *i*-th on show what the *i*-th stacked over the rest shows (`ShowStep`),
  which needs that the places above a place form a finite chain (`PathsAssumption`: a path has
  finitely many prefixes, each a prefix of the next), so that of what is in
  front something is topmost (`Topmost`). The code cuts at a put's addresses after it has merged
  what lies below; cutting each layer before gives the same (`CutShows`), only because
  each address holds something put, by `AddressesHoldEver`. The folds over seeds and links are
  recursive functions, and `CountUp` carries the claim along them (`SeedsGive`, `ReadGives`).

Only model-checked: the liveness properties (`ThreadsReleased`, `CallersAnswered`,
`AllLeave`), which with `ENABLED` are out of the prover's reach, and the joint `PartsTypeOK`,
which says of all parts at once what is a conjunct of each part's proved invariant.
Every other property of a passing run is a theorem. `RECURSIVE` operators, which the
prover cannot take, are not used. Induction over data is within reach where the
claim is put as a set of numbers (`PutsProofs!CountUp`).

## Findings

Each is a run that TLC finds violated, of a property that restates a comment or a
doc of the repository; `PROJECT.json` quotes it.

1. `reload_old_body`: the replacing arm executes the Source of the asker's
   registry under the epoch of the queued run's, which may be newer: the record of
   a retired body is stored after the reload (`run.rs:428`).
2. `lifecycle_orphan`: a run under way when its instance is evicted, such as the
   last poll that the very tick of the eviction fires, stores a record that has no
   lifecycle: nothing evicts it, and idle shutdown waits for an empty cache
   (`scheduler/mod.rs:1246`).
3. `climb_put`: a read of a field stops at the first leaf, which may be a put at
   `~` that a farther instance, nearer than `~`, was to be preferred to: where the
   nearest instance lacks the field the farther one is not looked at, which a read
   of the namespace and a watch do (`server.rs:1113`).
4. `puts_expiry`: a put without a ttl over one whose ttl runs out is evicted by the
   tick before the scheduler hears of it (`server.rs:2053`).
5. `watching_failed`: a registration that failed is settled like one that was made:
   the loop marks the tree watched, and a record of it stays valid though nothing
   says when it changes (`watcher.rs:514`).

### Also seen

Met while modelling, and no run's subject. The history variables above keep those
of the parts apart from what their properties say.

- `run.rs:434`: a run replaced in flight lets go of the lock before it tells its
  waiters where to go; its own task may settle between and say `Dropped` first,
  against the comment at 248.
- `scheduler/mod.rs:795`: a run begun under the old registry after the reload
  looked at the runs in flight stores the old schedule after the restamp.
- `lifecycle.rs:390`, 311: an instance that begins to decay stops watching its files, and
  a file event in a decay step does nothing. lifecycle.rs:7-12, docs/architecture.md:306 and
  docs/status_ttl.md:3 say so too. docs/canon/cache-lifecycle.md:70 and 377-383, and
  docs/canon/provider_source.md:146-152, 281 and 350-353, say the opposite: by default watches
  "remain registered through every decay step until eviction", and an event in one
  reinstates the instance; and that where they and the code disagree the code is wrong.
  `WatchedWhileActive` and `WatchesFollow` state what the code does, so that they hold
  decides nothing between the two.
- `lifecycle.rs:368`: a Source that only watches decays like any other, whatever its scope;
  docs/canon/provider_source.md:133-137 and 279 exempt one that is global.
- `lifecycle.rs:412`: two Sources that call each other, and come to the end of their last
  steps at different ticks, each give the other that step again, for ever, though
  docs/canon/cache-lifecycle.md:384-387 has what nobody demands evicted in time, and
  docs/canon/provider_source.md:135 makes an exception of pure-watch globals only.
- `lifecycle.rs:421`: a held instance does its whole last step again, where the comment
  at 341 says it goes the tick after its callers.
- docs/canon/cache-lifecycle.md:401 says that a put is never evicted;
  docs/protocol-spec.md:484-488 that one with a ttl is, as the code does.
- `singleton/mod.rs:141`: the pid path is unlinked before the flock on it goes, and
  nobody looks again whether the path still names the file it locked. A daemon that
  opened the file before the unlink locks a file no name leads to, the next start
  makes another, and where the first one's socket does not answer yet both serve,
  against docs/canon/singleton.md:301. With five daemons the socket may be left to
  nobody: it is the case that `Adrift` leaves out of `owed`. *B* locks such a file, serves, and is stopped; it has
  closed its socket and is paused before it unlinks the pid path. *Y* starts, makes and
  locks a file of its own, and finds *B*'s stale socket. *K* starts, reads
  *Y*'s record, gets no answer in its grace, and is to end *Y*. *B* goes on and
  unlinks the path, which is *Y*'s by now; so *X* starts, makes and locks a third file,
  unlinks the stale socket, binds and serves. *Y* unlinks what it found stale, which is
  *X*'s socket by now, binds, and is ended by *K*. *K* tries for *X*'s lock until its
  deadline, and gives up. *X* is left, with a listener no path leads to, until the next
  start finds its socket silent and supersedes it.
- `query.rs:186`: instances above `$HOME` are put in front of the chain, so that
  what they hold wins over a put, or an instance, at or below the directory read.
  `NearestAnswers` says nothing of an answer from there.
- `server.rs:958`: a Source the lines call whose record another's run stored after
  the read was merged is found valid, no run is waited for, and the lines are not
  rendered over it again: the answer is as old as the first read.
- `server.rs:1111`, `958`: a fault ends the request before the demand is sent: what
  the runs it had started store is kept by nobody (as in finding 2).
- `watcher.rs:271`: the late sentinel of a barrier that ran out is taken for the
  answer of the next that touches the same file.
- A watch dropped and asked for again: what was settled for the first is still in
  the channel, and marks the second as watched before it is.
- `daemon/mod.rs:45`: a death in the middle of the replay loses the puts that were
  not yet put again, since the store starts empty and its first write is the file.
- `cache.rs:922`: a put below another's address empties that address for a moment,
  which forgets it. After `put my {b: 2}`, `put my.b 3`, a Source's `my.c` shows
  again, where docs/protocol-spec.md:469 says the second replaces only `my.b`; and
  a ttl of the forgotten address is left in the entry's schedules.
- `cache.rs` `read_merged`: an empty object over a farther empty object keeps the
  farther one's record.
- `cache.rs:2507`: a reader of a memo takes its value from one entry and its hash
  from the other: the value of one memo with the hash of the next. A memo whose
  render is older than an invalidation may be stored after it, and is then read
  (2352). `put_source` looks whether there are memos before it takes the listing.
- `server.rs:2403`: two writes of overlapping memos told of in the other order
  leave the one that is there without its lifecycle.
- `server.rs:489` and the library's `watch.rs:485`: a node that changes and comes
  back before its stream looks is not sent again, though a resolution read what
  was between. `watch.rs:618`: an address refused as its watch is asked for is not
  followed, though it was there when the resolution read it or comes to be there.
- The library's `watch.rs`: a resolved watch follows what its own resolutions change, and
  `NoStorm` says that dies down where a render is made of what it reads. It does not where
  a cached leaf's inputs are never the same twice, where one that is not cached and executes
  something is below one that is, where a Source's lifetime is 0, or where two watchers
  of different environments write one leaf's memo in turn: those resolve for ever.
- The library's `watch.rs:649`: a re-resolution that fails has taken its notices; what they
  told of is not looked at again until something else changes (`failed`).
- `config_watch.rs:112`: times are cut to milliseconds, so of two edits in one the second is
  not noticed. `ConfigWatch` gives each edit a time of its own.
- `config_watch.rs:150`: an edit made as the daemon starts, between its load and
  the first look, is noticed only with the next edit; so is a file that is gone for
  the look, there for the load, and gone again.

## What is not modelled, and the plan

Left out of the modules: values and formatting everywhere; in `Runs`, the
failback's count and its levels beyond whether it holds, and the runtime's
limited pool of blocking threads; in `Reload`, the calls between Sources that
spread a retirement, the facets it reseeds and the watches it moves; in
`Lifecycle`, retunes, and the static addresses of puts and memos, whose leases are
in `Puts` and `Memos`; in `Watching`, the polling backend and its self-test, and
paths that do not exist yet; in `Layers`, arrays, times and the template's own
facets; of the cache, that a record and its schedule are two entries written one
after the other; of the server, `refresh`, the `:cache` report and status; of a
read, that a root may be found elsewhere while it is under way; of the singleton, the reaper of orphans at
other sockets; of the daemon, the watchdog, whose thresholds are wall-clock.

Not planned: pure I/O, parsing of providers and configuration, shapes, rendering,
the CLI, the SDKs, packaging and the website. They are sequential, most of them
are functions from data to text, and tests reach them. They are most of the
repository's lines.

The order of the rest, the most important first:

1. The callees' closure in `Reload` (what a run in flight has called and not yet
   said), and `retune` in `Lifecycle`.
2. `Records`: `put_source`, `remove_source` and `restamp_schedule` in the steps
   they take over two entries, beside readers.
3. `Backoff`: the failback's count and levels, as functions.
