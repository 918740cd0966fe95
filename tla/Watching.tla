------------------------------ MODULE Watching ------------------------------
(***************************************************************************)
(* How a read knows that nothing changed in the tree its record is of:     *)
(* watches asked for and made, file events, tree stamps and the barrier    *)
(* (src/src/watcher.rs, the `tree_*` of src/src/cache.rs, the arms of the  *)
(* scheduler's loop for them, `hear_tree` in src/src/server.rs).           *)
(*                                                                         *)
(* Several Sources watch the tree below one root, which exists.  The loop, *)
(* the registrar's worker, the runs and the reads go on beside one another *)
(* and beside what changes the tree.  A change while the tree is watched   *)
(* is an event; events come in order, any time later.  The barrier's own   *)
(* directory is watched, and the watcher is the native one.                *)
(***************************************************************************)
EXTENDS Naturals, Sequences

CONSTANTS
    Inst,         \* instances that watch the tree
    Reader,
    NoInst,
    NoReader,
    MaxChange,    \* how often the tree changes
    MaxAsk,       \* how often a demand asks for a watch
    MaxPass,      \* how many barriers there are
    MaxRunOf,     \* how many runs of an instance begin
    Sentinels     \* BARRIER_SENTINELS

ASSUME WatchingAssumption ==
    /\ MaxChange \in Nat /\ MaxAsk \in Nat /\ MaxPass \in Nat
    /\ MaxRunOf \in Nat
    /\ Sentinels \in Nat \ {0}
    /\ NoInst \notin Inst /\ NoReader \notin Reader

\* The tree has a version before its first change.
Version == 1..(MaxChange + 1)

Unread == 0

\* A file event: of a sentinel, or of the tree.
TreeEvent == Sentinels
Event == 0..Sentinels

\* What a run stamps of the tree's events, and then reads of the tree.
Stamp == [gen : Nat, changes : Nat, version : Version \cup {Unread}]

None == [gen |-> 0, changes |-> 0, version |-> Unread]

VARIABLES
    tree,       \* the version of the tree
    events,     \* what the watcher has yet to deliver: Seq(Event)
    loop,       \* what the loop is in the middle of: [at, of]
    subscribed, \* watch_paths of the root: SUBSET Inst
    trees,      \* [Inst -> [gen, gone, changes]]: Cache.trees
    table,      \* Registrar.table of the root: [ask, asks, state]
    commands,   \* to the worker: Seq of an ask, or 0 for an unwatch
    worker,     \* the ask it is registering, or 0
    watched,    \* the operating system watches the tree
    settled,    \* the channel of registrations made: how many are in it
    running,    \* [Inst -> Stamp], None when no run is under way
    ran,        \* [Inst -> Nat]: how many runs began
    kept,       \* [Inst -> Stamp]: the record, or None
    barrier,    \* the Barrier, and of its pass under way: see WatchingInit
    reads,      \* [Reader -> [at, inst, arrived, got, excused, misled]]
    mistaken    \* instances marked watched when the root was not

loopVars  == <<loop, subscribed, trees, mistaken>>
workVars  == <<table, commands, worker, watched, settled>>
runVars   == <<running, ran, kept>>
watchVars == <<tree, events, loopVars, workVars, runVars, barrier, reads>>

LoopFree == loop.at = "free"

Free == [at |-> "free", of |-> NoInst]

NotReading == [at |-> "idle", inst |-> NoInst, arrived |-> 1, got |-> Unread,
               excused |-> FALSE, misled |-> FALSE]

\* At first no sentinel was ever heard; or the daemon has run for a while, and
\* each was, once.
WatchingInit ==
    /\ tree = 1 /\ events = <<>>
    /\ loop = Free
    /\ subscribed = {}
    /\ trees = [i \in Inst |-> [gen |-> 0, gone |-> TRUE, changes |-> 0]]
    /\ table = [ask |-> 0, asks |-> 0, state |-> "none"]
    /\ commands = <<>> /\ settled = 0
    /\ worker = 0
    /\ watched = FALSE
    /\ running = [i \in Inst |-> None] /\ ran = [i \in Inst |-> 0]
    /\ kept = [i \in Inst |-> None]
    /\ \E h \in {0, Sentinels} :
           barrier = [awaited |-> 0, heard |-> h, holder |-> NoReader,
                      mark |-> 0, covered |-> {}, began |-> {},
                      ranOut |-> FALSE, passes |-> 0]
    /\ reads = [r \in Reader |-> NotReading]
    /\ mistaken = {}

\* tree_is_watched.
IsWatched(i) == trees[i].gen # 0 /\ ~trees[i].gone

\* tree_watched: what was stamped before is of something that is gone.
Anew(i) == [gen |-> trees[i].gen + 1, gone |-> FALSE, changes |-> 0]

-----------------------------------------------------------------------------
(* The tree, and the runs that read it. *)

ChangeTree ==
    /\ tree <= MaxChange
    /\ tree' = tree + 1
    /\ events' = IF watched THEN Append(events, TreeEvent) ELSE events
    /\ UNCHANGED <<loopVars, workVars, runVars, barrier, reads>>

\* tree_stamp: what is not watched has a stamp that has moved already.
StampRun(i) ==
    /\ running[i] = None /\ ran[i] < MaxRunOf
    /\ ran' = [ran EXCEPT ![i] = @ + 1]
    /\ running' = [running EXCEPT ![i] =
                       [gen |-> IF IsWatched(i) THEN trees[i].gen ELSE 0,
                        changes |-> trees[i].changes, version |-> tree]]
    /\ UNCHANGED <<tree, events, loopVars, workVars, kept, barrier, reads>>

StoreRun(i) ==
    /\ running[i] # None
    /\ kept' = [kept EXCEPT ![i] = running[i]]
    /\ running' = [running EXCEPT ![i] = None]
    /\ UNCHANGED <<tree, events, loopVars, workVars, ran, barrier, reads>>

\* Mutant: whether the tree is watched is not asked.
IsValidUnwatched(i) ==
    /\ kept[i] # None
    /\ kept[i].gen = trees[i].gen /\ kept[i].changes = trees[i].changes

\* TreeStamp::moved, negated.
IsValid(i) ==
    /\ kept[i] # None
    /\ IsWatched(i) /\ kept[i].gen = trees[i].gen
    /\ kept[i].changes = trees[i].changes

-----------------------------------------------------------------------------
(* The registrar and its worker. *)

\* Registrar::watch.
AskFor ==
    /\ table' = [ask |-> table.asks + 1, asks |-> table.asks + 1,
                 state |-> "pending"]
    /\ commands' = Append(commands, table.asks + 1)

\* The worker takes a command.  It lets go of the path in any case.
TakeCommand ==
    /\ worker = 0 /\ commands # <<>>
    /\ worker' = Head(commands)
    /\ commands' = Tail(commands)
    /\ watched' = FALSE
    /\ UNCHANGED <<tree, events, loopVars, table, settled, runVars, barrier,
                   reads>>

\* Mutant: any registration made is the one asked for last.
LatestAnyway(ask) == TRUE

\* The path was not unwatched or asked for again since.
Latest(ask) == table.ask = ask

\* The registration is made, or fails; and the latest is settled.
Register ==
    /\ worker # 0
    /\ \E ok \in BOOLEAN :
           /\ watched' = ok
           /\ IF Latest(worker)
                THEN /\ table' = [table EXCEPT
                                     !.state = IF ok THEN "active"
                                                     ELSE "failed"]
                     /\ settled' = settled + 1
                ELSE UNCHANGED <<table, settled>>
    /\ worker' = 0
    /\ UNCHANGED <<tree, events, loopVars, commands, runVars, barrier, reads>>

-----------------------------------------------------------------------------
(* The loop. *)

\* A demand registers the instance's watch, or again after decay dropped it.
\* The first at the root asks the registrar; for another the root may be
\* watched already.
DemandWatch(i) ==
    /\ LoopFree /\ i \notin subscribed
    /\ subscribed' = subscribed \cup {i}
    /\ IF subscribed = {}
         THEN table.asks < MaxAsk /\ AskFor /\ UNCHANGED trees
         ELSE /\ trees' = IF table.state = "active"
                            THEN [trees EXCEPT ![i] = Anew(i)] ELSE trees
              /\ trees[i].gen <= MaxAsk
              /\ UNCHANGED <<table, commands>>
    /\ UNCHANGED <<tree, events, loop, mistaken, worker, watched, settled,
                   runVars, barrier, reads>>

\* Any other demand asks again for a registration that failed.
Retry(i) ==
    /\ LoopFree /\ i \in subscribed
    /\ table.state = "failed" /\ table.asks < MaxAsk
    /\ AskFor
    /\ UNCHANGED <<tree, events, loopVars, worker, watched, settled, runVars,
                   barrier, reads>>

\* A tick begins the instance's decay: its watch goes first.
DropWatch(i) ==
    /\ LoopFree /\ i \in subscribed
    /\ subscribed' = subscribed \ {i}
    /\ IF subscribed = {i}
         THEN /\ table' = [table EXCEPT !.ask = 0, !.state = "none"]
              /\ commands' = Append(commands, 0)
         ELSE UNCHANGED <<table, commands>>
    /\ loop' = [at |-> "unwatching", of |-> i]
    /\ UNCHANGED <<tree, events, trees, mistaken, worker, watched, settled,
                   runVars, barrier, reads>>

\* tree_unwatched.
TreeUnwatched ==
    /\ loop.at = "unwatching"
    /\ trees' = [trees EXCEPT ![loop.of].gone = TRUE]
    /\ mistaken' = mistaken \ {loop.of}
    /\ loop' = Free
    /\ UNCHANGED <<tree, events, subscribed, workVars, runVars, barrier,
                   reads>>

\* The instance is evicted, at the end of its decay.
ForgetTree(i) ==
    /\ LoopFree /\ i \notin subscribed /\ kept[i] # None
    /\ kept' = [kept EXCEPT ![i] = None]
    /\ UNCHANGED <<tree, events, loopVars, workVars, running, ran, barrier,
                   reads>>

\* A registration is settled: the tree of each instance there is watched from
\* here on, unless it was before.
TakeSettled ==
    /\ LoopFree /\ settled > 0
    /\ settled' = settled - 1
    /\ LET new == {i \in subscribed : ~IsWatched(i)}
       IN  /\ trees' = [i \in Inst |-> IF i \in new THEN Anew(i) ELSE trees[i]]
           /\ mistaken' = IF table.state = "active" THEN mistaken
                          ELSE mistaken \cup new
    /\ UNCHANGED <<tree, events, loop, subscribed, table, commands, worker,
                   watched, runVars, barrier, reads>>

\* An event: of the tree, or of a sentinel, which Barrier::hear compares with
\* the one awaited.
HearEvent ==
    /\ LoopFree /\ events # <<>>
    /\ events' = Tail(events)
    /\ IF Head(events) = TreeEvent
         THEN /\ trees' = [i \in Inst |->
                              IF i \in subscribed
                                THEN [trees[i] EXCEPT !.changes = @ + 1]
                                ELSE trees[i]]
              /\ UNCHANGED loop
         ELSE /\ loop' = IF Head(events) = barrier.awaited
                           THEN [at |-> "hearing", of |-> NoInst] ELSE loop
              /\ UNCHANGED trees
    /\ UNCHANGED <<tree, subscribed, mistaken, workVars, runVars, barrier,
                   reads>>

Heard ==
    /\ loop.at = "hearing"
    /\ barrier' = [barrier EXCEPT !.heard = @ + 1]
    /\ loop' = Free
    /\ UNCHANGED <<tree, events, subscribed, trees, mistaken, workVars,
                   runVars, reads>>

-----------------------------------------------------------------------------
(* Reads. *)

\* A read arrives at the instance, with hear_tree: the barrier is for what is
\* watched.
Arrive(r, i) ==
    /\ reads[r].at \in {"idle", "answered"}
    /\ reads' = [reads EXCEPT ![r] =
                     [NotReading EXCEPT
                          !.at = IF IsWatched(i) THEN "lock" ELSE "check",
                          !.inst = i, !.arrived = tree]]
    /\ barrier' = [barrier EXCEPT !.covered = @ \ {r}, !.began = @ \ {r}]
    /\ UNCHANGED <<tree, events, loopVars, workVars, runVars>>

\* Barrier::pass, with its lock: a read that arrived before the last barrier
\* began shares it.
SharePass(r) ==
    /\ reads[r].at = "lock"
    /\ barrier.holder = NoReader
    /\ r \in barrier.covered
    /\ reads' = [reads EXCEPT ![r].at = "check", ![r].excused = barrier.ranOut]
    /\ UNCHANGED <<tree, events, loopVars, workVars, runVars, barrier>>

\* Sentinels not yet heard, of barriers that ran out.
Late == loop.at = "hearing" \/ \E e \in 1..Len(events) : events[e] # TreeEvent

\* Or it begins another.  What it takes for its answer is a sentinel heard
\* from now on.
BeginPass(r) ==
    /\ reads[r].at = "lock"
    /\ barrier.holder = NoReader
    /\ r \notin barrier.covered
    /\ barrier.passes < MaxPass
    /\ barrier' = [barrier EXCEPT
                       !.holder = r, !.mark = barrier.heard,
                       !.passes = @ + 1,
                       !.began = {q \in Reader : reads[q].at = "lock"}]
    /\ reads' = [reads EXCEPT ![r].at = "touch", ![r].excused = Late]
    /\ UNCHANGED <<tree, events, loopVars, workVars, runVars>>

\* Mutant: the sentinels do not begin again with the first.
NextUnbounded == barrier.awaited + 1

NextSentinel == (barrier.awaited + 1) % Sentinels

\* It takes the next sentinel and touches it.  Until one was ever heard it
\* does not wait.
TouchSentinel(r) ==
    /\ reads[r].at = "touch"
    /\ events' = Append(events, NextSentinel)
    /\ LET delivers == barrier.mark > 0
       IN  /\ barrier' = [barrier EXCEPT
                              !.awaited = NextSentinel,
                              !.holder = IF delivers THEN r ELSE NoReader]
           /\ reads' = [reads EXCEPT
                            ![r].at = IF delivers THEN "wait" ELSE "check",
                            ![r].excused = @ \/ ~delivers]
    /\ UNCHANGED <<tree, loopVars, workVars, runVars>>

\* The wait ends: it was heard, or BARRIER_WAIT is over.
EndPass(r) ==
    /\ reads[r].at = "wait"
    /\ \E ranOut \in BOOLEAN :
           /\ ~ranOut => barrier.heard # barrier.mark
           /\ reads' = [reads EXCEPT ![r].at = "check",
                                     ![r].excused = @ \/ ranOut]
           /\ barrier' = [barrier EXCEPT
                              !.holder = NoReader,
                              !.ranOut = reads[r].excused \/ ranOut,
                              !.covered = barrier.began, !.began = {}]
    /\ UNCHANGED <<tree, events, loopVars, workVars, runVars>>

\* start_for_read: a valid record is the answer; any other is not.
CheckRecord(r) ==
    /\ reads[r].at = "check"
    /\ LET i == reads[r].inst
       IN  reads' = [reads EXCEPT
                         ![r].at = "answered",
                         ![r].misled = i \in mistaken,
                         ![r].got = IF IsValid(i) THEN kept[i].version
                                                  ELSE Unread]
    /\ UNCHANGED <<tree, events, loopVars, workVars, runVars, barrier>>

WatchingNext ==
    \/ ChangeTree \/ TakeCommand \/ Register
    \/ TreeUnwatched \/ TakeSettled \/ HearEvent \/ Heard
    \/ \E i \in Inst : \/ StampRun(i) \/ StoreRun(i) \/ DemandWatch(i)
                       \/ Retry(i) \/ DropWatch(i) \/ ForgetTree(i)
    \/ \E r \in Reader : \/ SharePass(r) \/ BeginPass(r) \/ TouchSentinel(r)
                         \/ EndPass(r) \/ CheckRecord(r)
                         \/ \E i \in Inst : Arrive(r, i)

WatchingSpec == WatchingInit /\ [][WatchingNext]_watchVars

-----------------------------------------------------------------------------
(* Properties. *)

WatchingTypeOK ==
    /\ tree \in Version /\ events \in Seq(Event)
    /\ loop \in [at : {"free", "unwatching", "hearing"},
                 of : Inst \cup {NoInst}]
    /\ subscribed \subseteq Inst /\ mistaken \subseteq Inst
    /\ trees \in [Inst -> [gen : Nat, gone : BOOLEAN, changes : Nat]]
    /\ table \in [ask : Nat, asks : 0..MaxAsk,
                  state : {"none", "pending", "active", "failed"}]
    /\ commands \in Seq(0..MaxAsk) /\ settled \in Nat
    /\ worker \in 0..MaxAsk /\ watched \in BOOLEAN
    /\ running \in [Inst -> Stamp] /\ kept \in [Inst -> Stamp]
    /\ ran \in [Inst -> 0..MaxRunOf]
    /\ barrier \in [awaited : 0..(Sentinels - 1), heard : Nat, mark : Nat,
                    holder : Reader \cup {NoReader}, ranOut : BOOLEAN,
                    covered : SUBSET Reader, began : SUBSET Reader,
                    passes : 0..MaxPass]
    /\ reads \in [Reader -> [at : {"idle", "lock", "touch", "wait", "check",
                                   "answered"},
                             inst : Inst \cup {NoInst}, arrived : Version,
                             got : Version \cup {Unread}, excused : BOOLEAN,
                             misled : BOOLEAN]]

\* An answer the cache gave as valid is of the tree as the read found it, or
\* later, unless its barrier ran out.
SeesChange(r) ==
    reads[r].at = "answered" /\ reads[r].got # Unread /\ ~reads[r].excused
        => reads[r].got >= reads[r].arrived

\* A read straight after a change sees it: whatever was asked for, dropped and
\* registered around it, as long as its instance was not marked watched when
\* the root was not.
ReadSeesChange ==
    \A r \in Reader : ~reads[r].misled => SeesChange(r)

\* And with no such condition.
UnwatchedIsNeverValid == \A r \in Reader : SeesChange(r)

\* The registrar's table tells the truth: once the worker is done, the root is
\* watched exactly if its latest ask says so.
TableTellsTheTruth ==
    commands = <<>> /\ worker = 0 =>
        (watched <=> table.state = "active")
=============================================================================
