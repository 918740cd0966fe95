-------------------------------- MODULE Runs --------------------------------
(***************************************************************************)
(* The run table of the daemon (src/src/run.rs): every run of every Source *)
(* instance, who waits on it, what is queued behind it, and how it ends.   *)
(*                                                                         *)
(* An instance has at most one slot: the run in flight, at most one run    *)
(* queued behind it, and a mark left by a reload that overtook it.  A run  *)
(* executes on a blocking thread (stamp the inputs, execute, perhaps call  *)
(* other instances and wait for their runs); a task beside it applies the  *)
(* Source's timeout and settles the run under the table's lock.  A thread  *)
(* cut off by the timeout, or whose run was replaced, goes on.             *)
(*                                                                         *)
(* Each action is what one actor does under one hold of the table's lock.  *)
(* What it does after letting go of the lock (telling the waiters of a run *)
(* that it is over, launching the next) is kept in todo and done one       *)
(* effect at a time, between the steps of everyone else.                   *)
(*                                                                         *)
(* Data kept: the version of an instance's inputs, the version each run    *)
(* stamped, and which run stored the record.  A registry is known by its   *)
(* epoch; module Reload says how one takes over from another.              *)
(***************************************************************************)
EXTENDS Naturals, Sequences

CONSTANTS
    Key,         \* the Source instances
    NoKey,       \* no instance: what a run that waits on nothing waits on
    Caller,      \* requests, and the scheduler: who asks for runs off a run's thread
    Calls,       \* [Key -> SUBSET Key]: what a run of an instance may call
    MaxRun,      \* bound: runs made
    MaxVersion,  \* bound: versions of an instance's inputs
    MaxEpoch,    \* bound: reloads
    Threshold,   \* the failback's reattempts: failures in a row before it holds
    Asks,        \* bound: the wants that callers off a run's thread ask with
    MayStop      \* bound: whether the daemon stops

ASSUME ConstantsAssumption ==
    /\ NoKey \notin Key
    /\ Calls \in [Key -> SUBSET Key]
    /\ MaxRun \in Nat
    /\ MaxVersion \in Nat \ {0}
    /\ MaxEpoch \in Nat
    /\ Threshold \in Nat \ {0}
    /\ Asks \subseteq {"Cold", "Any", "Changed", "Fresh", "Forced"}
    /\ MayStop \in BOOLEAN

RunId    == 1..MaxRun
NoRun    == 0
Epoch    == 0..MaxEpoch
Version  == 1..MaxVersion
NoStamp  == 0
Schedule == 1..(MaxEpoch + 1)   \* a Source's schedule, by the reload that set it
NoSource == 0

Want    == {"Cold", "Any", "Changed", "Fresh", "Forced"}
Outcome == {"Stored", "Failed", "Fault", "Dropped"}
End     == Outcome \cup {"Open", "Moved"}
Result  == {"Ok", "Err", "Fault", "None"}   \* "None": no result yet, or none at all

VARIABLES
    slots,      \* [Key -> Slot]: the table; no slot when nothing runs
    made,       \* how many runs have been made
    state,      \* [RunId -> State]: what everyone waiting on a run reads
    job,        \* [RunId -> Job]: what the run runs under, and its task
    todo,       \* effects still to be done by actors that let go of the lock
    waits,      \* [RunId -> Key or NoKey]: whose thread waits on which instance
    thread,     \* [RunId -> Thread]: the run's blocking thread
    stamp,      \* [RunId -> Version or NoStamp]: inputs as the run stamped them
    version,    \* [Key -> Version]: the inputs as they are now
    record,     \* [Key -> RunId or NoRun]: the run whose result is stored
    schedule,   \* [Key -> Schedule or NoSource]: the schedule stored with it
    failures,   \* [Key -> Failures]: the failback
    caller,     \* [Caller -> Request]
    source,     \* [Epoch -> [Key -> Schedule or NoSource]]: each registry's Sources
    inForce,    \* the epoch of the registry in force; requests may hold an older
    retired,    \* [Key -> Epoch]: the last reload that retired the Source
    stopping    \* the daemon is on its way out

tableVars == <<slots, made, state, job, todo>>
runVars   == <<waits, thread, stamp>>
dataVars  == <<version, record, schedule, failures>>
envVars   == <<source, inForce, retired, stopping>>
vars      == <<tableVars, runVars, dataVars, caller, envVars>>

-----------------------------------------------------------------------------
(* The shape of the state. *)

Slot == [running : RunId \cup {NoRun}, queued : RunId \cup {NoRun},
         forced : BOOLEAN, epoch : Epoch,
         overtaken : {"No", "Again", "Gone"}, goneAt : Epoch]

\* The slot of a run in flight with nothing behind it.
InFlightOnly(r) == [running |-> r, queued |-> NoRun, forced |-> FALSE, epoch |-> 0,
                    overtaken |-> "No", goneAt |-> 0]

NoSlot == InFlightOnly(NoRun)

State   == [key : Key \cup {NoKey}, end : End, to : RunId \cup {NoRun}]
OpenFor(k) == [key |-> k, end |-> "Open", to |-> NoRun]

Job     == [epoch : Epoch, body : Epoch, forced : BOOLEAN,
            task : {"none", "live", "settled"}]
Thread  == [pc : {"none", "spawned", "executing", "waiting", "done"},
            on : RunId \cup {NoRun}, fault : BOOLEAN]
Effect  == [op : {"finish", "launch"}, run : RunId, end : End,
            to : RunId \cup {NoRun}]
Effects == Seq(Effect) \ {<< >>}   \* what one actor has left to do, in order

Request == [pc : {"idle", "waiting", "answered"},
            on : RunId \cup {NoRun}, need : Version \cup {NoStamp},
            got : Outcome \cup {"None"}]

Finish(r, end, to) == [op |-> "finish", run |-> r, end |-> end, to |-> to]
Launch(r)          == [op |-> "launch", run |-> r, end |-> "Open", to |-> NoRun]

\* A run about to begin: of the Source of registry body, recorded under that of
\* epoch; forced if it was asked for past the failback (kept for FailbackHolds).
Begun(e, body, force) == [epoch |-> e, body |-> body, forced |-> force, task |-> "none"]

InThread(pc, on, fault) == [pc |-> pc, on |-> on, fault |-> fault]

\* by: the epoch of the run that failed last (kept for NoInheritedFailback).
Failures    == [count : 0..Threshold, held : BOOLEAN, by : Epoch]
NoFailures  == [count |-> 0, held |-> FALSE, by |-> 0]

Idle == [pc |-> "idle", on |-> NoRun, need |-> NoStamp, got |-> "None"]

Init ==
    /\ slots = [k \in Key |-> NoSlot]
    /\ made = 0
    /\ state = [r \in RunId |-> OpenFor(NoKey)]
    /\ job = [r \in RunId |-> Begun(0, 0, FALSE)]
    /\ todo = {}
    /\ waits = [r \in RunId |-> NoKey]
    /\ thread = [r \in RunId |-> InThread("none", NoRun, FALSE)]
    /\ stamp = [r \in RunId |-> NoStamp]
    /\ version = [k \in Key |-> 1]
    /\ record = [k \in Key |-> NoRun]
    /\ schedule = [k \in Key |-> NoSource]
    /\ failures = [k \in Key |-> NoFailures]
    /\ caller = [c \in Caller |-> Idle]
    /\ source = [e \in Epoch |-> [k \in Key |-> IF e = 0 THEN 1 ELSE NoSource]]
    /\ inForce = 0
    /\ retired = [k \in Key |-> 0]
    /\ stopping = FALSE

-----------------------------------------------------------------------------
(* Asking for a run: Runs::start. *)

\* Mutant of SeesNow: the run in flight is good enough for every reader.
SeesAnything(r) == TRUE

\* State::sees_now: not yet stamped, or the inputs are as they were stamped.
SeesNow(r) == stamp[r] \in {NoStamp, version[state[r].key]}

Running(k)  == slots[k].running # NoRun
Held(k)     == failures[k].held
HasSource(e, k) == source[e][k] # NoSource

Newest(e, f) == IF e >= f THEN e ELSE f

\* Slot::queue: the one run queued behind s, under the newest registry that
\* asked for it; new is the run made for it when there is none yet.
WithQueued(s, e, force, new) ==
    IF s.queued = NoRun
    THEN [s EXCEPT !.queued = new, !.forced = force, !.epoch = e]
    ELSE [s EXCEPT !.forced = @ \/ force, !.epoch = Newest(e, @)]

\* Mutant of QueuedOrNew: whoever queues is handed a run of its own.
AlwaysNew(s) == made + 1

\* The run queued behind s, made now (the next number) if there is none.
QueuedOrNew(s) == IF s.queued = NoRun THEN made + 1 ELSE s.queued

\* r is handed out: made now when it is the next number.
Make(r, k) ==
    /\ r \in RunId
    /\ made' = IF r = made + 1 THEN r ELSE made
    /\ state' = IF r = made + 1 THEN [state EXCEPT ![r] = OpenFor(k)] ELSE state

\* What the run in flight gives a caller of want.
Joins(want, k) ==
    /\ slots[k].overtaken = "No"
    /\ \/ want \in {"Cold", "Any"}
       \/ want = "Changed" /\ SeesNow(slots[k].running)

Replaces(want, k) ==
    /\ want = "Changed"
    /\ slots[k].overtaken = "No"
    /\ ~SeesNow(slots[k].running)
    /\ ~Held(k)

\* What is done once new has taken old's place.
Handover(old, new) == <<Finish(old, "Moved", new), Launch(new)>>

StartJoin(want, e, k, got) ==
    /\ Running(k)
    /\ Joins(want, k)
    /\ got = slots[k].running
    /\ UNCHANGED tableVars

\* The run in flight is behind its inputs: the queued one begins in its place.
\* It executes the Source of the caller's registry (body) under the newest
\* registry that queued it (epoch).
StartReplace(want, e, k, got) ==
    /\ Running(k)
    /\ Replaces(want, k)
    /\ HasSource(e, k)
    /\ got = QueuedOrNew(slots[k])
    /\ Make(got, k)
    /\ LET q == WithQueued(slots[k], e, FALSE, got) IN
       /\ slots' = [slots EXCEPT ![k] = InFlightOnly(got)]
       /\ job' = [job EXCEPT ![got] = Begun(q.epoch, e, q.forced)]
    /\ todo' = todo \cup {Handover(slots[k].running, got)}

StartQueue(want, e, k, got) ==
    /\ Running(k)
    /\ ~Joins(want, k)
    /\ ~Replaces(want, k)
    /\ got = QueuedOrNew(slots[k])
    /\ Make(got, k)
    /\ slots' = [slots EXCEPT ![k] = WithQueued(@, e, want = "Forced", got)]
    /\ UNCHANGED <<job, todo>>

\* With no run in flight, who gets none.
Refused(want, e, k) ==
    \/ want = "Cold" /\ record[k] # NoRun
    \/ want # "Forced" /\ Held(k)
    \/ ~HasSource(e, k)

StartNew(want, e, k, got) ==
    /\ ~Running(k)
    /\ ~Refused(want, e, k)
    /\ got = made + 1
    /\ Make(got, k)
    /\ slots' = [slots EXCEPT ![k] = InFlightOnly(got)]
    /\ job' = [job EXCEPT ![got] = Begun(e, e, want = "Forced")]
    /\ todo' = todo \cup {<<Launch(got)>>}

StartNone(want, e, k, got) ==
    /\ IF Running(k) THEN Replaces(want, k) /\ ~HasSource(e, k)
                     ELSE Refused(want, e, k)
    /\ got = NoRun
    /\ UNCHANGED tableVars

Start(want, e, k, got) ==
    \/ StartJoin(want, e, k, got)
    \/ StartReplace(want, e, k, got)
    \/ StartQueue(want, e, k, got)
    \/ StartNew(want, e, k, got)
    \/ StartNone(want, e, k, got)

-----------------------------------------------------------------------------
(* Who waits on whom: Table::ask, Run::wait. *)

\* The instance that the run in flight of k waits on, if it waits.
Hop(sl, w, k) == IF sl[k].running = NoRun THEN NoKey ELSE w[sl[k].running]

\* Mutant of Met: the walk stops one hop short.
MetNear(sl, w, k) == {k, Hop(sl, w, k)} \ {NoKey}

\* The instances met following the waits from k: the least set that has k and,
\* with an instance, the one its run waits on.
Met(sl, w, k) ==
    {j \in Key : \A T \in SUBSET Key :
        (k \in T /\ \A i \in T : Hop(sl, w, i) \in T \cup {NoKey}) => j \in T}

\* Mutant of ClosesRing: only a run that asks for itself is refused.
AsksForItself(sl, w, me, k) == sl[k].running = me

\* Waiting on k's run, from the thread of run me, would close a ring.
ClosesRing(sl, w, me, k) == \E j \in Met(sl, w, k) : sl[j].running = me

-----------------------------------------------------------------------------
(* A run's blocking thread: the closure of Runs::launch, and run_call and    *)
(* warm_provider of src/src/provider/source_call.rs within it.               *)

\* The inputs are stamped immediately before the Source executes.  The code looks
\* at them, publishes the stamp and executes; here it is one step.  Who asks in
\* between joins, and what changed in between the execution reads, under a stamp
\* that is older: one run more for the next read, no answer older than its ask.
Begin(r) ==
    /\ thread[r].pc = "spawned"
    /\ thread' = [thread EXCEPT ![r].pc = "executing"]
    /\ stamp' = [stamp EXCEPT ![r] = version[state[r].key]]
    /\ UNCHANGED <<tableVars, waits, dataVars, caller, envVars>>

\* warm_called's want for an instance, by what it finds stored. A valid record
\* needs no run; whether one is past its lifetime is the clock's to say.
WantFor(k) ==
    IF record[k] = NoRun THEN "Cold"
    ELSE IF stamp[record[k]] < version[k] THEN "Changed"
    ELSE "Any"

\* A run calls another instance through the registry of the Source it executes.
\* The ring is the call's fault (run_call), or is left alone (warm_provider).
Call(r, k) ==
    /\ thread[r].pc = "executing"
    /\ ~thread[r].fault
    /\ k \in Calls[state[r].key]
    /\ \E got \in 0..MaxRun :
        /\ Start(WantFor(k), job[r].body, k, got)
        /\ IF got = NoRun
           THEN UNCHANGED <<thread, waits>>
           ELSE IF ClosesRing(slots', waits, r, k)
           THEN /\ \E fault \in BOOLEAN :
                        thread' = [thread EXCEPT ![r].fault = fault]
                /\ UNCHANGED waits
           ELSE /\ waits' = [waits EXCEPT ![r] = k]
                /\ thread' = [thread EXCEPT ![r] = InThread("waiting", got, FALSE)]
    /\ UNCHANGED <<stamp, dataVars, caller, envVars>>

\* Run::wait, step by step: the run waited on was replaced, ...
ThreadFollows(r) ==
    /\ thread[r].pc = "waiting"
    /\ state[thread[r].on].end = "Moved"
    /\ thread' = [thread EXCEPT ![r].on = state[thread[r].on].to]
    /\ UNCHANGED <<tableVars, waits, stamp, dataVars, caller, envVars>>

\* ... or is over: a fault of its lines is this run's too, and anything else
\* is at most a miss.
ThreadWakes(r) ==
    /\ thread[r].pc = "waiting"
    /\ state[thread[r].on].end \in Outcome
    /\ thread' = [thread EXCEPT
            ![r] = InThread("executing", NoRun, state[thread[r].on].end = "Fault")]
    /\ waits' = [waits EXCEPT ![r] = NoKey]
    /\ UNCHANGED <<tableVars, stamp, dataVars, caller, envVars>>

-----------------------------------------------------------------------------
(* The end of a run: Runs::settle and record. *)

\* Mutant of RecordOutcome: the reload's marks are not looked at.
RecordedAnyway(e, k, res) ==
    IF ~HasSource(e, k) THEN "Dropped"
    ELSE CASE res = "Ok"    -> "Stored"
           [] res = "Err"   -> "Failed"
           [] res = "Fault" -> "Fault"

\* record: what run r of k, which ended with res, comes to under registry e.
\* Its registry may not have the Source, or a reload may have retired it since.
RecordOutcome(e, k, res) ==
    IF ~HasSource(e, k) \/ retired[k] > e THEN "Dropped"
    ELSE CASE res = "Ok"    -> "Stored"
           [] res = "Err"   -> "Failed"
           [] res = "Fault" -> "Fault"

\* record_failure, counted no further than the threshold: the code counts on,
\* and what that lengthens is the backoff, whose length is the clock's here.
FailedOnce(f, e) ==
    LET n == IF f.count < Threshold THEN f.count + 1 ELSE f.count IN
    [count |-> n, held |-> n >= Threshold, by |-> e]

Recorded(r, out) ==
    LET k == state[r].key IN
    /\ record' = IF out = "Stored" THEN [record EXCEPT ![k] = r] ELSE record
    /\ schedule' = IF out = "Stored"
                   THEN [schedule EXCEPT ![k] = source[job[r].epoch][k]]
                   ELSE schedule
    /\ failures' = CASE out = "Stored" ->
                            [failures EXCEPT ![k] = NoFailures]
                     [] out \in {"Failed", "Fault"} ->
                            [failures EXCEPT ![k] = FailedOnce(@, job[r].epoch)]
                     [] OTHER -> failures

\* Queued behind a run whose Source went, under an older registry.
Outdated(s) == s.overtaken = "Gone" /\ s.queued # NoRun /\ s.epoch < s.goneAt

\* What the run in flight in s ends with, given its result ("None": its task
\* was dropped).
EndOf(s, r, k, res) ==
    CASE s.overtaken = "Gone"  -> "Dropped"
      [] s.overtaken = "Again" -> "Moved"
      [] s.overtaken = "No"    -> IF res = "None" THEN "Dropped"
                                  ELSE RecordOutcome(job[r].epoch, k, res)

\* Mutant of QueuedStarts: a next run begins whether or not one was queued.
StartsUnqueued(s, k, res) ==
    /\ ~Outdated(s) /\ res # "None"
    /\ s.forced \/ ~failures'[k].held
    /\ HasSource(s.epoch, k)

\* Mutant of QueuedStarts: the failback is not asked.
QueuedAlwaysStarts(s, k, res) ==
    s.queued # NoRun /\ ~Outdated(s) /\ res # "None" /\ HasSource(s.epoch, k)

\* Whether what is queued in s starts, read after the failure is recorded.
QueuedStarts(s, k, res) ==
    /\ s.queued # NoRun
    /\ ~Outdated(s)
    /\ res # "None"
    /\ s.forced \/ ~failures'[k].held
    /\ HasSource(s.epoch, k)

\* Mutant of Owns: a run settles whatever slot its instance has.
OwnsAny(r) == TRUE

\* The slot of its instance is the run's while it is the one running there.
Owns(r) == slots[state[r].key].running = r

\* Mutant of Farewell: those waiting on a queued run that never starts are left.
FarewellToOne(s, r, end, to) == <<Finish(r, end, to)>>

\* The last words when nothing follows r in s: r's, and the queued run's.
Farewell(s, r, end, to) ==
    IF s.queued = NoRun
    THEN <<Finish(r, end, to)>>
    ELSE <<Finish(r, end, to), Finish(s.queued, "Dropped", NoRun)>>

SettleOwn(r, res) ==
    LET k   == state[r].key
        s   == slots[k]
        end == EndOf(s, r, k, res)
        to  == IF end = "Moved" THEN s.queued ELSE NoRun
    IN
    /\ Owns(r)
    /\ Recorded(r, end)
    /\ IF QueuedStarts(s, k, res)
       THEN /\ slots' = [slots EXCEPT ![k] = InFlightOnly(s.queued)]
            /\ job' = [job EXCEPT
                    ![r].task = "settled",
                    ![s.queued] = Begun(s.epoch, s.epoch, s.forced)]
            /\ todo' = todo \cup {<<Finish(r, end, to), Launch(s.queued)>>}
       ELSE /\ slots' = [slots EXCEPT ![k] = NoSlot]
            /\ job' = [job EXCEPT ![r].task = "settled"]
            /\ todo' = todo \cup {Farewell(s, r, end, to)}

\* Mutant of SettleReplaced: what a replaced run gave is stored all the same.
SettleReplacedStores(r) ==
    /\ ~Owns(r)
    /\ job' = [job EXCEPT ![r].task = "settled"]
    /\ todo' = todo \cup {<<Finish(r, "Dropped", NoRun)>>}
    /\ record' = [record EXCEPT ![state[r].key] = r]
    /\ UNCHANGED <<slots, schedule, failures>>

\* The slot is no longer the run's: it was replaced in flight.
SettleReplaced(r) ==
    /\ ~Owns(r)
    /\ job' = [job EXCEPT ![r].task = "settled"]
    /\ todo' = todo \cup {<<Finish(r, "Dropped", NoRun)>>}
    /\ UNCHANGED <<slots, record, schedule, failures>>

Settle(r, res) ==
    /\ job[r].task = "live"
    /\ SettleOwn(r, res) \/ SettleReplaced(r)
    /\ UNCHANGED <<made, state, version>>

\* The Source's execution returned: a fault if a call of it was one.
Returned(r, res) ==
    /\ thread[r].pc = "executing"
    /\ res \in (IF thread[r].fault THEN {"Fault"} ELSE {"Ok", "Err"})
    /\ thread' = [thread EXCEPT ![r] = InThread("done", NoRun, FALSE)]
    /\ UNCHANGED <<waits, stamp, caller, envVars>>

\* A run ends by itself, ...
Ended(r) == \E res \in Result : Returned(r, res) /\ Settle(r, res)

\* (a thread whose run was cut off earlier returns to nobody)
ReturnsLate(r) ==
    /\ job[r].task = "settled"
    /\ \E res \in Result : Returned(r, res)
    /\ UNCHANGED <<tableVars, dataVars>>

\* ... or its Source's timeout cuts it off, its thread going on, ...
Timeout(r) ==
    /\ Settle(r, "Err")
    /\ UNCHANGED <<runVars, caller, envVars>>

\* Mutant of DropTask: a task dropped unfinished settles nothing.
DropTaskUntold(r) ==
    /\ stopping
    /\ job[r].task = "live"
    /\ job' = [job EXCEPT ![r].task = "settled"]
    /\ UNCHANGED <<slots, made, state, todo, runVars, dataVars, caller, envVars>>

\* ... or its task was dropped unfinished (Settle's Drop): the daemon stops.
DropTask(r) ==
    /\ stopping
    /\ Settle(r, "None")
    /\ UNCHANGED <<runVars, caller, envVars>>

Stop ==
    /\ MayStop
    /\ ~stopping
    /\ stopping' = TRUE
    /\ UNCHANGED <<tableVars, runVars, dataVars, caller, source, inForce, retired>>

\* Mutant of Work: the first thing left to do is the last.
WorkOnce(w) ==
    /\ LET do == Head(w) IN
       /\ state' = IF do.op = "finish" /\ state[do.run].end = "Open"
                   THEN [state EXCEPT ![do.run] =
                             [key |-> @.key, end |-> do.end, to |-> do.to]]
                   ELSE state
       /\ job' = IF do.op = "launch" THEN [job EXCEPT ![do.run].task = "live"] ELSE job
       /\ thread' = IF do.op = "launch"
                    THEN [thread EXCEPT ![do.run].pc = "spawned"] ELSE thread
    /\ todo' = todo \ {w}
    /\ UNCHANGED <<slots, made, waits, stamp, dataVars, caller, envVars>>

\* What is done after the lock is let go of. State::finish: the first word
\* about a run stands. Launching spawns its task and its thread.
Work(w) ==
    /\ LET do == Head(w) IN
       \/ /\ do.op = "finish"
          /\ state' = IF state[do.run].end = "Open"
                      THEN [state EXCEPT ![do.run] =
                                [key |-> @.key, end |-> do.end, to |-> do.to]]
                      ELSE state
          /\ UNCHANGED <<job, thread>>
       \/ /\ do.op = "launch"
          /\ job' = [job EXCEPT ![do.run].task = "live"]
          /\ thread' = [thread EXCEPT ![do.run].pc = "spawned"]
          /\ UNCHANGED state
    /\ todo' = (todo \ {w}) \cup (IF Len(w) = 1 THEN {} ELSE {Tail(w)})
    /\ UNCHANGED <<slots, made, waits, stamp, dataVars, caller, envVars>>

-----------------------------------------------------------------------------
(* Who asks, off a run's thread (Run::outcome), and the world.              *)

\* What a caller must be given to have what it asked for: a run that stamped
\* the inputs no earlier than this.
NeedOf(want, k) ==
    IF want \in {"Changed", "Fresh", "Forced"} THEN version[k] ELSE NoStamp

\* A request holds the registry it took when it began: in force, or older.
Ask(c, e, want, k) ==
    /\ caller[c].pc = "idle"
    /\ \E got \in 0..MaxRun :
        /\ Start(want, e, k, got)
        /\ caller' = IF got = NoRun THEN caller
                     ELSE [caller EXCEPT ![c] =
                            [pc |-> "waiting", on |-> got,
                             need |-> NeedOf(want, k), got |-> "None"]]
    /\ UNCHANGED <<runVars, dataVars, envVars>>

CallerFollows(c) ==
    /\ caller[c].pc = "waiting"
    /\ state[caller[c].on].end = "Moved"
    /\ caller' = [caller EXCEPT ![c].on = state[caller[c].on].to]
    /\ UNCHANGED <<tableVars, runVars, dataVars, envVars>>

Answered(c) ==
    /\ caller[c].pc = "waiting"
    /\ state[caller[c].on].end \in Outcome
    /\ caller' = [caller EXCEPT ![c] =
                    [@ EXCEPT !.pc = "answered", !.got = state[caller[c].on].end]]
    /\ UNCHANGED <<tableVars, runVars, dataVars, envVars>>

\* Asking without waiting: the scheduler's polls and file events
\* (Scheduler::execute_source), a read with no time to wait.
Fire(e, want, k) ==
    /\ \E got \in 0..MaxRun : Start(want, e, k, got)
    /\ UNCHANGED <<runVars, dataVars, caller, envVars>>

\* A deadline, a connection gone: the run goes on without its caller.
GivesUp(c) ==
    /\ caller[c].pc = "waiting"
    /\ caller' = [caller EXCEPT ![c] = Idle]
    /\ UNCHANGED <<tableVars, runVars, dataVars, envVars>>

\* An answered caller is done with the run and may ask again.
Moves(c) ==
    /\ caller[c].pc = "answered"
    /\ caller' = [caller EXCEPT ![c] = Idle]
    /\ UNCHANGED <<tableVars, runVars, dataVars, envVars>>

\* An input of the instance changes.
Change(k) ==
    /\ version[k] < MaxVersion
    /\ version' = [version EXCEPT ![k] = @ + 1]
    /\ UNCHANGED <<tableVars, runVars, record, schedule, failures, caller, envVars>>

\* The failback's backoff has passed.
Expire(k) ==
    /\ Held(k)
    /\ failures' = [failures EXCEPT ![k].held = FALSE]
    /\ UNCHANGED <<tableVars, runVars, version, record, schedule, caller, envVars>>

\* The instance decayed: its record is evicted (Cache::remove_source).
Forget(k) ==
    /\ record[k] # NoRun
    /\ record' = [record EXCEPT ![k] = NoRun]
    /\ schedule' = [schedule EXCEPT ![k] = NoSource]
    /\ UNCHANGED <<tableVars, runVars, version, failures, caller, envVars>>

-----------------------------------------------------------------------------

RunStep(r) ==
    \/ Begin(r)
    \/ \E k \in Key : Call(r, k)
    \/ ThreadFollows(r)
    \/ ThreadWakes(r)
    \/ Ended(r)
    \/ ReturnsLate(r)
    \/ Timeout(r)
    \/ DropTask(r)

CallerStep(c) ==
    \/ \E e \in 0..inForce, want \in Asks, k \in Key : Ask(c, e, want, k)
    \/ CallerFollows(c)
    \/ Answered(c)
    \/ GivesUp(c)
    \/ Moves(c)

WorldStep ==
    \/ \E e \in 0..inForce, want \in Asks, k \in Key : Fire(e, want, k)
    \/ \E k \in Key : Change(k) \/ Expire(k) \/ Forget(k)
    \/ Stop

Next ==
    \/ \E r \in RunId : RunStep(r)
    \/ \E w \in todo : Work(w)
    \/ \E c \in Caller : CallerStep(c)
    \/ WorldStep

Spec == Init /\ [][Next]_vars

\* What is certain to happen: a launched task's timeout fires (tokio's timer),
\* what an actor has left to do after the lock it does, and a waiter that is
\* notified wakes.  A Source need not return, and nobody need ask.
WorkFor(r) == \E w \in todo : Head(w).run = r /\ Work(w)

Fairness ==
    /\ \A r \in RunId : WF_vars(WorkFor(r)) /\ WF_vars(Ended(r) \/ Timeout(r))
    /\ \A r \in RunId : WF_vars(ThreadFollows(r) \/ ThreadWakes(r))
    /\ \A c \in Caller : WF_vars(CallerFollows(c) \/ Answered(c))

FairSpec == Spec /\ Fairness

-----------------------------------------------------------------------------
(* Properties. *)

TypeOK ==
    /\ slots \in [Key -> Slot]
    /\ made \in 0..MaxRun
    /\ state \in [RunId -> State]
    /\ job \in [RunId -> Job]
    /\ todo \in SUBSET Effects
    /\ waits \in [RunId -> Key \cup {NoKey}]
    /\ thread \in [RunId -> Thread]
    /\ stamp \in [RunId -> Version \cup {NoStamp}]
    /\ version \in [Key -> Version]
    /\ record \in [Key -> RunId \cup {NoRun}]
    /\ schedule \in [Key -> Schedule \cup {NoSource}]
    /\ failures \in [Key -> Failures]
    /\ caller \in [Caller -> Request]
    /\ source \in [Epoch -> [Key -> Schedule \cup {NoSource}]]
    /\ inForce \in Epoch
    /\ retired \in [Key -> Epoch]
    /\ stopping \in BOOLEAN

\* Someone is to say how run r ends, or has said it: it waits its turn in a slot,
\* its task is still to settle it, or an actor has it left to do.
Accounted(r) ==
    \/ state[r].end # "Open"
    \/ \E k \in Key : slots[k].queued = r
    \/ job[r].task = "live"
    \/ \E w \in todo : \E i \in 1..Len(w) : w[i].run = r

\* No run is lost: whoever holds a run will be told how it ended, whichever
\* way it left its slot (settled, replaced in flight, dropped by a reload or by
\* the daemon's stop).
NoRunLost == \A r \in 1..made : Accounted(r)

\* A caller that needed the inputs as they were when it asked (a read that
\* found them changed, a file event, a refresh) and was told its run was
\* stored was given a run that stamped them no earlier, whatever replaced the
\* run it was first handed.
AnswersSeeTheAsk ==
    \A c \in Caller :
        caller[c].got = "Stored" => stamp[caller[c].on] >= caller[c].need

\* A record is never replaced by one whose run looked at the inputs earlier:
\* a run left behind (replaced, cut off at its timeout) writes nothing.
RecordsGoForward ==
    [][\A k \in Key :
        (record[k] # NoRun /\ record'[k] # NoRun) =>
            stamp[record[k]] <= stamp[record'[k]]]_vars

\* What the table keeps true of itself. A slot's runs are made, and its own;
SlotsOwnTheirRuns ==
    \A k \in Key : \A r \in {slots[k].running, slots[k].queued} :
        r # NoRun => r <= made /\ state[r].key = k

\* what is queued is queued behind another run, ...
QueuedBehindAnother ==
    \A k \in Key : slots[k].queued # NoRun =>
        slots[k].running \notin {NoRun, slots[k].queued}

\* ... has not begun, ...
QueuedHasNotBegun ==
    \A k \in Key : slots[k].queued # NoRun => thread[slots[k].queued].pc = "none"

\* ... nor is it about to;
LaunchedIsNotQueued ==
    \A w \in todo : \A i \in 1..Len(w) : w[i].op = "launch" =>
        w[i].run <= made /\ \A k \in Key : slots[k].queued # w[i].run

\* only runs that were made do anything, ...
OnlyMadeRuns ==
    \A r \in RunId : IF r <= made THEN state[r].key \in Key
                     ELSE thread[r].pc = "none" /\ job[r].task = "none"

\* ... and a run that has not begun waits on nothing.
WaitsAfterBeginning == \A r \in RunId : thread[r].pc = "none" => waits[r] = NoKey

TableSound ==
    /\ SlotsOwnTheirRuns
    /\ QueuedBehindAnother
    /\ QueuedHasNotBegun
    /\ LaunchedIsNotQueued
    /\ OnlyMadeRuns
    /\ WaitsAfterBeginning

\* A run overtaken by a reload that rescheduled its Source has the run that
\* replaces it queued behind it until it settles: what settle expects.
OvertakenHasNext ==
    \A k \in Key : slots[k].overtaken = "Again" => slots[k].queued # NoRun

\* Whoever is told to wait, or to wait elsewhere, is told on which run.
WaitersOnRuns ==
    /\ \A r \in RunId : thread[r].pc = "waiting" => thread[r].on # NoRun
    /\ \A c \in Caller : caller[c].pc # "idle" => caller[c].on # NoRun
MovedToRuns ==
    /\ \A r \in RunId : state[r].end = "Moved" => state[r].to # NoRun
    /\ \A w \in todo : \A i \in 1..Len(w) : w[i].end = "Moved" => w[i].to # NoRun
WaitersPointed == WaitersOnRuns /\ MovedToRuns

\* The runs in flight of a set of instances all wait on one another.
Ring(sl, w, S) == S # {} /\ \A k \in S : Hop(sl, w, k) \in S

\* No runs in flight wait on one another in a ring, whatever is replaced,
\* re-queued or cut off around them: each would be held to its timeout.
NoRing == \A S \in SUBSET Key : ~Ring(slots, waits, S)

\* The same said of the threads themselves: no ring of runs each blocked on
\* the next one's state.
Blocked(r) == thread[r].pc = "waiting" /\ state[thread[r].on].end = "Open"
NoDeadlock ==
    \A R \in SUBSET {r \in 1..made : Blocked(r) /\ \E k \in Key : slots[k].running = r} :
        R # {} => \E r \in R : thread[r].on \notin R

\* Nothing the failback holds back begins, unless it was asked for by force:
\* neither a new run, nor a queued one when its turn comes, nor a replacement.
FailbackHolds ==
    [][\A k \in Key :
        LET begun == slots'[k].running IN
        (begun \notin {NoRun, slots[k].running} /\ failures'[k].held) =>
            job'[begun].forced]_vars

\* Every caller that waits for a run is told how it ended (or stops waiting).
CallersAnswered ==
    \A c \in Caller : (caller[c].pc = "waiting") ~> (caller[c].pc # "waiting")

\* A run's thread that waits on another instance's run does not wait for ever.
ThreadsReleased ==
    \A r \in RunId : (thread[r].pc = "waiting") ~> (thread[r].pc # "waiting")

=============================================================================
