----------------------------- MODULE Lifecycle -----------------------------
(***************************************************************************)
(* How an instance of a Source lives and leaves: the lifecycle entries     *)
(* (src/src/scheduler/lifecycle.rs) and the part of the scheduler's loop   *)
(* that keeps them (src/src/scheduler/mod.rs), beside the runs that write  *)
(* records and say what they called, which the loop does not wait for.     *)
(*                                                                         *)
(* An entry is Active for its window, then decays step by step, each step  *)
(* twice as long as the last and its polls twice as rare, and is evicted   *)
(* at the end of its last.  A demand (a read's, a file event's) makes it   *)
(* Active afresh.  It watches its files only while it is Active.  One that *)
(* an instance still here calls is not evicted: it does its last step      *)
(* again.                                                                  *)
(*                                                                         *)
(* Time is relative: an entry counts down to its next step and its next    *)
(* poll, and stops at 0, when it is due.  The loop's tick comes at any     *)
(* time.  Reloads, puts and memos are left to other modules; of module     *)
(* Runs only what the loop can see is kept: whether a run is in flight,    *)
(* and whether one is queued behind it.                                    *)
(***************************************************************************)
EXTENDS Naturals

CONSTANTS
    Key,      \* the Source instances
    Calls,    \* [Key -> SUBSET Key]: what a run of an instance may call
    Watches,  \* the instances whose Source watches files
    Poll,     \* [Key -> Nat]: the poll interval; 0 for a watch-only Source
    Count,    \* [Key -> Nat]: polls in the Active window
    Depth,    \* [Key -> 1..MaxDecay]: decay steps before eviction
    DefaultPoll, \* the interval a watch-only Source's window is measured in
    Reads     \* bound: the instances requests ask for; the others are only called

MaxDecay == 16

ASSUME LifecycleAssumption ==
    /\ Calls \in [Key -> SUBSET Key]
    /\ Watches \subseteq Key
    /\ Poll \in [Key -> Nat]
    /\ Count \in [Key -> Nat \ {0}]
    /\ Depth \in [Key -> 1..MaxDecay]
    /\ DefaultPoll \in Nat \ {0}
    /\ Reads \subseteq Key

\* What the proofs use of 1u32 << step.
ASSUME RatesAssumption ==
    /\ 2^0 = 1
    /\ \A n \in 0..(MaxDecay + 1) : 2^n \in Nat \ {0}
    /\ \A n \in 0..MaxDecay : 2^(n + 1) = 2 * 2^n

VARIABLES
    entry,    \* [Key -> Entry]: the lifecycle registry
    idle,     \* [Key -> Nat]: time since the instance was last demanded
    watched,  \* the instances whose files are watched
    settling, \* the instances whose files changed and have not gone quiet yet
    callees,  \* [Key -> SUBSET Key]: what the instance's last run called
    flying,   \* [Key -> 0..2]: no run; one in flight; and one queued behind it
    record,   \* the instances with a record stored
    asked,    \* the instances read, whose demand is on its way to the loop
    quiet     \* nobody reads any more, and no file changes

loopVars == <<entry, idle, watched, settling>>
runVars  == <<callees, flying, record>>
vars     == <<loopVars, runVars, asked, quiet>>

\* step: 0 while Active.  left: until its next step.  poll: until its next poll.
Entry == [state : {"Cold", "Active", "Decay"}, step : 0..MaxDecay,
          left : Nat, poll : Nat]
Cold  == [state |-> "Cold", step |-> 0, left |-> 0, poll |-> 0]

Tracked(k) == entry[k].state # "Cold"

\* The Active window.
Lifespan(k) == (IF Poll[k] = 0 THEN DefaultPoll ELSE Poll[k]) * Count[k]

Init ==
    /\ entry = [k \in Key |-> Cold]
    /\ idle = [k \in Key |-> 0]
    /\ watched = {}
    /\ settling = {}
    /\ callees = [k \in Key |-> {}]
    /\ flying = [k \in Key |-> 0]
    /\ record = {}
    /\ asked = {}
    /\ quiet = FALSE

-----------------------------------------------------------------------------
(* Runs, as the loop and the readers start them. *)

\* Mutant of Started: every ask in flight queues one more.
StartedMore(want, S, refused) ==
    [k \in Key |->
        IF k \notin S THEN flying[k]
        ELSE IF flying[k] > 0 THEN (IF want = "Fresh" THEN flying[k] + 1 ELSE flying[k])
        ELSE IF k \in refused \/ (want = "Cold" /\ k \in record) THEN 0
        ELSE 1]

\* Runs::start for each of S: a fresh run is queued behind one in flight, any
\* other joins it; the failback may refuse, and a Cold ask is content with a record.
Started(want, S, refused) ==
    [k \in Key |->
        IF k \notin S THEN flying[k]
        ELSE IF flying[k] > 0 THEN (IF want = "Fresh" THEN 2 ELSE flying[k])
        ELSE IF k \in refused \/ (want = "Cold" /\ k \in record) THEN 0
        ELSE 1]

Start(want, S) == \E refused \in SUBSET S : flying' = Started(want, S, refused)

\* A run in flight calls another instance, and starts its run if it must.
Call(k, j) ==
    /\ flying[k] > 0
    /\ j \in Calls[k]
    /\ \E want \in {"Cold", "Changed", "Any"} : Start(want, {j})
    /\ UNCHANGED <<loopVars, callees, record, asked, quiet>>

\* Its lines have run: what they called is what the instance calls.
RanCalling(k) ==
    /\ flying[k] > 0
    /\ \E called \in SUBSET Calls[k] : callees' = [callees EXCEPT ![k] = called]
    /\ UNCHANGED <<loopVars, flying, record, asked, quiet>>

\* It settles, stored or not, and the run queued behind it starts or is dropped.
RunEnds(k) ==
    /\ flying[k] > 0
    /\ record' \in {record, record \cup {k}}
    /\ flying' \in {[flying EXCEPT ![k] = 0], [flying EXCEPT ![k] = @ - 1]}
    /\ UNCHANGED <<loopVars, callees, asked, quiet>>

-----------------------------------------------------------------------------
(* Demands. *)

\* An entry made Active afresh; one that already is keeps its poll timer.
Renewed(k) ==
    [state |-> "Active", step |-> 0, left |-> Lifespan(k),
     poll |-> IF entry[k].state = "Active" THEN entry[k].poll ELSE Poll[k]]

\* Mutant of DemandAll: the window of an Active entry is left to run out.
DemandAllIdle(D) ==
    /\ entry' = [k \in Key |->
            IF k \in D /\ entry[k].state # "Active" THEN Renewed(k) ELSE entry[k]]
    /\ idle' = [k \in Key |-> IF k \in D THEN 0 ELSE idle[k]]

\* LifecycleRegistry::demand, for each of D.
DemandAll(D) ==
    /\ entry' = [k \in Key |-> IF k \in D THEN Renewed(k) ELSE entry[k]]
    /\ idle' = [k \in Key |-> IF k \in D THEN 0 ELSE idle[k]]

\* k and the instances it is known to call, and those theirs.
WithCallees(k) ==
    {j \in Key : \A T \in SUBSET Key :
        (k \in T /\ \A i \in T : callees[i] \subseteq T) => j \in T}

\* Mutant of WatchAll: only an entry made now is watched.
WatchAllNew(D) ==
    watched' = watched \cup {k \in D \cap Watches : entry[k].state = "Cold"}

\* Watched when the entry is made, and again when it is reinstated.
WatchAll(D) ==
    watched' = watched \cup {k \in D \cap Watches : entry[k].state # "Active"}

\* A read: it starts the run it needs, if any, and its demand follows it.
Read(k) ==
    /\ ~quiet
    /\ k \in Reads
    /\ \E want \in {"Cold", "Changed", "Any"} : Start(want, {k})
    /\ asked' = asked \cup {k}
    /\ UNCHANGED <<loopVars, callees, record, quiet>>

\* The loop takes a demand (QueryActivity): it is one for what k calls too, and
\* an instance that is new runs, to fill the cache.
Demand(k) ==
    /\ k \in asked
    /\ LET D == WithCallees(k) IN
       /\ DemandAll(D)
       /\ WatchAll(D)
       /\ Start("Cold", {j \in D : ~Tracked(j)})
    /\ asked' = asked \ {k}
    /\ UNCHANGED <<settling, callees, record, quiet>>

\* A file event of a watched instance: an Active one is demanded, and runs when
\* its files have gone quiet.
FileEvent(k) ==
    /\ ~quiet
    /\ k \in watched
    /\ IF entry[k].state = "Active"
       THEN DemandAll({k}) /\ settling' = settling \cup {k}
       ELSE UNCHANGED <<entry, idle, settling>>
    /\ UNCHANGED <<watched, runVars, asked, quiet>>

Settled(k) ==
    /\ k \in settling
    /\ settling' = settling \ {k}
    /\ Start("Fresh", {k})
    /\ UNCHANGED <<entry, idle, watched, callees, record, asked, quiet>>

-----------------------------------------------------------------------------
(* The tick. *)

Due(k)     == Tracked(k) /\ entry[k].left = 0
PollDue(k) == Tracked(k) /\ Poll[k] # 0 /\ entry[k].poll = 0

\* Those that come to the end of their last step, ...
Leaving == {k \in Key : Due(k) /\ entry[k].state = "Decay" /\ entry[k].step >= Depth[k]}

\* Mutant of StillCalled: a caller known once is a caller for good.
EverCalled(k, S) == \E c \in Key \ S : k \in callees[c]

\* ... of which those called by an instance that is here and outside S stay, ...
StillCalled(k, S) == \E c \in Key \ S : Tracked(c) /\ k \in callees[c]

\* Mutant of Evicted: nothing is held.
EvictedAnyway == Leaving

\* ... and, those gone, the others they call: the rest is evicted.
Evicted == UNION {S \in SUBSET Leaving : \A k \in S : ~StillCalled(k, S)}

\* A due entry's next step; from its last it is given that step again.
NextStep(k) ==
    IF entry[k].state = "Active" THEN 1
    ELSE IF entry[k].step < Depth[k] THEN entry[k].step + 1 ELSE entry[k].step

\* Time to the next poll, if it was due and fired.
PollLeft(k) == IF PollDue(k) THEN Poll[k] * 2^entry[k].step ELSE entry[k].poll

\* An entry that takes its next step: the step, and the polls' interval (measured
\* from the last poll), are twice as long as they were.  One that stays at its
\* last step is only given that step's time again.
Stepped(k) ==
    LET n == NextStep(k) IN
    [state |-> "Decay", step |-> n, left |-> Lifespan(k) * 2^n,
     poll  |-> IF n = entry[k].step THEN PollLeft(k)
               ELSE PollLeft(k) + Poll[k] * 2^entry[k].step]

\* Nothing but a poll is due.
Polled(k) == [state |-> entry[k].state, step |-> entry[k].step,
              left |-> entry[k].left, poll |-> PollLeft(k)]

\* An instance that begins to decay, or is evicted, watches nothing.
Unwatched == Evicted \cup {k \in Key : Due(k) /\ entry[k].state = "Active"}

Tick ==
    /\ entry' = [k \in Key |->
            IF k \in Evicted THEN Cold
            ELSE IF Due(k) THEN Stepped(k)
            ELSE Polled(k)]
    /\ Start("Any", {k \in Key : PollDue(k)})
    /\ watched' = watched \ Unwatched
    /\ record' = record \ Evicted
    /\ callees' = [k \in Key |-> IF k \in Evicted THEN {} ELSE callees[k]]
    /\ UNCHANGED <<idle, settling, asked, quiet>>

-----------------------------------------------------------------------------
(* Time, and the world. *)

\* The most an instance can live undemanded and uncalled: its window, and steps
\* that double from it.  Time since a demand is not counted beyond.
Lifetime(k) == Lifespan(k) * (2^(Depth[k] + 1) - 1)

Less(n) == IF n = 0 THEN 0 ELSE n - 1

\* A second on.
Aged(k) == [state |-> entry[k].state, step |-> entry[k].step,
            left |-> Less(entry[k].left), poll |-> Less(entry[k].poll)]

Pass ==
    /\ entry' = [k \in Key |-> Aged(k)]
    /\ idle' = [k \in Key |->
            IF Tracked(k) /\ idle[k] < Lifetime(k) THEN idle[k] + 1 ELSE idle[k]]
    /\ UNCHANGED <<watched, settling, runVars, asked, quiet>>

Quieten ==
    /\ quiet' = TRUE
    /\ UNCHANGED <<loopVars, runVars, asked>>

Next ==
    \/ \E k \in Key :
        \/ \E j \in Key : Call(k, j)
        \/ RanCalling(k)
        \/ RunEnds(k)
        \/ Read(k)
        \/ Demand(k)
        \/ FileEvent(k)
        \/ Settled(k)
    \/ Tick
    \/ Pass
    \/ Quieten

Spec == Init /\ [][Next]_vars

\* The loop ticks (its interval of a second), and time passes.  Nothing else is
\* needed for instances to leave: neither that runs end nor that demands arrive.
Fairness == WF_vars(Tick) /\ WF_vars(Pass)

FairSpec == Spec /\ Fairness

-----------------------------------------------------------------------------
(* Properties. *)

TypeOK ==
    /\ entry \in [Key -> Entry]
    /\ idle \in [Key -> Nat]
    /\ watched \in SUBSET Key
    /\ settling \in SUBSET Key
    /\ callees \in [Key -> SUBSET Key]
    /\ flying \in [Key -> 0..2]
    /\ record \in SUBSET Key
    /\ asked \in SUBSET Key
    /\ quiet \in BOOLEAN

\* An instance's files are watched while it is Active and at no other time,
\* though the watches are the loop's to drop and register and the state is the
\* registry's (lifecycle.rs:7-12, docs/architecture.md:306): an idle daemon holds
\* no watch, and no file event is missed by an Active instance.  It is what the
\* code is written to do; docs/canon/cache-lifecycle.md:70 still says that watches
\* stay to the eviction and reinstate: see the README.
WatchedWhileActive == watched = {k \in Watches : entry[k].state = "Active"}

\* An instance is not evicted from under one that calls it and stays, however
\* long the chain of calls that keeps it (LifecycleRegistry::tick_holding).
NoCalleeLeftBehind ==
    [][\A k, c \in Key :
        (Tracked(k) /\ ~Tracked(k)' /\ k \in callees[c]) => ~Tracked(c)']_vars

\* No instance leaves before it has gone undemanded for its window and all of
\* its decay, whatever was demanded, reinstated or ticked late around it.
NoEarlyEviction ==
    [][\A k \in Key : (Tracked(k) /\ ~Tracked(k)') => idle[k] >= Lifetime(k)]_vars

\* What the last rests on. An entry's step is one of its ladder; and the time it
\* has been idle and the time left of its step make up its window and its steps
\* so far, at least.
StepsInOrder ==
    \A k \in Key :
        /\ entry[k].state = "Active" => entry[k].step = 0
        /\ entry[k].state = "Decay" => entry[k].step \in 1..Depth[k]

OnTheLadder ==
    \A k \in Key : Tracked(k) =>
        \/ idle[k] >= Lifetime(k)
        \/ idle[k] + entry[k].left >= Lifespan(k) * (2^(entry[k].step + 1) - 1)

\* Some whose calls go round: time and again each is called by another of them
\* that is here.  That need not be at one time, as runs say anew whom they called.
CallsGoRound ==
    \E S \in SUBSET Key \ {{}} :
        \A k \in S : \E c \in S \ {k} : []<>(Tracked(c) /\ k \in callees[c])

\* Once nobody reads and no file changes, every instance leaves, which is what the
\* daemon's idle shutdown waits for, unless there are some whose calls go round:
\* nothing else keeps one, neither the calls of those that left nor runs that end
\* after their instance is gone.
AllLeave == (quiet ~> \A k \in Key : ~Tracked(k)) \/ CallsGoRound

\* A record is that of an instance with a lifecycle, once no run is under way and
\* no demand is on its way: none is left that nothing will evict.
NoOrphans ==
    \A k \in record :
        Tracked(k) \/ asked # {} \/ \E j \in Key : flying[j] > 0

=============================================================================
