------------------------------- MODULE Reload -------------------------------
(***************************************************************************)
(* A reload (Scheduler::reload, src/src/scheduler/mod.rs) taking one       *)
(* registry over from another, beside the run table of module Runs.        *)
(*                                                                         *)
(* The scheduler's loop is one task, so a reload's steps come in order and *)
(* no poll, demand or eviction falls between them; requests, run threads   *)
(* and settling runs do.  Requests take the registry in force and keep it, *)
(* so both before and after Replace some ask through the old one.          *)
(***************************************************************************)
EXTENDS Runs

VARIABLES
    pc,       \* how far the reload has come
    change,   \* [Key -> Change]: what it does to each Source
    left,     \* the instances this part of it has still to come to
    tracked,  \* the instances with a lifecycle entry
    restamps  \* the instance in flight whose record is to be restamped next

reloadVars == <<pc, change, left, tracked, restamps>>
allVars    == <<vars, reloadVars>>

\* Its body changed, or it is gone; when it runs changed, or how it is held
\* back; it is new; or nothing.
Changes == {"same", "changed", "removed", "rescheduled", "failback", "added"}

next == inForce + 1

Affected  == {k \in Key : change[k] \in {"changed", "removed"}}
Retunes   == {k \in Key : change[k] \in {"rescheduled", "failback"}}

\* The Source's schedule in the next registry.
NextSchedule(k, how) ==
    CASE how \in {"same", "changed", "failback"} -> source[inForce][k]
      [] how = "removed" -> NoSource
      [] how \in {"rescheduled", "added"} -> next + 1

Possible(k) ==
    IF HasSource(inForce, k) THEN Changes \ {"added"} ELSE {"same", "added"}

ReloadInit ==
    /\ pc = "serving"
    /\ change = [k \in Key |-> "same"]
    /\ left = {}
    /\ tracked = {}
    /\ restamps = NoKey

-----------------------------------------------------------------------------
(* The reload's steps, in order. *)

\* The next registry is built and its changes are planned.
Plan ==
    /\ pc = "serving"
    /\ inForce < MaxEpoch
    /\ \E how \in [Key -> Changes] :
        /\ \A k \in Key : how[k] \in Possible(k)
        /\ \E k \in Key : how[k] # "same"
        /\ change' = how
        /\ source' = [source EXCEPT ![next] = [k \in Key |-> NextSchedule(k, how[k])]]
    /\ pc' = "retire"
    /\ UNCHANGED <<tableVars, runVars, dataVars, caller, inForce, retired,
                   stopping, left, tracked, restamps>>

\* ProviderRegistry::retire: from here a run of an older registry writes nothing.
Retire ==
    /\ pc = "retire"
    /\ retired' = [k \in Key |-> IF k \in Affected THEN next ELSE retired[k]]
    /\ pc' = "failures"
    /\ UNCHANGED <<tableVars, runVars, dataVars, caller, source, inForce,
                   stopping, change, left, tracked, restamps>>

\* Mutant of Forgives: only a changed failback starts afresh.
ForgivesRetuned(k) == change[k] = "failback" /\ k \in tracked

\* Whose failures are forgotten.
Forgives(k) == k \in Affected \/ (change[k] = "failback" /\ k \in tracked)

ClearFailures ==
    /\ pc = "failures"
    /\ failures' = [k \in Key |->
            IF Forgives(k) THEN NoFailures ELSE failures[k]]
    /\ pc' = "inflight"
    /\ UNCHANGED <<tableVars, runVars, version, record, schedule, caller, envVars,
                   change, left, tracked, restamps>>

\* Runs::in_flight, as the table is now.
InFlight ==
    /\ pc = "inflight"
    /\ left' = {k \in Key : Running(k)}
    /\ pc' = "supersede"
    /\ UNCHANGED <<vars, change, tracked, restamps>>

Gone(k) == k \in Affected \/ ~HasSource(next, k)

\* Mutant of RunsAgain: marked, and nothing queued.
MarkedAgain(s, new) == [s EXCEPT !.overtaken = "Again", !.goneAt = 0]

\* Overtaken by a reschedule: it runs again, under the next registry.
RunsAgain(s, new) ==
    [WithQueued(s, next, FALSE, new) EXCEPT !.overtaken = "Again", !.goneAt = 0]

\* Runs::supersede, under the table's lock; nothing if the run is over by now.
Supersede(k) ==
    /\ IF ~Running(k) THEN UNCHANGED tableVars
       ELSE IF Gone(k)
       THEN /\ slots' = [slots EXCEPT ![k].overtaken = "Gone", ![k].goneAt = next]
            /\ UNCHANGED <<made, state, job, todo>>
       ELSE /\ Make(QueuedOrNew(slots[k]), k)
            /\ slots' = [slots EXCEPT ![k] = RunsAgain(@, QueuedOrNew(@))]
            /\ UNCHANGED <<job, todo>>
    /\ UNCHANGED <<runVars, dataVars, caller, envVars>>

Overtake ==
    /\ pc = "supersede"
    /\ restamps = NoKey
    /\ \E k \in left :
        /\ left' = left \ {k}
        /\ IF Gone(k) \/ k \in Retunes
           THEN Supersede(k)
           ELSE UNCHANGED vars
        /\ restamps' = IF ~Gone(k) /\ k \in Retunes THEN k ELSE NoKey
    /\ UNCHANGED <<pc, change, tracked>>

\* Cache::restamp_schedule: the record, if there is one, under the schedule
\* of the next registry.
Restamp(k) ==
    /\ schedule' = IF record[k] = NoRun THEN schedule
                   ELSE [schedule EXCEPT ![k] = source[next][k]]
    /\ UNCHANGED <<tableVars, runVars, version, record, failures, caller, envVars>>

RestampOvertaken ==
    /\ restamps # NoKey
    /\ Restamp(restamps)
    /\ restamps' = NoKey
    /\ UNCHANGED <<pc, change, left, tracked>>

Overtaken ==
    /\ pc = "supersede"
    /\ left = {}
    /\ restamps = NoKey
    /\ left' = {k \in Key : Gone(k) /\ (k \in tracked \/ k \in Affected)}
    /\ pc' = "evict"
    /\ UNCHANGED <<vars, change, tracked, restamps>>

\* A tracked instance whose Source is gone or changed leaves the lifecycle, and
\* the records of every instance of such a Source go.
Evict ==
    /\ pc = "evict"
    /\ \E k \in left :
        /\ left' = left \ {k}
        /\ tracked' = tracked \ {k}
        /\ record' = [record EXCEPT ![k] = NoRun]
        /\ schedule' = [schedule EXCEPT ![k] = NoSource]
    /\ UNCHANGED <<tableVars, runVars, version, failures, caller, envVars, pc,
                   change, restamps>>

Evicted ==
    /\ pc = "evict"
    /\ left = {}
    /\ left' = Retunes \cap tracked
    /\ pc' = "retune"
    /\ UNCHANGED <<vars, change, tracked, restamps>>

Retune ==
    /\ pc = "retune"
    /\ \E k \in left :
        /\ left' = left \ {k}
        /\ Restamp(k)
    /\ UNCHANGED <<pc, change, tracked, restamps>>

Retuned ==
    /\ pc = "retune"
    /\ left = {}
    /\ pc' = "replace"
    /\ UNCHANGED <<vars, change, left, tracked, restamps>>

\* RegistryHandle::replace: what requests take from here on.
Replace ==
    /\ pc = "replace"
    /\ inForce' = next
    /\ pc' = "serving"
    /\ change' = [k \in Key |-> "same"]
    /\ UNCHANGED <<tableVars, runVars, dataVars, caller, source, retired,
                   stopping, left, tracked, restamps>>

ReloadStep ==
    \/ Plan \/ Retire \/ ClearFailures \/ InFlight \/ Overtake
    \/ RestampOvertaken \/ Overtaken \/ Evict \/ Evicted \/ Retune \/ Retuned
    \/ Replace

-----------------------------------------------------------------------------
(* The rest of the scheduler's loop, which waits for the reload. *)

\* A demand reaches the scheduler: the instance has a lifecycle entry.
Track(k) ==
    /\ pc = "serving"
    /\ HasSource(inForce, k)
    /\ tracked' = tracked \cup {k}
    /\ UNCHANGED <<vars, pc, change, left, restamps>>

\* A tracked instance decayed.
Decay(k) ==
    /\ pc = "serving"
    /\ k \in tracked
    /\ tracked' = tracked \ {k}
    /\ \/ Forget(k)
       \/ record[k] = NoRun /\ UNCHANGED vars
    /\ UNCHANGED <<pc, change, left, restamps>>

AnyRunStep ==
    \/ \E r \in RunId : RunStep(r)
    \/ \E w \in todo : Work(w)
    \/ \E c \in Caller : CallerStep(c)
    \/ \E e \in 0..inForce, want \in Asks, k \in Key : Fire(e, want, k)
    \/ \E k \in Key : Change(k) \/ Expire(k)
    \/ Stop

ReloadNext ==
    \/ ReloadStep
    \/ \E k \in Key : Track(k) \/ Decay(k)
    \/ AnyRunStep /\ UNCHANGED reloadVars

ReloadSpec == Init /\ ReloadInit /\ [][ReloadNext]_allVars

ReloadFairSpec == ReloadSpec /\ Fairness

-----------------------------------------------------------------------------
(* Properties. *)

\* Once a reload has evicted what it retired, no record of a retired Source
\* comes back: a run that began under an older registry, wherever it was
\* (executing, queued, about to settle), has stored nothing.
NothingRetiredStays ==
    pc \in {"retune", "replace", "serving"} =>
        \A k \in Key : record[k] # NoRun => job[record[k]].epoch >= retired[k]

\* The same said of what was executed: no record is the work of a body that a
\* reload has since taken out of force.
NoRetiredBodyStays ==
    pc \in {"retune", "replace", "serving"} =>
        \A k \in Key : record[k] # NoRun => job[record[k]].body >= retired[k]

\* A Source whose body a reload replaced is not held back by failures of the
\* old body: none is counted after the reload has cleared them.
NoInheritedFailback ==
    pc \notin {"retire", "failures"} =>
        \A k \in Key : failures[k].count > 0 => failures[k].by >= retired[k]

=============================================================================
