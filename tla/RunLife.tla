------------------------------- MODULE RunLife -------------------------------
(***************************************************************************)
(* What the proofs about the run table (module Runs) say of it: the shapes *)
(* that its steps have, whoever takes them, and what stays true of a run   *)
(* from when it is made to when its last waiter is told.                   *)
(*                                                                         *)
(* A shape says what a step does to the table and to what hangs on it, and *)
(* not why.  The steps of a reload (module Reload) have these shapes too,  *)
(* so what is proved from them holds beside a reload as well.              *)
(***************************************************************************)
EXTENDS Runs

-----------------------------------------------------------------------------
(* The shapes of a step: what it does to the table and to the records.       *)

\* The table is left alone, and at most one record is evicted.
Leaves ==
    /\ UNCHANGED tableVars
    /\ \/ UNCHANGED record
       \/ \E k \in Key : record[k] # NoRun /\ record' = [record EXCEPT ![k] = NoRun]

\* Run got is put in flight and is to be launched; the run in flight, if there
\* was one, is told to whom its waiters go.
Hands(k, got) ==
    /\ got \in RunId /\ got = QueuedOrNew(slots[k]) /\ Make(got, k)
    /\ slots' = [slots EXCEPT ![k] = InFlightOnly(got)]
    /\ \A r \in RunId : r # got => job'[r] = job[r]
    /\ todo' = todo \cup {IF Running(k) THEN Handover(slots[k].running, got)
                                        ELSE <<Launch(got)>>}
    /\ UNCHANGED record

\* Run got is queued behind the one in flight, now or already.
Queues(k, got) ==
    /\ Running(k)
    /\ got \in RunId /\ got = QueuedOrNew(slots[k]) /\ Make(got, k)
    /\ \A j \in Key \ {k} : slots'[j] = slots[j]
    /\ slots'[k].running = slots[k].running
    /\ slots'[k].queued = got
    /\ UNCHANGED <<job, todo, record>>

\* A slot is marked, and keeps its runs.
Marks ==
    /\ \A j \in Key : slots'[j].running = slots[j].running /\ slots'[j].queued = slots[j].queued
    /\ UNCHANGED <<made, state, job, todo, record>>

\* Run r has ended; it had been replaced in flight, ...
SettlesBehind(r) ==
    /\ slots[state[r].key].running # r
    /\ job' = [job EXCEPT ![r].task = "settled"]
    /\ todo' = todo \cup {<<Finish(r, "Dropped", NoRun)>>}
    /\ UNCHANGED <<slots, made, state, record>>

\* ... or it was the run in flight: the one queued takes its place, or goes.
SettlesAhead(r, end, to) ==
    LET k == state[r].key
        s == slots[k]
    IN
    /\ s.running = r
    /\ end \in End \ {"Open"}
    /\ to = IF end = "Moved" THEN s.queued ELSE NoRun
    /\ end = "Moved" => s.queued # NoRun
    /\ \/ /\ s.queued # NoRun
          /\ slots' = [slots EXCEPT ![k] = InFlightOnly(s.queued)]
          /\ todo' = todo \cup {<<Finish(r, end, to), Launch(s.queued)>>}
       \/ /\ slots' = [slots EXCEPT ![k] = NoSlot]
          /\ todo' = todo \cup {Farewell(s, r, end, to)}
    /\ \A q \in RunId \ {r, s.queued} : job'[q] = job[q]
    /\ job'[r].task = "settled" /\ job'[r].epoch = job[r].epoch
    /\ record' = IF end = "Stored" THEN [record EXCEPT ![k] = r] ELSE record
    /\ end = "Stored" => /\ thread[r].pc = "executing" /\ thread'[r].pc = "done"
                         /\ job[r].epoch >= retired[k]
    /\ UNCHANGED <<made, state>>

Settles(r) ==
    /\ r \in RunId
    /\ job[r].task = "live"
    /\ SettlesBehind(r) \/ \E end \in End, to \in RunId \cup {NoRun} : SettlesAhead(r, end, to)

\* The first thing an actor has left to do is done.
Works(w) == w \in todo /\ Work(w)

TableStep ==
    \/ Leaves
    \/ \E k \in Key, got \in RunId : Hands(k, got) \/ Queues(k, got)
    \/ Marks
    \/ \E r \in RunId : Settles(r)
    \/ \E w \in todo : Works(w)

-----------------------------------------------------------------------------
(* The shapes of a step: what it does to a run's thread and to a caller.     *)

Launches(r) == \E w \in todo : Works(w) /\ Head(w).op = "launch" /\ Head(w).run = r

\* The thread of run r stays where it is, or goes the way threads go: it is
\* spawned, stamps the inputs as it begins, executes and waits, and is done.
ThreadStep(r) ==
    \/ thread'[r].pc = thread[r].pc /\ stamp'[r] = stamp[r]
    \/ /\ thread[r].pc = "spawned" /\ thread'[r].pc = "executing"
       /\ stamp'[r] = version[state[r].key]
    \/ /\ thread[r].pc \in {"executing", "waiting"}
       /\ thread'[r].pc \in {"executing", "waiting", "done"}
       /\ stamp'[r] = stamp[r]
    \/ Launches(r) /\ thread'[r].pc = "spawned" /\ stamp'[r] = stamp[r]

\* What a thread that waits waits for: as before, the run the one it waited
\* for was replaced by, or the one it was handed by its call of k.
WaitStep(r) ==
    thread'[r].pc = "waiting" =>
        \/ thread[r].pc = "waiting" /\ thread'[r].on = thread[r].on /\ waits'[r] = waits[r]
        \/ /\ thread[r].pc = "waiting" /\ waits'[r] = waits[r]
           /\ state[thread[r].on].end = "Moved"
           /\ thread'[r].on = state[thread[r].on].to
        \/ \E k \in Key : /\ waits'[r] = k
                          /\ thread'[r].on \in {slots'[k].running, slots'[k].queued} \ {NoRun}

\* A caller stops waiting, is answered by the run it waits on, follows it to
\* the one it was replaced by, or asks for a run of k and is handed the one in
\* flight, or the one queued, which sees the inputs it needs.
AskStep(c) ==
    \E k \in Key :
        /\ caller'[c].pc = "waiting" /\ caller'[c].got = "None"
        /\ caller'[c].on \in {slots'[k].running, slots'[k].queued} \ {NoRun}
        /\ \/ caller'[c].need = NoStamp
           \/ /\ caller'[c].need = version[k]
              /\ stamp[caller'[c].on] \in {NoStamp, version[k]}

CallersStep(c) ==
    \/ caller'[c] = caller[c]
    \/ caller'[c] = Idle
    \/ /\ caller[c].pc = "waiting" /\ state[caller[c].on].end \in Outcome
       /\ caller'[c] = [caller[c] EXCEPT !.pc = "answered", !.got = state[caller[c].on].end]
    \/ /\ caller[c].pc = "waiting" /\ state[caller[c].on].end = "Moved"
       /\ caller'[c] = [caller[c] EXCEPT !.on = state[caller[c].on].to]
    \/ AskStep(c)

Shape ==
    /\ TableStep
    /\ \A r \in RunId : ThreadStep(r) /\ WaitStep(r)
    /\ \A c \in Caller : CallersStep(c)
    /\ \A k \in Key : version'[k] >= version[k]

-----------------------------------------------------------------------------
(* What stays true of a run.                                                 *)

\* Nobody is told that a run goes on: what is said of a made run is its end.
FinishSpeaks ==
    \A w \in todo : \A i \in 1..Len(w) :
        w[i].run <= made /\ (w[i].op = "finish" => w[i].end # "Open")

\* A slot's runs are the last made of their instance, in the order they begin.
SlotIsLatest ==
    \A k \in Key : slots[k].running # NoRun =>
        /\ slots[k].queued # NoRun => slots[k].running < slots[k].queued
        /\ \A q \in 1..made : state[q].key = k =>
                q <= slots[k].running \/ q = slots[k].queued

\* Waiters are sent to a run of the same instance, made after the one they had.
LeadsOn(r, to) == to # NoRun /\ r < to /\ to <= made /\ state[to].key = state[r].key
MovedOn ==
    /\ \A r \in RunId : state[r].end = "Moved" => LeadsOn(r, state[r].to)
    /\ \A w \in todo : \A i \in 1..Len(w) : w[i].end = "Moved" => LeadsOn(w[i].run, w[i].to)

\* A run is launched once, and only one that has not begun.
LaunchedOnce ==
    /\ \A w \in todo : \A i \in 1..Len(w) :
        w[i].op = "launch" => thread[w[i].run].pc = "none"
    /\ \A w, v \in todo : \A i \in 1..Len(w), j \in 1..Len(v) :
        (w[i].op = "launch" /\ v[j].op = "launch" /\ w[i].run = v[j].run) =>
            w = v /\ i = j

\* A run has stamped its inputs once it executes, and none looks at inputs
\* that are not there yet.
StampsKept ==
    \A r \in RunId :
        /\ thread[r].pc = "none" => stamp[r] = NoStamp
        /\ thread[r].pc \in {"executing", "waiting", "done"} => stamp[r] # NoStamp
        /\ stamp[r] # NoStamp => stamp[r] <= version[state[r].key]

\* A run that is said to be stored has stamped its inputs.
StoredStamped ==
    /\ \A r \in RunId : state[r].end = "Stored" => stamp[r] # NoStamp
    /\ \A w \in todo : \A i \in 1..Len(w) : w[i].end = "Stored" => stamp[w[i].run] # NoStamp

\* A run of the instance made after r looked at the inputs no earlier than at n.
NoneLooksBefore(r, n) ==
    \A q \in r..made : state[q].key = state[r].key => stamp[q] = NoStamp \/ stamp[q] >= n

\* A record is of a run that is done and has left its slot, and the runs made
\* after it look at the inputs no earlier.
RecordBehind ==
    \A k \in Key : record[k] # NoRun =>
        /\ record[k] <= made /\ state[record[k]].key = k
        /\ thread[record[k]].pc = "done"
        /\ \A r \in {slots[k].running, slots[k].queued} : r # NoRun => record[k] < r
        /\ NoneLooksBefore(record[k], stamp[record[k]])

\* Whatever run a caller is sent to from the one it has, its inputs are stamped
\* no earlier than the caller needs.
NeedMet ==
    \A c \in Caller :
        /\ caller[c].pc # "answered" => caller[c].got = "None"
        /\ caller[c].pc # "idle" =>
            /\ caller[c].on <= made
            /\ caller[c].need <= version[state[caller[c].on].key]
            /\ NoneLooksBefore(caller[c].on, caller[c].need)
            /\ caller[c].got = "Stored" => stamp[caller[c].on] # NoStamp

\* A thread that waits, waits for a run of the instance that the table has it
\* waiting on.
WaitsOnKey ==
    \A r \in RunId : thread[r].pc = "waiting" =>
        thread[r].on <= made /\ waits[r] = state[thread[r].on].key

TableLife == FinishSpeaks /\ NoRunLost /\ SlotIsLatest /\ MovedOn
LookLife  == LaunchedOnce /\ StampsKept /\ StoredStamped
LifeInv   == TableLife /\ LookLife /\ RecordBehind /\ NeedMet /\ WaitsOnKey

ShapesOnly == [][Shape]_vars
=============================================================================
