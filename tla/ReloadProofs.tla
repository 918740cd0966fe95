---------------------------- MODULE ReloadProofs ----------------------------
(***************************************************************************)
(* Proofs about a reload beside the run table (module Reload): once it has *)
(* evicted what it retired, no record of a retired Source comes back; no   *)
(* failure of an old body holds back a new one; a run it overtook has the  *)
(* run that replaces it queued behind it; and what the table promises      *)
(* those who ask it holds through reloads.                                 *)
(*                                                                         *)
(* A step of a reload leaves the table alone, marks a slot or queues a run *)
(* behind the one in flight, so it has a shape of module RunLife.  What is *)
(* proved from the shapes carries over; what is left is to follow a        *)
(* record, and a count of failures, from the reload's Retire to where it   *)
(* is evicted or cleared.                                                  *)
(***************************************************************************)
EXTENDS Reload, RunLifeProofs, RunsFlight

ReloadTypeOK ==
    /\ pc \in {"serving", "retire", "failures", "inflight", "supersede", "evict",
               "retune", "replace"}
    /\ change \in [Key -> Changes]
    /\ left \in SUBSET Key
    /\ tracked \in SUBSET Key
    /\ restamps \in Key \cup {NoKey}
    /\ restamps # NoKey => pc = "supersede"
    /\ pc # "serving" => inForce < MaxEpoch

\* A record of a retired Source is one that the reload has still to evict.
NoRetiredRecord ==
    \A k \in Key : record[k] # NoRun =>
        \/ job[record[k]].epoch >= retired[k]
        \/ pc \in {"failures", "inflight", "supersede"} /\ k \in Affected
        \/ pc = "evict" /\ k \in left

\* A failure of a retired Source is one that the reload is about to forget.
NoRetiredFailure ==
    \A k \in Key : failures[k].count > 0 =>
        failures[k].by >= retired[k] \/ (pc = "failures" /\ k \in Affected)

ReloadInv ==
    /\ IInv
    /\ LifeInv
    /\ RingFree(slots, waits)
    /\ ReloadTypeOK
    /\ NoRetiredRecord
    /\ NoRetiredFailure

-----------------------------------------------------------------------------
(* The steps of the run table, seen from a reload. *)

\* The run table replaces no registry, and retires nothing.
LEMMA EnvStill ==
    ASSUME [Next]_vars
    PROVE  UNCHANGED <<source, inForce, retired>>
<1>1. CASE UNCHANGED vars
  BY <1>1 DEF vars, envVars
<1>2. ASSUME NEW r \in RunId, RunStep(r)
      PROVE  UNCHANGED envVars
  BY <1>2 DEF RunStep, Begin, Call, ThreadFollows, ThreadWakes, Ended, Returned,
     ReturnsLate, Timeout, DropTask
<1>3. ASSUME NEW w \in todo, Work(w)
      PROVE  UNCHANGED envVars
  BY <1>3 DEF Work
<1>4. ASSUME NEW c \in Caller, CallerStep(c)
      PROVE  UNCHANGED envVars
  BY <1>4 DEF CallerStep, Ask, CallerFollows, Answered, GivesUp, Moves
<1>5. CASE WorldStep
  BY <1>5 DEF WorldStep, Fire, Change, Expire, Forget, Stop, envVars
<1> QED BY <1>1, <1>2, <1>3, <1>4, <1>5 DEF Next, envVars

\* A run keeps the registry it was begun under.
LEMMA EpochStays ==
    ASSUME IInv, TableStep, NEW p \in RunId, p <= made,
           \A k \in Key : slots[k].queued # p
    PROVE  job'[p].epoch = job[p].epoch
<1>1. job \in [RunId -> Job]
  BY DEF IInv, TypeOK
<1>2. CASE UNCHANGED job
  BY <1>2
<1>3. ASSUME NEW k \in Key, NEW got \in RunId, Hands(k, got)
      PROVE  job'[p].epoch = job[p].epoch
  <2>1. got # p
    BY <1>3, HandedOut DEF Hands
  <2> QED BY <1>3, <2>1 DEF Hands
<1>4. ASSUME NEW r \in RunId, Settles(r)
      PROVE  job'[p].epoch = job[p].epoch
  <2>1. CASE SettlesBehind(r)
    BY <1>1, <2>1 DEF SettlesBehind, Job
  <2>2. ASSUME NEW end \in End, NEW to \in RunId \cup {NoRun}, SettlesAhead(r, end, to)
        PROVE  job'[p].epoch = job[p].epoch
    <3>1. state[r].key \in Key
      BY <1>4, BegunHasKey DEF Settles
    <3>2. p # slots[state[r].key].queued
      BY <3>1
    <3>3. /\ \A q \in RunId \ {r, slots[state[r].key].queued} : job'[q] = job[q]
          /\ job'[r].epoch = job[r].epoch
      BY <2>2 DEF SettlesAhead
    <3> QED BY <3>2, <3>3
  <2> QED BY <1>4, <2>1, <2>2 DEF Settles
<1>5. ASSUME NEW w \in todo, Works(w)
      PROVE  job'[p].epoch = job[p].epoch
  BY <1>1, <1>5 DEF Works, Work, Job
<1> QED BY <1>2, <1>3, <1>4, <1>5 DEF TableStep, Leaves, Marks, Queues, tableVars

\* A record is the one there was, or that of a run whose registry no reload has
\* retired it from.
LEMMA RecordEpochs ==
    ASSUME IInv, LifeInv, Shape, NEW k \in Key, record'[k] # NoRun
    PROVE  \/ /\ record'[k] = record[k]
              /\ job'[record'[k]].epoch = job[record'[k]].epoch
           \/ job'[record'[k]].epoch >= retired[k]
<1>1. /\ record \in [Key -> RunId \cup {NoRun}]
      /\ slots \in [Key -> Slot]
  BY DEF IInv, TypeOK
<1>2. CASE record'[k] = record[k]
  <2>1. PICK p \in RunId : p = record[k]
    BY <1>1, <1>2
  <2>2. /\ p <= made /\ state[p].key = k
        /\ slots[k].queued # NoRun => p < slots[k].queued
    BY <1>2, <2>1 DEF LifeInv, RecordBehind
  <2>3. \A j \in Key : slots[j].queued # p
    BY <1>1, <2>2 DEF IInv, TableSound, SlotsOwnTheirRuns, RunId, NoRun
  <2> QED BY <1>2, <2>1, <2>2, <2>3, EpochStays DEF Shape
<1>3. CASE record'[k] # record[k]
  <2>1. PICK p \in RunId : p = record'[k]
    BY <1>3, RecordsNext DEF Shape
  <2>2. /\ p = slots[k].running /\ p <= made /\ state[p].key = k
        /\ job[p].epoch >= retired[k]
    BY <1>3, <2>1, RecordsNext DEF Shape
  <2>3. \A j \in Key : slots[j].queued # p
    BY <1>1, <2>2 DEF IInv, TableSound, SlotsOwnTheirRuns, QueuedBehindAnother,
       RunId, NoRun
  <2> QED BY <2>1, <2>2, <2>3, EpochStays DEF Shape
<1> QED BY <1>2, <1>3

\* The failures counted are those there were, or the last is of a run whose
\* registry no reload has retired it from.
LEMMA FailuresNext ==
    ASSUME IInv, [Next]_vars, NEW k \in Key, failures'[k].count > 0
    PROVE  \/ failures[k].count > 0 /\ failures'[k].by = failures[k].by
           \/ failures'[k].by >= retired[k]
<1>1. failures \in [Key -> Failures] /\ retired \in [Key -> Epoch]
  BY DEF IInv, TypeOK
<1>2. CASE UNCHANGED failures
  BY <1>2
<1>3. ASSUME NEW r \in RunId, NEW res \in Result, Settle(r, res)
      PROVE  \/ failures[k].count > 0 /\ failures'[k].by = failures[k].by
             \/ failures'[k].by >= retired[k]
  <2>1. CASE SettleReplaced(r)
    BY <1>2, <2>1 DEF SettleReplaced
  <2>2. CASE SettleOwn(r, res)
    <3> DEFINE end == EndOf(slots[state[r].key], r, state[r].key, res)
    <3>1. PICK j \in Key, e \in Epoch : j = state[r].key /\ e = job[r].epoch
      BY <1>3, BegunHasKey DEF Settle, IInv, TypeOK, Job
    <3>2. failures' = CASE end = "Stored" ->
                            [failures EXCEPT ![j] = NoFailures]
                     [] end \in {"Failed", "Fault"} ->
                            [failures EXCEPT ![j] = FailedOnce(@, e)]
                     [] OTHER -> failures
      BY <2>2, <3>1 DEF SettleOwn, Recorded
    <3>3. CASE end = "Stored"
      <4>1. failures' = [failures EXCEPT ![j] = NoFailures]
        BY <3>2, <3>3
      <4> QED BY <1>1, <4>1 DEF NoFailures
    <3>4. CASE end \in {"Failed", "Fault"}
      <4>1. failures' = [failures EXCEPT ![j] = FailedOnce(failures[j], e)]
        BY <3>2, <3>4
      <4>2. ~(retired[j] > e)
        <5>1. end = RecordOutcome(e, j, res)
          <6>1. slots[j] \in Slot
            BY DEF IInv, TypeOK
          <6>2. slots[j].overtaken = "No" /\ res # "None"
            BY <3>1, <3>4, <6>1 DEF EndOf, Slot
          <6> QED BY <3>1, <6>2 DEF EndOf
        <5> QED BY <3>4, <5>1 DEF RecordOutcome
      <4>3. e >= retired[j]
        BY <1>1, <4>2 DEF Epoch
      <4>4. FailedOnce(failures[j], e).by = e
        BY DEF FailedOnce
      <4>5. CASE k = j
        BY <1>1, <4>1, <4>3, <4>4, <4>5
      <4>6. CASE k # j
        BY <1>1, <4>1, <4>6
      <4> QED BY <4>5, <4>6
    <3>5. CASE end \notin {"Stored", "Failed", "Fault"}
      BY <1>2, <3>2, <3>5
    <3> QED BY <3>3, <3>4, <3>5
  <2> QED BY <1>3, <2>1, <2>2 DEF Settle
<1>4. ASSUME NEW j \in Key, Expire(j)
      PROVE  failures[k].count > 0 /\ failures'[k].by = failures[k].by
  BY <1>1, <1>4 DEF Expire, Failures
<1>5. ASSUME NEW r \in RunId, RunStep(r)
      PROVE  UNCHANGED failures \/ \E res \in Result : Settle(r, res)
  BY <1>5 DEF RunStep, Begin, Call, ThreadFollows, ThreadWakes, Ended, ReturnsLate,
     Timeout, DropTask, dataVars, Result
<1>6. ASSUME NEW w \in todo, Work(w)
      PROVE  UNCHANGED failures
  BY <1>6 DEF Work, dataVars
<1>7. ASSUME NEW c \in Caller, CallerStep(c)
      PROVE  UNCHANGED failures
  BY <1>7 DEF CallerStep, Ask, CallerFollows, Answered, GivesUp, Moves, dataVars
<1>8. CASE WorldStep
  <2>1. UNCHANGED failures \/ \E j \in Key : Expire(j)
    BY <1>8 DEF WorldStep, Fire, Change, Forget, Stop, dataVars
  <2> QED BY <1>2, <1>4, <2>1
<1>9. CASE UNCHANGED vars
  BY <1>2, <1>9 DEF vars, dataVars
<1> QED BY <1>2, <1>3, <1>5, <1>6, <1>7, <1>8, <1>9 DEF Next

-----------------------------------------------------------------------------
(* The steps of a reload, seen from the run table. *)

\* The table, its threads and those who wait are left alone, and at most one
\* record is evicted.
Aside ==
    /\ UNCHANGED <<tableVars, runVars, version, caller>>
    /\ \/ UNCHANGED record
       \/ \E k \in Key : record' = [record EXCEPT ![k] = NoRun]

LEMMA AsideKeeps ==
    ASSUME IInv, TypeOK', Aside
    PROVE  IInv' /\ Shape
<1>1. UNCHANGED <<tableVars, runVars, version, caller>>
  BY DEF Aside
<1>2. IInv'
  <2>1. WaitersOnRuns'
    BY <1>1 DEF runVars, IInv, WaitersPointed, WaitersOnRuns
  <2> QED BY <1>1, <2>1, TableAlone DEF IInv
<1>3. Leaves
  <2>1. UNCHANGED record
        \/ \E k \in Key : record[k] # NoRun /\ record' = [record EXCEPT ![k] = NoRun]
    BY DEF Aside, IInv, TypeOK
  <2> QED BY <1>1, <2>1 DEF Leaves
<1>4. Shape
  BY <1>1, <1>3, ThreadsStill, CallersStill, InputsStill DEF Shape, TableStep
<1> QED BY <1>2, <1>4

\* The run in flight of k is overtaken: its slot is marked, and unless its
\* Source went, a run is queued behind it.
LEMMA SupersedeMarks ==
    ASSUME IInv, NEW k \in Key, Supersede(k), ~UNCHANGED tableVars
    PROVE  /\ slots[k].running # NoRun
           /\ \A j \in Key \ {k} : slots'[j] = slots[j]
           /\ slots'[k].running = slots[k].running
           /\ UNCHANGED <<job, todo>>
           /\ \/ slots'[k].queued = slots[k].queued /\ UNCHANGED <<made, state>>
                 /\ slots'[k].overtaken = "Gone"
              \/ \E got \in RunId : /\ got = QueuedOrNew(slots[k]) /\ Make(got, k)
                                    /\ slots'[k].queued = got
                                    /\ got # NoRun
<1>1. slots \in [Key -> Slot] /\ slots[k] \in Slot
  BY DEF IInv, TypeOK
<1>2. slots[k].running # NoRun
  BY DEF Supersede, Running
<1>3. CASE Gone(k)
  BY <1>1, <1>2, <1>3 DEF Supersede, Running, Slot
<1>4. CASE ~Gone(k)
  <2>1. PICK got : got = QueuedOrNew(slots[k])
    OBVIOUS
  <2>2. /\ Make(got, k) /\ slots' = [slots EXCEPT ![k] = RunsAgain(slots[k], got)]
        /\ UNCHANGED <<job, todo>>
    BY <1>2, <1>4, <2>1 DEF Supersede, Running
  <2>3. got \in RunId /\ got # NoRun
    BY <2>2 DEF Make, RunId, NoRun
  <2>4. /\ RunsAgain(slots[k], got).running = slots[k].running
        /\ RunsAgain(slots[k], got).queued = got
    <3>1. CASE slots[k].queued = NoRun
      BY <1>1, <3>1 DEF RunsAgain, WithQueued, Slot
    <3>2. CASE slots[k].queued # NoRun
      BY <1>1, <2>1, <3>2 DEF RunsAgain, WithQueued, Slot, QueuedOrNew
    <3> QED BY <3>1, <3>2
  <2> QED BY <1>1, <1>2, <2>1, <2>2, <2>3, <2>4
<1> QED BY <1>3, <1>4

LEMMA SupersedeType ==
    ASSUME IInv, NEW k \in Key, inForce < MaxEpoch, Supersede(k)
    PROVE  TypeOK'
<1> USE ConstantsAssumption DEF NoRun, RunId, Epoch, IInv
<1>1. slots \in [Key -> Slot] /\ slots[k] \in Slot /\ next \in Epoch
  BY DEF TypeOK, next
<1>2. /\ slots' \in [Key -> Slot]
      /\ made' \in 0..MaxRun
      /\ state' \in [RunId -> State]
      /\ job' \in [RunId -> Job]
      /\ todo' \in SUBSET Effects
  <2>1. CASE UNCHANGED tableVars
    BY <2>1 DEF TypeOK, tableVars
  <2>2. CASE /\ slots' = [slots EXCEPT ![k].overtaken = "Gone", ![k].goneAt = next]
             /\ UNCHANGED <<made, state, job, todo>>
    <3>1. [slots[k] EXCEPT !.overtaken = "Gone", !.goneAt = next] \in Slot
      BY <1>1 DEF Slot
    <3>2. slots' = [slots EXCEPT ![k] = [slots[k] EXCEPT !.overtaken = "Gone", !.goneAt = next]]
      BY <1>1, <2>2
    <3> QED BY <1>1, <2>2, <3>1, <3>2 DEF TypeOK
  <2>3. ASSUME NEW got, Make(got, k), slots' = [slots EXCEPT ![k] = RunsAgain(@, got)],
               UNCHANGED <<job, todo>>
        PROVE  /\ slots' \in [Key -> Slot]
               /\ made' \in 0..MaxRun
               /\ state' \in [RunId -> State]
    <3>1. got \in RunId /\ made' \in 0..MaxRun
      BY <2>3 DEF Make, TypeOK
    <3>2. OpenFor(k) \in State
      BY DEF OpenFor, State, End
    <3>3. state' \in [RunId -> State]
      BY <2>3, <3>1, <3>2 DEF Make, TypeOK
    <3>4. RunsAgain(slots[k], got) \in Slot
      <4>1. WithQueued(slots[k], next, FALSE, got) \in Slot
        BY <1>1, <3>1 DEF WithQueued, Slot, Newest
      <4>2. PICK q \in Slot : q = WithQueued(slots[k], next, FALSE, got)
        BY <4>1
      <4>3. [q EXCEPT !.overtaken = "Again", !.goneAt = 0] \in Slot
        <5>1. 0 \in 0..MaxEpoch
          OBVIOUS
        <5>2. q \in Slot
          OBVIOUS
        <5> HIDE DEF RunId, Epoch
        <5> QED BY <5>1, <5>2 DEF Slot, Epoch
      <4> QED BY <4>2, <4>3 DEF RunsAgain
    <3> QED BY <1>1, <2>3, <3>1, <3>3, <3>4
  <2>4. CASE ~Gone(k) /\ Running(k)
    <3>1. PICK got : got = QueuedOrNew(slots[k])
      OBVIOUS
    <3>2. /\ Make(got, k) /\ slots' = [slots EXCEPT ![k] = RunsAgain(@, got)]
          /\ UNCHANGED <<job, todo>>
      BY <2>4, <3>1 DEF Supersede
    <3> QED BY <2>3, <3>2 DEF TypeOK
  <2> QED BY <2>1, <2>2, <2>4 DEF Supersede
<1> QED BY <1>2 DEF Supersede, TypeOK, runVars, dataVars, envVars

LEMMA SupersedeSound ==
    ASSUME IInv, NEW k \in Key, inForce < MaxEpoch, Supersede(k)
    PROVE  IInv'
<1>1. TypeOK' /\ UNCHANGED <<runVars, dataVars, caller, envVars>>
  BY SupersedeType DEF Supersede
<1>2. WaitersOnRuns'
  BY <1>1 DEF runVars, IInv, WaitersPointed, WaitersOnRuns
<1>3. CASE UNCHANGED tableVars
  BY <1>1, <1>2, <1>3, TableAlone DEF IInv
<1>4. CASE /\ slots[k].running # NoRun
           /\ \A j \in Key \ {k} : slots'[j] = slots[j]
           /\ slots'[k].running = slots[k].running
           /\ UNCHANGED <<job, todo>>
           /\ slots'[k].queued = slots[k].queued /\ UNCHANGED <<made, state>>
           /\ slots'[k].overtaken = "Gone"
  BY <1>1, <1>2, <1>4 DEF IInv, TableSound, SlotsOwnTheirRuns, QueuedBehindAnother,
     QueuedHasNotBegun, LaunchedIsNotQueued, OnlyMadeRuns, WaitsAfterBeginning,
     OvertakenHasNext, WaitersPointed, MovedToRuns, runVars
<1>5. ASSUME NEW got \in RunId, got = QueuedOrNew(slots[k]), Make(got, k),
             slots[k].running # NoRun,
             \A j \in Key \ {k} : slots'[j] = slots[j],
             slots'[k].running = slots[k].running,
             slots'[k].queued = got, got # NoRun,
             UNCHANGED <<job, todo>>
      PROVE  IInv'
  <2>1. /\ got <= made'
        /\ made <= made'
        /\ thread[got].pc = "none"
        /\ state'[got].key = k
        /\ \A r \in RunId : r <= made => state'[r] = state[r]
        /\ \A r \in RunId : r <= made' => r <= made \/ r = got
        /\ \A r \in RunId : state'[r].end = "Moved" =>
                state[r].end = "Moved" /\ state'[r] = state[r]
        /\ \A j \in Key : slots[j].running # got
        /\ \A j \in Key \ {k} : slots[j].queued # got
        /\ \A w \in todo : \A i \in 1..Len(w) : w[i].op = "launch" =>
                w[i].run # got /\ w[i].run <= made
    BY <1>5, HandedOut
  <2>2. made \in Nat /\ made' \in Nat /\ slots \in [Key -> Slot]
    BY <1>1 DEF IInv, TypeOK
  <2>3. SlotsOwnTheirRuns'
    <3> SUFFICES ASSUME NEW j \in Key,
                        NEW r \in {slots'[j].running, slots'[j].queued}, r # NoRun
                 PROVE  r <= made' /\ state'[r].key = j
      BY DEF SlotsOwnTheirRuns
    <3>1. CASE r = got
      <4>1. j = k
        BY <1>5, <2>1, <3>1
      <4> QED BY <2>1, <3>1, <4>1
    <3>2. CASE r # got
      <4>1. r \in {slots[j].running, slots[j].queued}
        BY <1>5, <3>2
      <4>2. r \in RunId /\ r <= made /\ state[r].key = j
        BY <2>2, <4>1 DEF IInv, TableSound, SlotsOwnTheirRuns, Slot
      <4> QED BY <2>1, <2>2, <4>2 DEF RunId
    <3> QED BY <3>1, <3>2
  <2>4. QueuedBehindAnother' /\ QueuedHasNotBegun' /\ OvertakenHasNext' /\ WaitsAfterBeginning'
    BY <1>1, <1>5, <2>1 DEF IInv, TableSound, QueuedBehindAnother, QueuedHasNotBegun,
       OvertakenHasNext, WaitsAfterBeginning, runVars
  <2>5. LaunchedIsNotQueued'
    <3> SUFFICES ASSUME NEW w \in todo, NEW i \in 1..Len(w), w[i].op = "launch",
                        NEW j \in Key
                 PROVE  w[i].run <= made' /\ slots'[j].queued # w[i].run
      BY <1>5 DEF LaunchedIsNotQueued
    <3>1. w[i].run # got /\ w[i].run <= made /\ slots[j].queued # w[i].run
      BY <2>1 DEF IInv, TableSound, LaunchedIsNotQueued
    <3>2. w[i].run \in RunId
      BY ElementOfTodo DEF IInv
    <3> QED BY <1>5, <2>1, <2>2, <3>1, <3>2 DEF RunId
  <2>6. OnlyMadeRuns'
    <3> SUFFICES ASSUME NEW r \in RunId
                 PROVE  IF r <= made' THEN state'[r].key \in Key
                        ELSE thread[r].pc = "none" /\ job[r].task = "none"
      BY <1>1, <1>5 DEF OnlyMadeRuns, runVars
    <3> QED BY <2>1, <2>2 DEF IInv, TableSound, OnlyMadeRuns, RunId
  <2>7. WaitersPointed'
    BY <1>2, <1>5, <2>1 DEF IInv, WaitersPointed, MovedToRuns
  <2> QED BY <1>1, <2>3, <2>4, <2>5, <2>6, <2>7 DEF IInv, TableSound
<1> QED BY <1>3, <1>4, <1>5, SupersedeMarks

LEMMA SupersedeShape ==
    ASSUME IInv, NEW k \in Key, Supersede(k)
    PROVE  Shape /\ \A j \in Key : slots'[j].running = slots[j].running
<1>1. UNCHANGED <<runVars, version, record, caller>>
  BY DEF Supersede, dataVars
<1>2. TableStep /\ \A j \in Key : slots'[j].running = slots[j].running
  <2>1. CASE UNCHANGED tableVars
    BY <1>1, <2>1 DEF TableStep, Leaves, tableVars
  <2>2. CASE ~UNCHANGED tableVars
    <3>1. \A j \in Key : slots'[j].running = slots[j].running
      BY <2>2, SupersedeMarks
    <3>2. Marks \/ \E got \in RunId : Queues(k, got)
      BY <1>1, <2>2, SupersedeMarks DEF Marks, Queues, Running
    <3> QED BY <3>1, <3>2 DEF TableStep
  <2> QED BY <2>1, <2>2
<1> QED BY <1>1, <1>2, ThreadsStill, CallersStill, InputsStill DEF Shape

-----------------------------------------------------------------------------
(* Every step of a reload is a step of the run table, an overtaking, or one  *)
(* beside the table.                                                         *)

\* What a step of a reload's does to the table.
Kinds ==
    \/ [Next]_vars
    \/ inForce < MaxEpoch /\ \E k \in Key : Supersede(k)
    \/ Aside /\ TypeOK'

LEMMA RestampAside ==
    ASSUME IInv, NEW k \in Key, inForce < MaxEpoch, Restamp(k)
    PROVE  Aside /\ TypeOK' /\ UNCHANGED <<envVars, failures>>
<1>1. next \in Epoch
  BY ConstantsAssumption DEF IInv, TypeOK, Epoch, next
<1>2. schedule' \in [Key -> Schedule \cup {NoSource}]
  BY <1>1 DEF Restamp, IInv, TypeOK
<1> QED BY <1>2 DEF Restamp, Aside, IInv, TypeOK, tableVars, runVars, envVars

LEMMA PlanAside ==
    ASSUME IInv, Plan
    PROVE  Aside /\ TypeOK' /\ UNCHANGED <<failures, retired, inForce, record>>
<1>1. PICK how \in [Key -> Changes] :
        source' = [source EXCEPT ![next] = [k \in Key |-> NextSchedule(k, how[k])]]
  BY DEF Plan
<1>2. inForce \in Epoch /\ next \in Epoch /\ inForce \in Nat /\ next + 1 \in Schedule
  BY ConstantsAssumption DEF IInv, TypeOK, Plan, Epoch, next, Schedule
<1>3. \A k \in Key : NextSchedule(k, how[k]) \in Schedule \cup {NoSource}
  <2> SUFFICES ASSUME NEW k \in Key
               PROVE  NextSchedule(k, how[k]) \in Schedule \cup {NoSource}
    OBVIOUS
  <2>1. source[inForce][k] \in Schedule \cup {NoSource}
    BY <1>2 DEF IInv, TypeOK
  <2>2. how[k] \in Changes
    OBVIOUS
  <2> QED BY <1>2, <2>1, <2>2 DEF NextSchedule, Changes
<1>4. source' \in [Epoch -> [Key -> Schedule \cup {NoSource}]]
  BY <1>1, <1>2, <1>3 DEF IInv, TypeOK
<1> QED BY <1>4 DEF Plan, Aside, IInv, TypeOK, tableVars, runVars, dataVars

LEMMA RetireAside ==
    ASSUME IInv, Retire, inForce < MaxEpoch
    PROVE  Aside /\ TypeOK' /\ UNCHANGED <<failures, inForce, record>>
<1>1. next \in Epoch
  BY ConstantsAssumption DEF IInv, TypeOK, Epoch, next
<1>2. retired' \in [Key -> Epoch]
  BY <1>1 DEF Retire, IInv, TypeOK
<1> QED BY <1>2 DEF Retire, Aside, IInv, TypeOK, tableVars, runVars, dataVars

LEMMA ClearAside ==
    ASSUME IInv, ClearFailures
    PROVE  Aside /\ TypeOK' /\ UNCHANGED <<record, retired, inForce>>
<1>1. NoFailures \in Failures
  BY ConstantsAssumption DEF NoFailures, Failures, Epoch
<1>2. failures' \in [Key -> Failures]
  BY <1>1 DEF ClearFailures, IInv, TypeOK
<1> QED BY <1>2 DEF ClearFailures, Aside, IInv, TypeOK, tableVars, runVars, envVars

LEMMA EvictAside ==
    ASSUME IInv, ReloadTypeOK, Evict
    PROVE  Aside /\ TypeOK' /\ UNCHANGED <<failures, retired, inForce>>
<1>1. PICK k \in Key : /\ record' = [record EXCEPT ![k] = NoRun]
                       /\ schedule' = [schedule EXCEPT ![k] = NoSource]
  BY DEF Evict, ReloadTypeOK
<1>2. /\ record' \in [Key -> RunId \cup {NoRun}]
      /\ schedule' \in [Key -> Schedule \cup {NoSource}]
  BY <1>1 DEF IInv, TypeOK
<1> QED BY <1>1, <1>2 DEF Evict, Aside, IInv, TypeOK, tableVars, runVars, envVars

LEMMA ReplaceAside ==
    ASSUME IInv, Replace, inForce < MaxEpoch
    PROVE  Aside /\ TypeOK' /\ UNCHANGED <<failures, retired, record>>
<1>1. next \in Epoch
  BY ConstantsAssumption DEF IInv, TypeOK, Epoch, next
<1> QED BY <1>1 DEF Replace, Aside, IInv, TypeOK, tableVars, runVars, dataVars

LEMMA StepKinds ==
    ASSUME IInv, ReloadTypeOK, [ReloadNext]_allVars
    PROVE  Kinds
<1>1. CASE UNCHANGED vars
  BY <1>1 DEF Kinds
<1>2. CASE AnyRunStep
  BY <1>2 DEF AnyRunStep, Kinds, Next, WorldStep
<1>3. ASSUME NEW k \in Key, Track(k) \/ Decay(k)
      PROVE  Kinds
  BY <1>1, <1>3 DEF Track, Decay, Kinds, Next, WorldStep
<1>4. CASE ReloadStep
  <2>1. CASE Plan
    BY <2>1, PlanAside DEF Kinds
  <2>2. CASE Retire
    BY <2>2, RetireAside DEF Kinds, Retire, ReloadTypeOK
  <2>3. CASE ClearFailures
    BY <2>3, ClearAside DEF Kinds
  <2>4. CASE InFlight \/ Overtaken \/ Evicted \/ Retuned
    BY <1>1, <2>4 DEF InFlight, Overtaken, Evicted, Retuned
  <2>5. CASE Overtake
    <3>1. PICK k \in Key : Supersede(k) \/ UNCHANGED vars
      BY <2>5 DEF Overtake, ReloadTypeOK
    <3> QED BY <1>1, <2>5, <3>1 DEF Kinds, Overtake, ReloadTypeOK
  <2>6. CASE RestampOvertaken \/ Retune
    <3>1. PICK k \in Key : Restamp(k)
      BY <2>6 DEF RestampOvertaken, Retune, ReloadTypeOK
    <3>2. inForce < MaxEpoch
      BY <2>6 DEF RestampOvertaken, Retune, ReloadTypeOK
    <3> QED BY <3>1, <3>2, RestampAside DEF Kinds
  <2>7. CASE Evict
    BY <2>7, EvictAside DEF Kinds
  <2>8. CASE Replace
    BY <2>8, ReplaceAside DEF Kinds, Replace, ReloadTypeOK
  <2> QED BY <1>4, <2>1, <2>2, <2>3, <2>4, <2>5, <2>6, <2>7, <2>8 DEF ReloadStep
<1>5. CASE UNCHANGED allVars
  BY <1>1, <1>5 DEF allVars
<1> QED BY <1>2, <1>3, <1>4, <1>5 DEF ReloadNext

\* Only a step of the run table changes which run is in flight.
LEMMA KindsRunning ==
    ASSUME IInv, Kinds
    PROVE  [Next]_vars \/ \A k \in Key : slots'[k].running = slots[k].running
BY SupersedeShape DEF Kinds, Aside, tableVars

LEMMA ReloadStepTypes ==
    ASSUME IInv, ReloadTypeOK, [ReloadNext]_allVars
    PROVE  ReloadTypeOK'
<1>1. CASE UNCHANGED <<reloadVars, inForce>>
  BY <1>1 DEF reloadVars, ReloadTypeOK
<1>2. CASE AnyRunStep /\ UNCHANGED reloadVars
  <2>1. [Next]_vars
    BY <1>2 DEF AnyRunStep, Next, WorldStep
  <2> QED BY <1>1, <1>2, <2>1, EnvStill
<1>3. ASSUME NEW k \in Key, Track(k) \/ Decay(k)
      PROVE  ReloadTypeOK'
  BY <1>3 DEF Track, Decay, Forget, ReloadTypeOK, vars, envVars
<1>4. CASE Plan
  <2>1. change' \in [Key -> Changes]
    BY <1>4 DEF Plan
  <2> QED BY <1>4, <2>1 DEF Plan, ReloadTypeOK
<1>5. CASE Retire \/ ClearFailures \/ InFlight \/ Overtaken \/ Evicted \/ Retuned
  BY <1>5 DEF Retire, ClearFailures, InFlight, Overtaken, Evicted, Retuned, ReloadTypeOK,
     vars, envVars
<1>6. CASE Overtake
  BY <1>6 DEF Overtake, Supersede, ReloadTypeOK, vars, envVars
<1>7. CASE RestampOvertaken \/ Retune
  BY <1>7 DEF RestampOvertaken, Retune, Restamp, ReloadTypeOK, envVars
<1>8. CASE Evict
  BY <1>8 DEF Evict, ReloadTypeOK, envVars
<1>9. CASE Replace
  <2>1. change' \in [Key -> Changes]
    BY <1>9 DEF Replace, Changes
  <2> QED BY <1>9, <2>1 DEF Replace, ReloadTypeOK
<1>10. CASE UNCHANGED allVars
  BY <1>1, <1>10 DEF allVars, vars, envVars
<1> QED BY <1>2, <1>3, <1>4, <1>5, <1>6, <1>7, <1>8, <1>9, <1>10
    DEF ReloadNext, ReloadStep

-----------------------------------------------------------------------------
(* What is kept: ReloadInv.                                                  *)

LEMMA KindsKeep ==
    ASSUME IInv, ReloadTypeOK, LifeInv, RingFree(slots, waits), Kinds
    PROVE  IInv' /\ LifeInv' /\ RingFree(slots', waits') /\ Shape
<1>1. IInv' /\ Shape /\ RingFree(slots', waits')
  <2>1. CASE [Next]_vars
    BY <2>1, StepInv, StepShape, StepRingFree DEF LifeInv, LookLife
  <2>2. ASSUME NEW k \in Key, inForce < MaxEpoch, Supersede(k)
        PROVE  IInv' /\ Shape /\ RingFree(slots', waits')
    <3>1. IInv' /\ Shape /\ \A j \in Key : slots'[j].running = slots[j].running
      BY <2>2, SupersedeSound, SupersedeShape
    <3>2. \A j \in Key : Hop(slots', waits', j) = Hop(slots, waits, j)
      BY <2>2, <3>1 DEF Hop, Supersede, runVars
    <3> QED BY <3>1, <3>2, FewerHops
  <2>3. CASE Aside /\ TypeOK'
    BY <2>3, AsideKeeps DEF Aside, tableVars, runVars
  <2> QED BY <2>1, <2>2, <2>3 DEF Kinds
<1> QED BY <1>1, LifeKept

\* A record that a reload retires is evicted before the reload is over.
LEMMA NoRetiredKept ==
    ASSUME ReloadInv, Shape, [ReloadNext]_allVars
    PROVE  NoRetiredRecord'
<1> SUFFICES ASSUME NEW k \in Key, record'[k] # NoRun
             PROVE  \/ job'[record'[k]].epoch >= retired'[k]
                    \/ pc' \in {"failures", "inflight", "supersede"} /\ k \in Affected'
                    \/ pc' = "evict" /\ k \in left'
  BY DEF NoRetiredRecord
<1>1. \/ record'[k] = record[k] /\ job'[record'[k]].epoch = job[record'[k]].epoch
      \/ job'[record'[k]].epoch >= retired[k]
  BY RecordEpochs DEF ReloadInv
<1>2. \/ job'[record'[k]].epoch >= retired[k]
      \/ pc \in {"failures", "inflight", "supersede"} /\ k \in Affected
      \/ pc = "evict" /\ k \in left /\ record'[k] = record[k]
  BY <1>1 DEF ReloadInv, NoRetiredRecord
<1>3. CASE UNCHANGED <<pc, change, left, retired>>
  BY <1>2, <1>3 DEF Affected
<1>4. CASE AnyRunStep /\ UNCHANGED reloadVars
  <2>1. [Next]_vars
    BY <1>4 DEF AnyRunStep, Next, WorldStep
  <2> QED BY <1>3, <1>4, <2>1, EnvStill DEF reloadVars
<1>5. ASSUME NEW j \in Key, Track(j) \/ Decay(j)
      PROVE  UNCHANGED <<pc, change, left, retired>>
  BY <1>5 DEF Track, Decay, Forget, vars, envVars
<1>6. CASE Plan
  BY <1>2, <1>6 DEF Plan
<1>7. CASE Retire
  BY <1>2, <1>7 DEF Retire, Affected
<1>8. CASE ClearFailures \/ InFlight \/ RestampOvertaken
  BY <1>2, <1>8 DEF ClearFailures, InFlight, RestampOvertaken, Restamp, Affected, vars,
     envVars, ReloadInv, ReloadTypeOK
<1>9. CASE Overtake
  BY <1>2, <1>9 DEF Overtake, Supersede, Affected, vars, envVars
<1>10. CASE Overtaken
  BY <1>2, <1>10 DEF Overtaken, Gone, vars, envVars
<1>11. CASE Evict
  <2>1. PICK j \in left : left' = left \ {j} /\ record' = [record EXCEPT ![j] = NoRun]
    BY <1>11 DEF Evict
  <2>2. j # k
    BY <2>1 DEF ReloadInv, IInv, TypeOK, ReloadTypeOK
  <2> QED BY <1>2, <1>11, <2>1, <2>2 DEF Evict, envVars
<1>12. CASE Evicted \/ Retune \/ Retuned \/ Replace
  BY <1>2, <1>12 DEF Evicted, Retune, Retuned, Replace, Restamp, vars, envVars
<1>13. CASE UNCHANGED allVars
  BY <1>3, <1>13 DEF allVars, vars, envVars, reloadVars
<1> QED BY <1>3, <1>4, <1>5, <1>6, <1>7, <1>8, <1>9, <1>10, <1>11, <1>12, <1>13
    DEF ReloadNext, ReloadStep

\* A failure counted under a registry that a reload retires is forgotten.
LEMMA NoRetiredFailureKept ==
    ASSUME ReloadInv, [ReloadNext]_allVars
    PROVE  NoRetiredFailure'
<1> SUFFICES ASSUME NEW k \in Key, failures'[k].count > 0
             PROVE  \/ failures'[k].by >= retired'[k]
                    \/ pc' = "failures" /\ k \in Affected'
  BY DEF NoRetiredFailure
<1> USE DEF ReloadInv, NoRetiredFailure
<1>1. CASE UNCHANGED <<failures, pc, change, retired>>
  BY <1>1 DEF Affected
<1>2. ASSUME [Next]_vars, UNCHANGED <<pc, change>>
      PROVE  \/ failures'[k].by >= retired'[k]
             \/ pc' = "failures" /\ k \in Affected'
  BY <1>2, FailuresNext, EnvStill DEF Affected
<1>3. CASE AnyRunStep /\ UNCHANGED reloadVars
  BY <1>2, <1>3 DEF AnyRunStep, Next, WorldStep, reloadVars
<1>4. ASSUME NEW j \in Key, Track(j) \/ Decay(j)
      PROVE  UNCHANGED <<failures, pc, change, retired>>
  BY <1>4 DEF Track, Decay, Forget, vars, dataVars, envVars
<1>5. CASE Plan
  BY <1>5 DEF Plan, dataVars
<1>6. CASE Retire
  BY <1>6 DEF Retire, dataVars, Affected
<1>7. CASE ClearFailures
  <2>1. failures'[k] = failures[k] /\ k \notin Affected
    BY <1>7 DEF ClearFailures, Forgives, NoFailures
  <2> QED BY <1>7, <2>1 DEF ClearFailures, envVars
<1>8. CASE InFlight \/ Overtaken \/ Evicted \/ Retuned
  BY <1>8 DEF InFlight, Overtaken, Evicted, Retuned, vars, dataVars, envVars
<1>9. CASE Overtake
  BY <1>9 DEF Overtake, Supersede, vars, dataVars, envVars
<1>10. CASE RestampOvertaken \/ Retune
  BY <1>10 DEF RestampOvertaken, Retune, Restamp, envVars, ReloadTypeOK
<1>11. CASE Evict
  BY <1>11 DEF Evict, envVars
<1>12. CASE Replace
  BY <1>12 DEF Replace, dataVars
<1>13. CASE UNCHANGED allVars
  BY <1>1, <1>13 DEF allVars, vars, dataVars, envVars, reloadVars
<1> QED BY <1>1, <1>3, <1>4, <1>5, <1>6, <1>7, <1>8, <1>9, <1>10, <1>11, <1>12, <1>13
    DEF ReloadNext, ReloadStep

LEMMA ReloadStepInv ==
    ASSUME ReloadInv, [ReloadNext]_allVars
    PROVE  ReloadInv' /\ Shape
<1>1. Kinds /\ ReloadTypeOK'
  BY StepKinds, ReloadStepTypes DEF ReloadInv
<1>2. IInv' /\ LifeInv' /\ RingFree(slots', waits') /\ Shape
  BY <1>1, KindsKeep DEF ReloadInv
<1> QED BY <1>1, <1>2, NoRetiredKept, NoRetiredFailureKept DEF ReloadInv, RingFree

LEMMA ReloadInitInv == Init /\ ReloadInit => ReloadInv
<1> SUFFICES ASSUME Init, ReloadInit PROVE ReloadInv
  OBVIOUS
<1>1. IInv /\ LifeInv
  BY InitInv, LifeInit
<1>2. RingFree(slots, waits)
  <2>1. \A k \in Key : Hop(slots, waits, k) = NoKey
    BY DEF Init, Hop, NoSlot, InFlightOnly
  <2> QED BY <2>1, ConstantsAssumption DEF RingFree, Ring
<1>3. ReloadTypeOK
  BY DEF ReloadInit, ReloadTypeOK, Changes
<1>4. NoRetiredRecord /\ NoRetiredFailure
  BY DEF Init, NoRetiredRecord, NoRetiredFailure, NoFailures
<1> QED BY <1>1, <1>2, <1>3, <1>4 DEF ReloadInv

LEMMA ReloadEver == ReloadSpec => []ReloadInv
<1>1. ReloadInv /\ [ReloadNext]_allVars => ReloadInv'
  BY ReloadStepInv
<1> QED BY ReloadInitInv, <1>1, PTL DEF ReloadSpec

-----------------------------------------------------------------------------
(* The theorems.                                                             *)

\* What a reload keeps of its own has its type, and so has the run table's.
THEOREM ReloadTypeCorrect == ReloadSpec => [](TypeOK /\ ReloadTypeOK)
<1>1. ReloadInv => TypeOK /\ ReloadTypeOK
  BY DEF ReloadInv, IInv
<1> QED BY ReloadEver, <1>1, PTL

\* Once a reload has evicted what it retired, no record of a retired Source
\* comes back: whatever run of an older registry was executing, queued or about
\* to settle has stored nothing.
THEOREM NothingRetiredStaysEver == ReloadSpec => []NothingRetiredStays
<1>1. ReloadInv => NothingRetiredStays
  BY DEF ReloadInv, NoRetiredRecord, NothingRetiredStays
<1> QED BY ReloadEver, <1>1, PTL

\* Once a reload has cleared the failures of a body it took out of force, none
\* of that body is counted against the one that took its place.
THEOREM NoInheritedFailbackEver == ReloadSpec => []NoInheritedFailback
<1>1. ReloadInv => NoInheritedFailback
  BY DEF ReloadInv, NoRetiredFailure, NoInheritedFailback
<1> QED BY ReloadEver, <1>1, PTL

\* A run that a reload overtook to run again has the run that replaces it
\* queued behind it until it settles: what settle hands its waiters.
THEOREM OvertakenHasNextEver == ReloadSpec => []OvertakenHasNext
<1>1. ReloadInv => OvertakenHasNext
  BY DEF ReloadInv, IInv
<1> QED BY ReloadEver, <1>1, PTL

\* What the run table promises those who ask it, it promises through reloads:
\* no run is lost, an answer sees the ask, and no threads block one another.
THEOREM PromisesThroughReloads ==
    ReloadSpec => [](NoRunLost /\ AnswersSeeTheAsk /\ NoDeadlock)
<1>1. ReloadInv => NoRunLost /\ AnswersSeeTheAsk /\ NoDeadlock
  BY LifeAnswers, RingFreeNoDeadlock DEF ReloadInv, LifeInv, TableLife
<1> QED BY ReloadEver, <1>1, PTL

\* Through reloads, records are not replaced by older looks at the inputs.
THEOREM ForwardThroughReloads == ReloadSpec => RecordsGoForward
<1>1. ReloadInv /\ [ReloadNext]_allVars =>
        [\A k \in Key : (record[k] # NoRun /\ record'[k] # NoRun) =>
            stamp[record[k]] <= stamp[record'[k]]]_vars
  BY ReloadStepInv, ShapeGoesForward DEF ReloadInv
<1> QED BY ReloadEver, <1>1, PTL DEF ReloadSpec, RecordsGoForward

\* Through reloads, what begins while the failback holds its Source back was
\* asked for by force: overtaking a run begins none.
THEOREM FailbackThroughReloads == ReloadSpec => FailbackHolds
<1>1. ReloadInv /\ [ReloadNext]_allVars =>
        [\A k \in Key :
            LET begun == slots'[k].running IN
            (begun \notin {NoRun, slots[k].running} /\ failures'[k].held) =>
                job'[begun].forced]_vars
  BY StepKinds, KindsRunning, StepHolds DEF ReloadInv
<1> QED BY ReloadEver, <1>1, PTL DEF ReloadSpec, FailbackHolds

---------------------------------------------------------------------------
(***************************************************************************)
(* The run table keeps what SingleFlight promises (KeepsFlight of module   *)
(* RunsFlight): every step of Runs is a step of SingleFlight, or none.     *)
(*                                                                         *)
(* From the shapes of module RunLife.  What the abstract step needs, and   *)
(* the table only has because of how its steps follow one another, is that *)
(* what is said of a run is said after it has left its slot, and that a    *)
(* run which is to be called stored has no second word said of it, which   *)
(* could be heard first: FlightInv.                                        *)
(***************************************************************************)

\* Someone has yet to say how run r ended.
Spoken(r) == \E w \in todo : \E i \in 1..Len(w) : w[i].op = "finish" /\ w[i].run = r

SaysStored(w, r) == \E i \in 1..Len(w) : w[i].run = r /\ w[i].end = "Stored"

InSlot(r) == \E k \in Key : r \in {slots[k].running, slots[k].queued}

\* Nothing is said of a run that is not made.
FreshOpen == \A r \in RunId : r > made => state[r].end = "Open"

\* Only who is moved is sent anywhere, and a launch says nothing.
LeadsNowhere ==
    /\ \A r \in RunId : state[r].end # "Moved" => state[r].to = NoRun
    /\ \A w \in todo : \A i \in 1..Len(w) :
        /\ w[i].end # "Moved" => w[i].to = NoRun
        /\ w[i].op = "launch" => w[i].end = "Open"

\* Nothing is said, or to be said, of a run in its slot.
LeftUnspoken == \A r \in RunId : InSlot(r) => state[r].end = "Open" /\ ~Spoken(r)

QueuedNotLive == \A k \in Key : slots[k].queued # NoRun => job[slots[k].queued].task = "none"

\* Who says that a run was stored says so alone, and is not too late.
StoredAlone ==
    \A w \in todo : \A i \in 1..Len(w) : w[i].end = "Stored" =>
        /\ state[w[i].run].end = "Open" /\ job[w[i].run].task = "settled"
        /\ \A v \in todo : \A j \in 1..Len(v) :
                v[j].op = "finish" /\ v[j].run = w[i].run => v = w /\ j = i

FlightInv == FreshOpen /\ LeadsNowhere /\ LeftUnspoken /\ QueuedNotLive /\ StoredAlone

-----------------------------------------------------------------------------
(* What a step leaves as it was. *)

\* A step that keeps every slot's runs, and what is said of runs, is none.
LEMMA FlightStill ==
    ASSUME \A k \in Key : slots'[k].running = slots[k].running /\ slots'[k].queued = slots[k].queued,
           \A r \in RunId : state'[r] = state[r],
           UNCHANGED <<made, record>>, Kept' = Kept
    PROVE  UNCHANGED Flight!flightVars
BY DEF Flight!flightVars, Flight!table, Flight!stored, Flight!words

LEMMA KeptSame ==
    ASSUME UNCHANGED todo, \A r \in RunId : state'[r].end = "Stored" <=> state[r].end = "Stored"
    PROVE  Kept' = Kept
BY DEF Kept

\* Another is to say something that stores no run.
LEMMA KeptGrows ==
    ASSUME NEW new, todo' = todo \cup {new}, NEW R \in SUBSET RunId,
           \A r \in RunId : SaysStored(new, r) <=> r \in R,
           \A r \in RunId : state'[r].end = "Stored" <=> state[r].end = "Stored"
    PROVE  Kept' = Kept \cup R
BY DEF Kept, SaysStored

LEMMA KeptStays ==
    ASSUME NEW new, todo' = todo \cup {new}, \A i \in 1..Len(new) : new[i].end # "Stored",
           \A r \in RunId : state'[r].end = "Stored" <=> state[r].end = "Stored"
    PROVE  Kept' = Kept
BY DEF Kept

LEMMA SpokenGrows ==
    ASSUME NEW new, todo' = todo \cup {new}, NEW r
    PROVE  Spoken(r)' => \/ Spoken(r)
                         \/ \E i \in 1..Len(new) : new[i].op = "finish" /\ new[i].run = r
BY DEF Spoken

\* Who says that a run is stored still says so alone beside one who has
\* something else to say.
LEMMA StoredStaysAlone ==
    ASSUME FlightInv, NEW new, todo' = todo \cup {new},
           \A i \in 1..Len(new) : new[i].op = "finish" =>
                \A w \in todo : \A j \in 1..Len(w) :
                    w[j].end = "Stored" => w[j].run # new[i].run,
           \A w \in todo : \A j \in 1..Len(w) : w[j].end = "Stored" =>
                state'[w[j].run].end = "Open" /\ job'[w[j].run].task = "settled",
           \A i \in 1..Len(new) : new[i].end = "Stored" =>
                /\ state'[new[i].run].end = "Open" /\ job'[new[i].run].task = "settled"
                /\ ~Spoken(new[i].run)
                /\ \A j \in 1..Len(new) :
                        new[j].op = "finish" /\ new[j].run = new[i].run => j = i
    PROVE  StoredAlone'
<1> SUFFICES ASSUME NEW w \in todo', NEW i \in 1..Len(w), w[i].end = "Stored"
             PROVE  /\ state'[w[i].run].end = "Open" /\ job'[w[i].run].task = "settled"
                    /\ \A v \in todo' : \A j \in 1..Len(v) :
                            v[j].op = "finish" /\ v[j].run = w[i].run => v = w /\ j = i
  BY DEF StoredAlone
<1>1. state'[w[i].run].end = "Open" /\ job'[w[i].run].task = "settled"
  OBVIOUS
<1>2. ASSUME NEW v \in todo', NEW j \in 1..Len(v), v[j].op = "finish", v[j].run = w[i].run
      PROVE  v = w /\ j = i
  <2>1. CASE w \in todo /\ v \in todo
    BY <1>2, <2>1 DEF FlightInv, StoredAlone
  <2>2. CASE w \in todo /\ v = new
    BY <1>2, <2>2
  <2>3. CASE w = new /\ v \in todo
    BY <1>2, <2>3 DEF Spoken
  <2>4. CASE w = new /\ v = new
    BY <1>2, <2>4
  <2> QED BY <2>1, <2>2, <2>3, <2>4
<1> QED BY <1>1, <1>2

-----------------------------------------------------------------------------
(* A run is put in flight, or queued.                                        *)

\* What making a run, or handing out the queued one, changes of the abstract
\* state: a new run has its instance, and nothing is said of it.
LEMMA MadeFlight ==
    ASSUME IInv, LifeInv, FlightInv, NEW k \in Key, NEW got \in RunId,
           got = QueuedOrNew(slots[k]), Make(got, k)
    PROVE  /\ made \in Nat /\ made' \in Nat /\ made <= made' /\ got <= made'
           /\ \A r \in RunId : r <= made => state'[r] = state[r]
           /\ \A r \in RunId : r <= made' => r <= made \/ r = got
           /\ \A j \in Key \ {k} : slots[j].running # got /\ slots[j].queued # got
           /\ slots[k].running # got
           /\ \A r \in RunId : state'[r].end = state[r].end /\ state'[r].to = state[r].to
           /\ state[got].end = "Open" /\ ~Spoken(got)
           /\ slots[k].queued = NoRun =>
                Flight!New(k)
                /\ got = made + 1
           /\ slots[k].queued # NoRun =>
                /\ got = slots[k].queued
                /\ UNCHANGED <<made, state>>
           /\ FreshOpen'
<1> USE ConstantsAssumption DEF NoRun
<1>1. /\ made \in Nat /\ made' \in Nat /\ made <= made' /\ got <= made'
      /\ \A r \in RunId : r <= made => state'[r] = state[r]
      /\ \A r \in RunId : r <= made' => r <= made \/ r = got
      /\ \A j \in Key \ {k} : slots[j].running # got /\ slots[j].queued # got
      /\ slots[k].running # got
  BY HandedLater, HandedOut DEF LifeInv
<1>2. state \in [RunId -> State] /\ slots \in [Key -> Slot]
  BY DEF IInv, TypeOK
<1>3. CASE slots[k].queued = NoRun
  <2>1. got = made + 1 /\ made' = got /\ state' = [state EXCEPT ![got] = OpenFor(k)]
    BY <1>3 DEF QueuedOrNew, Make
  <2>2. state[got].end = "Open" /\ state[got].to = NoRun
    BY <1>1, <2>1 DEF FlightInv, FreshOpen, LeadsNowhere
  <2>3. \A r \in RunId : r # got => state'[r] = state[r]
    BY <1>2, <2>1
  <2>4. state'[got] = OpenFor(k)
    BY <1>2, <2>1
  <2>5. \A r \in RunId : state'[r].end = state[r].end /\ state'[r].to = state[r].to
    BY <2>2, <2>3, <2>4 DEF OpenFor
  <2>6. ~Spoken(got)
    <3> SUFFICES ASSUME NEW w \in todo, NEW i \in 1..Len(w), w[i].run = got PROVE FALSE
      BY DEF Spoken
    <3>1. w[i].run <= made
      BY WordLeads DEF LifeInv
    <3> QED BY <1>1, <2>1, <3>1
  <2>7. [r \in RunId |-> state'[r].key] = [[r \in RunId |-> state[r].key] EXCEPT ![made + 1] = k]
    <3>1. OpenFor(k).key = k
      BY DEF OpenFor
    <3>2. state'[got].key = k /\ got = made + 1
      BY <2>1, <2>4, <3>1
    <3> QED BY <2>3, <3>2
  <2>8. Flight!New(k)
    BY <2>1, <2>7 DEF Flight!New, Flight!Run, RunId
  <2>9. FreshOpen'
    BY <1>1, <2>1, <2>5 DEF FlightInv, FreshOpen, RunId
  <2> QED BY <1>1, <1>3, <2>1, <2>2, <2>5, <2>6, <2>8, <2>9
<1>4. CASE slots[k].queued # NoRun
  <2>1. got = slots[k].queued
    BY <1>4 DEF QueuedOrNew
  <2>2. got <= made
    BY <1>4, <2>1 DEF IInv, TableSound, SlotsOwnTheirRuns
  <2>3. UNCHANGED <<made, state>>
    BY <1>1, <2>2 DEF Make
  <2>4. state[got].end = "Open" /\ ~Spoken(got)
    BY <2>1 DEF FlightInv, LeftUnspoken, InSlot
  <2>5. FreshOpen'
    BY <2>3 DEF FlightInv, FreshOpen
  <2> QED BY <1>1, <1>4, <2>1, <2>3, <2>4, <2>5
<1> QED BY <1>3, <1>4

LEMMA HandsFlight ==
    ASSUME IInv, LifeInv, FlightInv, NEW k \in Key, NEW got \in RunId, Hands(k, got)
    PROVE  FlightInv' /\ Flight!FlightNext
<1> USE ConstantsAssumption DEF NoRun
<1>1. /\ got = QueuedOrNew(slots[k]) /\ Make(got, k)
      /\ slots' = [slots EXCEPT ![k] = InFlightOnly(got)]
      /\ \A r \in RunId : r # got => job'[r] = job[r]
      /\ UNCHANGED record
  BY DEF Hands
<1>2. PICK new :
        /\ new = IF Running(k) THEN Handover(slots[k].running, got) ELSE <<Launch(got)>>
        /\ todo' = todo \cup {new}
  BY DEF Hands
<1>3. slots \in [Key -> Slot] /\ got # NoRun
  BY DEF IInv, TypeOK, RunId
<1>4. \A i \in 1..Len(new) :
            \/ new[i] = Launch(got)
            \/ Running(k) /\ new[i] = Finish(slots[k].running, "Moved", got)
  BY <1>2, <1>3, HandedSaid
<1>5. \A i \in 1..Len(new) :
        /\ new[i].end # "Stored"
        /\ new[i].end # "Moved" => new[i].to = NoRun
        /\ new[i].op = "launch" => new[i].end = "Open"
        /\ new[i].op = "finish" => Running(k) /\ new[i].run = slots[k].running
  BY <1>4 DEF Launch, Finish
<1>6. /\ made \in Nat /\ made' \in Nat /\ made <= made' /\ got <= made'
      /\ \A r \in RunId : r <= made => state'[r] = state[r]
      /\ \A r \in RunId : r <= made' => r <= made \/ r = got
      /\ \A j \in Key \ {k} : slots[j].running # got /\ slots[j].queued # got
      /\ slots[k].running # got
      /\ \A r \in RunId : state'[r].end = state[r].end /\ state'[r].to = state[r].to
      /\ state[got].end = "Open" /\ ~Spoken(got)
      /\ slots[k].queued = NoRun => Flight!New(k) /\ got = made + 1
      /\ slots[k].queued # NoRun => got = slots[k].queued /\ UNCHANGED <<made, state>>
      /\ FreshOpen'
  BY <1>1, MadeFlight
<1>7. /\ slots'[k].running = got /\ slots'[k].queued = NoRun
      /\ \A j \in Key \ {k} : slots'[j] = slots[j]
  BY <1>1, <1>3 DEF InFlightOnly
<1>8. Running(k) => InSlot(slots[k].running) /\ slots[k].running \in RunId
  BY <1>3 DEF Running, InSlot, Slot
<1>9. LeadsNowhere'
  BY <1>2, <1>5, <1>6 DEF FlightInv, LeadsNowhere
<1>15. ASSUME NEW r \in RunId
       PROVE  Spoken(r)' => Spoken(r) \/ (Running(k) /\ r = slots[k].running)
  BY <1>2, <1>5, SpokenGrows
<1>10. LeftUnspoken'
  <2> SUFFICES ASSUME NEW r \in RunId, NEW j \in Key, r \in {slots'[j].running, slots'[j].queued}
               PROVE  state'[r].end = "Open" /\ ~Spoken(r)'
    BY DEF LeftUnspoken, InSlot
  <2>1. CASE r = got
    BY <1>6, <1>15, <2>1
  <2>2. CASE r # got
    <3>1. j # k /\ r \in {slots[j].running, slots[j].queued} /\ r # NoRun
      BY <1>7, <2>2 DEF RunId
    <3>2. state[r].end = "Open" /\ ~Spoken(r)
      BY <3>1 DEF FlightInv, LeftUnspoken, InSlot
    <3>3. Running(k) => r # slots[k].running
      BY <3>1 DEF Running, IInv, TableSound, SlotsOwnTheirRuns
    <3> QED BY <1>6, <1>15, <3>2, <3>3
  <2> QED BY <2>1, <2>2
<1>11. QueuedNotLive'
  <2> SUFFICES ASSUME NEW j \in Key, slots'[j].queued # NoRun
               PROVE  job'[slots'[j].queued].task = "none"
    BY DEF QueuedNotLive
  <2>1. j # k /\ slots'[j].queued = slots[j].queued /\ slots[j].queued \in RunId
    BY <1>3, <1>7 DEF Slot
  <2> QED BY <1>1, <1>6, <2>1 DEF FlightInv, QueuedNotLive
<1>12. StoredAlone'
  <2>1. ASSUME NEW w \in todo, NEW j \in 1..Len(w), w[j].end = "Stored"
        PROVE  /\ state'[w[j].run].end = "Open" /\ job'[w[j].run].task = "settled"
               /\ Running(k) => w[j].run # slots[k].running
    <3>1. /\ state[w[j].run].end = "Open" /\ job[w[j].run].task = "settled"
          /\ w[j].run \in RunId
      BY <2>1, WordLeads DEF FlightInv, StoredAlone, LifeInv
    <3>2. w[j].op = "finish"
      BY <2>1, ElementOfTodo DEF FlightInv, LeadsNowhere, IInv, Effect
    <3>3. Spoken(w[j].run)
      BY <3>2 DEF Spoken
    <3>4. w[j].run # got /\ (Running(k) => w[j].run # slots[k].running)
      BY <1>6, <1>8, <3>3 DEF FlightInv, LeftUnspoken
    <3> QED BY <1>1, <1>6, <3>1, <3>4
  <2>2. \A i \in 1..Len(new) : new[i].op = "finish" =>
            \A w \in todo : \A j \in 1..Len(w) : w[j].end = "Stored" => w[j].run # new[i].run
    BY <1>5, <2>1
  <2>3. \A w \in todo : \A j \in 1..Len(w) : w[j].end = "Stored" =>
            state'[w[j].run].end = "Open" /\ job'[w[j].run].task = "settled"
    BY <2>1
  <2>4. \A i \in 1..Len(new) : new[i].end = "Stored" =>
            /\ state'[new[i].run].end = "Open" /\ job'[new[i].run].task = "settled"
            /\ ~Spoken(new[i].run)
            /\ \A j \in 1..Len(new) : new[j].op = "finish" /\ new[j].run = new[i].run => j = i
    BY <1>5
  <2>5. todo' = todo \cup {new}
    BY <1>2
  <2> QED BY <2>2, <2>3, <2>4, <2>5, StoredStaysAlone
<1>13. Kept' = Kept
  <2>1. \A r \in RunId : state'[r].end = "Stored" <=> state[r].end = "Stored"
    BY <1>6
  <2>2. \A i \in 1..Len(new) : new[i].end # "Stored"
    BY <1>5
  <2>3. todo' = todo \cup {new}
    BY <1>2
  <2> HIDE DEF Kept
  <2> QED BY <2>1, <2>2, <2>3, KeptStays
<1>14. Flight!FlightNext
  <2>1. UNCHANGED <<Flight!stored, Flight!words>>
    BY <1>1, <1>6, <1>13 DEF Flight!stored, Flight!words
  <2>2. /\ [j \in Key |-> slots'[j].running] = [[j \in Key |-> slots[j].running] EXCEPT ![k] = got]
        /\ [j \in Key |-> slots'[j].queued] = [[j \in Key |-> slots[j].queued] EXCEPT ![k] = NoRun]
    BY <1>7
  <2>3. CASE ~Running(k)
    <3>1. slots[k].queued = NoRun
      BY <2>3 DEF Running, IInv, TableSound, QueuedBehindAnother
    <3>2. UNCHANGED [j \in Key |-> slots[j].queued]
      BY <1>7, <3>1
    <3>3. Flight!Takes(k)
      BY <1>6, <2>1, <2>2, <2>3, <3>1, <3>2 DEF Running, Flight!Takes, Flight!NoRun
    <3> QED BY <3>3 DEF Flight!FlightNext
  <2>4. CASE Running(k)
    <3>1. Flight!Overtakes(k)
      <4>1. CASE slots[k].queued = NoRun
        BY <1>6, <2>1, <2>2, <2>4, <4>1 DEF Running, Flight!Overtakes, Flight!NoRun
      <4>2. CASE slots[k].queued # NoRun
        <5>1. got = slots[k].queued /\ UNCHANGED <<made, [r \in RunId |-> state[r].key]>>
          BY <1>6, <4>2
        <5> QED BY <2>1, <2>2, <2>4, <4>2, <5>1 DEF Running, Flight!Overtakes, Flight!NoRun
      <4> QED BY <4>1, <4>2
    <3> QED BY <3>1 DEF Flight!FlightNext
  <2> QED BY <2>3, <2>4
<1> QED BY <1>6, <1>9, <1>10, <1>11, <1>12, <1>14 DEF FlightInv

LEMMA QueuesFlight ==
    ASSUME IInv, LifeInv, FlightInv, NEW k \in Key, NEW got \in RunId, Queues(k, got)
    PROVE  FlightInv' /\ [Flight!FlightNext]_(Flight!flightVars)
<1> USE ConstantsAssumption DEF NoRun
<1>1. /\ got = QueuedOrNew(slots[k]) /\ Make(got, k)
      /\ \A j \in Key \ {k} : slots'[j] = slots[j]
      /\ slots'[k].running = slots[k].running /\ slots'[k].queued = got
      /\ slots[k].running # NoRun
      /\ UNCHANGED <<job, todo, record>>
  BY DEF Queues, Running
<1>2. slots \in [Key -> Slot] /\ got # NoRun
  BY DEF IInv, TypeOK, RunId
<1>3. /\ made \in Nat /\ made' \in Nat /\ made <= made' /\ got <= made'
      /\ \A r \in RunId : state'[r].end = state[r].end /\ state'[r].to = state[r].to
      /\ state[got].end = "Open" /\ ~Spoken(got)
      /\ slots[k].queued = NoRun => Flight!New(k) /\ got = made + 1
      /\ slots[k].queued # NoRun => got = slots[k].queued /\ UNCHANGED <<made, state>>
      /\ FreshOpen'
  BY <1>1, MadeFlight
<1>4. LeadsNowhere'
  BY <1>1, <1>3 DEF FlightInv, LeadsNowhere
<1>5. LeftUnspoken'
  <2> SUFFICES ASSUME NEW r \in RunId, NEW j \in Key, r \in {slots'[j].running, slots'[j].queued}
               PROVE  state'[r].end = "Open" /\ ~Spoken(r)'
    BY DEF LeftUnspoken, InSlot
  <2>1. Spoken(r)' = Spoken(r)
    BY <1>1 DEF Spoken
  <2>2. r = got \/ r \in {slots[j].running, slots[j].queued}
    BY <1>1
  <2> QED BY <1>3, <2>1, <2>2 DEF FlightInv, LeftUnspoken, InSlot
<1>6. QueuedNotLive'
  <2> SUFFICES ASSUME NEW j \in Key, slots'[j].queued # NoRun
               PROVE  job[slots'[j].queued].task = "none"
    BY <1>1 DEF QueuedNotLive
  <2>1. CASE slots'[j].queued = slots[j].queued
    BY <2>1 DEF FlightInv, QueuedNotLive
  <2>2. CASE slots'[j].queued # slots[j].queued
    <3>1. j = k /\ slots'[j].queued = got /\ got = made + 1
      BY <1>1, <1>3, <2>2
    <3> QED BY <1>3, <3>1 DEF IInv, TableSound, OnlyMadeRuns
  <2> QED BY <2>1, <2>2
<1>7. StoredAlone'
  <2> SUFFICES ASSUME NEW w \in todo, NEW i \in 1..Len(w), w[i].end = "Stored"
               PROVE  /\ state'[w[i].run].end = "Open" /\ job[w[i].run].task = "settled"
                      /\ \A v \in todo : \A j \in 1..Len(v) :
                              v[j].op = "finish" /\ v[j].run = w[i].run => v = w /\ j = i
    BY <1>1 DEF StoredAlone
  <2>1. w[i].run \in RunId
    BY WordLeads DEF LifeInv
  <2> QED BY <1>3, <2>1 DEF FlightInv, StoredAlone
<1>8. Kept' = Kept
  BY <1>1, <1>3, KeptSame
<1>9. [Flight!FlightNext]_(Flight!flightVars)
  <2>1. CASE slots[k].queued = NoRun
    <3>1. UNCHANGED <<Flight!stored, Flight!words>>
      BY <1>1, <1>3, <1>8 DEF Flight!stored, Flight!words
    <3>2. /\ UNCHANGED [j \in Key |-> slots[j].running]
          /\ [j \in Key |-> slots'[j].queued] = [[j \in Key |-> slots[j].queued] EXCEPT ![k] = got]
      BY <1>1
    <3>3. Flight!Queues(k)
      BY <1>1, <1>3, <2>1, <3>1, <3>2 DEF Flight!Queues, Flight!NoRun
    <3> QED BY <3>3 DEF Flight!FlightNext
  <2>2. CASE slots[k].queued # NoRun
    <3>1. \A j \in Key : slots'[j].running = slots[j].running /\ slots'[j].queued = slots[j].queued
      BY <1>1, <1>3, <2>2
    <3>2. UNCHANGED <<made, state, record>>
      BY <1>1, <1>3, <2>2
    <3> QED BY <1>8, <3>1, <3>2, FlightStill
  <2> QED BY <2>1, <2>2
<1> QED BY <1>3, <1>4, <1>5, <1>6, <1>7, <1>9 DEF FlightInv

\* A mark tells nobody anything, nor does an eviction.
LEMMA MarksFlight ==
    ASSUME FlightInv, Marks \/ Leaves
    PROVE  FlightInv' /\ [Flight!FlightNext]_(Flight!flightVars)
<1>1. /\ \A j \in Key : slots'[j].running = slots[j].running /\ slots'[j].queued = slots[j].queued
      /\ UNCHANGED <<made, state, job, todo>>
  BY DEF Marks, Leaves, tableVars
<1>2. FreshOpen' /\ LeadsNowhere' /\ QueuedNotLive' /\ StoredAlone'
  BY <1>1 DEF FlightInv, FreshOpen, LeadsNowhere, QueuedNotLive, StoredAlone
<1>3. LeftUnspoken'
  BY <1>1 DEF FlightInv, LeftUnspoken, InSlot, Spoken
<1>4. Kept' = Kept
  BY <1>1, KeptSame
<1>5. CASE UNCHANGED record
  BY <1>1, <1>2, <1>3, <1>4, <1>5, FlightStill DEF FlightInv
<1>6. ASSUME NEW k \in Key, record[k] # NoRun, record' = [record EXCEPT ![k] = NoRun]
      PROVE  Flight!FlightNext
  <2>1. UNCHANGED <<Flight!table, Kept, Flight!words>>
    BY <1>1, <1>4 DEF Flight!table, Flight!words
  <2> QED BY <1>6, <2>1 DEF Flight!FlightNext, Flight!Evicts, Flight!NoRun, NoRun
<1> QED BY <1>2, <1>3, <1>5, <1>6 DEF FlightInv, Marks, Leaves

-----------------------------------------------------------------------------
(* A run ends.                                                               *)

\* A run whose task is live is in no slot but its instance's, in flight there.
LEMMA LiveInFlight ==
    ASSUME IInv, FlightInv, NEW r \in RunId, job[r].task = "live", NEW j \in Key,
           r \in {slots[j].running, slots[j].queued}
    PROVE  j = state[r].key /\ slots[j].running = r
<1>1. j = state[r].key
  BY DEF IInv, TableSound, SlotsOwnTheirRuns, RunId, NoRun
<1>2. slots[j].queued # r
  BY DEF FlightInv, QueuedNotLive, RunId, NoRun
<1> QED BY <1>1, <1>2

\* Of whom it is said that it was stored, in its run's own words.
LEMMA StoredWord ==
    ASSUME IInv, LifeInv, FlightInv, NEW w \in todo, NEW j \in 1..Len(w), w[j].end = "Stored"
    PROVE  /\ w[j].run \in RunId /\ Spoken(w[j].run) /\ w[j].op = "finish"
           /\ state[w[j].run].end = "Open" /\ job[w[j].run].task = "settled"
           /\ \A k \in Key : w[j].run \notin {slots[k].running, slots[k].queued}
<1>1. w[j].run \in RunId /\ w[j].op = "finish"
  BY ElementOfTodo DEF FlightInv, LeadsNowhere, IInv, Effect
<1>2. Spoken(w[j].run)
  BY <1>1 DEF Spoken
<1> QED BY <1>1, <1>2 DEF FlightInv, StoredAlone, LeftUnspoken, InSlot

LEMMA SettlesBehindFlight ==
    ASSUME IInv, LifeInv, FlightInv, NEW r \in RunId, job[r].task = "live", SettlesBehind(r)
    PROVE  FlightInv' /\ UNCHANGED Flight!flightVars
<1>1. /\ slots[state[r].key].running # r
      /\ job' = [job EXCEPT ![r].task = "settled"]
      /\ UNCHANGED <<slots, made, state, record>>
  BY DEF SettlesBehind
<1>2. PICK new : new = <<Finish(r, "Dropped", NoRun)>> /\ todo' = todo \cup {new}
  BY DEF SettlesBehind
<1>3. \A i \in 1..Len(new) : /\ new[i].op = "finish" /\ new[i].run = r
                             /\ new[i].end = "Dropped" /\ new[i].to = NoRun
  <2>1. Len(new) = 1 /\ new[1] = Finish(r, "Dropped", NoRun)
    BY <1>2
  <2>2. \A i \in 1..Len(new) : i = 1
    BY <2>1
  <2> QED BY <2>1, <2>2 DEF Finish
<1>4. job \in [RunId -> Job] /\ slots \in [Key -> Slot]
  BY DEF IInv, TypeOK
<1>5. FreshOpen' /\ LeadsNowhere'
  BY <1>1, <1>2, <1>3 DEF FlightInv, FreshOpen, LeadsNowhere
<1>6. LeftUnspoken'
  <2> SUFFICES ASSUME NEW q \in RunId, InSlot(q)
               PROVE  state[q].end = "Open" /\ ~Spoken(q)'
    BY <1>1 DEF LeftUnspoken, InSlot
  <2>1. q # r
    BY <1>1, LiveInFlight DEF InSlot
  <2>2. Spoken(q)' => Spoken(q)
    BY <1>2, <1>3, <2>1, SpokenGrows
  <2> QED BY <2>2 DEF FlightInv, LeftUnspoken
<1>7. QueuedNotLive'
  <2> SUFFICES ASSUME NEW j \in Key, slots[j].queued # NoRun
               PROVE  job'[slots[j].queued].task = "none"
    BY <1>1 DEF QueuedNotLive
  <2>1. slots[j].queued # r /\ slots[j].queued \in RunId /\ job[slots[j].queued].task = "none"
    BY <1>4 DEF FlightInv, QueuedNotLive, Slot
  <2> QED BY <1>1, <1>4, <2>1
<1>8. StoredAlone'
  <2>1. \A w \in todo : \A j \in 1..Len(w) : w[j].end = "Stored" =>
            /\ state'[w[j].run].end = "Open" /\ job'[w[j].run].task = "settled"
            /\ w[j].run # r
    BY <1>1, <1>4, StoredWord
  <2>2. \A i \in 1..Len(new) : new[i].op = "finish" =>
            \A w \in todo : \A j \in 1..Len(w) : w[j].end = "Stored" => w[j].run # new[i].run
    BY <1>3, <2>1
  <2>3. \A i \in 1..Len(new) : new[i].end # "Stored"
    BY <1>3
  <2> QED BY <1>2, <2>1, <2>2, <2>3, StoredStaysAlone
<1>9. Kept' = Kept
  <2>1. \A i \in 1..Len(new) : new[i].end # "Stored"
    BY <1>3
  <2> QED BY <1>1, <1>2, <2>1, KeptStays
<1> QED BY <1>1, <1>5, <1>6, <1>7, <1>8, <1>9, FlightStill DEF FlightInv

\* The words w say at most one thing of run r.
SaidOnce(r, w) == \A i, j \in 1..Len(w) : w[i].run = r /\ w[j].run = r => i = j

LEMMA SettledOnce ==
    ASSUME NEW s, NEW r, NEW end, NEW to, NEW w, s.queued # r,
           \/ s.queued # NoRun /\ w = <<Finish(r, end, to), Launch(s.queued)>>
           \/ w = Farewell(s, r, end, to)
    PROVE  SaidOnce(r, w)
<1> USE DEF SaidOnce
<1>1. PICK q : q = s.queued
  OBVIOUS
<1>2. CASE w = <<Finish(r, end, to)>>
  BY <1>2
<1>3. ASSUME NEW last, w = <<Finish(r, end, to), last>>, last.run = q
      PROVE  SaidOnce(r, w)
  <2>1. Len(w) = 2 /\ w[2] = last
    BY <1>3
  <2>2. \A i \in 1..Len(w) : i = 1 \/ i = 2
    BY <2>1
  <2> QED BY <1>1, <1>3, <2>1, <2>2
<1>4. \/ w = <<Finish(r, end, to)>>
      \/ w = <<Finish(r, end, to), Launch(q)>>
      \/ w = <<Finish(r, end, to), Finish(q, "Dropped", NoRun)>>
  BY <1>1 DEF Farewell
<1>5. Launch(q).run = q /\ Finish(q, "Dropped", NoRun).run = q
  BY DEF Launch, Finish
<1> QED BY <1>2, <1>3, <1>4, <1>5

LEMMA SettlesAheadFlight ==
    ASSUME IInv, LifeInv, FlightInv, NEW r \in RunId, job[r].task = "live",
           NEW end \in End, NEW to \in RunId \cup {NoRun}, SettlesAhead(r, end, to)
    PROVE  FlightInv' /\ Flight!FlightNext
<1> USE DEF NoRun
<1>1. PICK k \in Key : k = state[r].key
  BY BegunHasKey
<1>2. PICK s \in Slot : s = slots[k]
  BY DEF IInv, TypeOK
<1>3. /\ s.running = r /\ end # "Open"
      /\ to = IF end = "Moved" THEN s.queued ELSE NoRun
      /\ \A q \in RunId \ {r, s.queued} : job'[q] = job[q]
      /\ job'[r].task = "settled"
      /\ record' = IF end = "Stored" THEN [record EXCEPT ![k] = r] ELSE record
      /\ UNCHANGED <<made, state>>
  BY <1>1, <1>2 DEF SettlesAhead
<1>4. PICK new :
        /\ todo' = todo \cup {new}
        /\ \/ /\ s.queued # NoRun /\ new = <<Finish(r, end, to), Launch(s.queued)>>
              /\ slots' = [slots EXCEPT ![k] = InFlightOnly(s.queued)]
           \/ /\ new = Farewell(s, r, end, to)
              /\ slots' = [slots EXCEPT ![k] = NoSlot]
  BY <1>1, <1>2 DEF SettlesAhead
<1>5. /\ slots'[k].running \in {NoRun, s.queued} /\ slots'[k].queued = NoRun
      /\ slots'[k].running # NoRun => new = <<Finish(r, end, to), Launch(s.queued)>>
      /\ \A j \in Key \ {k} : slots'[j] = slots[j]
  BY <1>4 DEF IInv, TypeOK, InFlightOnly, NoSlot
<1>6. s.queued # r /\ (s.queued # NoRun => s.queued \in RunId)
  BY <1>2, <1>3 DEF IInv, TableSound, QueuedBehindAnother, Slot, RunId
<1>7. SettledWords(new, r, end, to, s.queued)
  BY <1>4, SettledSaid
<1>8. \A i \in 1..Len(new) :
        \/ /\ new[i].op = "finish" /\ new[i].run = r /\ new[i].end = end /\ new[i].to = to
        \/ /\ s.queued # NoRun /\ new[i].run = s.queued /\ new[i].to = NoRun
           /\ new[i].op = "launch" => new[i].end = "Open"
           /\ new[i].end \in {"Open", "Dropped"}
  BY <1>7 DEF SettledWords, Finish, Launch
<1>9. /\ InSlot(r) /\ (s.queued # NoRun => InSlot(s.queued))
      /\ state[r].end = "Open" /\ ~Spoken(r)
  BY <1>2, <1>3 DEF FlightInv, LeftUnspoken, InSlot
<1>10. \A j \in Key \ {k} : \A q \in RunId :
            q \in {slots[j].running, slots[j].queued} => q # r /\ q # s.queued
  BY <1>2, <1>3 DEF IInv, TableSound, SlotsOwnTheirRuns, RunId
<1>11. FreshOpen' /\ LeadsNowhere'
  <2>1. FreshOpen'
    BY <1>3 DEF FlightInv, FreshOpen
  <2>2. \A i \in 1..Len(new) : (new[i].end # "Moved" => new[i].to = NoRun)
                                 /\ (new[i].op = "launch" => new[i].end = "Open")
    BY <1>3, <1>8
  <2>3. LeadsNowhere'
    BY <1>3, <1>4, <2>2 DEF FlightInv, LeadsNowhere
  <2> QED BY <2>1, <2>3
<1>12. ASSUME NEW q \in RunId
       PROVE  Spoken(q)' => Spoken(q) \/ q = r \/ (q = s.queued /\ \E i \in 1..Len(new) :
                                            new[i].op = "finish" /\ new[i].run = q)
  BY <1>4, <1>8, SpokenGrows
<1>13. LeftUnspoken'
  <2> SUFFICES ASSUME NEW q \in RunId, NEW j \in Key, q \in {slots'[j].running, slots'[j].queued}
               PROVE  state[q].end = "Open" /\ ~Spoken(q)'
    BY <1>3 DEF LeftUnspoken, InSlot
  <2>1. CASE j # k
    <3>1. q \in {slots[j].running, slots[j].queued} /\ q # r /\ q # s.queued
      BY <1>5, <1>10, <2>1
    <3> QED BY <1>12, <3>1 DEF FlightInv, LeftUnspoken, InSlot
  <2>2. CASE j = k
    <3>1. q = s.queued /\ s.queued # NoRun /\ q = slots'[k].running
      BY <1>5, <2>2 DEF RunId
    <3>2. new = <<Finish(r, end, to), Launch(s.queued)>>
      BY <1>5, <3>1
    <3>3. \A i \in 1..Len(new) : ~(new[i].op = "finish" /\ new[i].run = q)
      <4>1. Len(new) = 2 /\ new[1] = Finish(r, end, to) /\ new[2] = Launch(q)
        BY <3>1, <3>2
      <4>2. \A i \in 1..Len(new) : i = 1 \/ i = 2
        BY <4>1
      <4> QED BY <1>6, <3>1, <4>1, <4>2 DEF Finish, Launch
    <3>4. state[q].end = "Open" /\ ~Spoken(q)
      BY <1>9, <3>1 DEF FlightInv, LeftUnspoken
    <3> QED BY <1>6, <1>12, <3>1, <3>3, <3>4
  <2> QED BY <2>1, <2>2
<1>14. QueuedNotLive'
  <2> SUFFICES ASSUME NEW j \in Key, slots'[j].queued # NoRun
               PROVE  job'[slots'[j].queued].task = "none"
    BY DEF QueuedNotLive
  <2>1. j # k /\ slots'[j].queued = slots[j].queued /\ slots[j].queued \in RunId
    BY <1>5 DEF IInv, TypeOK, Slot
  <2>2. slots[j].queued # r /\ slots[j].queued # s.queued
    BY <1>10, <2>1
  <2> QED BY <1>3, <2>1, <2>2 DEF FlightInv, QueuedNotLive
<1>15. StoredAlone'
  <2>1. \A w \in todo : \A j \in 1..Len(w) : w[j].end = "Stored" =>
            /\ state'[w[j].run].end = "Open" /\ job'[w[j].run].task = "settled"
            /\ w[j].run # r /\ w[j].run # s.queued
    <3> SUFFICES ASSUME NEW w \in todo, NEW j \in 1..Len(w), w[j].end = "Stored"
                 PROVE  /\ state'[w[j].run].end = "Open" /\ job'[w[j].run].task = "settled"
                        /\ w[j].run # r /\ w[j].run # s.queued
      OBVIOUS
    <3>1. /\ w[j].run \in RunId
          /\ state[w[j].run].end = "Open" /\ job[w[j].run].task = "settled"
          /\ w[j].run # r /\ w[j].run # s.queued
      BY <1>2, <1>3, StoredWord
    <3> QED BY <1>3, <3>1
  <2>2. \A i \in 1..Len(new) : new[i].op = "finish" =>
            \A w \in todo : \A j \in 1..Len(w) : w[j].end = "Stored" => w[j].run # new[i].run
    BY <1>8, <2>1
  <2>3. \A i \in 1..Len(new) : new[i].end = "Stored" =>
            /\ state'[new[i].run].end = "Open" /\ job'[new[i].run].task = "settled"
            /\ ~Spoken(new[i].run)
            /\ \A j \in 1..Len(new) : new[j].op = "finish" /\ new[j].run = new[i].run => j = i
    <3> SUFFICES ASSUME NEW i \in 1..Len(new), new[i].end = "Stored"
                 PROVE  /\ state'[new[i].run].end = "Open" /\ job'[new[i].run].task = "settled"
                        /\ ~Spoken(new[i].run)
                        /\ \A j \in 1..Len(new) : new[j].run = new[i].run => j = i
      OBVIOUS
    <3>1. new[i].run = r
      BY <1>8
    <3>2. \A j \in 1..Len(new) : new[j].run = r => j = i
      <4>1. \/ s.queued # NoRun /\ new = <<Finish(r, end, to), Launch(s.queued)>>
            \/ new = Farewell(s, r, end, to)
        BY <1>4
      <4>2. s.queued # r
        BY <1>6
      <4>3. SaidOnce(r, new)
        BY <4>1, <4>2, SettledOnce
      <4> QED BY <3>1, <4>3 DEF SaidOnce
    <3> QED BY <1>3, <1>9, <3>1, <3>2
  <2>4. \A w \in todo : \A j \in 1..Len(w) : w[j].end = "Stored" =>
            state'[w[j].run].end = "Open" /\ job'[w[j].run].task = "settled"
    BY <2>1
  <2>5. todo' = todo \cup {new}
    BY <1>4
  <2> QED BY <2>2, <2>3, <2>4, <2>5, StoredStaysAlone
<1>16. Flight!Ends(k)
  <2>1. \/ [j \in Key |-> slots'[j].running] =
             [[j \in Key |-> slots[j].running] EXCEPT ![k] = slots[k].queued]
        \/ [j \in Key |-> slots'[j].running] =
             [[j \in Key |-> slots[j].running] EXCEPT ![k] = NoRun]
    BY <1>2, <1>5
  <2>2. [j \in Key |-> slots'[j].queued] = [[j \in Key |-> slots[j].queued] EXCEPT ![k] = NoRun]
    BY <1>5
  <2>3. \A q \in RunId : state'[q].end = "Stored" <=> state[q].end = "Stored"
    BY <1>3
  <2>4. \/ record' = [record EXCEPT ![k] = r] /\ Kept' = Kept \cup {r}
        \/ UNCHANGED <<record, Kept>>
    <3>1. CASE end = "Stored"
      <4>0. PICK R \in SUBSET RunId : R = {r}
        OBVIOUS
      <4>1. \A q \in RunId : SaysStored(new, q) <=> q \in R
        <5>1. \E i \in 1..Len(new) : new[i].run = r
          BY <1>7 DEF SettledWords, Mentioned
        <5>2. \A i \in 1..Len(new) : new[i].run = r => new[i].end = end
          BY <1>6, <1>8
        <5>3. \A i \in 1..Len(new) : new[i].end = "Stored" => new[i].run = r
          BY <1>8
        <5> QED BY <3>1, <4>0, <5>1, <5>2, <5>3 DEF SaysStored
      <4>2. todo' = todo \cup {new}
        BY <1>4
      <4>3. Kept' = Kept \cup R
        BY <2>3, <4>1, <4>2, KeptGrows
      <4>4. record' = [record EXCEPT ![k] = r]
        BY <1>3, <3>1
      <4> QED BY <4>0, <4>3, <4>4
    <3>2. CASE end # "Stored"
      <4>1. \A i \in 1..Len(new) : new[i].end # "Stored"
        BY <1>8, <3>2
      <4>2. Kept' = Kept
        BY <1>4, <2>3, <4>1, KeptStays
      <4> QED BY <1>3, <3>2, <4>2
    <3> QED BY <3>1, <3>2
  <2>5. slots[k].running = r /\ r # NoRun
    BY <1>2, <1>3 DEF RunId
  <2>6. UNCHANGED <<made, [q \in RunId |-> state[q].key], Flight!words>>
    BY <1>3 DEF Flight!words
  <2> QED BY <2>1, <2>2, <2>4, <2>5, <2>6 DEF Flight!Ends, Flight!stored, Flight!NoRun
<1> QED BY <1>11, <1>13, <1>14, <1>15, <1>16 DEF FlightInv, Flight!FlightNext

-----------------------------------------------------------------------------
(* Someone does the first thing it has left to do.                           *)

\* What is left to say was to be said before, by the same or by who said the
\* first of it; and each word is left in one place.
LEMMA WordsLeft ==
    ASSUME IInv, NEW w \in todo, Work(w)
    PROVE  /\ \A v \in todo' : \A i \in 1..Len(v) :
                \E u \in todo, j \in Nat :
                    /\ j \in 1..Len(u) /\ v[i] = u[j] /\ ~(u = w /\ j = 1)
                    /\ IF u = w THEN v = Tail(w) /\ j = i + 1 ELSE v = u /\ j = i
           /\ \A v \in todo : \A i \in 1..Len(v) :
                \/ v = w /\ i = 1
                \/ \E u \in todo' : \E j \in 1..Len(u) : u[j] = v[i]
<1>1. todo' = (todo \ {w}) \cup (IF Len(w) = 1 THEN {} ELSE {Tail(w)})
  BY DEF Work
<1>2. /\ \A v \in todo' : \A i \in 1..Len(v) :
            \/ v \in todo /\ v # w
            \/ v = Tail(w) /\ i + 1 \in 1..Len(w) /\ v[i] = w[i + 1]
      /\ \A v \in todo : \A i \in 1..Len(v) :
            \/ v = w /\ i = 1
            \/ v \in todo'
            \/ v = w /\ Tail(w) \in todo' /\ i - 1 \in 1..Len(Tail(w)) /\ Tail(w)[i - 1] = w[i]
  BY <1>1, WorkLeaves DEF IInv
<1>3. ASSUME NEW v \in todo', NEW i \in 1..Len(v)
      PROVE  \E u \in todo, j \in Nat :
                /\ j \in 1..Len(u) /\ v[i] = u[j] /\ ~(u = w /\ j = 1)
                /\ IF u = w THEN v = Tail(w) /\ j = i + 1 ELSE v = u /\ j = i
  <2>1. i \in Nat /\ i + 1 \in Nat /\ i + 1 # 1
    OBVIOUS
  <2>2. CASE v \in todo /\ v # w
    BY <2>1, <2>2
  <2>3. CASE v = Tail(w) /\ i + 1 \in 1..Len(w) /\ v[i] = w[i + 1]
    BY <2>1, <2>3
  <2> QED BY <1>2, <2>2, <2>3
<1>4. ASSUME NEW v \in todo, NEW i \in 1..Len(v), ~(v = w /\ i = 1)
      PROVE  \E u \in todo' : \E j \in 1..Len(u) : u[j] = v[i]
  <2>1. CASE v \in todo'
    BY <2>1
  <2>2. CASE v = w /\ Tail(w) \in todo' /\ i - 1 \in 1..Len(Tail(w)) /\ Tail(w)[i - 1] = w[i]
    BY <2>2
  <2> QED BY <1>2, <1>4, <2>1, <2>2
<1> QED BY <1>3, <1>4

LEMMA WorksFlight ==
    ASSUME IInv, LifeInv, FlightInv, NEW w \in todo, Work(w)
    PROVE  FlightInv' /\ [Flight!FlightNext]_(Flight!flightVars)
<1> USE DEF NoRun
<1> DEFINE do == Head(w)
<1>1. /\ do \in Effect /\ do = w[1] /\ 1 \in 1..Len(w)
      /\ job \in [RunId -> Job] /\ state \in [RunId -> State] /\ slots \in [Key -> Slot]
  BY EffectsShrink DEF IInv, TypeOK
<1>2. UNCHANGED <<slots, made, record>>
  BY DEF Work, dataVars
<1>3. PICK q \in RunId : q = do.run
  BY <1>1 DEF Effect
<1>4. /\ q <= made
      /\ do.op = "finish" => do.end # "Open"
      /\ do.end = "Moved" => do.to \in RunId /\ LeadsOn(q, do.to)
      /\ do.end # "Moved" => do.to = NoRun
  BY <1>1, <1>3, WordLeads DEF LifeInv, FlightInv, LeadsNowhere
<1>5. \/ /\ do.op = "finish" /\ state[q].end = "Open"
         /\ state' = [state EXCEPT ![q] = [key |-> @.key, end |-> do.end, to |-> do.to]]
         /\ UNCHANGED job
      \/ do.op = "finish" /\ state[q].end # "Open" /\ UNCHANGED <<state, job>>
      \/ do.op = "launch" /\ job' = [job EXCEPT ![q].task = "live"] /\ UNCHANGED state
  BY <1>3 DEF Work
<1>6. /\ \A r \in RunId : r # q \/ do.op = "launch" => state'[r] = state[r]
      /\ \A r \in RunId : state'[r].key = state[r].key
      /\ state'[q] = state[q] \/ (state'[q].end = do.end /\ state'[q].to = do.to)
  BY <1>1, <1>5
<1>7. do.op = "finish" => Spoken(q)
  BY <1>1, <1>3 DEF Spoken
<1>8. \A r \in RunId : InSlot(r) => state'[r] = state[r] /\ (do.op = "finish" => r # q)
  BY <1>1, <1>6, <1>7 DEF FlightInv, LeftUnspoken, Effect
<1>9. /\ \A v \in todo' : \A i \in 1..Len(v) :
            \E u \in todo, j \in Nat :
                /\ j \in 1..Len(u) /\ v[i] = u[j] /\ ~(u = w /\ j = 1)
                /\ IF u = w THEN v = Tail(w) /\ j = i + 1 ELSE v = u /\ j = i
      /\ \A v \in todo : \A i \in 1..Len(v) :
            \/ v = w /\ i = 1
            \/ \E u \in todo' : \E j \in 1..Len(u) : u[j] = v[i]
  BY WordsLeft
<1>10. FreshOpen'
  BY <1>2, <1>4, <1>6 DEF FlightInv, FreshOpen, TypeOK, IInv, RunId
<1>11. LeadsNowhere'
  <2>1. \A r \in RunId : state'[r].end # "Moved" => state'[r].to = NoRun
    BY <1>4, <1>6 DEF FlightInv, LeadsNowhere
  <2>2. \A v \in todo' : \A i \in 1..Len(v) :
            /\ v[i].end # "Moved" => v[i].to = NoRun
            /\ v[i].op = "launch" => v[i].end = "Open"
    BY <1>9 DEF FlightInv, LeadsNowhere
  <2> QED BY <2>1, <2>2 DEF LeadsNowhere
<1>12. LeftUnspoken'
  <2> SUFFICES ASSUME NEW r \in RunId, InSlot(r)
               PROVE  state'[r].end = "Open" /\ ~Spoken(r)'
    BY <1>2 DEF LeftUnspoken, InSlot
  <2>1. state'[r].end = "Open" /\ ~Spoken(r)
    BY <1>8 DEF FlightInv, LeftUnspoken
  <2>2. Spoken(r)' => Spoken(r)
    <3> SUFFICES ASSUME NEW v \in todo', NEW i \in 1..Len(v), v[i].op = "finish", v[i].run = r
                 PROVE  Spoken(r)
      BY DEF Spoken
    <3>1. PICK u \in todo, j \in Nat : j \in 1..Len(u) /\ v[i] = u[j]
      BY <1>9
    <3> QED BY <3>1 DEF Spoken
  <2> QED BY <2>1, <2>2
<1>13. QueuedNotLive'
  <2> SUFFICES ASSUME NEW k \in Key, slots[k].queued # NoRun
               PROVE  job'[slots[k].queued].task = "none"
    BY <1>2 DEF QueuedNotLive
  <2>1. job[slots[k].queued].task = "none" /\ slots[k].queued \in RunId
    BY <1>1 DEF FlightInv, QueuedNotLive, Slot
  <2>2. do.op = "launch" => slots[k].queued # q
    BY <1>1, <1>3 DEF IInv, TableSound, LaunchedIsNotQueued
  <2> QED BY <1>1, <1>5, <2>1, <2>2
<1>14. do.op = "launch" => stamp[q] = NoStamp
  BY <1>1, <1>3 DEF LifeInv, LookLife, LaunchedOnce, StampsKept
<1>15. StoredAlone'
  <2> SUFFICES ASSUME NEW v \in todo', NEW i \in 1..Len(v), v[i].end = "Stored"
               PROVE  /\ state'[v[i].run].end = "Open" /\ job'[v[i].run].task = "settled"
                      /\ \A x \in todo' : \A j \in 1..Len(x) :
                            x[j].op = "finish" /\ x[j].run = v[i].run => x = v /\ j = i
    BY DEF StoredAlone
  <2>1. PICK u \in todo, m \in Nat :
            /\ m \in 1..Len(u) /\ v[i] = u[m] /\ ~(u = w /\ m = 1)
            /\ IF u = w THEN v = Tail(w) /\ m = i + 1 ELSE v = u /\ m = i
    BY <1>9
  <2>2. PICK r \in RunId : r = v[i].run
    BY <2>1, StoredWord
  <2>3. /\ state[r].end = "Open" /\ job[r].task = "settled" /\ stamp[r] # NoStamp
        /\ \A x \in todo : \A j \in 1..Len(x) :
                x[j].op = "finish" /\ x[j].run = r => x = u /\ j = m
    BY <2>1, <2>2 DEF FlightInv, StoredAlone, LifeInv, LookLife, StoredStamped
  <2>4. q # r
    BY <1>1, <1>3, <1>14, <2>1, <2>3 DEF Effect
  <2>5. state'[r].end = "Open" /\ job'[r].task = "settled"
    BY <1>1, <1>5, <1>6, <2>3, <2>4
  <2>6. ASSUME NEW x \in todo', NEW j \in 1..Len(x), x[j].op = "finish", x[j].run = r
        PROVE  x = v /\ j = i
    <3>1. PICK y \in todo, n \in Nat :
              /\ n \in 1..Len(y) /\ x[j] = y[n] /\ ~(y = w /\ n = 1)
              /\ IF y = w THEN x = Tail(w) /\ n = j + 1 ELSE x = y /\ n = j
      BY <1>9
    <3>2. y = u /\ n = m
      BY <2>3, <2>6, <3>1
    <3> QED BY <2>1, <3>1, <3>2
  <2> QED BY <2>2, <2>5, <2>6
<1>16. FlightInv'
  BY <1>10, <1>11, <1>12, <1>13, <1>15 DEF FlightInv
<1>17. (do.op = "finish" /\ state[q].end = "Open") => (do.end = "Stored" <=> q \in Kept)
  <2> SUFFICES ASSUME do.op = "finish", state[q].end = "Open"
               PROVE  do.end = "Stored" <=> q \in Kept
    OBVIOUS
  <2>1. do.end = "Stored" => q \in Kept
    BY <1>1, <1>3 DEF Kept
  <2>2. ASSUME q \in Kept PROVE do.end = "Stored"
    <3>1. PICK u \in todo : \E j \in 1..Len(u) : u[j].run = q /\ u[j].end = "Stored"
      BY <2>2 DEF Kept
    <3>2. PICK j \in 1..Len(u) : u[j].run = q /\ u[j].end = "Stored"
      BY <3>1
    <3>3. u = w /\ j = 1
      BY <1>1, <1>3, <3>2 DEF FlightInv, StoredAlone
    <3> QED BY <1>1, <3>2, <3>3
  <2> QED BY <2>1, <2>2
<1>18. do.end = "Stored" => do.op = "finish" /\ state[q].end = "Open" /\ state'[q].end = "Stored"
  <2>1. do.end = "Stored" => do.op = "finish" /\ state[q].end = "Open"
    BY <1>1, <1>3, StoredWord
  <2> QED BY <1>1, <1>5, <2>1
<1>19. Kept' = Kept
  <2>1. ASSUME NEW r \in Kept PROVE r \in Kept'
    <3>1. CASE state[r].end = "Stored"
      <4>1. state'[r].end = "Stored"
        BY <1>1, <1>5, <3>1 DEF Kept
      <4> QED BY <2>1, <4>1 DEF Kept
    <3>2. ASSUME NEW u \in todo, NEW j \in 1..Len(u), u[j].run = r, u[j].end = "Stored"
          PROVE  r \in Kept'
      <4>1. CASE u = w /\ j = 1
        BY <1>1, <1>3, <1>18, <2>1, <3>2, <4>1 DEF Kept
      <4>2. CASE \E x \in todo' : \E n \in 1..Len(x) : x[n] = u[j]
        BY <2>1, <3>2, <4>2 DEF Kept
      <4> QED BY <1>9, <4>1, <4>2
    <3> QED BY <2>1, <3>1, <3>2 DEF Kept
  <2>2. ASSUME NEW r \in RunId, r \in Kept' PROVE r \in Kept
    <3>1. CASE state'[r].end = "Stored"
      <4>1. CASE state[r].end = "Stored"
        BY <4>1 DEF Kept
      <4>2. CASE state[r].end # "Stored"
        <5>1. r = q /\ do.end = "Stored"
          BY <1>6, <3>1, <4>2
        <5> QED BY <1>17, <1>18, <5>1
      <4> QED BY <4>1, <4>2
    <3>2. ASSUME NEW v \in todo', NEW i \in 1..Len(v), v[i].run = r, v[i].end = "Stored"
          PROVE  r \in Kept
      <4>1. PICK u \in todo, j \in Nat : j \in 1..Len(u) /\ v[i] = u[j]
        BY <1>9
      <4> QED BY <3>2, <4>1 DEF Kept
    <3> QED BY <2>2, <3>1, <3>2 DEF Kept
  <2> QED BY <2>1, <2>2 DEF Kept
<1>20. [Flight!FlightNext]_(Flight!flightVars)
  <2>1. CASE UNCHANGED state
    <3>1. /\ \A k \in Key : slots'[k].running = slots[k].running /\ slots'[k].queued = slots[k].queued
          /\ \A r \in RunId : state'[r] = state[r]
          /\ UNCHANGED <<made, record>>
      BY <1>2, <2>1
    <3> QED BY <1>19, <3>1, FlightStill
  <2>2. CASE /\ do.op = "finish" /\ state[q].end = "Open"
             /\ state' = [state EXCEPT ![q] = [key |-> @.key, end |-> do.end, to |-> do.to]]
    <3>1. /\ [r \in RunId |-> state'[r].end] = [[r \in RunId |-> state[r].end] EXCEPT ![q] = do.end]
          /\ [r \in RunId |-> state'[r].to] = [[r \in RunId |-> state[r].to] EXCEPT ![q] = do.to]
          /\ [r \in RunId |-> state'[r].key] = [r \in RunId |-> state[r].key]
      BY <1>1, <2>2
    <3>2. UNCHANGED <<Flight!table, Flight!stored>>
      BY <1>2, <1>19, <3>1 DEF Flight!table, Flight!stored
    <3>3. ~InSlot(q)
      BY <1>8, <2>2
    <3>4. ~Flight!InTable(q)
      BY <3>3 DEF InSlot, Flight!InTable
    <3>5. CASE do.end = "Moved"
      <4>1. /\ do.to \in (q + 1)..made /\ state[do.to].key = state[q].key /\ do.to \in RunId
        BY <1>4, <3>5 DEF LeadsOn, RunId, IInv, TypeOK
      <4>2. q \notin Kept
        BY <1>17, <2>2, <3>5
      <4>3. Flight!Tells(q)
        BY <1>4, <2>2, <3>1, <3>2, <3>4, <3>5, <4>1, <4>2 DEF Flight!Tells
      <4> QED BY <4>3 DEF Flight!FlightNext, Flight!Run, RunId
    <3>6. CASE do.end # "Moved"
      <4>1. do.end \in Flight!Word
        BY <1>1, <1>4, <2>2, <3>6 DEF Effect, End, Outcome, Flight!Word
      <4>2. [r \in RunId |-> state'[r].to] = [r \in RunId |-> state[r].to]
        <5>1. state'[q].to = NoRun /\ state[q].to = NoRun
          BY <1>1, <1>4, <2>2, <3>6 DEF FlightInv, LeadsNowhere
        <5> QED BY <1>6, <5>1
      <4>3. do.end = "Stored" <=> q \in Kept
        BY <1>17, <2>2
      <4>4. Flight!Tells(q)
        BY <1>4, <2>2, <3>1, <3>2, <3>4, <4>1, <4>2, <4>3 DEF Flight!Tells
      <4> QED BY <4>4 DEF Flight!FlightNext, Flight!Run, RunId
    <3> QED BY <3>5, <3>6
  <2> QED BY <1>5, <2>1, <2>2
<1> QED BY <1>16, <1>20

-----------------------------------------------------------------------------
(* The refinement.                                                           *)

LEMMA FlightInit == Init => FlightInv /\ Flight!FlightInit
<1> SUFFICES ASSUME Init PROVE FlightInv /\ Flight!FlightInit
  OBVIOUS
<1>1. /\ made = 0 /\ todo = {}
      /\ \A r \in RunId : state[r] = OpenFor(NoKey)
      /\ \A k \in Key : slots[k] = NoSlot
      /\ record = [k \in Key |-> NoRun]
  BY DEF Init
<1>2. /\ \A r \in RunId : state[r].key = NoKey /\ state[r].end = "Open" /\ state[r].to = NoRun
      /\ \A k \in Key : slots[k].running = NoRun /\ slots[k].queued = NoRun
  BY <1>1 DEF OpenFor, NoSlot, InFlightOnly
<1>3. FlightInv
  BY <1>1, <1>2 DEF FlightInv, FreshOpen, LeadsNowhere, LeftUnspoken, InSlot, QueuedNotLive,
                    StoredAlone, NoRun, RunId
<1>4. Kept = {}
  BY <1>1, <1>2 DEF Kept
<1>5. Flight!FlightInit
  BY <1>1, <1>2, <1>4 DEF Flight!FlightInit, Flight!Run, Flight!NoRun, RunId, NoRun
<1> QED BY <1>3, <1>5

\* A step that has one of the shapes is a step of SingleFlight, whoever takes it.
LEMMA ShapeFlight ==
    ASSUME IInv, LifeInv, FlightInv, Shape
    PROVE  FlightInv' /\ [Flight!FlightNext]_(Flight!flightVars)
<1>1. CASE Leaves \/ Marks
  BY <1>1, MarksFlight
<1>2. ASSUME NEW k \in Key, NEW got \in RunId, Hands(k, got) \/ Queues(k, got)
      PROVE  FlightInv' /\ [Flight!FlightNext]_(Flight!flightVars)
  BY <1>2, HandsFlight, QueuesFlight
<1>3. ASSUME NEW r \in RunId, Settles(r)
      PROVE  FlightInv' /\ [Flight!FlightNext]_(Flight!flightVars)
  <2>1. job[r].task = "live"
    BY <1>3 DEF Settles
  <2>2. CASE SettlesBehind(r)
    BY <2>1, <2>2, SettlesBehindFlight
  <2>3. ASSUME NEW end \in End, NEW to \in RunId \cup {NoRun}, SettlesAhead(r, end, to)
        PROVE  FlightInv' /\ [Flight!FlightNext]_(Flight!flightVars)
    BY <2>1, <2>3, SettlesAheadFlight
  <2> QED BY <1>3, <2>2, <2>3 DEF Settles
<1>4. ASSUME NEW w \in todo, Work(w)
      PROVE  FlightInv' /\ [Flight!FlightNext]_(Flight!flightVars)
  BY <1>4, WorksFlight
<1> QED BY <1>1, <1>2, <1>3, <1>4 DEF Shape, TableStep, Works

\* The run table implements SingleFlight.
THEOREM KeepsFlightEver == Spec => KeepsFlight
<1>1. IInv /\ LifeInv /\ FlightInv /\ [Next]_vars =>
        (IInv /\ LifeInv /\ FlightInv)' /\ [Flight!FlightNext]_(Flight!flightVars)
  BY LifeStep, ShapeFlight
<1>2. Init => IInv /\ LifeInv /\ FlightInv /\ Flight!FlightInit
  BY InitInv, LifeInit, FlightInit
<1> QED BY <1>1, <1>2, PTL DEF Spec, KeepsFlight, Flight!FlightSpec

\* It does through reloads, which overtake the runs in flight, queue behind them
\* and drop what is queued.
THEOREM FlightThroughReloads == ReloadSpec => KeepsFlight
<1>1. ReloadInv /\ FlightInv /\ [ReloadNext]_allVars =>
        (ReloadInv /\ FlightInv)' /\ [Flight!FlightNext]_(Flight!flightVars)
  BY ReloadStepInv, ShapeFlight DEF ReloadInv
<1>2. Init /\ ReloadInit => ReloadInv /\ FlightInv /\ Flight!FlightInit
  BY ReloadInitInv, FlightInit
<1> QED BY <1>1, <1>2, PTL DEF ReloadSpec, KeepsFlight, Flight!FlightSpec
=============================================================================
