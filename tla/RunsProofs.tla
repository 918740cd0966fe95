----------------------------- MODULE RunsProofs -----------------------------
(***************************************************************************)
(* Proofs about the run table (module Runs), for every set of instances,   *)
(* every way they call one another and every bound.                        *)
(***************************************************************************)
EXTENDS Runs, SequenceTheorems, TLAPS

(* What starting a run does to the table, whichever way it is started. *)
LEMMA StartType ==
    ASSUME TypeOK,
           NEW want \in Want, NEW e \in Epoch, NEW k \in Key, NEW got \in 0..MaxRun,
           Start(want, e, k, got)
    PROVE  /\ slots' \in [Key -> Slot]
           /\ made' \in 0..MaxRun
           /\ state' \in [RunId -> State]
           /\ job' \in [RunId -> Job]
           /\ todo' \in SUBSET Effects
<1> USE ConstantsAssumption DEF NoRun, RunId, Epoch
<1>1. CASE StartJoin(want, e, k, got) \/ StartNone(want, e, k, got)
  BY <1>1 DEF TypeOK, StartJoin, StartNone, tableVars
<1>2. ASSUME NEW r \in RunId, Make(r, k), r = got
      PROVE  made' \in 0..MaxRun /\ state' \in [RunId -> State]
  <2>1. made' \in 0..MaxRun
    BY <1>2 DEF TypeOK, Make
  <2>2. OpenFor(k) \in State
    BY DEF OpenFor, State, End
  <2>3. state' = state \/ state' = [state EXCEPT ![r] = OpenFor(k)]
    BY <1>2 DEF Make
  <2> QED BY <1>2, <2>1, <2>2, <2>3 DEF TypeOK
<1>3. CASE StartReplace(want, e, k, got)
  <2>1. /\ got \in RunId
        /\ Make(got, k)
        /\ slots[k] \in Slot
        /\ slots[k].running \in RunId
    BY <1>3 DEF StartReplace, Make, TypeOK, Running, Slot
  <2>2. slots' \in [Key -> Slot]
    <3>1. InFlightOnly(got) \in Slot
      BY <2>1 DEF InFlightOnly, Slot
    <3> QED BY <1>3, <3>1 DEF StartReplace, TypeOK
  <2>3. job' \in [RunId -> Job]
    <3> DEFINE q == WithQueued(slots[k], e, FALSE, got)
    <3>1. q.epoch \in Epoch /\ q.forced \in BOOLEAN
      BY <2>1 DEF WithQueued, Slot, Newest
    <3>2. Begun(q.epoch, e, q.forced) \in Job
      BY <3>1 DEF Begun, Job
    <3>3. job' = [job EXCEPT ![got] = Begun(q.epoch, e, q.forced)]
      BY <1>3 DEF StartReplace
    <3> QED BY <3>2, <3>3 DEF TypeOK
  <2>4. todo' \in SUBSET Effects
    <3>1. Handover(slots[k].running, got) \in Effects
      BY <2>1 DEF Handover, Finish, Launch, Effects, Effect, End, Outcome
    <3> QED BY <1>3, <3>1 DEF StartReplace, TypeOK
  <2> QED BY <1>2, <2>1, <2>2, <2>3, <2>4
<1>4. CASE StartQueue(want, e, k, got)
  <2>1. /\ got \in RunId
        /\ Make(got, k)
        /\ slots[k] \in Slot
    BY <1>4 DEF StartQueue, Make, TypeOK
  <2>2. WithQueued(slots[k], e, want = "Forced", got) \in Slot
    BY <2>1 DEF WithQueued, Slot, Newest
  <2> QED BY <1>2, <1>4, <2>1, <2>2 DEF StartQueue, TypeOK
<1>5. CASE StartNew(want, e, k, got)
  <2>1. /\ got \in RunId
        /\ Make(got, k)
    BY <1>5 DEF StartNew, Make
  <2>2. InFlightOnly(got) \in Slot
    BY <2>1 DEF InFlightOnly, Slot
  <2>3. Begun(e, e, want = "Forced") \in Job
    BY DEF Begun, Job
  <2>4. <<Launch(got)>> \in Effects
    BY <2>1 DEF Launch, Effects, Effect, End
  <2> QED BY <1>2, <1>5, <2>1, <2>2, <2>3, <2>4 DEF StartNew, TypeOK
<1> QED BY <1>1, <1>3, <1>4, <1>5 DEF Start

-----------------------------------------------------------------------------
(* Every step keeps the types. *)

IInv == TypeOK /\ TableSound /\ OvertakenHasNext /\ WaitersPointed

\* A run that is anywhere past being queued was made, for an instance.
LEMMA BegunHasKey ==
    ASSUME IInv, NEW r \in RunId, thread[r].pc # "none" \/ job[r].task # "none"
    PROVE  r <= made /\ state[r].key \in Key
BY DEF IInv, TableSound, OnlyMadeRuns

\* A thread stays one whichever of its fields changes; so does a job.
LEMMA ThreadFields ==
    ASSUME NEW t \in Thread
    PROVE  /\ \A pc \in {"none", "spawned", "executing", "waiting", "done"} :
                    [t EXCEPT !.pc = pc] \in Thread
           /\ \A on \in RunId \cup {NoRun} : [t EXCEPT !.on = on] \in Thread
           /\ \A fault \in BOOLEAN : [t EXCEPT !.fault = fault] \in Thread
BY DEF Thread

LEMMA JobTask ==
    ASSUME NEW j \in Job
    PROVE  \A task \in {"none", "live", "settled"} : [j EXCEPT !.task = task] \in Job
BY DEF Job

LEMMA RunThreadType ==
    ASSUME IInv, NEW r \in RunId,
           \/ Begin(r)
           \/ \E k \in Key : Call(r, k)
           \/ ThreadFollows(r)
           \/ ThreadWakes(r)
    PROVE  TypeOK'
<1>0. thread \in [RunId -> Thread]
  BY DEF IInv, TypeOK
<1>1. CASE Begin(r)
  <2>1. state[r].key \in Key
    BY <1>1, BegunHasKey DEF Begin
  <2>2. stamp' \in [RunId -> Version \cup {NoStamp}]
    BY <1>1, <2>1 DEF Begin, IInv, TypeOK
  <2>3. thread' \in [RunId -> Thread]
    BY <1>1, <1>0, ThreadFields DEF Begin
  <2> QED BY <1>1, <2>2, <2>3
          DEF Begin, IInv, TypeOK, tableVars, dataVars, envVars
<1>2. ASSUME NEW k \in Key, Call(r, k)
      PROVE  TypeOK'
  <2>1. PICK got \in 0..MaxRun :
            /\ Start(WantFor(k), job[r].body, k, got)
            /\ \/ got = NoRun /\ UNCHANGED <<thread, waits>>
               \/ /\ \E fault \in BOOLEAN : thread' = [thread EXCEPT ![r].fault = fault]
                  /\ UNCHANGED waits
               \/ /\ got # NoRun
                  /\ waits' = [waits EXCEPT ![r] = k]
                  /\ thread' = [thread EXCEPT ![r] = InThread("waiting", got, FALSE)]
    BY <1>2 DEF Call
  <2>2. WantFor(k) \in Want /\ job[r].body \in Epoch
    BY DEF WantFor, Want, IInv, TypeOK, Job
  <2>3. /\ slots' \in [Key -> Slot]
        /\ made' \in 0..MaxRun
        /\ state' \in [RunId -> State]
        /\ job' \in [RunId -> Job]
        /\ todo' \in SUBSET Effects
    BY <2>1, <2>2, StartType DEF IInv
  <2>4. thread' \in [RunId -> Thread] /\ waits' \in [RunId -> Key \cup {NoKey}]
    <3>1. got # NoRun => InThread("waiting", got, FALSE) \in Thread
      BY DEF InThread, Thread, RunId, NoRun
    <3>2. ASSUME NEW fault \in BOOLEAN, thread' = [thread EXCEPT ![r].fault = fault]
          PROVE  thread' \in [RunId -> Thread]
      BY <1>0, <3>2, ThreadFields
    <3>3. waits \in [RunId -> Key \cup {NoKey}]
      BY DEF IInv, TypeOK
    <3> QED BY <1>0, <2>1, <3>1, <3>2, <3>3
  <2> QED BY <1>2, <2>3, <2>4 DEF Call, IInv, TypeOK, dataVars, envVars
<1>3. CASE ThreadFollows(r)
  <2>1. state[thread[r].on].to \in RunId \cup {NoRun}
    <3>1. thread[r].on \in RunId
      BY <1>3 DEF ThreadFollows, IInv, TypeOK, Thread, WaitersPointed, WaitersOnRuns
    <3> QED BY <3>1 DEF IInv, TypeOK, State
  <2>2. thread' \in [RunId -> Thread]
    BY <1>0, <1>3, <2>1, ThreadFields DEF ThreadFollows
  <2> QED BY <1>3, <2>2 DEF ThreadFollows, IInv, TypeOK, tableVars, dataVars, envVars
<1>4. CASE ThreadWakes(r)
  <2>1. InThread("executing", NoRun, state[thread[r].on].end = "Fault") \in Thread
    BY DEF InThread, Thread
  <2> QED BY <1>4, <2>1 DEF ThreadWakes, IInv, TypeOK, tableVars, dataVars, envVars
<1> QED BY <1>1, <1>2, <1>3, <1>4

LEMMA SettleType ==
    ASSUME IInv, NEW r \in RunId, NEW res \in Result, Settle(r, res)
    PROVE  /\ slots' \in [Key -> Slot]
           /\ job' \in [RunId -> Job]
           /\ todo' \in SUBSET Effects
           /\ record' \in [Key -> RunId \cup {NoRun}]
           /\ schedule' \in [Key -> Schedule \cup {NoSource}]
           /\ failures' \in [Key -> Failures]
<1> USE ConstantsAssumption DEF NoRun, RunId, Epoch
<1> DEFINE k == state[r].key
<1> DEFINE s == slots[k]
<1>1. /\ r <= made
      /\ k \in Key
      /\ s \in Slot
  BY BegunHasKey DEF Settle, IInv, TypeOK
<1>2. [job EXCEPT ![r].task = "settled"] \in [RunId -> Job]
  <2>1. job \in [RunId -> Job]
    BY DEF IInv, TypeOK
  <2> QED BY <2>1, JobTask
<1>3. CASE SettleReplaced(r)
  <2>1. <<Finish(r, "Dropped", NoRun)>> \in Effects
    BY DEF Finish, Effects, Effect, End, Outcome
  <2> QED BY <1>2, <1>3, <2>1 DEF SettleReplaced, IInv, TypeOK
<1>4. CASE SettleOwn(r, res)
  <2> DEFINE end == EndOf(s, r, k, res)
  <2> DEFINE to  == IF end = "Moved" THEN s.queued ELSE NoRun
  <2>1. end \in End
    <3>1. RecordOutcome(job[r].epoch, k, res) \in End \/ res = "None"
      BY DEF RecordOutcome, End, Outcome, Result
    <3> QED BY <1>1, <3>1 DEF EndOf, End, Outcome, Slot
  <2>2. Recorded(r, end)
    BY <1>4 DEF SettleOwn
  <2>3. record' \in [Key -> RunId \cup {NoRun}]
    BY <2>2 DEF Recorded, IInv, TypeOK
  <2>4. schedule' \in [Key -> Schedule \cup {NoSource}]
    <3>1. source[job[r].epoch][k] \in Schedule \cup {NoSource}
      BY <1>1 DEF IInv, TypeOK, Job
    <3> QED BY <2>2, <3>1 DEF Recorded, IInv, TypeOK
  <2>5. failures' \in [Key -> Failures]
    <3>1. NoFailures \in Failures
      BY DEF NoFailures, Failures
    <3>2. FailedOnce(failures[k], job[r].epoch) \in Failures
      <4>1. failures[k].count \in 0..Threshold /\ job[r].epoch \in Epoch
        BY <1>1 DEF IInv, TypeOK, Failures, Job
      <4> QED BY <4>1 DEF FailedOnce, Failures
    <3>3. \/ failures' = [failures EXCEPT ![k] = NoFailures]
          \/ failures' = [failures EXCEPT ![k] = FailedOnce(failures[k], job[r].epoch)]
          \/ failures' = failures
      BY <2>2 DEF Recorded
    <3> QED BY <3>1, <3>2, <3>3 DEF IInv, TypeOK
  <2>6. s.queued \in RunId \cup {NoRun} /\ to \in RunId \cup {NoRun}
    BY <1>1 DEF Slot
  <2>7. Finish(r, end, to) \in Effect
    BY <2>1, <2>6 DEF Finish, Effect
  <2>8. CASE QueuedStarts(s, k, res)
    <3>1. s.queued \in RunId /\ s.epoch \in Epoch /\ s.forced \in BOOLEAN
      BY <1>1, <2>6, <2>8 DEF QueuedStarts, Slot
    <3>2. InFlightOnly(s.queued) \in Slot
      BY <3>1 DEF InFlightOnly, Slot
    <3>3. Begun(s.epoch, s.epoch, s.forced) \in Job
      BY <3>1 DEF Begun, Job
    <3>4. <<Finish(r, end, to), Launch(s.queued)>> \in Effects
      BY <2>7, <3>1 DEF Launch, Effects, Effect, End
    <3>5. /\ slots' = [slots EXCEPT ![k] = InFlightOnly(s.queued)]
          /\ job' = [job EXCEPT ![r].task = "settled",
                                ![s.queued] = Begun(s.epoch, s.epoch, s.forced)]
          /\ todo' = todo \cup {<<Finish(r, end, to), Launch(s.queued)>>}
      BY <1>4, <2>8 DEF SettleOwn
    <3>6. job' \in [RunId -> Job]
      BY <1>2, <3>1, <3>3, <3>5
    <3> QED BY <2>3, <2>4, <2>5, <3>2, <3>4, <3>5, <3>6 DEF IInv, TypeOK
  <2>9. CASE ~QueuedStarts(s, k, res)
    <3>1. /\ slots' = [slots EXCEPT ![k] = NoSlot]
          /\ job' = [job EXCEPT ![r].task = "settled"]
          /\ todo' = todo \cup {Farewell(s, r, end, to)}
      BY <1>4, <2>9 DEF SettleOwn
    <3>2. NoSlot \in Slot
      BY DEF NoSlot, InFlightOnly, Slot
    <3>3. Farewell(s, r, end, to) \in Effects
      <4>1. s.queued # NoRun => Finish(s.queued, "Dropped", NoRun) \in Effect
        BY <2>6 DEF Finish, Effect, End, Outcome
      <4> QED BY <2>7, <4>1 DEF Farewell, Effects
    <3> QED BY <1>2, <2>3, <2>4, <2>5, <3>1, <3>2, <3>3 DEF IInv, TypeOK
  <2> QED BY <2>8, <2>9
<1> QED BY <1>3, <1>4 DEF Settle

LEMMA RunEndType ==
    ASSUME IInv, NEW r \in RunId,
           Ended(r) \/ ReturnsLate(r) \/ Timeout(r) \/ DropTask(r)
    PROVE  TypeOK'
<1>1. ASSUME NEW res \in Result, Returned(r, res)
      PROVE  thread' \in [RunId -> Thread]
  <2>1. InThread("done", NoRun, FALSE) \in Thread
    BY DEF InThread, Thread
  <2> QED BY <1>1, <2>1 DEF Returned, IInv, TypeOK
<1>2. CASE Ended(r)
  <2>1. PICK res \in Result : Returned(r, res) /\ Settle(r, res)
    BY <1>2 DEF Ended
  <2> QED BY <1>1, <2>1, SettleType DEF Returned, Settle, IInv, TypeOK, envVars
<1>3. CASE ReturnsLate(r)
  BY <1>1, <1>3 DEF ReturnsLate, Returned, IInv, TypeOK, tableVars, dataVars, envVars
<1>4. ASSUME NEW res \in Result, Settle(r, res), UNCHANGED <<runVars, caller, envVars>>
      PROVE  TypeOK'
  BY <1>4, SettleType DEF Settle, IInv, TypeOK, runVars, envVars
<1>5. CASE Timeout(r)
  BY <1>4, <1>5 DEF Timeout, Result
<1>6. CASE DropTask(r)
  BY <1>4, <1>6 DEF DropTask, Result
<1> QED BY <1>2, <1>3, <1>5, <1>6

\* Whoever let go of the lock has something left to do, and then less.
LEMMA EffectsShrink ==
    ASSUME NEW w \in Effects
    PROVE  /\ Head(w) \in Effect
           /\ Len(w) \in Nat \ {0}
           /\ Len(w) # 1 => Tail(w) \in Effects
           /\ Len(w) # 1 => \A i \in 1..Len(Tail(w)) : i + 1 \in 1..Len(w) /\ Tail(w)[i] = w[i + 1]
           /\ Head(w) = w[1]
<1>1. w \in Seq(Effect) /\ w # << >>
  BY DEF Effects
<1>2. Len(w) \in Nat \ {0}
  BY <1>1
<1>3. Head(w) = w[1] /\ Head(w) \in Effect
  BY <1>1, HeadTailProperties
<1>4. /\ Tail(w) \in Seq(Effect)
      /\ Len(Tail(w)) = Len(w) - 1
      /\ \A i \in 1..Len(Tail(w)) : Tail(w)[i] = w[i + 1]
  BY <1>1, HeadTailProperties
<1>5. Len(w) # 1 => Tail(w) # << >>
  <2>1. Len(<< >>) = 0
    BY EmptySeq
  <2>2. Len(w) # 1 => Len(Tail(w)) # 0
    BY <1>2, <1>4
  <2> QED BY <2>1, <2>2
<1> QED BY <1>2, <1>3, <1>4, <1>5 DEF Effects

LEMMA WorkType ==
    ASSUME IInv, NEW w \in todo, Work(w)
    PROVE  TypeOK'
<1> DEFINE do == Head(w)
<1>1. w \in Effects
  BY DEF IInv, TypeOK
<1>2. do \in Effect /\ (Len(w) # 1 => Tail(w) \in Effects)
  BY <1>1, EffectsShrink
<1>3. todo' \in SUBSET Effects
  BY <1>2 DEF Work, IInv, TypeOK
<1>4. CASE do.op = "finish"
  <2>1. do.run \in RunId /\ do.end \in End /\ do.to \in RunId \cup {NoRun}
    BY <1>2 DEF Effect
  <2>2. state' \in [RunId -> State]
    <3> DEFINE said == [key |-> state[do.run].key, end |-> do.end, to |-> do.to]
    <3>1. state' = state \/ state' = [state EXCEPT ![do.run] = said]
      BY <1>4 DEF Work
    <3>2. said \in State
      BY <2>1 DEF IInv, TypeOK, State
    <3> QED BY <2>1, <3>1, <3>2 DEF IInv, TypeOK
  <2> QED BY <1>3, <1>4, <2>2 DEF Work, IInv, TypeOK, dataVars, envVars
<1>5. CASE do.op = "launch"
  <2>1. do.run \in RunId
    BY <1>2 DEF Effect
  <2>2. /\ job' = [job EXCEPT ![do.run].task = "live"]
        /\ thread' = [thread EXCEPT ![do.run].pc = "spawned"]
        /\ UNCHANGED state
    BY <1>5 DEF Work
  <2>3. PICK r \in RunId : r = do.run
    BY <2>1
  <2>0. job \in [RunId -> Job] /\ thread \in [RunId -> Thread]
    BY DEF IInv, TypeOK
  <2>4. [job EXCEPT ![r].task = "live"] \in [RunId -> Job]
    BY <2>0, JobTask
  <2>5. [thread EXCEPT ![r].pc = "spawned"] \in [RunId -> Thread]
    BY <2>0, ThreadFields
  <2>6. job' \in [RunId -> Job] /\ thread' \in [RunId -> Thread]
    BY <2>2, <2>3, <2>4, <2>5
  <2> QED BY <1>3, <1>5, <2>2, <2>6 DEF Work, IInv, TypeOK, dataVars, envVars
<1> QED BY <1>4, <1>5 DEF Work

LEMMA CallerType ==
    ASSUME IInv, NEW c \in Caller, CallerStep(c)
    PROVE  TypeOK'
<1> USE ConstantsAssumption DEF NoRun, RunId, Epoch
<1>1. ASSUME NEW e \in 0..inForce, NEW want \in Asks, NEW k \in Key, Ask(c, e, want, k)
      PROVE  TypeOK'
  <2>1. PICK got \in 0..MaxRun :
            /\ Start(want, e, k, got)
            /\ \/ caller' = caller
               \/ /\ got # NoRun
                  /\ caller' = [caller EXCEPT ![c] =
                            [pc |-> "waiting", on |-> got,
                             need |-> NeedOf(want, k), got |-> "None"]]
    BY <1>1 DEF Ask
  <2>2. e \in Epoch /\ want \in Want
    BY <1>1 DEF IInv, TypeOK, Want
  <2>3. /\ slots' \in [Key -> Slot]
        /\ made' \in 0..MaxRun
        /\ state' \in [RunId -> State]
        /\ job' \in [RunId -> Job]
        /\ todo' \in SUBSET Effects
    BY <2>1, <2>2, StartType DEF IInv
  <2>4. NeedOf(want, k) \in Version \cup {NoStamp}
    BY DEF NeedOf, IInv, TypeOK
  <2>5. [pc |-> "waiting", on |-> got, need |-> NeedOf(want, k), got |-> "None"] \in Request
    BY <2>4 DEF Request
  <2>6. caller' \in [Caller -> Request]
    BY <2>1, <2>5 DEF IInv, TypeOK
  <2> QED BY <1>1, <2>3, <2>6 DEF Ask, IInv, TypeOK, runVars, dataVars, envVars
<1>2. CASE CallerFollows(c)
  <2>1. caller[c].on \in RunId
    BY <1>2 DEF CallerFollows, IInv, TypeOK, Request, WaitersPointed, WaitersOnRuns
  <2>2. PICK r \in RunId \cup {NoRun} : r = state[caller[c].on].to
    BY <2>1 DEF IInv, TypeOK, State
  <2>3. [caller EXCEPT ![c].on = r] \in [Caller -> Request]
    <3>1. caller[c] \in Request
      BY DEF IInv, TypeOK
    <3>2. [caller[c] EXCEPT !.on = r] \in Request
      BY <3>1 DEF Request
    <3> QED BY <3>2 DEF IInv, TypeOK
  <2> QED BY <1>2, <2>2, <2>3 DEF CallerFollows, IInv, TypeOK, tableVars, runVars, dataVars, envVars
<1>3. CASE Answered(c)
  <2>1. PICK out \in Outcome : out = state[caller[c].on].end
    BY <1>3 DEF Answered
  <2>2. [caller[c] EXCEPT !.pc = "answered", !.got = out] \in Request
    <3>1. caller[c] \in Request
      BY DEF IInv, TypeOK
    <3> QED BY <3>1 DEF Request
  <2>3. caller' \in [Caller -> Request]
    BY <1>3, <2>1, <2>2 DEF Answered, IInv, TypeOK
  <2> QED BY <1>3, <2>3 DEF Answered, IInv, TypeOK, tableVars, runVars, dataVars, envVars
<1>4. CASE GivesUp(c) \/ Moves(c)
  <2>1. Idle \in Request
    BY DEF Idle, Request
  <2>2. caller' \in [Caller -> Request]
    BY <1>4, <2>1 DEF GivesUp, Moves, IInv, TypeOK
  <2> QED BY <1>4, <2>2 DEF GivesUp, Moves, IInv, TypeOK, tableVars, runVars, dataVars, envVars
<1> QED BY <1>1, <1>2, <1>3, <1>4 DEF CallerStep

LEMMA WorldType ==
    ASSUME IInv, WorldStep
    PROVE  TypeOK'
<1> USE ConstantsAssumption DEF NoRun, RunId, Epoch
<1>1. ASSUME NEW e \in 0..inForce, NEW want \in Asks, NEW k \in Key, Fire(e, want, k)
      PROVE  TypeOK'
  <2>1. PICK got \in 0..MaxRun : Start(want, e, k, got)
    BY <1>1 DEF Fire
  <2>2. e \in Epoch /\ want \in Want
    BY <1>1 DEF IInv, TypeOK, Want
  <2>3. /\ slots' \in [Key -> Slot]
        /\ made' \in 0..MaxRun
        /\ state' \in [RunId -> State]
        /\ job' \in [RunId -> Job]
        /\ todo' \in SUBSET Effects
    BY <2>1, <2>2, StartType DEF IInv
  <2> QED BY <1>1, <2>3 DEF Fire, IInv, TypeOK, runVars, dataVars, envVars
<1>2. ASSUME NEW k \in Key, Change(k)
      PROVE  TypeOK'
  <2>1. version' \in [Key -> Version]
    BY <1>2 DEF Change, IInv, TypeOK, Version
  <2> QED BY <1>2, <2>1 DEF Change, IInv, TypeOK, tableVars, runVars, envVars
<1>3. ASSUME NEW k \in Key, Expire(k)
      PROVE  TypeOK'
  <2>1. failures' \in [Key -> Failures]
    <3>1. failures \in [Key -> Failures]
      BY DEF IInv, TypeOK
    <3> QED BY <1>3, <3>1 DEF Expire, Failures
  <2> QED BY <1>3, <2>1 DEF Expire, IInv, TypeOK, tableVars, runVars, envVars
<1>4. ASSUME NEW k \in Key, Forget(k)
      PROVE  TypeOK'
  BY <1>4 DEF Forget, IInv, TypeOK, tableVars, runVars, envVars
<1>5. CASE Stop
  BY <1>5 DEF Stop, IInv, TypeOK, tableVars, runVars, dataVars
<1> QED BY <1>1, <1>2, <1>3, <1>4, <1>5 DEF WorldStep

-----------------------------------------------------------------------------
(* Starting a run keeps the table sound.  Start says nothing of the threads:  *)
(* what the table says of them is said here of the threads as they were.      *)

LEMMA ElementOfTodo ==
    ASSUME TypeOK, NEW w \in todo, NEW i \in 1..Len(w)
    PROVE  w[i] \in Effect /\ w[i].run \in RunId
<1>1. w \in Seq(Effect)
  BY DEF TypeOK, Effects
<1>2. w[i] \in Effect
  BY <1>1, ElementOfSeq
<1> QED BY <1>2 DEF Effect

\* The run a caller is handed, when it was not in flight already: the queued
\* one, or one made now.  It has not begun, and nothing is about to launch it.
LEMMA HandedOut ==
    ASSUME IInv, NEW k \in Key, NEW got \in RunId,
           got = QueuedOrNew(slots[k]), Make(got, k)
    PROVE  /\ got <= made'
           /\ made <= made'
           /\ thread[got].pc = "none"
           /\ state'[got].key = k
           /\ \A r \in RunId : r <= made => state'[r] = state[r]
           /\ \A r \in RunId : r <= made' => r <= made \/ r = got
           /\ \A r \in RunId : state'[r].end = "Moved" =>
                    state[r].end = "Moved" /\ state'[r] = state[r]
           /\ got <= made => slots[k].queued = got
           /\ \A j \in Key : slots[j].running # got
           /\ \A j \in Key \ {k} : slots[j].queued # got
           /\ \A w \in todo : \A i \in 1..Len(w) : w[i].op = "launch" =>
                    w[i].run # got /\ w[i].run <= made
<1> USE ConstantsAssumption DEF NoRun, RunId, IInv
<1>1. made \in 0..MaxRun /\ slots[k] \in Slot /\ state \in [RunId -> State]
  BY DEF TypeOK
<1>2. CASE got = made + 1
  <2>1. made' = got /\ state' = [state EXCEPT ![got] = OpenFor(k)]
    BY <1>2 DEF Make
  <2>2. thread[got].pc = "none"
    BY <1>1, <1>2 DEF TableSound, OnlyMadeRuns
  <2>3. \A j \in Key : slots[j].running # got /\ slots[j].queued # got
    BY <1>1, <1>2 DEF TableSound, SlotsOwnTheirRuns
  <2>4. \A w \in todo : \A i \in 1..Len(w) : w[i].op = "launch" => w[i].run <= made
    BY DEF TableSound, LaunchedIsNotQueued
  <2>5. OpenFor(k).end = "Open" /\ OpenFor(k).key = k
    BY DEF OpenFor
  <2>6. \A w \in todo : \A i \in 1..Len(w) : w[i].op = "launch" => w[i].run # got
    BY <1>1, <1>2, <2>4
  <2>7. \A r \in RunId : r <= made' => r <= made \/ r = got
    BY <1>1, <1>2, <2>1
  <2>8. \A r \in RunId : r # got => state'[r] = state[r]
    BY <1>1, <2>1
  <2>9. state'[got] = OpenFor(k)
    BY <1>1, <2>1
  <2> QED BY <1>1, <1>2, <2>1, <2>2, <2>3, <2>4, <2>5, <2>6, <2>7, <2>8, <2>9
<1>3. CASE got # made + 1
  <2>1. made' = made /\ state' = state /\ got = slots[k].queued
    BY <1>3 DEF Make, QueuedOrNew
  <2>2. got <= made /\ state[got].key = k
    BY <2>1 DEF TableSound, SlotsOwnTheirRuns
  <2>3. thread[got].pc = "none"
    BY <2>1 DEF TableSound, QueuedHasNotBegun
  <2>4. \A j \in Key \ {k} : slots[j].running # got /\ slots[j].queued # got
    BY <2>2 DEF TableSound, SlotsOwnTheirRuns
  <2>5. slots[k].running # got
    <3>1. slots[k].queued # 0
      BY <2>1
    <3> QED BY <2>1, <3>1 DEF TableSound, QueuedBehindAnother
  <2>6. \A w \in todo : \A i \in 1..Len(w) : w[i].op = "launch" =>
            w[i].run # got /\ w[i].run <= made
    BY <2>1 DEF TableSound, LaunchedIsNotQueued
  <2> QED BY <1>1, <2>1, <2>2, <2>3, <2>4, <2>5, <2>6
<1> QED BY <1>2, <1>3

\* Starting a run either leaves the table alone, or hands out a run that is put
\* in flight and launched, or that is left queued behind the one in flight.
LEMMA StartShape ==
    ASSUME IInv,
           NEW want \in Want, NEW e \in Epoch, NEW k \in Key, NEW got \in 0..MaxRun,
           Start(want, e, k, got)
    PROVE  \/ UNCHANGED tableVars
           \/ /\ got \in RunId /\ got = QueuedOrNew(slots[k]) /\ Make(got, k)
              /\ \A j \in Key : j # k => slots'[j] = slots[j]
              /\ \/ slots'[k] = InFlightOnly(got)
                 \/ /\ slots'[k].running = slots[k].running
                    /\ slots[k].running # NoRun
                    /\ slots'[k].queued = got
                    /\ slots'[k].overtaken = slots[k].overtaken
                    /\ UNCHANGED todo
              /\ \A r \in RunId : r # got => job'[r] = job[r]
              /\ \/ UNCHANGED todo
                 \/ todo' = todo \cup {<<Launch(got)>>}
                 \/ slots[k].running # NoRun /\ todo' = todo \cup {Handover(slots[k].running, got)}
<1> USE ConstantsAssumption DEF NoRun, RunId, IInv
<1>1. slots \in [Key -> Slot] /\ job \in [RunId -> Job] /\ made \in 0..MaxRun
  BY DEF TypeOK
<1>2. CASE StartJoin(want, e, k, got) \/ StartNone(want, e, k, got)
  BY <1>2 DEF StartJoin, StartNone
<1>3. CASE StartReplace(want, e, k, got)
  <2>1. /\ got \in RunId /\ got = QueuedOrNew(slots[k]) /\ Make(got, k)
        /\ slots' = [slots EXCEPT ![k] = InFlightOnly(got)]
        /\ todo' = todo \cup {Handover(slots[k].running, got)}
        /\ slots[k].running # NoRun
    BY <1>3 DEF StartReplace, Make, Running
  <2>2. \A r \in RunId : r # got => job'[r] = job[r]
    <3>1. PICK new : job' = [job EXCEPT ![got] = new]
      BY <1>3 DEF StartReplace
    <3> QED BY <1>1, <3>1
  <2> QED BY <1>1, <2>1, <2>2
<1>4. CASE StartQueue(want, e, k, got)
  <2>1. /\ got \in RunId /\ got = QueuedOrNew(slots[k]) /\ Make(got, k)
        /\ slots' = [slots EXCEPT ![k] = WithQueued(slots[k], e, want = "Forced", got)]
        /\ slots[k].running # NoRun
        /\ UNCHANGED <<job, todo>>
    BY <1>4 DEF StartQueue, Make, Running
  <2>2. slots[k] \in Slot
    BY <1>1
  <2>3. /\ slots'[k].running = slots[k].running
        /\ slots'[k].queued = got
        /\ slots'[k].overtaken = slots[k].overtaken
    <3>1. slots'[k] = WithQueued(slots[k], e, want = "Forced", got)
      BY <1>1, <2>1
    <3>2. CASE slots[k].queued = NoRun
      BY <2>2, <3>1, <3>2 DEF WithQueued, Slot
    <3>3. CASE slots[k].queued # NoRun
      BY <2>1, <2>2, <3>1, <3>3 DEF WithQueued, Slot, QueuedOrNew
    <3> QED BY <3>2, <3>3
  <2> QED BY <1>1, <2>1, <2>3
<1>5. CASE StartNew(want, e, k, got)
  <2>1. /\ got \in RunId /\ got = made + 1 /\ Make(got, k)
        /\ slots' = [slots EXCEPT ![k] = InFlightOnly(got)]
        /\ todo' = todo \cup {<<Launch(got)>>}
        /\ slots[k].running = NoRun
    BY <1>5 DEF StartNew, Make, Running
  <2>2. got = QueuedOrNew(slots[k])
    BY <2>1 DEF QueuedOrNew, TableSound, QueuedBehindAnother
  <2>3. \A r \in RunId : r # got => job'[r] = job[r]
    <3>1. PICK new : job' = [job EXCEPT ![got] = new]
      BY <1>5 DEF StartNew
    <3> QED BY <1>1, <3>1
  <2> QED BY <1>1, <2>1, <2>2, <2>3
<1> QED BY <1>2, <1>3, <1>4, <1>5 DEF Start

LEMMA StartSound ==
    ASSUME IInv,
           NEW want \in Want, NEW e \in Epoch, NEW k \in Key, NEW got \in 0..MaxRun,
           Start(want, e, k, got)
    PROVE  /\ SlotsOwnTheirRuns'
           /\ QueuedBehindAnother'
           /\ \A j \in Key : slots'[j].queued # NoRun =>
                    thread[slots'[j].queued].pc = "none"
           /\ LaunchedIsNotQueued'
           /\ \A r \in RunId : IF r <= made' THEN state'[r].key \in Key
                               ELSE thread[r].pc = "none" /\ job'[r].task = "none"
           /\ OvertakenHasNext'
           /\ MovedToRuns'
<1> USE ConstantsAssumption DEF NoRun, IInv
<1>1. CASE UNCHANGED tableVars
  BY <1>1 DEF tableVars, TableSound, SlotsOwnTheirRuns, QueuedBehindAnother,
     QueuedHasNotBegun, LaunchedIsNotQueued, OnlyMadeRuns,
     OvertakenHasNext, WaitersPointed, MovedToRuns
<1>2. CASE ~UNCHANGED tableVars
  <2>1. /\ got \in RunId /\ got = QueuedOrNew(slots[k]) /\ Make(got, k)
        /\ \A j \in Key : j # k => slots'[j] = slots[j]
        /\ \/ slots'[k] = InFlightOnly(got)
           \/ /\ slots'[k].running = slots[k].running
              /\ slots[k].running # NoRun
              /\ slots'[k].queued = got
              /\ slots'[k].overtaken = slots[k].overtaken
              /\ UNCHANGED todo
        /\ \A r \in RunId : r # got => job'[r] = job[r]
        /\ \/ UNCHANGED todo
           \/ todo' = todo \cup {<<Launch(got)>>}
           \/ slots[k].running # NoRun /\ todo' = todo \cup {Handover(slots[k].running, got)}
    BY <1>2, StartShape
  <2>2. /\ got <= made'
        /\ made <= made'
        /\ thread[got].pc = "none"
        /\ state'[got].key = k
        /\ \A r \in RunId : r <= made => state'[r] = state[r]
        /\ \A r \in RunId : r <= made' => r <= made \/ r = got
        /\ \A r \in RunId : state'[r].end = "Moved" =>
                state[r].end = "Moved" /\ state'[r] = state[r]
        /\ \A j \in Key : slots[j].running # got
        /\ \A j \in Key \ {k} : slots[j].queued # got
        /\ \A w \in todo : \A i \in 1..Len(w) : w[i].op = "launch" =>
                w[i].run # got /\ w[i].run <= made
    BY <2>1, HandedOut
  <2>3. \/ /\ slots'[k].running = got
           /\ slots'[k].queued = NoRun
           /\ slots'[k].overtaken = "No"
        \/ /\ slots'[k].running = slots[k].running
           /\ slots[k].running # NoRun
           /\ slots'[k].queued = got
           /\ UNCHANGED todo
    BY <2>1 DEF InFlightOnly
  <2>4. \A j \in Key : {slots[j].running, slots[j].queued} \subseteq RunId \cup {NoRun}
    BY DEF TypeOK, Slot
  <2>5. got # NoRun /\ made \in Nat /\ made' \in Nat
    BY <2>1 DEF RunId, TypeOK, Make
  <2>6. SlotsOwnTheirRuns'
    <3> SUFFICES ASSUME NEW j \in Key,
                        NEW r \in {slots'[j].running, slots'[j].queued}, r # NoRun
                 PROVE  r <= made' /\ state'[r].key = j
      BY DEF SlotsOwnTheirRuns
    <3>1. CASE r = got
      BY <2>1, <2>2, <2>3, <3>1
    <3>2. CASE r # got
      <4>1. r \in {slots[j].running, slots[j].queued}
        BY <2>1, <2>3, <3>2
      <4>2. r \in RunId /\ r <= made /\ state[r].key = j
        BY <2>4, <4>1 DEF TableSound, SlotsOwnTheirRuns
      <4> QED BY <2>2, <2>5, <4>2 DEF RunId
    <3> QED BY <3>1, <3>2
  <2>7. QueuedBehindAnother'
    BY <2>1, <2>2, <2>3, <2>5 DEF TableSound, QueuedBehindAnother
  <2>8. \A j \in Key : slots'[j].queued # NoRun => thread[slots'[j].queued].pc = "none"
    BY <2>1, <2>2, <2>3 DEF TableSound, QueuedHasNotBegun
  <2>9. \A w \in todo' : w \in todo \/ \A i \in 1..Len(w) :
            /\ w[i].op = "launch" => w[i].run = got /\ slots'[k].queued = NoRun
            /\ w[i].end = "Moved" => w[i].to = got
    <3>1. CASE UNCHANGED todo
      BY <3>1
    <3>2. CASE slots'[k].queued = NoRun /\ ~UNCHANGED todo
      <4> SUFFICES ASSUME NEW w \in todo', w \notin todo, NEW i \in 1..Len(w)
                   PROVE  /\ w[i].op = "launch" => w[i].run = got
                          /\ w[i].end = "Moved" => w[i].to = got
        BY <3>2
      <4>1. w = <<Launch(got)>> \/ w = Handover(slots[k].running, got)
        BY <2>1, <3>2
      <4>2. CASE w = <<Launch(got)>>
        BY <4>2 DEF Launch
      <4>3. CASE w = Handover(slots[k].running, got)
        BY <4>3 DEF Handover, Finish, Launch
      <4> QED BY <4>1, <4>2, <4>3
    <3> QED BY <2>3, <3>1, <3>2
  <2>10. LaunchedIsNotQueued'
    <3> SUFFICES ASSUME NEW w \in todo', NEW i \in 1..Len(w), w[i].op = "launch",
                        NEW j \in Key
                 PROVE  w[i].run <= made' /\ slots'[j].queued # w[i].run
      BY DEF LaunchedIsNotQueued
    <3>1. CASE w \in todo
      <4>1. w[i].run # got /\ w[i].run <= made /\ slots[j].queued # w[i].run
        BY <2>2, <3>1 DEF TableSound, LaunchedIsNotQueued
      <4>2. slots'[j].queued \in {slots[j].queued, got, NoRun}
        BY <2>1, <2>3
      <4>3. w[i].run \in RunId
        BY <3>1, ElementOfTodo
      <4> QED BY <2>2, <2>5, <4>1, <4>2, <4>3 DEF RunId
    <3>2. CASE w \notin todo
      <4>1. w[i].run = got /\ slots'[k].queued = NoRun
        BY <2>9, <3>2
      <4>2. slots'[j].queued # got
        BY <2>1, <2>2, <2>5, <4>1
      <4> QED BY <2>2, <4>1, <4>2
    <3> QED BY <3>1, <3>2
  <2>11. \A r \in RunId : IF r <= made' THEN state'[r].key \in Key
                          ELSE thread[r].pc = "none" /\ job'[r].task = "none"
    <3> SUFFICES ASSUME NEW r \in RunId
                 PROVE  IF r <= made' THEN state'[r].key \in Key
                          ELSE thread[r].pc = "none" /\ job'[r].task = "none"
      OBVIOUS
    <3>1. CASE r = got
      BY <2>2, <3>1
    <3>2. CASE r # got /\ r <= made'
      BY <2>2, <3>2 DEF TableSound, OnlyMadeRuns
    <3>3. CASE r # got /\ ~(r <= made')
      BY <2>1, <2>2, <2>5, <3>3 DEF TableSound, OnlyMadeRuns, RunId
    <3> QED BY <3>1, <3>2, <3>3
  <2>12. OvertakenHasNext'
    BY <2>1, <2>2, <2>3, <2>5 DEF OvertakenHasNext
  <2>13. MovedToRuns'
    BY <2>2, <2>5, <2>9 DEF MovedToRuns, WaitersPointed
  <2> QED BY <2>6, <2>7, <2>8, <2>10, <2>11, <2>12, <2>13
<1> QED BY <1>1, <1>2

\* Settling a run leaves its slot alone (it was replaced), empties it, or puts
\* the queued run in flight and launches it.
LEMMA SettleShape ==
    ASSUME IInv, NEW r \in RunId, NEW res \in Result, Settle(r, res)
    PROVE  LET k == state[r].key
               s == slots[k]
           IN
           /\ r <= made /\ k \in Key
           /\ UNCHANGED <<made, state>>
           /\ \A j \in Key : j # k => slots'[j] = slots[j]
           /\ \E end \in End, to \in RunId \cup {NoRun} :
                /\ end = "Moved" => to # NoRun
                /\ \/ UNCHANGED slots /\ todo' = todo \cup {<<Finish(r, end, to)>>}
                   \/ /\ slots'[k] = NoSlot
                      /\ todo' = todo \cup {Farewell(s, r, end, to)}
                   \/ /\ s.queued # NoRun
                      /\ slots'[k] = InFlightOnly(s.queued)
                      /\ todo' = todo \cup {<<Finish(r, end, to), Launch(s.queued)>>}
           /\ \A q \in RunId : q \notin {r, s.queued} => job'[q] = job[q]
<1> USE ConstantsAssumption DEF NoRun, IInv
<1> DEFINE k == state[r].key
<1> DEFINE s == slots[k]
<1>1. r <= made /\ k \in Key /\ s \in Slot
  BY BegunHasKey DEF Settle, TypeOK
<1>2. slots \in [Key -> Slot] /\ job \in [RunId -> Job] /\ UNCHANGED <<made, state>>
  BY DEF Settle, TypeOK
<1>3. CASE SettleReplaced(r)
  <2>1. /\ UNCHANGED slots
        /\ job' = [job EXCEPT ![r].task = "settled"]
        /\ todo' = todo \cup {<<Finish(r, "Dropped", NoRun)>>}
    BY <1>3 DEF SettleReplaced
  <2>2. "Dropped" \in End /\ "Dropped" # "Moved"
    BY DEF End, Outcome
  <2>3. \A q \in RunId : q # r => job'[q] = job[q]
    BY <1>2, <2>1
  <2> QED BY <1>1, <1>2, <2>1, <2>2, <2>3
<1>4. CASE SettleOwn(r, res)
  <2> DEFINE end == EndOf(s, r, k, res)
  <2> DEFINE to  == IF end = "Moved" THEN s.queued ELSE NoRun
  <2>1. end \in End /\ (end = "Moved" => s.overtaken = "Again")
    <3>1. RecordOutcome(job[r].epoch, k, res) \in Outcome \/ res = "None"
      BY DEF RecordOutcome, Outcome, Result
    <3> QED BY <1>1, <3>1 DEF EndOf, End, Outcome, Slot
  <2>2. s.queued \in RunId \cup {NoRun}
    BY <1>1 DEF Slot
  <2>3. to \in RunId \cup {NoRun} /\ (end = "Moved" => to # NoRun)
    BY <1>1, <2>1, <2>2 DEF OvertakenHasNext
  <2>4. CASE QueuedStarts(s, k, res)
    <3>1. /\ slots' = [slots EXCEPT ![k] = InFlightOnly(s.queued)]
          /\ job' = [job EXCEPT ![r].task = "settled",
                                ![s.queued] = Begun(s.epoch, s.epoch, s.forced)]
          /\ todo' = todo \cup {<<Finish(r, end, to), Launch(s.queued)>>}
          /\ s.queued # NoRun
      BY <1>4, <2>4 DEF SettleOwn, QueuedStarts
    <3>2. slots'[k] = InFlightOnly(s.queued) /\ \A j \in Key : j # k => slots'[j] = slots[j]
      BY <1>1, <1>2, <3>1
    <3>3. \A q \in RunId : q \notin {r, s.queued} => job'[q] = job[q]
      BY <1>2, <3>1
    <3> HIDE DEF end, to
    <3> QED BY <1>1, <1>2, <2>1, <2>3, <3>1, <3>2, <3>3
  <2>5. CASE ~QueuedStarts(s, k, res)
    <3>1. /\ slots' = [slots EXCEPT ![k] = NoSlot]
          /\ job' = [job EXCEPT ![r].task = "settled"]
          /\ todo' = todo \cup {Farewell(s, r, end, to)}
      BY <1>4, <2>5 DEF SettleOwn
    <3>2. slots'[k] = NoSlot /\ \A j \in Key : j # k => slots'[j] = slots[j]
      BY <1>1, <1>2, <3>1
    <3>3. \A q \in RunId : q \notin {r, s.queued} => job'[q] = job[q]
      BY <1>2, <3>1
    <3> HIDE DEF end, to
    <3> QED BY <1>1, <1>2, <2>1, <2>3, <3>1, <3>2, <3>3
  <2> QED BY <2>4, <2>5
<1> QED BY <1>3, <1>4 DEF Settle

LEMMA SettleSound ==
    ASSUME IInv, NEW r \in RunId, NEW res \in Result, Settle(r, res)
    PROVE  /\ SlotsOwnTheirRuns'
           /\ QueuedBehindAnother'
           /\ \A j \in Key : slots'[j].queued # NoRun =>
                    thread[slots'[j].queued].pc = "none"
           /\ LaunchedIsNotQueued'
           /\ \A q \in RunId : IF q <= made' THEN state'[q].key \in Key
                               ELSE thread[q].pc = "none" /\ job'[q].task = "none"
           /\ OvertakenHasNext'
           /\ MovedToRuns'
<1> USE ConstantsAssumption DEF NoRun, IInv
<1> DEFINE k == state[r].key
<1> DEFINE s == slots[k]
<1>1. /\ r <= made /\ k \in Key
      /\ UNCHANGED <<made, state>>
      /\ \A j \in Key : j # k => slots'[j] = slots[j]
      /\ \A q \in RunId : q \notin {r, s.queued} => job'[q] = job[q]
  BY SettleShape
<1>2. PICK end \in End, to \in RunId \cup {NoRun} :
        /\ end = "Moved" => to # NoRun
        /\ \/ UNCHANGED slots /\ todo' = todo \cup {<<Finish(r, end, to)>>}
           \/ /\ slots'[k] = NoSlot
              /\ todo' = todo \cup {Farewell(s, r, end, to)}
           \/ /\ s.queued # NoRun
              /\ slots'[k] = InFlightOnly(s.queued)
              /\ todo' = todo \cup {<<Finish(r, end, to), Launch(s.queued)>>}
  BY SettleShape
<1>3. s \in Slot /\ made \in Nat
  BY <1>1 DEF TypeOK
<1>4. \/ UNCHANGED slots
      \/ /\ slots'[k].running \in {NoRun, s.queued}
         /\ slots'[k].queued = NoRun
         /\ slots'[k].overtaken = "No"
  BY <1>2 DEF NoSlot, InFlightOnly
<1>5. SlotsOwnTheirRuns' /\ QueuedBehindAnother' /\ OvertakenHasNext'
  BY <1>1, <1>4 DEF TableSound, SlotsOwnTheirRuns, QueuedBehindAnother, OvertakenHasNext
<1>6. \A j \in Key : slots'[j].queued # NoRun => thread[slots'[j].queued].pc = "none"
  BY <1>1, <1>4 DEF TableSound, QueuedHasNotBegun
<1>7. \A w \in todo' : w \in todo \/ \A i \in 1..Len(w) :
        /\ w[i].op = "launch" => w[i].run = s.queued /\ s.queued # NoRun /\ slots'[k].queued = NoRun
        /\ w[i].end = "Moved" => w[i].to # NoRun
  <2> SUFFICES ASSUME NEW w \in todo', w \notin todo, NEW i \in 1..Len(w)
               PROVE  /\ w[i].op = "launch" => w[i].run = s.queued /\ s.queued # NoRun /\ slots'[k].queued = NoRun
                      /\ w[i].end = "Moved" => w[i].to # NoRun
    OBVIOUS
  <2>1. \/ w = <<Finish(r, end, to)>>
        \/ w = <<Finish(r, end, to), Finish(s.queued, "Dropped", NoRun)>>
        \/ /\ w = <<Finish(r, end, to), Launch(s.queued)>>
           /\ s.queued # NoRun /\ slots'[k].queued = NoRun
    BY <1>2 DEF Farewell, InFlightOnly
  <2>2. CASE w = <<Finish(r, end, to)>>
    BY <1>2, <2>2 DEF Finish
  <2>3. CASE w = <<Finish(r, end, to), Finish(s.queued, "Dropped", NoRun)>>
    BY <1>2, <2>3 DEF Finish
  <2>4. CASE /\ w = <<Finish(r, end, to), Launch(s.queued)>>
             /\ s.queued # NoRun /\ slots'[k].queued = NoRun
    BY <1>2, <2>4 DEF Finish, Launch
  <2> QED BY <2>1, <2>2, <2>3, <2>4
<1>8. MovedToRuns'
  BY <1>1, <1>7 DEF MovedToRuns, WaitersPointed
<1>9. LaunchedIsNotQueued'
  <2> SUFFICES ASSUME NEW w \in todo', NEW i \in 1..Len(w), w[i].op = "launch",
                      NEW j \in Key
               PROVE  w[i].run <= made' /\ slots'[j].queued # w[i].run
    BY <1>1 DEF LaunchedIsNotQueued
  <2>1. CASE w \in todo
    <3>1. w[i].run <= made /\ slots[j].queued # w[i].run /\ w[i].run \in RunId
      BY <2>1, ElementOfTodo DEF TableSound, LaunchedIsNotQueued
    <3> QED BY <1>1, <1>4, <3>1 DEF RunId
  <2>2. CASE w \notin todo
    <3>1. w[i].run = s.queued /\ s.queued # NoRun /\ slots'[k].queued = NoRun
      BY <1>7, <2>2
    <3>2. s.queued <= made /\ state[s.queued].key = k
      BY <1>1, <3>1 DEF TableSound, SlotsOwnTheirRuns
    <3>3. j # k => slots[j].queued # s.queued
      BY <3>1, <3>2 DEF TableSound, SlotsOwnTheirRuns
    <3> QED BY <1>1, <3>1, <3>2, <3>3
  <2> QED BY <2>1, <2>2
<1>10. \A q \in RunId : IF q <= made' THEN state'[q].key \in Key
                        ELSE thread[q].pc = "none" /\ job'[q].task = "none"
  <2> SUFFICES ASSUME NEW q \in RunId
               PROVE  IF q <= made' THEN state'[q].key \in Key
                        ELSE thread[q].pc = "none" /\ job'[q].task = "none"
    OBVIOUS
  <2>1. CASE q <= made
    BY <1>1, <2>1 DEF TableSound, OnlyMadeRuns
  <2>2. CASE ~(q <= made)
    <3>1. q # r /\ q # s.queued
      BY <1>1, <2>2 DEF TableSound, SlotsOwnTheirRuns, RunId
    <3> QED BY <1>1, <2>2, <3>1 DEF TableSound, OnlyMadeRuns
  <2> QED BY <2>1, <2>2
<1> QED BY <1>5, <1>6, <1>8, <1>9, <1>10

-----------------------------------------------------------------------------
(* Every step keeps the table sound, and its waiters on runs.                *)

LEMMA RunThreadSound ==
    ASSUME IInv, NEW r \in RunId,
           \/ Begin(r)
           \/ \E k \in Key : Call(r, k)
           \/ ThreadFollows(r)
           \/ ThreadWakes(r)
    PROVE  TableSound' /\ OvertakenHasNext' /\ WaitersPointed'
<1> USE DEF IInv
<1>1. thread \in [RunId -> Thread] /\ waits \in [RunId -> Key \cup {NoKey}]
  BY DEF TypeOK
<1>2. ASSUME thread[r].pc # "none", thread'[r].pc # "none",
             \A q \in RunId : q # r => thread'[q] = thread[q] /\ waits'[q] = waits[q],
             thread'[r].pc = "waiting" => thread'[r].on # NoRun,
             UNCHANGED caller,
             \/ UNCHANGED tableVars
             \/ \E k \in Key, want \in Want, e \in Epoch, got \in 0..MaxRun :
                    Start(want, e, k, got)
      PROVE  TableSound' /\ OvertakenHasNext' /\ WaitersPointed'
  <2>1. /\ SlotsOwnTheirRuns'
        /\ QueuedBehindAnother'
        /\ \A j \in Key : slots'[j].queued # NoRun => thread[slots'[j].queued].pc = "none"
        /\ LaunchedIsNotQueued'
        /\ \A q \in RunId : IF q <= made' THEN state'[q].key \in Key
                            ELSE thread[q].pc = "none" /\ job'[q].task = "none"
        /\ OvertakenHasNext'
        /\ MovedToRuns'
    <3>1. CASE UNCHANGED tableVars
      BY <3>1 DEF tableVars, TableSound, SlotsOwnTheirRuns, QueuedBehindAnother,
         QueuedHasNotBegun, LaunchedIsNotQueued, OnlyMadeRuns,
         OvertakenHasNext, WaitersPointed, MovedToRuns
    <3> QED BY <1>2, <3>1, StartSound
  <2>2. slots' \in [Key -> Slot]
    <3>1. CASE UNCHANGED tableVars
      BY <3>1 DEF tableVars, TypeOK
    <3> QED BY <1>2, <3>1, StartType
  <2>3. QueuedHasNotBegun'
    BY <1>2, <2>1, <2>2 DEF QueuedHasNotBegun, Slot
  <2>4. OnlyMadeRuns'
    BY <1>2, <2>1 DEF OnlyMadeRuns
  <2>5. WaitsAfterBeginning'
    BY <1>2 DEF TableSound, WaitsAfterBeginning
  <2>6. WaitersOnRuns'
    BY <1>2 DEF WaitersPointed, WaitersOnRuns
  <2> QED BY <2>1, <2>3, <2>4, <2>5, <2>6 DEF TableSound, WaitersPointed
<1>3. CASE Begin(r)
  BY <1>1, <1>2, <1>3 DEF Begin
<1>4. ASSUME NEW k \in Key, Call(r, k)
      PROVE  TableSound' /\ OvertakenHasNext' /\ WaitersPointed'
  <2>1. PICK got \in 0..MaxRun :
            /\ Start(WantFor(k), job[r].body, k, got)
            /\ \/ got = NoRun /\ UNCHANGED <<thread, waits>>
               \/ /\ \E fault \in BOOLEAN : thread' = [thread EXCEPT ![r].fault = fault]
                  /\ UNCHANGED waits
               \/ /\ got # NoRun
                  /\ waits' = [waits EXCEPT ![r] = k]
                  /\ thread' = [thread EXCEPT ![r] = InThread("waiting", got, FALSE)]
    BY <1>4 DEF Call
  <2>2. WantFor(k) \in Want /\ job[r].body \in Epoch
    BY DEF WantFor, Want, TypeOK, Job
  <2>3. thread[r].pc = "executing" /\ UNCHANGED caller
    BY <1>4 DEF Call
  <2>4. \A q \in RunId : q # r => thread'[q] = thread[q] /\ waits'[q] = waits[q]
    BY <1>1, <2>1
  <2>5. thread'[r].pc # "none" /\ (thread'[r].pc = "waiting" => thread'[r].on # NoRun)
    BY <1>1, <2>1, <2>3 DEF InThread, Thread
  <2> QED BY <1>2, <2>1, <2>2, <2>3, <2>4, <2>5
<1>5. CASE ThreadFollows(r)
  <2>1. state[thread[r].on].to # NoRun
    BY <1>1, <1>5 DEF ThreadFollows, WaitersPointed, WaitersOnRuns, MovedToRuns, Thread
  <2>2. PICK to : to # NoRun /\ thread' = [thread EXCEPT ![r].on = to]
    BY <1>5, <2>1 DEF ThreadFollows
  <2> QED BY <1>1, <1>2, <1>5, <2>2 DEF ThreadFollows, Thread
<1>6. CASE ThreadWakes(r)
  <2>1. PICK fault : thread' = [thread EXCEPT ![r] = InThread("executing", NoRun, fault)]
    BY <1>6 DEF ThreadWakes
  <2>2. waits' = [waits EXCEPT ![r] = NoKey] /\ UNCHANGED <<tableVars, caller>>
    BY <1>6 DEF ThreadWakes
  <2> QED BY <1>1, <1>2, <1>6, <2>1, <2>2 DEF ThreadWakes, InThread
<1> QED BY <1>3, <1>4, <1>5, <1>6

LEMMA RunEndSound ==
    ASSUME IInv, NEW r \in RunId,
           Ended(r) \/ ReturnsLate(r) \/ Timeout(r) \/ DropTask(r)
    PROVE  TableSound' /\ OvertakenHasNext' /\ WaitersPointed'
<1> USE DEF IInv
<1>1. thread \in [RunId -> Thread] /\ slots \in [Key -> Slot]
  BY DEF TypeOK
<1>2. ASSUME NEW res \in Result, Returned(r, res)
      PROVE  /\ thread[r].pc # "none" /\ thread'[r].pc \notin {"none", "waiting"}
             /\ \A q \in RunId : q # r => thread'[q] = thread[q]
             /\ UNCHANGED <<waits, caller>>
  BY <1>1, <1>2 DEF Returned, InThread
<1>3. ASSUME NEW res \in Result, Settle(r, res), UNCHANGED <<waits, caller>>,
             \/ Returned(r, res)
             \/ UNCHANGED thread
      PROVE  TableSound' /\ OvertakenHasNext' /\ WaitersPointed'
  <2>1. /\ SlotsOwnTheirRuns'
        /\ QueuedBehindAnother'
        /\ \A j \in Key : slots'[j].queued # NoRun => thread[slots'[j].queued].pc = "none"
        /\ LaunchedIsNotQueued'
        /\ \A q \in RunId : IF q <= made' THEN state'[q].key \in Key
                            ELSE thread[q].pc = "none" /\ job'[q].task = "none"
        /\ OvertakenHasNext'
        /\ MovedToRuns'
    BY <1>3, SettleSound
  <2>2. \A q \in RunId : thread'[q] = thread[q] \/ (/\ q = r /\ thread[r].pc # "none"
                                                    /\ thread'[r].pc \notin {"none", "waiting"})
    BY <1>2, <1>3
  <2>3. slots' \in [Key -> Slot]
    BY <1>3, SettleType
  <2>4. QueuedHasNotBegun'
    BY <2>1, <2>2, <2>3 DEF QueuedHasNotBegun, Slot
  <2>5. OnlyMadeRuns'
    BY <2>1, <2>2 DEF OnlyMadeRuns
  <2>6. WaitsAfterBeginning'
    BY <1>3, <2>2 DEF TableSound, WaitsAfterBeginning
  <2>7. WaitersOnRuns'
    BY <1>3, <2>2 DEF WaitersPointed, WaitersOnRuns
  <2> QED BY <2>1, <2>4, <2>5, <2>6, <2>7 DEF TableSound, WaitersPointed
<1>4. CASE Ended(r)
  BY <1>2, <1>3, <1>4 DEF Ended
<1>5. CASE ReturnsLate(r)
  <2>1. /\ thread[r].pc # "none" /\ thread'[r].pc \notin {"none", "waiting"}
        /\ \A q \in RunId : q # r => thread'[q] = thread[q]
        /\ UNCHANGED <<waits, caller, tableVars>>
    BY <1>2, <1>5 DEF ReturnsLate
  <2> QED BY <1>1, <2>1 DEF tableVars, TableSound, SlotsOwnTheirRuns, QueuedBehindAnother,
         QueuedHasNotBegun, LaunchedIsNotQueued, OnlyMadeRuns, WaitsAfterBeginning,
         OvertakenHasNext, WaitersPointed, WaitersOnRuns, MovedToRuns, Slot
<1>6. CASE Timeout(r)
  BY <1>3, <1>6 DEF Timeout, Result, runVars
<1>7. CASE DropTask(r)
  BY <1>3, <1>7 DEF DropTask, Result, runVars
<1> QED BY <1>4, <1>5, <1>6, <1>7

LEMMA WorkSound ==
    ASSUME IInv, NEW w \in todo, Work(w)
    PROVE  TableSound' /\ OvertakenHasNext' /\ WaitersPointed'
<1> USE DEF IInv
<1> DEFINE do == Head(w)
<1>1. /\ w \in Effects
      /\ thread \in [RunId -> Thread]
      /\ state \in [RunId -> State]
      /\ job \in [RunId -> Job]
  BY DEF TypeOK
<1>2. /\ do \in Effect
      /\ do = w[1]
      /\ 1 \in 1..Len(w)
  BY <1>1, EffectsShrink
<1>3. /\ UNCHANGED <<slots, made, waits, caller>>
      /\ todo' = (todo \ {w}) \cup (IF Len(w) = 1 THEN {} ELSE {Tail(w)})
  BY DEF Work
<1>4. \A v \in todo' : \A i \in 1..Len(v) : \E u \in todo : \E j \in 1..Len(u) : v[i] = u[j]
  <2> SUFFICES ASSUME NEW v \in todo', NEW i \in 1..Len(v)
               PROVE  \E u \in todo : \E j \in 1..Len(u) : v[i] = u[j]
    OBVIOUS
  <2>1. CASE v \in todo
    BY <2>1
  <2>2. CASE v \notin todo
    <3>1. Len(w) # 1 /\ v = Tail(w)
      BY <1>3, <2>2
    <3>2. i + 1 \in 1..Len(w) /\ v[i] = w[i + 1]
      BY <1>1, <3>1, EffectsShrink
    <3> QED BY <3>2
  <2> QED BY <2>1, <2>2
<1>5. LaunchedIsNotQueued'
  <2> SUFFICES ASSUME NEW v \in todo', NEW i \in 1..Len(v), v[i].op = "launch"
               PROVE  v[i].run <= made /\ \A k \in Key : slots[k].queued # v[i].run
    BY <1>3 DEF LaunchedIsNotQueued
  <2>1. PICK u \in todo : \E j \in 1..Len(u) : v[i] = u[j]
    BY <1>4
  <2>2. PICK j \in 1..Len(u) : v[i] = u[j]
    BY <2>1
  <2> QED BY <2>2 DEF TableSound, LaunchedIsNotQueued
<1>6. SlotsOwnTheirRuns' /\ OnlyMadeRuns' /\ MovedToRuns' /\ QueuedHasNotBegun'
      /\ WaitsAfterBeginning' /\ WaitersOnRuns'
  <2>1. CASE do.op = "finish"
    <3>1. /\ do.run \in RunId
          /\ do.end = "Moved" => do.to # NoRun
          /\ UNCHANGED <<job, thread>>
      BY <1>2, <2>1 DEF Work, Effect, WaitersPointed, MovedToRuns
    <3>2. \A r \in RunId : /\ state'[r].key = state[r].key
                           /\ state'[r].end = "Moved" => state'[r].to # NoRun
      <4> DEFINE said == [key |-> state[do.run].key, end |-> do.end, to |-> do.to]
      <4>1. state' = state \/ state' = [state EXCEPT ![do.run] = said]
        BY <2>1 DEF Work
      <4>2. \A r \in RunId : state'[r] = state[r] \/ (r = do.run /\ state'[r] = said)
        BY <1>1, <3>1, <4>1
      <4>3. said.key = state[do.run].key /\ (said.end = "Moved" => said.to # NoRun)
        BY <3>1
      <4> HIDE DEF said
      <4> QED BY <4>2, <4>3 DEF WaitersPointed, MovedToRuns
    <3>3. SlotsOwnTheirRuns'
      <4>1. \A k \in Key : \A r \in {slots[k].running, slots[k].queued} :
                r # NoRun => r \in RunId
        BY DEF TypeOK, Slot
      <4> QED BY <1>3, <3>2, <4>1 DEF TableSound, SlotsOwnTheirRuns
    <3>4. MovedToRuns'
      BY <1>4, <3>2 DEF WaitersPointed, MovedToRuns
    <3> QED BY <1>3, <3>1, <3>2, <3>3, <3>4 DEF TableSound, OnlyMadeRuns, QueuedHasNotBegun,
            WaitsAfterBeginning, WaitersPointed, WaitersOnRuns
  <2>2. CASE do.op = "launch"
    <3>1. PICK r \in RunId : r = do.run
      BY <1>2 DEF Effect
    <3>2. /\ r <= made
          /\ \A k \in Key : slots[k].queued # r
      BY <1>2, <2>2, <3>1 DEF TableSound, LaunchedIsNotQueued
    <3>3. /\ job' = [job EXCEPT ![r].task = "live"]
          /\ thread' = [thread EXCEPT ![r].pc = "spawned"]
          /\ UNCHANGED state
      BY <2>2, <3>1 DEF Work
    <3>4. /\ \A q \in RunId : q # r => job'[q] = job[q] /\ thread'[q] = thread[q]
          /\ thread'[r].pc = "spawned"
      BY <1>1, <3>3 DEF Thread
    <3>5. \A k \in Key : slots[k].queued # NoRun => slots[k].queued \in RunId
      BY DEF TypeOK, Slot
    <3>6. MovedToRuns'
      BY <1>4, <3>3 DEF WaitersPointed, MovedToRuns
    <3> QED BY <1>3, <3>2, <3>3, <3>4, <3>5, <3>6 DEF TableSound, SlotsOwnTheirRuns,
            OnlyMadeRuns, QueuedHasNotBegun, WaitsAfterBeginning, WaitersPointed, WaitersOnRuns
  <2> QED BY <2>1, <2>2 DEF Work
<1>7. QueuedBehindAnother' /\ OvertakenHasNext'
  BY <1>3 DEF TableSound, QueuedBehindAnother, OvertakenHasNext
<1> QED BY <1>5, <1>6, <1>7 DEF TableSound, WaitersPointed

\* Starting a run with the threads left as they are, and whoever asked pointed
\* at the run handed out.
LEMMA StartAlone ==
    ASSUME IInv,
           NEW want \in Want, NEW e \in Epoch, NEW k \in Key, NEW got \in 0..MaxRun,
           Start(want, e, k, got), UNCHANGED runVars, WaitersOnRuns'
    PROVE  TableSound' /\ OvertakenHasNext' /\ WaitersPointed'
BY StartSound DEF runVars, IInv, TableSound, QueuedHasNotBegun, OnlyMadeRuns,
   WaitsAfterBeginning, WaitersPointed

\* A step that touches neither the table nor the threads.
LEMMA TableAlone ==
    ASSUME IInv, UNCHANGED <<tableVars, runVars>>, WaitersOnRuns'
    PROVE  TableSound' /\ OvertakenHasNext' /\ WaitersPointed'
BY DEF tableVars, runVars, IInv, TableSound, SlotsOwnTheirRuns, QueuedBehindAnother,
   QueuedHasNotBegun, LaunchedIsNotQueued, OnlyMadeRuns, WaitsAfterBeginning,
   OvertakenHasNext, WaitersPointed, MovedToRuns

LEMMA CallerSound ==
    ASSUME IInv, NEW c \in Caller, CallerStep(c)
    PROVE  TableSound' /\ OvertakenHasNext' /\ WaitersPointed'
<1> USE ConstantsAssumption DEF IInv
<1>1. /\ caller \in [Caller -> Request]
      /\ \A r \in RunId : thread[r].pc = "waiting" => thread[r].on # NoRun
      /\ \A a \in Caller : caller[a].pc # "idle" => caller[a].on # NoRun
  BY DEF TypeOK, WaitersPointed, WaitersOnRuns
<1>2. ASSUME NEW e \in 0..inForce, NEW want \in Asks, NEW k \in Key, Ask(c, e, want, k)
      PROVE  TableSound' /\ OvertakenHasNext' /\ WaitersPointed'
  <2>1. e \in Epoch /\ want \in Want
    BY DEF Epoch, TypeOK, Want
  <2>2. PICK got \in 0..MaxRun :
            /\ Start(want, e, k, got)
            /\ \/ caller' = caller
               \/ /\ got # NoRun
                  /\ caller' = [caller EXCEPT ![c] =
                            [pc |-> "waiting", on |-> got,
                             need |-> NeedOf(want, k), got |-> "None"]]
    BY <1>2 DEF Ask
  <2>3. UNCHANGED runVars
    BY <1>2 DEF Ask
  <2>4. WaitersOnRuns'
    BY <1>1, <2>2, <2>3 DEF WaitersOnRuns, runVars
  <2> QED BY <2>1, <2>2, <2>3, <2>4, StartAlone
<1>3. CASE CallerFollows(c)
  <2>1. state[caller[c].on].to # NoRun
    BY <1>1, <1>3 DEF CallerFollows, Request, WaitersPointed, MovedToRuns
  <2>2. PICK to : to # NoRun /\ caller' = [caller EXCEPT ![c].on = to]
    BY <1>3, <2>1 DEF CallerFollows
  <2>3. WaitersOnRuns'
    BY <1>1, <1>3, <2>2 DEF CallerFollows, WaitersOnRuns, runVars, Request
  <2> QED BY <1>3, <2>3, TableAlone DEF CallerFollows
<1>4. CASE Answered(c)
  <2>1. PICK out : caller' = [caller EXCEPT ![c] = [caller[c] EXCEPT !.pc = "answered", !.got = out]]
    BY <1>4 DEF Answered
  <2>2. caller'[c].on = caller[c].on /\ caller[c].on # NoRun
    BY <1>1, <1>4, <2>1 DEF Answered, Request
  <2>3. WaitersOnRuns'
    BY <1>1, <1>4, <2>1, <2>2 DEF Answered, WaitersOnRuns, runVars
  <2> QED BY <1>4, <2>3, TableAlone DEF Answered
<1>5. CASE GivesUp(c) \/ Moves(c)
  <2>1. WaitersOnRuns'
    BY <1>1, <1>5 DEF GivesUp, Moves, Idle, WaitersOnRuns, runVars
  <2> QED BY <1>5, <2>1, TableAlone DEF GivesUp, Moves
<1> QED BY <1>2, <1>3, <1>4, <1>5 DEF CallerStep

LEMMA WorldSound ==
    ASSUME IInv, WorldStep
    PROVE  TableSound' /\ OvertakenHasNext' /\ WaitersPointed'
<1> USE ConstantsAssumption DEF IInv
<1>1. UNCHANGED <<runVars, caller>>
  BY DEF WorldStep, Fire, Change, Expire, Forget, Stop
<1>2. WaitersOnRuns'
  BY <1>1 DEF runVars, WaitersPointed, WaitersOnRuns
<1>3. ASSUME NEW e \in 0..inForce, NEW want \in Asks, NEW k \in Key, Fire(e, want, k)
      PROVE  TableSound' /\ OvertakenHasNext' /\ WaitersPointed'
  <2>1. e \in Epoch /\ want \in Want
    BY DEF Epoch, TypeOK, Want
  <2>2. PICK got \in 0..MaxRun : Start(want, e, k, got)
    BY <1>3 DEF Fire
  <2> QED BY <1>1, <1>2, <2>1, <2>2, StartAlone
<1>4. CASE UNCHANGED tableVars
  BY <1>1, <1>2, <1>4, TableAlone
<1> QED BY <1>3, <1>4 DEF WorldStep, Change, Expire, Forget, Stop

-----------------------------------------------------------------------------
(* The invariant, and the types. *)

LEMMA InitInv == Init => IInv
<1> SUFFICES ASSUME Init PROVE IInv
  OBVIOUS
<1> USE ConstantsAssumption DEF Init, NoRun, NoStamp, NoSource
<1>1. TypeOK
  <2>1. NoSlot \in Slot
    BY DEF NoSlot, InFlightOnly, Slot, Epoch
  <2>2. OpenFor(NoKey) \in State /\ Begun(0, 0, FALSE) \in Job
    BY DEF OpenFor, State, End, Begun, Job, Epoch
  <2>3. InThread("none", NoRun, FALSE) \in Thread /\ Idle \in Request
    BY DEF InThread, Thread, Idle, Request
  <2>4. NoFailures \in Failures
    BY DEF NoFailures, Failures, Epoch
  <2>5. 0 \in Epoch /\ 1 \in Version /\ 1 \in Schedule /\ 0 \in 0..MaxRun
    BY DEF Epoch, Version, Schedule
  <2>6. source \in [Epoch -> [Key -> Schedule \cup {NoSource}]]
    BY <2>5
  <2> QED BY <2>1, <2>2, <2>3, <2>4, <2>5, <2>6 DEF TypeOK
<1>2. TableSound /\ OvertakenHasNext
  BY DEF TableSound, SlotsOwnTheirRuns, QueuedBehindAnother, QueuedHasNotBegun,
     LaunchedIsNotQueued, OnlyMadeRuns, WaitsAfterBeginning, OvertakenHasNext,
     NoSlot, InFlightOnly, Begun, InThread, RunId
<1>3. WaitersPointed
  BY DEF WaitersPointed, WaitersOnRuns, MovedToRuns, InThread, Idle, OpenFor
<1> QED BY <1>1, <1>2, <1>3 DEF IInv

LEMMA StepInv == IInv /\ [Next]_vars => IInv'
<1> SUFFICES ASSUME IInv, [Next]_vars PROVE IInv'
  OBVIOUS
<1>1. ASSUME NEW r \in RunId, RunStep(r)
      PROVE  IInv'
  <2>1. CASE Begin(r) \/ (\E k \in Key : Call(r, k)) \/ ThreadFollows(r) \/ ThreadWakes(r)
    BY <2>1, RunThreadType, RunThreadSound DEF IInv
  <2>2. CASE Ended(r) \/ ReturnsLate(r) \/ Timeout(r) \/ DropTask(r)
    BY <2>2, RunEndType, RunEndSound DEF IInv
  <2> QED BY <1>1, <2>1, <2>2 DEF RunStep
<1>2. ASSUME NEW w \in todo, Work(w)
      PROVE  IInv'
  BY <1>2, WorkType, WorkSound DEF IInv
<1>3. ASSUME NEW c \in Caller, CallerStep(c)
      PROVE  IInv'
  BY <1>3, CallerType, CallerSound DEF IInv
<1>4. CASE WorldStep
  BY <1>4, WorldType, WorldSound DEF IInv
<1>5. CASE UNCHANGED vars
  <2>1. TypeOK'
    BY <1>5 DEF vars, tableVars, runVars, dataVars, envVars, IInv, TypeOK
  <2>2. WaitersOnRuns' /\ UNCHANGED <<tableVars, runVars>>
    BY <1>5 DEF vars, runVars, IInv, WaitersPointed, WaitersOnRuns
  <2> QED BY <2>1, <2>2, TableAlone DEF IInv
<1> QED BY <1>1, <1>2, <1>3, <1>4, <1>5 DEF Next

\* In every state of the run table, what it keeps has its type: whatever the
\* instances, their calls, and the numbers of runs, versions and reloads.
THEOREM TypeCorrect == Spec => []TypeOK
<1>1. IInv => TypeOK
  BY DEF IInv
<1> QED BY InitInv, StepInv, <1>1, PTL DEF Spec

\* A run overtaken by a reload has the run that replaces it behind it, a queued
\* run is behind another, of its own instance, and has not begun: what settle
\* relies on when it hands the slot over.
THEOREM TableKept == Spec => [](TableSound /\ OvertakenHasNext /\ WaitersPointed)
<1>1. IInv => TableSound /\ OvertakenHasNext /\ WaitersPointed
  BY DEF IInv
<1> QED BY InitInv, StepInv, <1>1, PTL DEF Spec

-----------------------------------------------------------------------------
(***************************************************************************)
(* Runs in flight never wait on one another in a ring (NoRing of module    *)
(* Runs), for every set of instances and every way they call one another.  *)
(*                                                                         *)
(* A ring can only be closed by the one step that adds a wait, a run's     *)
(* call of another instance: ask (run.rs) looks before it waits, under the *)
(* same hold of the table's lock, and follows the waits from the instance  *)
(* called.  Every other step leaves the waits, drops one, or puts in       *)
(* flight a run that has not begun and so waits on nothing.                *)
(***************************************************************************)

RingFree(sl, w) == \A S \in SUBSET Key : ~Ring(sl, w, S)

\* Dropping waits closes no ring.
LEMMA FewerHops ==
    ASSUME NEW sl, NEW w, NEW sl2, NEW w2, RingFree(sl, w),
           \A k \in Key : Hop(sl2, w2, k) \in {Hop(sl, w, k), NoKey}
    PROVE  RingFree(sl2, w2)
<1> SUFFICES ASSUME NEW S \in SUBSET Key, Ring(sl2, w2, S) PROVE FALSE
  BY DEF RingFree
<1>1. \A k \in S : Hop(sl, w, k) \in S
  BY ConstantsAssumption DEF Ring
<1> QED BY <1>1 DEF RingFree, Ring

\* What the walk from an instance meets: the instance, and what the run of
\* each one met waits on.
LEMMA MetClosed ==
    ASSUME NEW sl, NEW w, NEW k \in Key
    PROVE  /\ k \in Met(sl, w, k)
           /\ Met(sl, w, k) \subseteq Key
           /\ \A j \in Met(sl, w, k) :
                Hop(sl, w, j) \in Key => Hop(sl, w, j) \in Met(sl, w, k)
<1>1. k \in Met(sl, w, k) /\ Met(sl, w, k) \subseteq Key
  BY DEF Met
<1>2. ASSUME NEW j \in Met(sl, w, k), Hop(sl, w, j) \in Key
      PROVE  Hop(sl, w, j) \in Met(sl, w, k)
  <2> SUFFICES ASSUME NEW T \in SUBSET Key, k \in T,
                      \A i \in T : Hop(sl, w, i) \in T \cup {NoKey}
               PROVE  Hop(sl, w, j) \in T
    BY <1>2 DEF Met
  <2>1. j \in T
    BY DEF Met
  <2> QED BY <1>2, <2>1, ConstantsAssumption
<1> QED BY <1>1, <1>2

\* What ask does before a run waits is enough: if the walk from the instance
\* called does not come to the caller's own run, the new wait closes no ring.
LEMMA WaitClosesNoRing ==
    ASSUME NEW sl \in [Key -> Slot], NEW w \in [RunId -> Key \cup {NoKey}],
           NEW r \in RunId, NEW k \in Key,
           RingFree(sl, w), ~ClosesRing(sl, w, r, k)
    PROVE  RingFree(sl, [w EXCEPT ![r] = k])
<1> DEFINE w2 == [w EXCEPT ![r] = k]
<1> DEFINE M  == Met(sl, w, k)
<1> SUFFICES ASSUME NEW S \in SUBSET Key, Ring(sl, w2, S) PROVE FALSE
  BY DEF RingFree
<1>1. \A j \in Key : sl[j].running # r => Hop(sl, w2, j) = Hop(sl, w, j)
  BY DEF Hop, Slot, RunId, NoRun
<1>2. \A j \in M : j \in Key /\ sl[j].running # r
  BY MetClosed DEF ClosesRing
<1> HIDE DEF w2
<1>3. CASE S \cap M # {}
  <2>1. \A j \in S \cap M : Hop(sl, w, j) \in S \cap M
    <3> SUFFICES ASSUME NEW j \in S \cap M PROVE Hop(sl, w, j) \in S \cap M
      OBVIOUS
    <3>1. Hop(sl, w, j) = Hop(sl, w2, j)
      BY <1>1, <1>2
    <3>2. Hop(sl, w, j) \in S
      BY <3>1 DEF Ring
    <3> QED BY <3>2, MetClosed
  <2>2. Ring(sl, w, S \cap M)
    BY <1>3, <2>1 DEF Ring
  <2> QED BY <2>2 DEF RingFree
<1>4. CASE S \cap M = {}
  <2>1. k \notin S
    BY <1>4, MetClosed
  <2>2. \A j \in S : sl[j].running # r
    <3> SUFFICES ASSUME NEW j \in S, sl[j].running = r PROVE FALSE
      OBVIOUS
    <3>1. Hop(sl, w2, j) = k
      BY DEF Hop, RunId, NoRun, w2
    <3> QED BY <2>1, <3>1 DEF Ring
  <2>3. Ring(sl, w, S)
    BY <1>1, <2>2 DEF Ring
  <2> QED BY <2>3 DEF RingFree
<1> QED BY <1>3, <1>4

\* Starting a run: what comes to be in flight has not begun.
LEMMA StartRingFree ==
    ASSUME IInv, RingFree(slots, waits),
           NEW want \in Want, NEW e \in Epoch, NEW k \in Key, NEW got \in 0..MaxRun,
           Start(want, e, k, got)
    PROVE  RingFree(slots', waits)
<1>1. CASE UNCHANGED tableVars
  BY <1>1 DEF tableVars
<1>2. CASE ~UNCHANGED tableVars
  <2>1. /\ got \in RunId /\ got = QueuedOrNew(slots[k]) /\ Make(got, k)
        /\ \A j \in Key : j # k => slots'[j] = slots[j]
        /\ \/ slots'[k] = InFlightOnly(got)
           \/ slots'[k].running = slots[k].running
    BY <1>2, StartShape
  <2>2. waits[got] = NoKey
    BY <2>1, HandedOut DEF IInv, TableSound, WaitsAfterBeginning
  <2>3. slots'[k].running \in {got, slots[k].running}
    BY <2>1 DEF InFlightOnly
  <2>4. \A j \in Key : Hop(slots', waits, j) \in {Hop(slots, waits, j), NoKey}
    BY <2>1, <2>2, <2>3 DEF Hop
  <2> QED BY <2>4, FewerHops
<1> QED BY <1>1, <1>2

LEMMA SettleRingFree ==
    ASSUME IInv, RingFree(slots, waits),
           NEW r \in RunId, NEW res \in Result, Settle(r, res)
    PROVE  RingFree(slots', waits)
<1> DEFINE k == state[r].key
<1>1. /\ k \in Key
      /\ \A j \in Key : j # k => slots'[j] = slots[j]
      /\ \/ UNCHANGED slots
         \/ slots'[k] = NoSlot
         \/ slots[k].queued # NoRun /\ slots'[k] = InFlightOnly(slots[k].queued)
  BY SettleShape
<1>2. slots[k].queued # NoRun => waits[slots[k].queued] = NoKey
  <2>1. slots[k].queued # NoRun => slots[k].queued \in RunId
    BY <1>1 DEF IInv, TypeOK, Slot
  <2> QED BY <1>1, <2>1 DEF IInv, TableSound, QueuedHasNotBegun, WaitsAfterBeginning
<1>3. \A j \in Key : Hop(slots', waits, j) \in {Hop(slots, waits, j), NoKey}
  BY <1>1, <1>2 DEF Hop, NoSlot, InFlightOnly
<1> QED BY <1>3, FewerHops

LEMMA StepRingFree ==
    ASSUME IInv, RingFree(slots, waits), [Next]_vars
    PROVE  RingFree(slots', waits')
<1> USE ConstantsAssumption
<1>1. CASE UNCHANGED <<slots, waits>>
  BY <1>1
<1>2. ASSUME NEW r \in RunId, NEW k \in Key, Call(r, k)
      PROVE  RingFree(slots', waits')
  <2>1. PICK got \in 0..MaxRun :
            /\ Start(WantFor(k), job[r].body, k, got)
            /\ \/ UNCHANGED waits
               \/ /\ ~ClosesRing(slots', waits, r, k)
                  /\ waits' = [waits EXCEPT ![r] = k]
    BY <1>2 DEF Call
  <2>2. WantFor(k) \in Want /\ job[r].body \in Epoch
    BY DEF WantFor, Want, IInv, TypeOK, Job
  <2>3. RingFree(slots', waits)
    BY <2>1, <2>2, StartRingFree
  <2>4. slots' \in [Key -> Slot] /\ waits \in [RunId -> Key \cup {NoKey}]
    BY <2>1, <2>2, StartType DEF IInv, TypeOK
  <2> QED BY <2>1, <2>3, <2>4, WaitClosesNoRing
<1>3. ASSUME NEW r \in RunId, ThreadWakes(r)
      PROVE  RingFree(slots', waits')
  <2>1. slots' = slots /\ waits' = [waits EXCEPT ![r] = NoKey]
    BY <1>3 DEF ThreadWakes, tableVars
  <2>2. \A k \in Key : Hop(slots', waits', k) \in {Hop(slots, waits, k), NoKey}
    BY <2>1 DEF Hop, IInv, TypeOK, Slot, NoRun
  <2> QED BY <2>2, FewerHops
<1>4. ASSUME NEW r \in RunId, NEW res \in Result, Settle(r, res), UNCHANGED waits
      PROVE  RingFree(slots', waits')
  BY <1>4, SettleRingFree
<1>5. ASSUME NEW want \in Asks, NEW e \in 0..inForce, NEW k \in Key, NEW got \in 0..MaxRun,
             Start(want, e, k, got), UNCHANGED waits
      PROVE  RingFree(slots', waits')
  <2>1. e \in Epoch /\ want \in Want
    BY DEF Epoch, IInv, TypeOK, Want
  <2> QED BY <1>5, <2>1, StartRingFree
<1>6. ASSUME NEW r \in RunId, RunStep(r)
      PROVE  RingFree(slots', waits')
  <2>1. CASE Begin(r) \/ ThreadFollows(r) \/ ReturnsLate(r)
    BY <1>1, <2>1 DEF Begin, ThreadFollows, ReturnsLate, Returned, tableVars
  <2>2. CASE Ended(r)
    BY <1>4, <2>2 DEF Ended, Returned
  <2>3. CASE Timeout(r) \/ DropTask(r)
    BY <1>4, <2>3 DEF Timeout, DropTask, Result, runVars
  <2> QED BY <1>2, <1>3, <1>6, <2>1, <2>2, <2>3 DEF RunStep
<1>7. ASSUME NEW w \in todo, Work(w)
      PROVE  RingFree(slots', waits')
  BY <1>1, <1>7 DEF Work
<1>8. ASSUME NEW c \in Caller, CallerStep(c)
      PROVE  RingFree(slots', waits')
  <2>1. ASSUME NEW e \in 0..inForce, NEW want \in Asks, NEW k \in Key, Ask(c, e, want, k)
        PROVE  RingFree(slots', waits')
    BY <1>5, <2>1 DEF Ask, runVars
  <2> QED BY <1>1, <1>8, <2>1
          DEF CallerStep, CallerFollows, Answered, GivesUp, Moves, tableVars, runVars
<1>9. CASE WorldStep
  <2>1. ASSUME NEW e \in 0..inForce, NEW want \in Asks, NEW k \in Key, Fire(e, want, k)
        PROVE  RingFree(slots', waits')
    BY <1>5, <2>1 DEF Fire, runVars
  <2> QED BY <1>1, <1>9, <2>1
          DEF WorldStep, Change, Expire, Forget, Stop, tableVars, runVars
<1>10. CASE UNCHANGED vars
  BY <1>1, <1>10 DEF vars, tableVars, runVars
<1> QED BY <1>6, <1>7, <1>8, <1>9, <1>10 DEF Next

\* No runs in flight ever wait on one another in a ring, whatever is replaced,
\* queued again, cut off or dropped around them: no run is held to its timeout
\* by itself.
THEOREM NoRingEver == Spec => []NoRing
<1>1. Init => IInv /\ RingFree(slots, waits)
  <2> SUFFICES ASSUME Init PROVE RingFree(slots, waits)
    BY InitInv
  <2>1. \A k \in Key : Hop(slots, waits, k) = NoKey
    BY DEF Init, Hop, NoSlot, InFlightOnly
  <2> QED BY <2>1, ConstantsAssumption DEF RingFree, Ring
<1>2. IInv /\ RingFree(slots, waits) /\ [Next]_vars => IInv' /\ RingFree(slots, waits)'
  BY StepInv, StepRingFree DEF RingFree
<1>3. RingFree(slots, waits) => NoRing
  BY DEF RingFree, NoRing
<1> QED BY <1>1, <1>2, <1>3, PTL DEF Spec

=============================================================================
