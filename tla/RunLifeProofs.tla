---------------------------- MODULE RunLifeProofs ----------------------------
(***************************************************************************)
(* Proofs about the life of a run (modules Runs and RunLife): whoever      *)
(* holds a run is told how it ended, what a caller is told was stored sees *)
(* the inputs as they were when it asked, a record is never replaced by an *)
(* older look at the inputs, and threads that wait never block one another *)
(* in a ring.                                                              *)
(*                                                                         *)
(* First, that every step of the run table has one of the shapes of        *)
(* RunLife; then, from the shapes alone, that they keep LifeInv.           *)
(***************************************************************************)
EXTENDS RunLife, RunsProofs

-----------------------------------------------------------------------------
(* The steps have the shapes: starting a run. *)

\* A run that has not begun has not looked at its inputs.
LEMMA HandedOutUnstamped ==
    ASSUME IInv, StampsKept, NEW k \in Key, NEW got \in RunId,
           got = QueuedOrNew(slots[k]), Make(got, k)
    PROVE  stamp[got] = NoStamp
<1>1. thread[got].pc = "none"
  BY HandedOut
<1> QED BY <1>1 DEF StampsKept

\* Starting a run has the shape of a step of the table; the run handed out is
\* the one in flight or the one queued, and it sees what its caller needs.
LEMMA StartShapes ==
    ASSUME IInv, StampsKept,
           NEW want \in Want, NEW e \in Epoch, NEW k \in Key, NEW got \in 0..MaxRun,
           Start(want, e, k, got), UNCHANGED record
    PROVE  /\ TableStep
           /\ got # NoRun =>
                /\ got \in {slots'[k].running, slots'[k].queued}
                /\ NeedOf(want, k) = NoStamp \/ stamp[got] \in {NoStamp, version[k]}
<1> USE ConstantsAssumption DEF NoRun, RunId, IInv
<1>1. slots \in [Key -> Slot] /\ job \in [RunId -> Job] /\ made \in 0..MaxRun
  BY DEF TypeOK
<1>2. slots[k] \in Slot
  BY <1>1
<1>3. CASE StartNone(want, e, k, got)
  BY <1>3 DEF StartNone, TableStep, Leaves
<1>4. CASE StartJoin(want, e, k, got)
  <2>1. got = slots'[k].running /\ got # NoRun /\ Leaves
    BY <1>4 DEF StartJoin, Running, Leaves, tableVars
  <2>2. state[got].key = k
    BY <1>4, <2>1 DEF StartJoin, TableSound, SlotsOwnTheirRuns
  <2>3. NeedOf(want, k) = NoStamp \/ stamp[got] \in {NoStamp, version[k]}
    BY <1>4, <2>2 DEF StartJoin, Joins, SeesNow, NeedOf
  <2> QED BY <2>1, <2>3 DEF TableStep
<1>5. CASE StartReplace(want, e, k, got)
  <2>1. /\ got \in RunId /\ got = QueuedOrNew(slots[k]) /\ Make(got, k)
        /\ slots' = [slots EXCEPT ![k] = InFlightOnly(got)]
        /\ Running(k)
        /\ todo' = todo \cup {Handover(slots[k].running, got)}
    BY <1>5 DEF StartReplace, Make
  <2>2. \A r \in RunId : r # got => job'[r] = job[r]
    <3>1. PICK new : job' = [job EXCEPT ![got] = new]
      BY <1>5 DEF StartReplace
    <3> QED BY <1>1, <3>1
  <2>3. Hands(k, got)
    BY <2>1, <2>2 DEF Hands
  <2>4. slots'[k].running = got
    BY <1>1, <2>1 DEF InFlightOnly
  <2> QED BY <2>1, <2>3, <2>4, HandedOutUnstamped DEF TableStep
<1>6. CASE StartQueue(want, e, k, got)
  <2>1. /\ got \in RunId /\ got = QueuedOrNew(slots[k]) /\ Make(got, k)
        /\ slots' = [slots EXCEPT ![k] = WithQueued(slots[k], e, want = "Forced", got)]
        /\ Running(k)
        /\ UNCHANGED <<job, todo>>
    BY <1>6 DEF StartQueue, Make
  <2>2. slots'[k] = WithQueued(slots[k], e, want = "Forced", got)
    BY <1>1, <2>1
  <2>3. slots'[k].running = slots[k].running /\ slots'[k].queued = got
    <3>1. CASE slots[k].queued = NoRun
      BY <1>2, <2>2, <3>1 DEF WithQueued, Slot
    <3>2. CASE slots[k].queued # NoRun
      BY <1>2, <2>1, <2>2, <3>2 DEF WithQueued, Slot, QueuedOrNew
    <3> QED BY <3>1, <3>2
  <2>4. Queues(k, got)
    BY <1>1, <2>1, <2>3 DEF Queues
  <2> QED BY <2>1, <2>3, <2>4, HandedOutUnstamped DEF TableStep
<1>7. CASE StartNew(want, e, k, got)
  <2>1. /\ got \in RunId /\ got = made + 1 /\ Make(got, k)
        /\ slots' = [slots EXCEPT ![k] = InFlightOnly(got)]
        /\ ~Running(k)
        /\ todo' = todo \cup {<<Launch(got)>>}
    BY <1>7 DEF StartNew, Make
  <2>2. got = QueuedOrNew(slots[k])
    BY <2>1 DEF QueuedOrNew, Running, TableSound, QueuedBehindAnother
  <2>3. \A r \in RunId : r # got => job'[r] = job[r]
    <3>1. PICK new : job' = [job EXCEPT ![got] = new]
      BY <1>7 DEF StartNew
    <3> QED BY <1>1, <3>1
  <2>4. Hands(k, got)
    BY <2>1, <2>2, <2>3 DEF Hands
  <2>5. slots'[k].running = got
    BY <1>1, <2>1 DEF InFlightOnly
  <2> QED BY <2>1, <2>2, <2>4, <2>5, HandedOutUnstamped DEF TableStep
<1> QED BY <1>3, <1>4, <1>5, <1>6, <1>7 DEF Start

-----------------------------------------------------------------------------
(* The steps have the shapes: the end of a run. *)

LEMMA SettleShapes ==
    ASSUME IInv, NEW r \in RunId, NEW res \in Result, Settle(r, res),
           res = "Ok" => thread[r].pc = "executing" /\ thread'[r].pc = "done"
    PROVE  Settles(r)
<1> USE ConstantsAssumption DEF NoRun, RunId, Epoch, IInv
<1> DEFINE k == state[r].key
<1> DEFINE s == slots[k]
<1>1. r <= made /\ k \in Key /\ s \in Slot
  BY BegunHasKey DEF Settle, TypeOK
<1>2. /\ slots \in [Key -> Slot] /\ job \in [RunId -> Job]
      /\ job[r].task = "live"
      /\ UNCHANGED <<made, state>>
  BY DEF Settle, TypeOK
<1>3. CASE SettleReplaced(r)
  <2>1. SettlesBehind(r)
    BY <1>2, <1>3 DEF SettleReplaced, SettlesBehind, Owns
  <2> QED BY <1>2, <2>1 DEF Settles
<1>4. CASE SettleOwn(r, res)
  <2> DEFINE end == EndOf(s, r, k, res)
  <2> DEFINE to  == IF end = "Moved" THEN s.queued ELSE NoRun
  <2>1. /\ end \in End \ {"Open"}
        /\ end = "Moved" => s.overtaken = "Again"
        /\ end = "Stored" => res = "Ok" /\ ~(retired[k] > job[r].epoch)
    <3>1. CASE s.overtaken # "No"
      BY <1>1, <3>1 DEF EndOf, End, Outcome, Slot
    <3>2. CASE s.overtaken = "No" /\ res = "None"
      BY <3>2 DEF EndOf, End, Outcome
    <3>3. CASE s.overtaken = "No" /\ res # "None"
      <4>1. end = RecordOutcome(job[r].epoch, k, res)
        BY <3>3 DEF EndOf
      <4>2. RecordOutcome(job[r].epoch, k, res) \in Outcome
        BY <3>3 DEF RecordOutcome, Outcome, Result
      <4>3. RecordOutcome(job[r].epoch, k, res) = "Stored" =>
                res = "Ok" /\ ~(retired[k] > job[r].epoch)
        BY <3>3 DEF RecordOutcome, Result
      <4> HIDE DEF end
      <4> QED BY <4>1, <4>2, <4>3 DEF End, Outcome
    <3> HIDE DEF end
    <3> QED BY <3>1, <3>2, <3>3
  <2>2. job[r].epoch \in Epoch /\ retired[k] \in Epoch
    BY <1>1 DEF TypeOK, Job
  <2>3. s.queued \in RunId \cup {NoRun} /\ s.queued # r
    <3>1. s.queued \in RunId \cup {NoRun}
      BY <1>1 DEF Slot
    <3>2. s.running = r
      BY <1>4 DEF SettleOwn, Owns
    <3> QED BY <1>1, <3>1, <3>2 DEF TableSound, QueuedBehindAnother
  <2>4. end = "Moved" => s.queued # NoRun
    BY <1>1, <2>1 DEF OvertakenHasNext
  <2>5. /\ s.running = r
        /\ record' = IF end = "Stored" THEN [record EXCEPT ![k] = r] ELSE record
    BY <1>4 DEF SettleOwn, Owns, Recorded
  <2>6. \/ /\ s.queued # NoRun
           /\ slots' = [slots EXCEPT ![k] = InFlightOnly(s.queued)]
           /\ todo' = todo \cup {<<Finish(r, end, to), Launch(s.queued)>>}
        \/ /\ slots' = [slots EXCEPT ![k] = NoSlot]
           /\ todo' = todo \cup {Farewell(s, r, end, to)}
    BY <1>4 DEF SettleOwn, QueuedStarts
  <2>7. (\A q \in RunId \ {r, s.queued} : job'[q] = job[q]) /\ job'[r].task = "settled"
        /\ job'[r].epoch = job[r].epoch
    <3>1. \/ job' = [job EXCEPT ![r].task = "settled"]
          \/ \E new : job' = [job EXCEPT ![r].task = "settled", ![s.queued] = new]
      BY <1>4 DEF SettleOwn
    <3>2. /\ [job[r] EXCEPT !.task = "settled"].task = "settled"
          /\ [job[r] EXCEPT !.task = "settled"].epoch = job[r].epoch
      BY <1>2 DEF Job
    <3>3. CASE job' = [job EXCEPT ![r].task = "settled"]
      BY <1>2, <3>2, <3>3
    <3>4. ASSUME NEW new, job' = [job EXCEPT ![r].task = "settled", ![s.queued] = new]
          PROVE  /\ \A q \in RunId \ {r, s.queued} : job'[q] = job[q]
                 /\ job'[r].task = "settled" /\ job'[r].epoch = job[r].epoch
      BY <1>2, <2>3, <3>2, <3>4
    <3> QED BY <3>1, <3>3, <3>4
  <2>8. to \in RunId \cup {NoRun}
    BY <2>3
  <2>9. end = "Stored" => /\ thread[r].pc = "executing" /\ thread'[r].pc = "done"
                          /\ job[r].epoch >= retired[k]
    BY <2>1, <2>2
  <2> HIDE DEF end
  <2>10. SettlesAhead(r, end, to)
    BY <1>2, <2>1, <2>4, <2>5, <2>6, <2>7, <2>9 DEF SettlesAhead
  <2> QED BY <1>2, <2>1, <2>8, <2>10 DEF Settles
<1> QED BY <1>3, <1>4 DEF Settle

-----------------------------------------------------------------------------
(* The steps have the shapes: every action. *)

\* Threads that are left alone go nowhere.
LEMMA ThreadsStill ==
    ASSUME UNCHANGED runVars
    PROVE  \A r \in RunId : ThreadStep(r) /\ WaitStep(r)
BY DEF runVars, ThreadStep, WaitStep

LEMMA CallersStill ==
    ASSUME UNCHANGED caller
    PROVE  \A c \in Caller : CallersStep(c)
BY DEF CallersStep

LEMMA InputsStill ==
    ASSUME IInv, UNCHANGED version
    PROVE  \A k \in Key : version'[k] >= version[k]
<1>1. \A k \in Key : version[k] \in Nat
  BY DEF IInv, TypeOK, Version
<1> QED BY <1>1

\* One thread moves, without looking at its inputs.
LEMMA OneThread ==
    ASSUME NEW r \in RunId,
           \A q \in RunId \ {r} : thread'[q] = thread[q] /\ waits'[q] = waits[q],
           UNCHANGED stamp, ThreadStep(r), WaitStep(r)
    PROVE  \A q \in RunId : ThreadStep(q) /\ WaitStep(q)
BY DEF ThreadStep, WaitStep

LEMMA RunThreadShape ==
    ASSUME IInv, StampsKept, NEW r \in RunId,
           \/ Begin(r)
           \/ \E k \in Key : Call(r, k)
           \/ ThreadFollows(r)
           \/ ThreadWakes(r)
    PROVE  Shape
<1> USE DEF IInv
<1>1. /\ thread \in [RunId -> Thread] /\ waits \in [RunId -> Key \cup {NoKey}]
      /\ stamp \in [RunId -> Version \cup {NoStamp}]
  BY DEF TypeOK
<1>2. UNCHANGED <<caller, version, record>>
  BY DEF Begin, Call, ThreadFollows, ThreadWakes, dataVars
<1>3. /\ \A c \in Caller : CallersStep(c)
      /\ \A k \in Key : version'[k] >= version[k]
  BY <1>2, CallersStill, InputsStill
<1>4. CASE Begin(r)
  <2>1. /\ thread' = [thread EXCEPT ![r].pc = "executing"]
        /\ stamp' = [stamp EXCEPT ![r] = version[state[r].key]]
        /\ thread[r].pc = "spawned"
        /\ UNCHANGED <<tableVars, waits>>
    BY <1>4 DEF Begin
  <2>2. \A q \in RunId \ {r} : thread'[q] = thread[q] /\ stamp'[q] = stamp[q]
    BY <1>1, <2>1
  <2>3. thread'[r].pc = "executing" /\ stamp'[r] = version[state[r].key]
    BY <1>1, <2>1 DEF Thread
  <2>4. \A q \in RunId : ThreadStep(q) /\ WaitStep(q)
    BY <2>1, <2>2, <2>3 DEF ThreadStep, WaitStep
  <2>5. TableStep
    BY <1>2, <2>1 DEF TableStep, Leaves
  <2> QED BY <1>3, <2>4, <2>5 DEF Shape
<1>5. ASSUME NEW k \in Key, Call(r, k)
      PROVE  Shape
  <2>1. PICK got \in 0..MaxRun :
            /\ Start(WantFor(k), job[r].body, k, got)
            /\ \/ got = NoRun /\ UNCHANGED <<thread, waits>>
               \/ /\ \E fault \in BOOLEAN : thread' = [thread EXCEPT ![r].fault = fault]
                  /\ UNCHANGED waits
               \/ /\ got # NoRun
                  /\ waits' = [waits EXCEPT ![r] = k]
                  /\ thread' = [thread EXCEPT ![r] = InThread("waiting", got, FALSE)]
    BY <1>5 DEF Call
  <2>2. WantFor(k) \in Want /\ job[r].body \in Epoch
    BY DEF WantFor, Want, TypeOK, Job
  <2>3. TableStep /\ (got # NoRun => got \in {slots'[k].running, slots'[k].queued})
    BY <1>2, <2>1, <2>2, StartShapes
  <2>4. thread[r].pc = "executing" /\ UNCHANGED stamp
    BY <1>5 DEF Call
  <2>5. \A q \in RunId \ {r} : thread'[q] = thread[q] /\ waits'[q] = waits[q]
    BY <1>1, <2>1
  <2>6. ThreadStep(r) /\ WaitStep(r)
    <3>1. CASE thread'[r].pc = "executing"
      BY <2>4, <3>1 DEF ThreadStep, WaitStep
    <3>2. ASSUME NEW fault \in BOOLEAN, thread' = [thread EXCEPT ![r].fault = fault]
          PROVE  thread'[r].pc = "executing"
      BY <1>1, <2>4, <3>2 DEF Thread
    <3>3. CASE /\ got # NoRun
               /\ waits' = [waits EXCEPT ![r] = k]
               /\ thread' = [thread EXCEPT ![r] = InThread("waiting", got, FALSE)]
      <4>1. thread'[r].pc = "waiting" /\ thread'[r].on = got /\ waits'[r] = k
        BY <1>1, <3>3 DEF InThread
      <4> QED BY <2>3, <2>4, <3>3, <4>1 DEF ThreadStep, WaitStep
    <3>4. CASE got = NoRun /\ UNCHANGED <<thread, waits>>
      BY <2>4, <3>1, <3>4
    <3>5. CASE \E fault \in BOOLEAN : thread' = [thread EXCEPT ![r].fault = fault]
      BY <3>1, <3>2, <3>5
    <3> QED BY <2>1, <3>3, <3>4, <3>5
  <2> QED BY <1>3, <2>3, <2>4, <2>5, <2>6, OneThread DEF Shape
<1>6. CASE ThreadFollows(r)
  <2>1. /\ thread[r].pc = "waiting" /\ state[thread[r].on].end = "Moved"
        /\ thread' = [thread EXCEPT ![r].on = state[thread[r].on].to]
        /\ UNCHANGED <<tableVars, waits, stamp>>
    BY <1>6 DEF ThreadFollows
  <2>2. PICK to : to = state[thread[r].on].to
    OBVIOUS
  <2>3. thread'[r].pc = "waiting" /\ thread'[r].on = to
    BY <1>1, <2>1, <2>2 DEF Thread
  <2>4. \A q \in RunId \ {r} : thread'[q] = thread[q] /\ waits'[q] = waits[q]
    BY <1>1, <2>1
  <2>5. ThreadStep(r) /\ WaitStep(r)
    BY <2>1, <2>2, <2>3 DEF ThreadStep, WaitStep
  <2>6. TableStep
    BY <1>2, <2>1 DEF TableStep, Leaves
  <2> QED BY <1>3, <2>1, <2>4, <2>5, <2>6, OneThread DEF Shape
<1>7. CASE ThreadWakes(r)
  <2>1. PICK fault : /\ thread[r].pc = "waiting"
                     /\ thread' = [thread EXCEPT ![r] = InThread("executing", NoRun, fault)]
                     /\ waits' = [waits EXCEPT ![r] = NoKey]
                     /\ UNCHANGED <<tableVars, stamp>>
    BY <1>7 DEF ThreadWakes
  <2>2. thread'[r].pc = "executing"
    BY <1>1, <2>1 DEF InThread
  <2>3. \A q \in RunId \ {r} : thread'[q] = thread[q] /\ waits'[q] = waits[q]
    BY <1>1, <2>1
  <2>4. ThreadStep(r) /\ WaitStep(r)
    BY <2>1, <2>2 DEF ThreadStep, WaitStep
  <2>5. TableStep
    BY <1>2, <2>1 DEF TableStep, Leaves
  <2> QED BY <1>3, <2>1, <2>3, <2>4, <2>5, OneThread DEF Shape
<1> QED BY <1>4, <1>5, <1>6, <1>7

LEMMA RunEndShape ==
    ASSUME IInv, NEW r \in RunId,
           Ended(r) \/ ReturnsLate(r) \/ Timeout(r) \/ DropTask(r)
    PROVE  Shape
<1> USE DEF IInv
<1>1. thread \in [RunId -> Thread] /\ waits \in [RunId -> Key \cup {NoKey}]
  BY DEF TypeOK
<1>2. UNCHANGED <<caller, version>>
  BY DEF Ended, ReturnsLate, Timeout, DropTask, Returned, Settle, dataVars
<1>3. /\ \A c \in Caller : CallersStep(c)
      /\ \A k \in Key : version'[k] >= version[k]
  BY <1>2, CallersStill, InputsStill
<1>4. ASSUME NEW res \in Result, Returned(r, res)
      PROVE  /\ thread[r].pc = "executing" /\ thread'[r].pc = "done"
             /\ \A q \in RunId : ThreadStep(q) /\ WaitStep(q)
  <2>1. /\ thread[r].pc = "executing"
        /\ thread' = [thread EXCEPT ![r] = InThread("done", NoRun, FALSE)]
        /\ UNCHANGED <<waits, stamp>>
    BY <1>4 DEF Returned
  <2>2. thread'[r].pc = "done"
    BY <1>1, <2>1 DEF InThread
  <2>3. \A q \in RunId \ {r} : thread'[q] = thread[q] /\ waits'[q] = waits[q]
    BY <1>1, <2>1
  <2>4. ThreadStep(r) /\ WaitStep(r)
    BY <2>1, <2>2 DEF ThreadStep, WaitStep
  <2> QED BY <2>1, <2>2, <2>3, <2>4, OneThread
<1>5. ASSUME Settles(r), \A q \in RunId : ThreadStep(q) /\ WaitStep(q)
      PROVE  Shape
  BY <1>3, <1>5 DEF Shape, TableStep
<1>6. CASE Ended(r)
  <2>1. PICK res \in Result : Returned(r, res) /\ Settle(r, res)
    BY <1>6 DEF Ended
  <2> QED BY <1>4, <1>5, <2>1, SettleShapes
<1>7. CASE ReturnsLate(r)
  <2>1. UNCHANGED <<tableVars, record>>
    BY <1>7 DEF ReturnsLate, dataVars
  <2>2. TableStep
    BY <2>1 DEF TableStep, Leaves
  <2> QED BY <1>3, <1>4, <1>7, <2>2 DEF ReturnsLate, Shape
<1>8. CASE Timeout(r)
  <2>1. Settle(r, "Err") /\ UNCHANGED runVars /\ "Err" \in Result
    BY <1>8 DEF Timeout, Result
  <2> QED BY <1>5, <2>1, SettleShapes, ThreadsStill
<1>9. CASE DropTask(r)
  <2>1. Settle(r, "None") /\ UNCHANGED runVars /\ "None" \in Result
    BY <1>9 DEF DropTask, Result
  <2> QED BY <1>5, <2>1, SettleShapes, ThreadsStill
<1> QED BY <1>6, <1>7, <1>8, <1>9

LEMMA WorkShape ==
    ASSUME IInv, NEW w \in todo, Work(w)
    PROVE  Shape
<1> DEFINE do == Head(w)
<1>1. /\ do \in Effect
      /\ thread \in [RunId -> Thread]
  BY EffectsShrink DEF IInv, TypeOK
<1>2. Works(w) /\ UNCHANGED <<waits, stamp, caller, version>>
  BY DEF Works, Work, dataVars
<1>3. TableStep
  BY <1>2 DEF TableStep
<1>4. \A r \in RunId : ThreadStep(r) /\ WaitStep(r)
  <2>1. CASE do.op = "finish"
    BY <1>2, <2>1, ThreadsStill DEF Work, runVars
  <2>2. CASE do.op = "launch"
    <3>1. PICK q \in RunId : q = do.run
      BY <1>1 DEF Effect
    <3>2. thread' = [thread EXCEPT ![q].pc = "spawned"]
      BY <2>2, <3>1 DEF Work
    <3>3. thread'[q].pc = "spawned" /\ \A r \in RunId \ {q} : thread'[r] = thread[r]
      BY <1>1, <3>2 DEF Thread
    <3>4. Launches(q)
      BY <1>2, <2>2, <3>1 DEF Launches
    <3> QED BY <1>2, <3>3, <3>4 DEF ThreadStep, WaitStep
  <2> QED BY <2>1, <2>2 DEF Work
<1> QED BY <1>2, <1>3, <1>4, CallersStill, InputsStill DEF Shape

LEMMA CallerShape ==
    ASSUME IInv, StampsKept, NEW c \in Caller, CallerStep(c)
    PROVE  Shape
<1> USE ConstantsAssumption DEF IInv
<1>1. caller \in [Caller -> Request]
  BY DEF TypeOK
<1>2. UNCHANGED <<runVars, version, record>>
  BY DEF CallerStep, Ask, CallerFollows, Answered, GivesUp, Moves, dataVars
<1>3. /\ \A r \in RunId : ThreadStep(r) /\ WaitStep(r)
      /\ \A k \in Key : version'[k] >= version[k]
  BY <1>2, ThreadsStill, InputsStill
<1>4. ASSUME TableStep, NEW new, caller' = [caller EXCEPT ![c] = new],
             CallersStep(c)
      PROVE  Shape
  <2>1. \A d \in Caller : CallersStep(d)
    BY <1>1, <1>4 DEF CallersStep
  <2> QED BY <1>3, <1>4, <2>1 DEF Shape
<1>5. ASSUME UNCHANGED tableVars
      PROVE  TableStep
  BY <1>2, <1>5 DEF TableStep, Leaves
<1>6. ASSUME NEW e \in 0..inForce, NEW want \in Asks, NEW k \in Key, Ask(c, e, want, k)
      PROVE  Shape
  <2>1. e \in Epoch /\ want \in Want
    BY DEF Epoch, TypeOK, Want
  <2>2. PICK got \in 0..MaxRun :
            /\ Start(want, e, k, got)
            /\ \/ caller' = caller
               \/ /\ got # NoRun
                  /\ caller' = [caller EXCEPT ![c] =
                            [pc |-> "waiting", on |-> got,
                             need |-> NeedOf(want, k), got |-> "None"]]
    BY <1>6 DEF Ask
  <2>3. /\ TableStep
        /\ got # NoRun =>
            /\ got \in {slots'[k].running, slots'[k].queued}
            /\ NeedOf(want, k) = NoStamp \/ stamp[got] \in {NoStamp, version[k]}
    BY <1>2, <2>1, <2>2, StartShapes
  <2>4. CASE caller' = caller
    BY <1>3, <2>3, <2>4, CallersStill DEF Shape
  <2>5. CASE caller' # caller
    <3> DEFINE new == [pc |-> "waiting", on |-> got, need |-> NeedOf(want, k), got |-> "None"]
    <3>1. got # NoRun /\ caller' = [caller EXCEPT ![c] = new]
      BY <2>2, <2>5
    <3>2. caller'[c] = new
      BY <1>1, <3>1
    <3>3. NeedOf(want, k) = NoStamp \/ NeedOf(want, k) = version[k]
      BY DEF NeedOf
    <3>4. AskStep(c)
      BY <2>3, <3>1, <3>2, <3>3 DEF AskStep
    <3>5. CallersStep(c)
      BY <3>4 DEF CallersStep
    <3> HIDE DEF new
    <3> QED BY <1>4, <2>3, <3>1, <3>5
  <2> QED BY <2>4, <2>5
<1>7. CASE CallerFollows(c)
  <2>1. PICK new : /\ new = [caller[c] EXCEPT !.on = state[caller[c].on].to]
                   /\ caller' = [caller EXCEPT ![c] = new]
    BY <1>7 DEF CallerFollows
  <2>2. CallersStep(c) /\ UNCHANGED tableVars
    BY <1>1, <1>7, <2>1 DEF CallerFollows, CallersStep
  <2> QED BY <1>4, <1>5, <2>1, <2>2
<1>8. CASE Answered(c)
  <2>1. PICK new : /\ new = [caller[c] EXCEPT !.pc = "answered", !.got = state[caller[c].on].end]
                   /\ caller' = [caller EXCEPT ![c] = new]
    BY <1>8 DEF Answered
  <2>2. CallersStep(c) /\ UNCHANGED tableVars
    BY <1>1, <1>8, <2>1 DEF Answered, CallersStep
  <2> QED BY <1>4, <1>5, <2>1, <2>2
<1>9. CASE GivesUp(c) \/ Moves(c)
  <2>1. caller' = [caller EXCEPT ![c] = Idle] /\ UNCHANGED tableVars
    BY <1>9 DEF GivesUp, Moves
  <2>2. CallersStep(c)
    BY <1>1, <2>1 DEF CallersStep
  <2> QED BY <1>4, <1>5, <2>1, <2>2
<1> QED BY <1>6, <1>7, <1>8, <1>9 DEF CallerStep

LEMMA WorldShape ==
    ASSUME IInv, StampsKept, WorldStep
    PROVE  Shape
<1> USE ConstantsAssumption DEF IInv
<1>1. UNCHANGED <<runVars, caller>>
  BY DEF WorldStep, Fire, Change, Expire, Forget, Stop
<1>2. /\ \A r \in RunId : ThreadStep(r) /\ WaitStep(r)
      /\ \A c \in Caller : CallersStep(c)
  BY <1>1, ThreadsStill, CallersStill
<1>3. ASSUME NEW e \in 0..inForce, NEW want \in Asks, NEW k \in Key, Fire(e, want, k)
      PROVE  Shape
  <2>1. e \in Epoch /\ want \in Want
    BY DEF Epoch, TypeOK, Want
  <2>2. PICK got \in 0..MaxRun : Start(want, e, k, got)
    BY <1>3 DEF Fire
  <2>3. UNCHANGED <<version, record>>
    BY <1>3 DEF Fire, dataVars
  <2> QED BY <1>2, <2>1, <2>2, <2>3, StartShapes, InputsStill DEF Shape
<1>4. ASSUME NEW k \in Key, Change(k)
      PROVE  Shape
  <2>1. /\ version' = [version EXCEPT ![k] = @ + 1]
        /\ UNCHANGED <<tableVars, record>>
    BY <1>4 DEF Change
  <2>2. version \in [Key -> Nat]
    BY DEF TypeOK, Version
  <2>3. \A j \in Key : version'[j] >= version[j]
    BY <2>1, <2>2
  <2> QED BY <1>2, <2>1, <2>3 DEF Shape, TableStep, Leaves
<1>5. ASSUME NEW k \in Key, Expire(k)
      PROVE  Shape
  <2>1. UNCHANGED <<tableVars, version, record>>
    BY <1>5 DEF Expire
  <2> QED BY <1>2, <2>1, InputsStill DEF Shape, TableStep, Leaves
<1>6. ASSUME NEW k \in Key, Forget(k)
      PROVE  Shape
  <2>1. /\ record[k] # NoRun /\ record' = [record EXCEPT ![k] = NoRun]
        /\ UNCHANGED <<tableVars, version>>
    BY <1>6 DEF Forget
  <2> QED BY <1>2, <2>1, InputsStill DEF Shape, TableStep, Leaves
<1>7. CASE Stop
  <2>1. UNCHANGED <<tableVars, version, record>>
    BY <1>7 DEF Stop, dataVars
  <2> QED BY <1>2, <2>1, InputsStill DEF Shape, TableStep, Leaves
<1> QED BY <1>3, <1>4, <1>5, <1>6, <1>7 DEF WorldStep

\* Every step of the run table has one of the shapes.
LEMMA StepShape ==
    ASSUME IInv, StampsKept, [Next]_vars
    PROVE  Shape
<1>1. CASE UNCHANGED vars
  <2>1. UNCHANGED <<tableVars, runVars, caller, version, record>>
    BY <1>1 DEF vars, dataVars
  <2> QED BY <2>1, ThreadsStill, CallersStill, InputsStill DEF Shape, TableStep, Leaves
<1>2. ASSUME NEW r \in RunId, RunStep(r)
      PROVE  Shape
  BY <1>2, RunThreadShape, RunEndShape DEF RunStep
<1> QED BY <1>1, <1>2, WorkShape, CallerShape, WorldShape DEF Next

-----------------------------------------------------------------------------
(* The shapes keep the table's side of a run's life: FinishSpeaks, NoRunLost, *)
(* SlotIsLatest and MovedOn.                                                 *)

Mentioned(r, w) == \E i \in 1..Len(w) : w[i].run = r
OneLaunch(w)    == \A i, j \in 1..Len(w) : w[i].op = "launch" /\ w[j].op = "launch" => i = j

\* What is said when a run is put in flight.
LEMMA HandedSaid ==
    ASSUME NEW k, NEW got, NEW w, got # NoRun,
           w = IF Running(k) THEN Handover(slots[k].running, got) ELSE <<Launch(got)>>
    PROVE  /\ Mentioned(got, w)
           /\ \A i \in 1..Len(w) :
                \/ w[i] = Launch(got)
                \/ Running(k) /\ w[i] = Finish(slots[k].running, "Moved", got)
           /\ OneLaunch(w)
<1>1. CASE Running(k)
  <2>1. w = <<Finish(slots[k].running, "Moved", got), Launch(got)>>
    BY <1>1 DEF Handover
  <2>2. Len(w) = 2 /\ w[1] = Finish(slots[k].running, "Moved", got) /\ w[2] = Launch(got)
    BY <2>1
  <2>3. \A i \in 1..Len(w) : i = 1 \/ i = 2
    BY <2>2
  <2>4. Launch(got).run = got /\ Finish(slots[k].running, "Moved", got).op # "launch"
    BY DEF Launch, Finish
  <2> QED BY <1>1, <2>2, <2>3, <2>4 DEF Mentioned, OneLaunch
<1>2. CASE ~Running(k)
  <2>1. w = <<Launch(got)>>
    BY <1>2
  <2>2. Len(w) = 1 /\ w[1] = Launch(got)
    BY <2>1
  <2>3. \A i \in 1..Len(w) : i = 1
    BY <2>1
  <2> QED BY <2>2, <2>3 DEF Mentioned, OneLaunch, Launch
<1> QED BY <1>1, <1>2

\* What is said when the run in flight ends: how it ended, and that the queued
\* one begins or goes.
SettledWords(w, r, end, to, q) ==
    /\ Mentioned(r, w)
    /\ q # NoRun => Mentioned(q, w)
    /\ \A i \in 1..Len(w) :
        \/ w[i] = Finish(r, end, to)
        \/ q # NoRun /\ w[i] = Launch(q)
        \/ q # NoRun /\ w[i] = Finish(q, "Dropped", NoRun)
    /\ OneLaunch(w)

LEMMA SettledSaid ==
    ASSUME NEW s, NEW r, NEW end, NEW to, NEW w,
           \/ s.queued # NoRun /\ w = <<Finish(r, end, to), Launch(s.queued)>>
           \/ w = Farewell(s, r, end, to)
    PROVE  SettledWords(w, r, end, to, s.queued)
<1>1. PICK q : q = s.queued
  OBVIOUS
<1>2. Finish(r, end, to).run = r /\ Finish(r, end, to).op = "finish"
  BY DEF Finish
<1>3. CASE w = <<Finish(r, end, to)>> /\ q = NoRun
  <2>1. Len(w) = 1 /\ w[1] = Finish(r, end, to)
    BY <1>3
  <2>2. \A i \in 1..Len(w) : i = 1
    BY <2>1
  <2> QED BY <1>1, <1>2, <1>3, <2>1, <2>2 DEF SettledWords, Mentioned, OneLaunch
<1>4. ASSUME NEW next, w = <<Finish(r, end, to), next>>, q # NoRun,
             next \in {Launch(q), Finish(q, "Dropped", NoRun)}
      PROVE  SettledWords(w, r, end, to, q)
  <2>1. Len(w) = 2 /\ w[1] = Finish(r, end, to) /\ w[2] = next
    BY <1>4
  <2>2. \A i \in 1..Len(w) : i = 1 \/ i = 2
    BY <2>1
  <2>3. next.run = q
    BY <1>4 DEF Launch, Finish
  <2>4. Mentioned(r, w) /\ Mentioned(q, w) /\ OneLaunch(w)
    BY <1>2, <2>1, <2>2, <2>3 DEF Mentioned, OneLaunch
  <2>5. \A i \in 1..Len(w) : w[i] = Finish(r, end, to) \/ w[i] = next
    BY <2>1, <2>2
  <2> QED BY <1>4, <2>4, <2>5 DEF SettledWords
<1>5. \/ w = <<Finish(r, end, to)>> /\ q = NoRun
      \/ q # NoRun /\ w = <<Finish(r, end, to), Launch(q)>>
      \/ q # NoRun /\ w = <<Finish(r, end, to), Finish(q, "Dropped", NoRun)>>
  BY <1>1 DEF Farewell
<1>6. SettledWords(w, r, end, to, q)
  BY <1>1, <1>3, <1>4, <1>5
<1> QED BY <1>1, <1>6

\* An actor that does the first thing it has left to do has the rest left, and
\* nobody else has less.
LEMMA WorkLeaves ==
    ASSUME TypeOK, NEW w \in todo,
           todo' = (todo \ {w}) \cup (IF Len(w) = 1 THEN {} ELSE {Tail(w)})
    PROVE  /\ \A v \in todo' : \A i \in 1..Len(v) :
                \/ v \in todo /\ v # w
                \/ v = Tail(w) /\ i + 1 \in 1..Len(w) /\ v[i] = w[i + 1]
           /\ \A v \in todo : \A i \in 1..Len(v) :
                \/ v = w /\ i = 1
                \/ v \in todo'
                \/ v = w /\ Tail(w) \in todo' /\ i - 1 \in 1..Len(Tail(w)) /\ Tail(w)[i - 1] = w[i]
<1>1. w \in Effects
  BY DEF TypeOK
<1>2. /\ Len(w) \in Nat \ {0}
      /\ Len(w) # 1 => \A i \in 1..Len(Tail(w)) : i + 1 \in 1..Len(w) /\ Tail(w)[i] = w[i + 1]
  BY <1>1, EffectsShrink
<1>3. Len(Tail(w)) = Len(w) - 1
  <2>1. w \in Seq(Effect) /\ w # << >>
    BY <1>1 DEF Effects
  <2> QED BY <2>1, HeadTailProperties
<1>4. ASSUME NEW v \in todo', NEW i \in 1..Len(v)
      PROVE  \/ v \in todo /\ v # w
             \/ v = Tail(w) /\ i + 1 \in 1..Len(w) /\ v[i] = w[i + 1]
  <2>1. v \in todo \ {w} \/ (Len(w) # 1 /\ v = Tail(w))
    OBVIOUS
  <2> QED BY <1>2, <1>4, <2>1
<1>5. ASSUME NEW v \in todo, NEW i \in 1..Len(v), v = w, i # 1
      PROVE  Tail(w) \in todo' /\ i - 1 \in 1..Len(Tail(w)) /\ Tail(w)[i - 1] = w[i]
  <2>1. Len(w) # 1 /\ i - 1 \in 1..Len(Tail(w)) /\ (i - 1) + 1 = i
    BY <1>2, <1>3, <1>5
  <2> QED BY <1>2, <2>1
<1> QED BY <1>4, <1>5

\* Handing out run got leaves what is known of the others.
LEMMA HandedLater ==
    ASSUME IInv, TableLife, NEW k \in Key, NEW got \in RunId,
           got = QueuedOrNew(slots[k]), Make(got, k)
    PROVE  /\ made \in Nat /\ made' \in Nat /\ made <= made' /\ got <= made'
           /\ state'[got].key = k
           /\ \A r \in RunId : r <= made => state'[r] = state[r]
           /\ \A r \in RunId : r <= made' => r <= made \/ r = got
           /\ slots[k].running # NoRun =>
                /\ slots[k].running \in RunId /\ slots[k].running <= made
                /\ slots[k].running < got /\ state[slots[k].running].key = k
           /\ \A j \in Key \ {k} : slots[j].running # got /\ slots[j].queued # got
           /\ \A r, to \in RunId : LeadsOn(r, to) => LeadsOn(r, to)'
           /\ \A r \in RunId : state'[r].end = "Moved" => LeadsOn(r, state[r].to)'
<1> USE ConstantsAssumption DEF NoRun, RunId, IInv
<1>1. /\ got <= made' /\ made <= made'
      /\ state'[got].key = k
      /\ \A r \in RunId : r <= made => state'[r] = state[r]
      /\ \A r \in RunId : r <= made' => r <= made \/ r = got
      /\ \A r \in RunId : state'[r].end = "Moved" =>
                state[r].end = "Moved" /\ state'[r] = state[r]
      /\ \A j \in Key \ {k} : slots[j].running # got /\ slots[j].queued # got
  BY HandedOut
<1>2. made \in Nat /\ made' \in Nat /\ slots[k] \in Slot
  BY DEF TypeOK, Make
<1>3. slots[k].running # NoRun =>
                /\ slots[k].running \in RunId /\ slots[k].running <= made
                /\ slots[k].running < got /\ state[slots[k].running].key = k
  <2> SUFFICES ASSUME slots[k].running # NoRun
               PROVE  /\ slots[k].running \in RunId /\ slots[k].running <= made
                      /\ slots[k].running < got /\ state[slots[k].running].key = k
    OBVIOUS
  <2>1. /\ slots[k].running \in RunId /\ slots[k].running <= made
        /\ state[slots[k].running].key = k
    BY <1>2 DEF Slot, TableSound, SlotsOwnTheirRuns
  <2>2. slots[k].running < got
    BY <1>2, <2>1 DEF QueuedOrNew, TableLife, SlotIsLatest
  <2> QED BY <2>1, <2>2
<1>4. \A r, to \in RunId : LeadsOn(r, to) => LeadsOn(r, to)'
  <2> SUFFICES ASSUME NEW r \in RunId, NEW to \in RunId, LeadsOn(r, to)
               PROVE  LeadsOn(r, to)'
    OBVIOUS
  <2>1. to # NoRun /\ r < to /\ to <= made /\ state[to].key = state[r].key
    BY DEF LeadsOn
  <2>2. r <= made /\ to <= made'
    BY <1>1, <1>2, <2>1
  <2>3. state'[to] = state[to] /\ state'[r] = state[r]
    BY <1>1, <2>1, <2>2
  <2> QED BY <2>1, <2>2, <2>3 DEF LeadsOn
<1>5. \A r \in RunId : state'[r].end = "Moved" => LeadsOn(r, state[r].to)'
  <2> SUFFICES ASSUME NEW r \in RunId, state'[r].end = "Moved"
               PROVE  LeadsOn(r, state[r].to)'
    OBVIOUS
  <2>1. state[r].end = "Moved" /\ state'[r] = state[r]
    BY <1>1
  <2>2. LeadsOn(r, state[r].to)
    BY <2>1 DEF TableLife, MovedOn
  <2>3. state[r].to \in RunId
    BY <2>2 DEF LeadsOn, TypeOK, State
  <2>4. PICK to \in RunId : to = state[r].to
    BY <2>3
  <2>5. LeadsOn(r, to)'
    BY <1>4, <2>2, <2>4
  <2> QED BY <2>1, <2>4, <2>5 DEF LeadsOn
<1> QED BY <1>1, <1>2, <1>3, <1>4, <1>5

\* What is still to be said leads on, if it did and runs keep their instances.
LEMMA WordLeads ==
    ASSUME IInv, TableLife, NEW w \in todo, NEW i \in 1..Len(w)
    PROVE  /\ w[i].run \in RunId /\ w[i].run <= made
           /\ w[i].op = "finish" => w[i].end # "Open"
           /\ w[i].end = "Moved" => w[i].to \in RunId /\ LeadsOn(w[i].run, w[i].to)
<1>1. w[i] \in Effect /\ w[i].run \in RunId
  BY ElementOfTodo DEF IInv
<1>2. w[i].end = "Moved" => LeadsOn(w[i].run, w[i].to)
  BY DEF TableLife, MovedOn
<1> QED BY <1>1, <1>2 DEF TableLife, FinishSpeaks, LeadsOn, Effect

LEMMA HandsLife ==
    ASSUME IInv, TableLife, NEW k \in Key, NEW got \in RunId, Hands(k, got)
    PROVE  TableLife'
<1> USE DEF NoRun
<1>1. /\ got = QueuedOrNew(slots[k]) /\ Make(got, k)
      /\ slots' = [slots EXCEPT ![k] = InFlightOnly(got)]
      /\ \A r \in RunId : r # got => job'[r] = job[r]
  BY DEF Hands
<1>2. PICK new :
        /\ new = IF Running(k) THEN Handover(slots[k].running, got) ELSE <<Launch(got)>>
        /\ todo' = todo \cup {new}
  BY DEF Hands
<1>3. /\ made \in Nat /\ made' \in Nat /\ made <= made' /\ got <= made'
      /\ state'[got].key = k
      /\ \A r \in RunId : r <= made => state'[r] = state[r]
      /\ \A r \in RunId : r <= made' => r <= made \/ r = got
      /\ slots[k].running # NoRun =>
            /\ slots[k].running \in RunId /\ slots[k].running <= made
            /\ slots[k].running < got /\ state[slots[k].running].key = k
      /\ \A j \in Key \ {k} : slots[j].running # got /\ slots[j].queued # got
      /\ \A r, to \in RunId : LeadsOn(r, to) => LeadsOn(r, to)'
      /\ \A r \in RunId : state'[r].end = "Moved" => LeadsOn(r, state[r].to)'
  BY <1>1, HandedLater
<1>4. got # NoRun /\ slots \in [Key -> Slot] /\ made' \in 0..MaxRun
  BY <1>1 DEF RunId, IInv, TypeOK, Make
<1>10. \A q \in 1..made' : q \in RunId /\ (q \in 1..made \/ q = got)
  BY <1>3, <1>4, ConstantsAssumption DEF RunId
<1>5. /\ Mentioned(got, new)
      /\ \A i \in 1..Len(new) :
            \/ new[i] = Launch(got)
            \/ Running(k) /\ new[i] = Finish(slots[k].running, "Moved", got)
  BY <1>2, <1>4, HandedSaid
<1>6. FinishSpeaks'
  <2> SUFFICES ASSUME NEW w \in todo', NEW i \in 1..Len(w)
               PROVE  w[i].run <= made' /\ (w[i].op = "finish" => w[i].end # "Open")
    BY DEF FinishSpeaks
  <2>1. CASE w \in todo
    BY <1>3, <2>1, WordLeads DEF RunId
  <2>2. CASE w = new
    BY <1>3, <1>4, <1>5, <2>2 DEF Launch, Finish, Running, RunId
  <2> QED BY <1>2, <2>1, <2>2
<1>7. NoRunLost'
  <2> SUFFICES ASSUME NEW r \in 1..made' PROVE Accounted(r)'
    BY DEF NoRunLost
  <2>1. r \in RunId
    BY <1>10
  <2>2. CASE r = got
    BY <1>2, <1>5, <2>2 DEF Accounted, Mentioned
  <2>3. CASE r # got
    <3>1. r \in 1..made /\ state'[r] = state[r] /\ job'[r] = job[r]
      BY <1>1, <1>3, <1>10, <2>1, <2>3
    <3>2. Accounted(r)
      BY <3>1 DEF TableLife, NoRunLost
    <3>3. \A j \in Key : slots[j].queued = r => slots'[j].queued = r
      <4> SUFFICES ASSUME NEW j \in Key, slots[j].queued = r PROVE slots'[j].queued = r
        OBVIOUS
      <4>1. j # k
        BY <1>1, <2>1, <2>3 DEF QueuedOrNew, RunId
      <4> QED BY <1>1, <1>4, <4>1
    <3> QED BY <1>2, <3>1, <3>2, <3>3 DEF Accounted
  <2> QED BY <2>2, <2>3
<1>8. SlotIsLatest'
  <2> SUFFICES ASSUME NEW j \in Key, slots'[j].running # NoRun
               PROVE  /\ slots'[j].queued # NoRun => slots'[j].running < slots'[j].queued
                      /\ \A q \in 1..made' : state'[q].key = j =>
                            q <= slots'[j].running \/ q = slots'[j].queued
    BY DEF SlotIsLatest
  <2>1. CASE j = k
    <3>1. slots'[j].running = got /\ slots'[j].queued = NoRun
      BY <1>1, <1>4, <2>1 DEF InFlightOnly
    <3>2. \A q \in 1..made' : state'[q].key = j => q <= got
      <4> SUFFICES ASSUME NEW q \in 1..made', state'[q].key = j, q # got PROVE q <= got
        BY <1>3
      <4>1. q \in RunId /\ q <= made /\ state[q].key = k
        BY <1>3, <1>10, <2>1
      <4>2. CASE got = made + 1
        BY <1>3, <4>1, <4>2 DEF RunId
      <4>3. CASE got # made + 1
        <5>1. slots[k].queued = got /\ slots[k].running # NoRun
          BY <1>1, <1>4, <4>3 DEF QueuedOrNew, IInv, TableSound, QueuedBehindAnother
        <5>2. q <= slots[k].running
          BY <1>3, <4>1, <5>1 DEF TableLife, SlotIsLatest, RunId
        <5> QED BY <1>3, <4>1, <5>1, <5>2 DEF RunId
      <4> QED BY <4>2, <4>3
    <3> QED BY <3>1, <3>2
  <2>2. CASE j # k
    <3>1. slots'[j] = slots[j]
      BY <1>1, <1>4, <2>2
    <3>2. \A q \in 1..made' : state'[q].key = j => q \in 1..made /\ state[q].key = j
      BY <1>3, <1>10, <2>2
    <3> QED BY <3>1, <3>2 DEF TableLife, SlotIsLatest
  <2> QED BY <2>1, <2>2
<1>9. MovedOn'
  <2>1. ASSUME NEW w \in todo', NEW i \in 1..Len(w), w[i].end = "Moved"
        PROVE  LeadsOn(w[i].run, w[i].to)'
    <3>1. CASE w \in todo
      BY <1>3, <2>1, <3>1, WordLeads
    <3>2. CASE w = new
      <4>1. Running(k) /\ w[i] = Finish(slots[k].running, "Moved", got)
        BY <1>5, <2>1, <3>2 DEF Launch
      <4>2. w[i].run = slots[k].running /\ w[i].to = got
        BY <4>1 DEF Finish
      <4>3. PICK old : old = slots[k].running
        OBVIOUS
      <4>4. old < got /\ got <= made' /\ state'[got].key = state'[old].key
        BY <1>3, <4>1, <4>3 DEF Running
      <4> QED BY <1>4, <4>2, <4>3, <4>4 DEF LeadsOn
    <3> QED BY <1>2, <3>1, <3>2
  <2> QED BY <1>3, <2>1 DEF MovedOn
<1> QED BY <1>6, <1>7, <1>8, <1>9 DEF TableLife

LEMMA QueuesLife ==
    ASSUME IInv, TableLife, NEW k \in Key, NEW got \in RunId, Queues(k, got)
    PROVE  TableLife'
<1> USE DEF NoRun
<1>1. /\ got = QueuedOrNew(slots[k]) /\ Make(got, k)
      /\ \A j \in Key \ {k} : slots'[j] = slots[j]
      /\ slots'[k].running = slots[k].running /\ slots[k].running # NoRun
      /\ slots'[k].queued = got
      /\ UNCHANGED <<job, todo>>
  BY DEF Queues, Running
<1>2. /\ made \in Nat /\ made' \in Nat /\ made <= made' /\ got <= made'
      /\ state'[got].key = k
      /\ \A r \in RunId : r <= made => state'[r] = state[r]
      /\ \A r \in RunId : r <= made' => r <= made \/ r = got
      /\ slots[k].running \in RunId /\ slots[k].running < got
      /\ \A j \in Key \ {k} : slots[j].running # got /\ slots[j].queued # got
      /\ \A r, to \in RunId : LeadsOn(r, to) => LeadsOn(r, to)'
      /\ \A r \in RunId : state'[r].end = "Moved" => LeadsOn(r, state[r].to)'
  BY <1>1, HandedLater
<1>3. got # NoRun /\ made' \in 0..MaxRun
  BY <1>1 DEF RunId, IInv, TypeOK, Make
<1>4. \A q \in 1..made' : q \in RunId /\ (q \in 1..made \/ q = got)
  BY <1>2, <1>3, ConstantsAssumption DEF RunId
<1>5. FinishSpeaks'
  BY <1>1, <1>2, WordLeads DEF FinishSpeaks, RunId
<1>6. NoRunLost'
  <2> SUFFICES ASSUME NEW r \in 1..made' PROVE Accounted(r)'
    BY DEF NoRunLost
  <2>1. CASE r = got
    BY <1>1, <2>1 DEF Accounted
  <2>2. CASE r # got
    <3>1. r \in RunId /\ r \in 1..made /\ state'[r] = state[r]
      BY <1>2, <1>4, <2>2
    <3>2. Accounted(r)
      BY <3>1 DEF TableLife, NoRunLost
    <3>3. \A j \in Key : slots[j].queued = r => slots'[j].queued = r
      BY <1>1, <2>2, <3>1 DEF QueuedOrNew, RunId
    <3> QED BY <1>1, <3>1, <3>2, <3>3 DEF Accounted
  <2> QED BY <2>1, <2>2
<1>7. SlotIsLatest'
  <2> SUFFICES ASSUME NEW j \in Key, slots'[j].running # NoRun
               PROVE  /\ slots'[j].queued # NoRun => slots'[j].running < slots'[j].queued
                      /\ \A q \in 1..made' : state'[q].key = j =>
                            q <= slots'[j].running \/ q = slots'[j].queued
    BY DEF SlotIsLatest
  <2>1. CASE j = k
    <3>1. \A q \in 1..made' : state'[q].key = k => q <= slots[k].running \/ q = got
      <4> SUFFICES ASSUME NEW q \in 1..made', state'[q].key = k, q # got
                   PROVE  q <= slots[k].running
        OBVIOUS
      <4>1. q \in 1..made /\ q \in RunId /\ state[q].key = k
        BY <1>2, <1>4
      <4>2. q <= slots[k].running \/ q = slots[k].queued
        BY <1>1, <4>1 DEF TableLife, SlotIsLatest
      <4>3. q # slots[k].queued
        BY <1>1, <4>1 DEF QueuedOrNew, RunId
      <4> QED BY <4>2, <4>3
    <3> QED BY <1>1, <1>2, <2>1, <3>1
  <2>2. CASE j # k
    <3>1. slots'[j] = slots[j]
      BY <1>1, <2>2
    <3>2. \A q \in 1..made' : state'[q].key = j => q \in 1..made /\ state[q].key = j
      BY <1>2, <1>4, <2>2
    <3> QED BY <3>1, <3>2 DEF TableLife, SlotIsLatest
  <2> QED BY <2>1, <2>2
<1>8. MovedOn'
  BY <1>1, <1>2, WordLeads DEF MovedOn
<1> QED BY <1>5, <1>6, <1>7, <1>8 DEF TableLife

LEMMA SettlesLife ==
    ASSUME IInv, TableLife, NEW r \in RunId, Settles(r)
    PROVE  TableLife'
<1> USE DEF NoRun
<1> DEFINE k == state[r].key
<1> DEFINE s == slots[k]
<1>1. r <= made /\ k \in Key /\ made \in Nat
  BY BegunHasKey DEF Settles, IInv, TypeOK
<1>2. job \in [RunId -> Job] /\ slots \in [Key -> Slot]
  BY DEF IInv, TypeOK
<1>3. CASE SettlesBehind(r)
  <2>1. /\ UNCHANGED <<slots, made, state>>
        /\ todo' = todo \cup {<<Finish(r, "Dropped", NoRun)>>}
        /\ job' = [job EXCEPT ![r].task = "settled"]
    BY <1>3 DEF SettlesBehind
  <2>2. PICK new : new = <<Finish(r, "Dropped", NoRun)>>
    OBVIOUS
  <2>3. Len(new) = 1 /\ new[1].run = r /\ new[1].end = "Dropped"
    BY <2>2 DEF Finish
  <2>4. \A i \in 1..Len(new) : new[i].run = r /\ new[i].end = "Dropped"
    BY <2>3
  <2>5. FinishSpeaks' /\ MovedOn' /\ SlotIsLatest'
    BY <1>1, <2>1, <2>2, <2>4
       DEF TableLife, FinishSpeaks, MovedOn, SlotIsLatest, LeadsOn
  <2>6. NoRunLost'
    <3> SUFFICES ASSUME NEW q \in 1..made PROVE Accounted(q)'
      BY <2>1 DEF NoRunLost
    <3>1. CASE q = r
      <4>1. 1 \in 1..Len(new)
        BY <2>3
      <4> QED BY <2>1, <2>2, <2>3, <3>1, <4>1 DEF Accounted
    <3>2. CASE q # r
      <4>1. Accounted(q)
        BY DEF TableLife, NoRunLost
      <4>2. job[q].task = "live" => job'[q].task = "live"
        BY <1>2, <2>1, <3>2
      <4> QED BY <2>1, <4>1, <4>2 DEF Accounted
    <3> QED BY <3>1, <3>2
  <2> QED BY <2>5, <2>6 DEF TableLife
<1>4. ASSUME NEW end \in End, NEW to \in RunId \cup {NoRun}, SettlesAhead(r, end, to)
      PROVE  TableLife'
  <2>1. /\ s.running = r /\ end # "Open"
        /\ to = IF end = "Moved" THEN s.queued ELSE NoRun
        /\ end = "Moved" => s.queued # NoRun
        /\ \A q \in RunId \ {r, s.queued} : job'[q] = job[q]
        /\ UNCHANGED <<made, state>>
    BY <1>4 DEF SettlesAhead
  <2>2. PICK new :
          /\ todo' = todo \cup {new}
          /\ \/ s.queued # NoRun /\ new = <<Finish(r, end, to), Launch(s.queued)>>
             \/ new = Farewell(s, r, end, to)
    BY <1>4 DEF SettlesAhead
  <2>3. slots'[k].running \in {NoRun, s.queued} /\ slots'[k].queued = NoRun
        /\ \A j \in Key : j # k => slots'[j] = slots[j]
    <3>1. \/ slots' = [slots EXCEPT ![k] = InFlightOnly(s.queued)]
          \/ slots' = [slots EXCEPT ![k] = NoSlot]
      BY <1>4 DEF SettlesAhead
    <3> QED BY <1>1, <1>2, <3>1 DEF NoSlot, InFlightOnly
  <2>4. /\ Mentioned(r, new)
        /\ s.queued # NoRun => Mentioned(s.queued, new)
        /\ \A i \in 1..Len(new) :
              \/ new[i] = Finish(r, end, to)
              \/ s.queued # NoRun /\ new[i] = Launch(s.queued)
              \/ s.queued # NoRun /\ new[i] = Finish(s.queued, "Dropped", NoRun)
    <3>1. PICK slot : slot = s
      OBVIOUS
    <3>2. \/ slot.queued # NoRun /\ new = <<Finish(r, end, to), Launch(slot.queued)>>
          \/ new = Farewell(slot, r, end, to)
      BY <2>2, <3>1
    <3> HIDE DEF s
    <3>4. SettledWords(new, r, end, to, slot.queued)
      BY <3>2, SettledSaid
    <3>3. /\ Mentioned(r, new)
          /\ slot.queued # NoRun => Mentioned(slot.queued, new)
          /\ \A i \in 1..Len(new) :
                \/ new[i] = Finish(r, end, to)
                \/ slot.queued # NoRun /\ new[i] = Launch(slot.queued)
                \/ slot.queued # NoRun /\ new[i] = Finish(slot.queued, "Dropped", NoRun)
      BY <3>4 DEF SettledWords
    <3> QED BY <3>1, <3>3
  <2>5. s.queued # NoRun =>
            s.queued \in RunId /\ s.queued <= made /\ r < s.queued /\ state[s.queued].key = k
    BY <1>1, <1>2, <2>1
       DEF TableLife, SlotIsLatest, IInv, TableSound, SlotsOwnTheirRuns, Slot, RunId
  <2>6. FinishSpeaks'
    BY <1>1, <2>1, <2>2, <2>4, <2>5 DEF TableLife, FinishSpeaks, Finish, Launch
  <2>7. MovedOn'
    <3>1. ASSUME NEW w \in todo', NEW i \in 1..Len(w), w[i].end = "Moved"
          PROVE  LeadsOn(w[i].run, w[i].to)
      <4>1. CASE w \in todo
        BY <3>1, <4>1 DEF TableLife, MovedOn
      <4>2. CASE w = new
        <5>1. w[i].run = r /\ w[i].to = to /\ end = "Moved"
          BY <2>4, <3>1, <4>2 DEF Finish, Launch
        <5> QED BY <2>1, <2>5, <5>1 DEF LeadsOn
      <4> QED BY <2>2, <4>1, <4>2
    <3> QED BY <2>1, <3>1 DEF TableLife, MovedOn, LeadsOn
  <2>8. NoRunLost'
    <3> SUFFICES ASSUME NEW q \in 1..made PROVE Accounted(q)'
      BY <2>1 DEF NoRunLost
    <3>1. CASE q = r \/ q = s.queued
      BY <2>2, <2>4, <3>1 DEF Accounted, Mentioned
    <3>2. CASE q # r /\ q # s.queued
      <4>1. Accounted(q) /\ q \in RunId
        BY ConstantsAssumption DEF TableLife, NoRunLost, RunId, IInv, TypeOK
      <4>2. \A j \in Key : slots[j].queued = q => slots'[j].queued = q
        BY <2>3, <3>2
      <4> QED BY <2>1, <2>2, <3>2, <4>1, <4>2 DEF Accounted
    <3> QED BY <3>1, <3>2
  <2>9. SlotIsLatest'
    <3> SUFFICES ASSUME NEW j \in Key, slots'[j].running # NoRun
                 PROVE  /\ slots'[j].queued # NoRun => slots'[j].running < slots'[j].queued
                        /\ \A q \in 1..made : state[q].key = j =>
                              q <= slots'[j].running \/ q = slots'[j].queued
      BY <2>1 DEF SlotIsLatest
    <3>1. CASE j = k
      <4>1. slots'[j].running = s.queued /\ s.queued # NoRun /\ slots'[j].queued = NoRun
        BY <2>3, <3>1
      <4>2. \A q \in 1..made : state[q].key = k => q <= r \/ q = s.queued
        BY <1>1, <2>1 DEF TableLife, SlotIsLatest, RunId
      <4> QED BY <1>1, <2>5, <3>1, <4>1, <4>2 DEF RunId
    <3>2. CASE j # k
      BY <2>3, <3>2 DEF TableLife, SlotIsLatest
    <3> QED BY <3>1, <3>2
  <2> QED BY <2>6, <2>7, <2>8, <2>9 DEF TableLife
<1> QED BY <1>3, <1>4 DEF Settles

LEMMA WorksLife ==
    ASSUME IInv, TableLife, NEW w \in todo, Work(w)
    PROVE  TableLife'
<1> DEFINE do == Head(w)
<1>1. /\ do \in Effect /\ do = w[1] /\ 1 \in 1..Len(w)
      /\ job \in [RunId -> Job] /\ state \in [RunId -> State]
  BY EffectsShrink DEF IInv, TypeOK
<1>2. /\ UNCHANGED <<slots, made>>
      /\ todo' = (todo \ {w}) \cup (IF Len(w) = 1 THEN {} ELSE {Tail(w)})
  BY DEF Work
<1>3. /\ \A v \in todo' : \A i \in 1..Len(v) : \E u \in todo : \E j \in 1..Len(u) : v[i] = u[j]
      /\ \A v \in todo : \A i \in 1..Len(v) :
            \/ v = w /\ i = 1
            \/ \E u \in todo' : \E j \in 1..Len(u) : u[j] = v[i]
  <2>1. /\ \A v \in todo' : \A i \in 1..Len(v) :
              \/ v \in todo /\ v # w
              \/ v = Tail(w) /\ i + 1 \in 1..Len(w) /\ v[i] = w[i + 1]
        /\ \A v \in todo : \A i \in 1..Len(v) :
              \/ v = w /\ i = 1
              \/ v \in todo'
              \/ v = w /\ Tail(w) \in todo' /\ i - 1 \in 1..Len(Tail(w)) /\ Tail(w)[i - 1] = w[i]
    BY <1>2, WorkLeaves DEF IInv
  <2>2. ASSUME NEW v \in todo', NEW i \in 1..Len(v)
        PROVE  \E u \in todo : \E j \in 1..Len(u) : v[i] = u[j]
    <3>1. CASE v \in todo
      BY <3>1
    <3>2. CASE v = Tail(w) /\ i + 1 \in 1..Len(w) /\ v[i] = w[i + 1]
      BY <3>2
    <3> QED BY <2>1, <3>1, <3>2
  <2>3. ASSUME NEW v \in todo, NEW i \in 1..Len(v), ~(v = w /\ i = 1)
        PROVE  \E u \in todo' : \E j \in 1..Len(u) : u[j] = v[i]
    <3>1. CASE v \in todo'
      BY <3>1
    <3>2. CASE v = w /\ Tail(w) \in todo' /\ i - 1 \in 1..Len(Tail(w)) /\ Tail(w)[i - 1] = w[i]
      BY <3>2
    <3> QED BY <2>1, <2>3, <3>1, <3>2
  <2> QED BY <2>2, <2>3
<1>4. /\ \A r \in RunId : state'[r].key = state[r].key
      /\ \A r \in RunId : \/ state'[r] = state[r]
                          \/ /\ do.op = "finish" /\ r = do.run
                             /\ state'[r].end = do.end /\ state'[r].to = do.to
      /\ do.op = "finish" => /\ state'[do.run].end # "Open"
                             /\ UNCHANGED job
      /\ do.op = "launch" => /\ job'[do.run].task = "live" /\ UNCHANGED state
                             /\ \A r \in RunId : r # do.run => job'[r] = job[r]
  <2>1. CASE do.op = "finish"
    <3> DEFINE said == [key |-> state[do.run].key, end |-> do.end, to |-> do.to]
    <3>1. do.run \in RunId /\ do.end # "Open"
      BY <1>1, <2>1, WordLeads
    <3>2. /\ state' = IF state[do.run].end = "Open"
                      THEN [state EXCEPT ![do.run] = said] ELSE state
          /\ UNCHANGED job
      BY <2>1 DEF Work
    <3>3. said.key = state[do.run].key /\ said.end = do.end /\ said.to = do.to
      OBVIOUS
    <3> HIDE DEF said
    <3> QED BY <1>1, <2>1, <3>1, <3>2, <3>3
  <2>2. CASE do.op = "launch"
    <3>1. job' = [job EXCEPT ![do.run].task = "live"] /\ UNCHANGED state
      BY <2>2 DEF Work
    <3>2. do.run \in RunId
      BY <1>1 DEF Effect
    <3>3. PICK r \in RunId : r = do.run
      BY <3>2
    <3>4. job' = [job EXCEPT ![r].task = "live"]
      BY <3>1, <3>3
    <3>5. job'[r].task = "live" /\ \A q \in RunId : q # r => job'[q] = job[q]
      BY <1>1, <3>4 DEF Job
    <3> QED BY <2>2, <3>1, <3>3, <3>5
  <2> QED BY <2>1, <2>2 DEF Work
<1>5. FinishSpeaks'
  <2> SUFFICES ASSUME NEW v \in todo', NEW i \in 1..Len(v)
               PROVE  v[i].run <= made' /\ (v[i].op = "finish" => v[i].end # "Open")
    BY DEF FinishSpeaks
  <2>1. PICK u \in todo : \E j \in 1..Len(u) : v[i] = u[j]
    BY <1>3
  <2> QED BY <1>2, <2>1 DEF TableLife, FinishSpeaks
<1>6. \A r, to \in RunId : LeadsOn(r, to) => LeadsOn(r, to)'
  BY <1>2, <1>4 DEF LeadsOn
<1>7. MovedOn'
  <2>1. ASSUME NEW r \in RunId, state'[r].end = "Moved"
        PROVE  LeadsOn(r, state[r].to)'
    <3>1. CASE state'[r] = state[r]
      <4>1. LeadsOn(r, state[r].to)
        BY <2>1, <3>1 DEF TableLife, MovedOn
      <4>2. PICK to \in RunId : to = state[r].to
        BY <1>1, <4>1 DEF LeadsOn, State
      <4>3. LeadsOn(r, to)'
        BY <1>6, <4>1, <4>2
      <4> QED BY <3>1, <4>2, <4>3 DEF LeadsOn
    <3>2. CASE do.op = "finish" /\ r = do.run /\ state'[r].end = do.end /\ state'[r].to = do.to
      <4>1. PICK to \in RunId : to = do.to /\ LeadsOn(r, to)
        BY <1>1, <2>1, <3>2, WordLeads
      <4>2. LeadsOn(r, to)'
        BY <1>6, <4>1
      <4> QED BY <3>2, <4>1, <4>2 DEF LeadsOn
    <3> QED BY <1>4, <3>1, <3>2
  <2>2. ASSUME NEW v \in todo', NEW i \in 1..Len(v), v[i].end = "Moved"
        PROVE  LeadsOn(v[i].run, v[i].to)'
    BY <1>3, <1>6, <2>2, WordLeads
  <2> QED BY <2>1, <2>2 DEF MovedOn
<1>8. NoRunLost'
  <2> SUFFICES ASSUME NEW r \in 1..made PROVE Accounted(r)'
    BY <1>2 DEF NoRunLost
  <2>1. r \in RunId /\ Accounted(r)
    BY ConstantsAssumption DEF TableLife, NoRunLost, RunId, IInv, TypeOK
  <2>2. CASE r = do.run
    BY <1>4, <2>2 DEF Accounted, Work
  <2>3. CASE r # do.run
    <3>1. state'[r] = state[r] /\ job'[r] = job[r]
      BY <1>4, <2>1, <2>3 DEF Work
    <3>2. (\E v \in todo : \E i \in 1..Len(v) : v[i].run = r) =>
                \E v \in todo' : \E i \in 1..Len(v) : v[i].run = r
      BY <1>1, <1>3, <2>3
    <3> QED BY <1>2, <2>1, <3>1, <3>2 DEF Accounted
  <2> QED BY <2>2, <2>3
<1>9. SlotIsLatest'
  <2>1. \A q \in 1..made : q \in RunId
    BY ConstantsAssumption DEF RunId, IInv, TypeOK
  <2> QED BY <1>2, <1>4, <2>1 DEF TableLife, SlotIsLatest
<1> QED BY <1>5, <1>7, <1>8, <1>9 DEF TableLife

\* Whatever the step, no run is lost, a slot's runs are the last of their
\* instance, and waiters are sent forward.
LEMMA TableLifeKept ==
    ASSUME IInv, TableLife, TableStep
    PROVE  TableLife'
<1>1. CASE Leaves
  BY <1>1 DEF Leaves, tableVars, TableLife, FinishSpeaks, NoRunLost, Accounted,
     SlotIsLatest, MovedOn, LeadsOn
<1>2. CASE Marks
  BY <1>2 DEF Marks, TableLife, FinishSpeaks, NoRunLost, Accounted,
     SlotIsLatest, MovedOn, LeadsOn
<1> QED BY <1>1, <1>2, HandsLife, QueuesLife, SettlesLife, WorksLife
        DEF TableStep, Works

-----------------------------------------------------------------------------
(* The shapes keep what runs have looked at: LookLife. *)

\* Runs stay of their instance, and more are only ever made.
LEMMA RunsKeep ==
    ASSUME IInv, TableLife, TableStep
    PROVE  /\ made \in Nat /\ made' \in Nat /\ made <= made'
           /\ \A r \in RunId : r <= made => state'[r].key = state[r].key
<1>1. made \in Nat /\ state \in [RunId -> State]
  BY DEF IInv, TypeOK
<1>2. CASE UNCHANGED <<made, state>>
  BY <1>1, <1>2
<1>3. ASSUME NEW k \in Key, NEW got \in RunId, got = QueuedOrNew(slots[k]), Make(got, k)
      PROVE  /\ made' \in Nat /\ made <= made'
             /\ \A r \in RunId : r <= made => state'[r].key = state[r].key
  BY <1>3, HandedLater
<1>4. ASSUME NEW w \in todo, Work(w)
      PROVE  UNCHANGED made /\ \A r \in RunId : state'[r].key = state[r].key
  <2> DEFINE do == Head(w)
  <2> DEFINE said == [key |-> state[do.run].key, end |-> do.end, to |-> do.to]
  <2>1. UNCHANGED made /\ (state' = state \/ state' = [state EXCEPT ![do.run] = said])
    BY <1>4 DEF Work
  <2>2. said.key = state[do.run].key
    OBVIOUS
  <2> HIDE DEF said
  <2> QED BY <1>1, <2>1, <2>2
<1>5. CASE Leaves \/ Marks \/ \E r \in RunId : Settles(r)
  BY <1>2, <1>5 DEF Leaves, Marks, Settles, SettlesBehind, SettlesAhead, tableVars
<1> QED BY <1>1, <1>3, <1>4, <1>5 DEF TableStep, Hands, Queues, Works

\* A run that waits to be launched has not begun, and nobody else launches it.
LEMMA LaunchedOnceKept ==
    ASSUME IInv, TableLife, LaunchedOnce, TableStep, \A r \in RunId : ThreadStep(r)
    PROVE  LaunchedOnce'
<1> USE DEF NoRun
<1>1. \A w \in todo : \A i \in 1..Len(w) : w[i].run \in RunId
  BY ElementOfTodo DEF IInv
<1>2. ASSUME NEW w \in todo, Works(w)
      PROVE  LaunchedOnce'
  <2> DEFINE do == Head(w)
  <2>1. /\ do = w[1] /\ 1 \in 1..Len(w)
    BY EffectsShrink DEF IInv, TypeOK
  <2>2. /\ \A v \in todo' : \A i \in 1..Len(v) :
              \/ v \in todo /\ v # w
              \/ v = Tail(w) /\ i + 1 \in 1..Len(w) /\ v[i] = w[i + 1]
    BY <1>2, WorkLeaves DEF IInv, Works, Work
  <2>3. ASSUME NEW v \in todo', NEW i \in 1..Len(v), v[i].op = "launch"
        PROVE  \E u \in todo : \E j \in 1..Len(u) :
                  /\ u[j] = v[i]
                  /\ \/ u = v /\ i = j /\ u # w
                     \/ u = w /\ j = i + 1 /\ v = Tail(w)
    <3>1. CASE v \in todo /\ v # w
      BY <3>1
    <3>2. CASE v = Tail(w) /\ i + 1 \in 1..Len(w) /\ v[i] = w[i + 1]
      BY <3>2
    <3> QED BY <2>2, <3>1, <3>2
  <2>4. ASSUME NEW v \in todo', NEW i \in 1..Len(v), v[i].op = "launch"
        PROVE  thread'[v[i].run].pc = "none"
    <3>1. PICK u \in todo : \E j \in 1..Len(u) :
                  /\ u[j] = v[i]
                  /\ \/ u = v /\ i = j /\ u # w
                     \/ u = w /\ j = i + 1 /\ v = Tail(w)
      BY <2>3, <2>4
    <3>2. PICK j \in 1..Len(u) :
                  /\ u[j] = v[i]
                  /\ \/ u = v /\ i = j /\ u # w
                     \/ u = w /\ j = i + 1 /\ v = Tail(w)
      BY <3>1
    <3>3. v[i].run \in RunId /\ thread[v[i].run].pc = "none"
      BY <1>1, <2>4, <3>2 DEF LaunchedOnce
    <3>4. ~(do.op = "launch" /\ do.run = v[i].run)
      <4> SUFFICES ASSUME do.op = "launch", do.run = v[i].run PROVE FALSE
        OBVIOUS
      <4>1. u = w /\ j = 1
        BY <2>1, <2>4, <3>2 DEF LaunchedOnce
      <4>2. (u = v /\ i = j /\ u # w) \/ (j = i + 1 /\ i \in Nat \ {0})
        BY <3>2
      <4> QED BY <4>1, <4>2
    <3>5. ~Launches(v[i].run)
      <4> SUFFICES ASSUME NEW x \in todo, Works(x), Head(x).op = "launch",
                          Head(x).run = v[i].run
                   PROVE  FALSE
        BY DEF Launches
      <4>1. CASE x = w
        BY <3>4, <4>1
      <4>2. CASE x # w
        <5>1. Head(x) = x[1] /\ 1 \in 1..Len(x)
          BY EffectsShrink DEF IInv, TypeOK
        <5>2. x = u /\ j = 1
          BY <2>4, <3>2, <5>1 DEF LaunchedOnce
        <5>3. u = v /\ i = j
          BY <3>2, <4>2, <5>2
        <5>4. v \in todo' /\ todo' = (todo \ {x}) \cup (IF Len(x) = 1 THEN {} ELSE {Tail(x)})
          BY DEF Works, Work
        <5>5. Len(x) # 1 /\ v = Tail(x)
          BY <5>2, <5>3, <5>4
        <5>6. x \in Seq(Effect) /\ x # << >>
          BY DEF IInv, TypeOK, Effects
        <5>7. Len(Tail(x)) = Len(x) - 1 /\ Len(x) \in Nat
          BY <5>6, HeadTailProperties
        <5> QED BY <5>2, <5>3, <5>5, <5>7
      <4> QED BY <4>1, <4>2
    <3> QED BY <3>3, <3>5 DEF ThreadStep
  <2>5. ASSUME NEW v \in todo', NEW x \in todo', NEW i \in 1..Len(v), NEW j \in 1..Len(x),
               v[i].op = "launch", x[j].op = "launch", v[i].run = x[j].run
        PROVE  v = x /\ i = j
    <3>1. PICK u \in todo : \E m \in 1..Len(u) :
                  /\ u[m] = v[i]
                  /\ \/ u = v /\ i = m /\ u # w
                     \/ u = w /\ m = i + 1 /\ v = Tail(w)
      BY <2>3, <2>5
    <3>2. PICK m \in 1..Len(u) :
                  /\ u[m] = v[i]
                  /\ \/ u = v /\ i = m /\ u # w
                     \/ u = w /\ m = i + 1 /\ v = Tail(w)
      BY <3>1
    <3>3. PICK y \in todo : \E n \in 1..Len(y) :
                  /\ y[n] = x[j]
                  /\ \/ y = x /\ j = n /\ y # w
                     \/ y = w /\ n = j + 1 /\ x = Tail(w)
      BY <2>3, <2>5
    <3>4. PICK n \in 1..Len(y) :
                  /\ y[n] = x[j]
                  /\ \/ y = x /\ j = n /\ y # w
                     \/ y = w /\ n = j + 1 /\ x = Tail(w)
      BY <3>3
    <3>5. u = y /\ m = n
      BY <2>5, <3>2, <3>4 DEF LaunchedOnce
    <3>6. CASE u = w
      BY <3>2, <3>4, <3>5, <3>6
    <3>7. CASE u # w
      BY <3>2, <3>4, <3>5, <3>7
    <3> QED BY <3>6, <3>7
  <2> QED BY <2>4, <2>5 DEF LaunchedOnce
<1>3. ASSUME ~\E w \in todo : Works(w),
             \/ UNCHANGED todo
             \/ \E new : /\ todo' = todo \cup {new}
                         /\ \A i \in 1..Len(new) : new[i].op = "launch" =>
                                /\ new[i].run \in RunId /\ thread[new[i].run].pc = "none"
                                /\ \A w \in todo : \A j \in 1..Len(w) :
                                        w[j].op = "launch" => w[j].run # new[i].run
                         /\ OneLaunch(new)
      PROVE  LaunchedOnce'
  <2>1. \A r \in RunId : thread[r].pc = "none" => thread'[r].pc = "none"
    BY <1>3 DEF ThreadStep, Launches
  <2>2. CASE UNCHANGED todo
    BY <1>1, <2>1, <2>2 DEF LaunchedOnce
  <2>3. ASSUME NEW new, todo' = todo \cup {new},
               \A i \in 1..Len(new) : new[i].op = "launch" =>
                                /\ new[i].run \in RunId /\ thread[new[i].run].pc = "none"
                                /\ \A w \in todo : \A j \in 1..Len(w) :
                                        w[j].op = "launch" => w[j].run # new[i].run,
               OneLaunch(new)
        PROVE  LaunchedOnce'
    <3>1. \A w \in todo' : \A i \in 1..Len(w) :
            w[i].op = "launch" => thread'[w[i].run].pc = "none"
      BY <1>1, <2>1, <2>3 DEF LaunchedOnce
    <3>2. \A w, v \in todo' : \A i \in 1..Len(w), j \in 1..Len(v) :
            (w[i].op = "launch" /\ v[j].op = "launch" /\ w[i].run = v[j].run) =>
                w = v /\ i = j
      BY <2>3 DEF LaunchedOnce, OneLaunch
    <3> QED BY <3>1, <3>2 DEF LaunchedOnce
  <2> QED BY <1>3, <2>2, <2>3
<1>4. ASSUME NEW k \in Key, NEW got \in RunId, Hands(k, got), ~\E w \in todo : Works(w)
      PROVE  LaunchedOnce'
  <2>1. PICK new :
        /\ new = IF Running(k) THEN Handover(slots[k].running, got) ELSE <<Launch(got)>>
        /\ todo' = todo \cup {new}
    BY <1>4 DEF Hands
  <2>2. /\ thread[got].pc = "none"
        /\ \A w \in todo : \A i \in 1..Len(w) : w[i].op = "launch" => w[i].run # got
    BY <1>4, HandedOut DEF Hands
  <2>3. got # NoRun
    BY DEF RunId
  <2>4. /\ \A i \in 1..Len(new) :
              \/ new[i] = Launch(got)
              \/ Running(k) /\ new[i] = Finish(slots[k].running, "Moved", got)
        /\ OneLaunch(new)
    BY <2>1, <2>3, HandedSaid
  <2>5. \A i \in 1..Len(new) : new[i].op = "launch" => new[i].run = got
    BY <2>4 DEF Launch, Finish
  <2> QED BY <1>3, <1>4, <2>1, <2>2, <2>4, <2>5
<1>5. ASSUME NEW r \in RunId, Settles(r), ~\E w \in todo : Works(w)
      PROVE  LaunchedOnce'
  <2>1. CASE SettlesBehind(r)
    <3>1. PICK new : new = <<Finish(r, "Dropped", NoRun)>> /\ todo' = todo \cup {new}
      BY <2>1 DEF SettlesBehind
    <3>2. Len(new) = 1 /\ new[1].op = "finish"
      BY <3>1 DEF Finish
    <3>3. \A i \in 1..Len(new) : new[i].op # "launch"
      BY <3>2
    <3>4. OneLaunch(new)
      BY <3>3 DEF OneLaunch
    <3> QED BY <1>3, <1>5, <3>1, <3>3, <3>4
  <2>2. ASSUME NEW end, NEW to, SettlesAhead(r, end, to)
        PROVE  LaunchedOnce'
    <3>1. PICK s : s = slots[state[r].key]
      OBVIOUS
    <3>2. PICK new :
            /\ todo' = todo \cup {new}
            /\ \/ s.queued # NoRun /\ new = <<Finish(r, end, to), Launch(s.queued)>>
               \/ new = Farewell(s, r, end, to)
      BY <2>2, <3>1 DEF SettlesAhead
    <3>3. SettledWords(new, r, end, to, s.queued)
      BY <3>2, SettledSaid
    <3>4. state[r].key \in Key
      BY <1>5, BegunHasKey DEF Settles
    <3>5. s.queued # NoRun => /\ s.queued \in RunId /\ thread[s.queued].pc = "none"
                              /\ \A w \in todo : \A i \in 1..Len(w) :
                                    w[i].op = "launch" => w[i].run # s.queued
      BY <3>1, <3>4 DEF IInv, TypeOK, Slot, TableSound, QueuedHasNotBegun, LaunchedIsNotQueued
    <3>6. \A i \in 1..Len(new) : new[i].op = "launch" => s.queued # NoRun /\ new[i].run = s.queued
      BY <3>3 DEF SettledWords, Finish, Launch
    <3>7. OneLaunch(new)
      BY <3>3 DEF SettledWords
    <3> QED BY <1>3, <1>5, <3>2, <3>5, <3>6, <3>7
  <2> QED BY <1>5, <2>1, <2>2 DEF Settles
<1> QED BY <1>2, <1>3, <1>4, <1>5 DEF TableStep, Leaves, Marks, Queues, Works, tableVars

\* A stamp is of inputs that were there, and a run that executes has one.
LEMMA StampsKeptKept ==
    ASSUME IInv, TableLife, StampsKept, Shape, TypeOK'
    PROVE  StampsKept'
<1> USE DEF NoRun
<1>1. /\ made \in Nat /\ made' \in Nat /\ made <= made'
      /\ \A r \in RunId : r <= made => state'[r].key = state[r].key
  BY RunsKeep DEF Shape
<1>2. version \in [Key -> Nat \ {0}] /\ stamp \in [RunId -> Nat]
      /\ \A k \in Key : version'[k] >= version[k] /\ version[k] # NoStamp /\ version'[k] \in Nat
  BY DEF Shape, IInv, TypeOK, Version, NoStamp
<1> SUFFICES ASSUME NEW r \in RunId
             PROVE  /\ thread'[r].pc = "none" => stamp'[r] = NoStamp
                    /\ thread'[r].pc \in {"executing", "waiting", "done"} => stamp'[r] # NoStamp
                    /\ stamp'[r] # NoStamp => stamp'[r] <= version'[state'[r].key]
  BY DEF StampsKept
<1>3. thread[r].pc # "none" => state'[r].key = state[r].key /\ state[r].key \in Key
  BY <1>1, BegunHasKey
<1>4. stamp[r] # NoStamp => thread[r].pc # "none" /\ stamp[r] <= version[state[r].key]
  BY DEF StampsKept
<1>5. CASE thread'[r].pc = thread[r].pc /\ stamp'[r] = stamp[r]
  <2>1. stamp[r] # NoStamp => stamp[r] <= version'[state'[r].key]
    BY <1>2, <1>3, <1>4
  <2> QED BY <1>5, <2>1 DEF StampsKept
<1>6. CASE /\ thread[r].pc = "spawned" /\ thread'[r].pc = "executing"
           /\ stamp'[r] = version[state[r].key]
  BY <1>2, <1>3, <1>6
<1>7. CASE /\ thread[r].pc \in {"executing", "waiting"}
           /\ thread'[r].pc \in {"executing", "waiting", "done"}
           /\ stamp'[r] = stamp[r]
  <2>1. stamp[r] # NoStamp /\ stamp[r] <= version[state[r].key] /\ thread[r].pc # "none"
    BY <1>7 DEF StampsKept
  <2> QED BY <1>2, <1>3, <1>7, <2>1
<1>8. CASE thread'[r].pc = "spawned" /\ stamp'[r] = stamp[r]
  <2>1. stamp[r] # NoStamp => stamp[r] <= version'[state'[r].key]
    BY <1>2, <1>3, <1>4
  <2> QED BY <1>8, <2>1
<1>9. ThreadStep(r)
  BY DEF Shape
<1> QED BY <1>5, <1>6, <1>7, <1>8, <1>9 DEF ThreadStep

\* Who has looked at its inputs has done so.
LEMMA StampsStay ==
    ASSUME IInv, StampsKept, NEW r \in RunId, ThreadStep(r), stamp[r] # NoStamp
    PROVE  stamp'[r] # NoStamp
<1>1. thread[r].pc # "none" /\ state[r].key \in Key
  BY BegunHasKey DEF StampsKept
<1>2. version[state[r].key] # NoStamp
  BY <1>1 DEF IInv, TypeOK, Version, NoStamp
<1> QED BY <1>2 DEF ThreadStep

\* A run is only said to be stored once it has looked at its inputs.
LEMMA StoredStampedKept ==
    ASSUME IInv, TableLife, LookLife, Shape
    PROVE  StoredStamped'
<1> USE DEF NoRun, LookLife
<1>1. \A r \in RunId : stamp[r] # NoStamp => stamp'[r] # NoStamp
  BY StampsStay DEF Shape
<1>2. \A w \in todo : \A i \in 1..Len(w) : w[i].run \in RunId
  BY ElementOfTodo DEF IInv
<1>3. ASSUME \A r \in RunId : state'[r].end = "Stored" => stamp[r] # NoStamp,
             \A w \in todo' : \A i \in 1..Len(w) : w[i].end = "Stored" =>
                w[i].run \in RunId /\ stamp[w[i].run] # NoStamp
      PROVE  StoredStamped'
  BY <1>1, <1>3 DEF StoredStamped
<1>4. CASE UNCHANGED <<state, todo>>
  BY <1>2, <1>3, <1>4 DEF StoredStamped
<1>5. ASSUME NEW k \in Key, NEW got \in RunId, got = QueuedOrNew(slots[k]), Make(got, k)
      PROVE  \A r \in RunId : state'[r].end = "Stored" => stamp[r] # NoStamp
  <2>1. state' = state \/ state' = [state EXCEPT ![got] = OpenFor(k)]
    BY <1>5 DEF Make
  <2>2. OpenFor(k).end = "Open"
    BY DEF OpenFor
  <2> QED BY <2>1, <2>2 DEF StoredStamped, IInv, TypeOK
<1>6. ASSUME NEW k \in Key, NEW got \in RunId, Hands(k, got)
      PROVE  StoredStamped'
  <2>1. PICK new :
        /\ new = IF Running(k) THEN Handover(slots[k].running, got) ELSE <<Launch(got)>>
        /\ todo' = todo \cup {new}
    BY <1>6 DEF Hands
  <2>2. got # NoRun
    BY DEF RunId
  <2>3. \A i \in 1..Len(new) :
              \/ new[i] = Launch(got)
              \/ Running(k) /\ new[i] = Finish(slots[k].running, "Moved", got)
    BY <2>1, <2>2, HandedSaid
  <2>4. \A i \in 1..Len(new) : new[i].end # "Stored"
    BY <2>3 DEF Launch, Finish
  <2> QED BY <1>2, <1>3, <1>5, <1>6, <2>1, <2>4 DEF Hands, StoredStamped
<1>7. ASSUME NEW k \in Key, NEW got \in RunId, Queues(k, got)
      PROVE  StoredStamped'
  BY <1>2, <1>3, <1>5, <1>7 DEF Queues, StoredStamped
<1>8. ASSUME NEW r \in RunId, Settles(r)
      PROVE  StoredStamped'
  <2>1. ASSUME NEW new, todo' = todo \cup {new},
               \A i \in 1..Len(new) : new[i].end = "Stored" =>
                    new[i].run = r /\ stamp[r] # NoStamp
        PROVE  StoredStamped'
    BY <1>2, <1>3, <1>8, <2>1 DEF Settles, SettlesBehind, SettlesAhead, StoredStamped
  <2>2. CASE SettlesBehind(r)
    <3>1. PICK new : new = <<Finish(r, "Dropped", NoRun)>> /\ todo' = todo \cup {new}
      BY <2>2 DEF SettlesBehind
    <3>2. Len(new) = 1 /\ new[1].end = "Dropped"
      BY <3>1 DEF Finish
    <3>3. \A i \in 1..Len(new) : new[i].end # "Stored"
      BY <3>2
    <3> QED BY <2>1, <3>1, <3>3
  <2>3. ASSUME NEW end, NEW to, SettlesAhead(r, end, to)
        PROVE  StoredStamped'
    <3>1. PICK s : s = slots[state[r].key]
      OBVIOUS
    <3>2. PICK new :
            /\ todo' = todo \cup {new}
            /\ \/ s.queued # NoRun /\ new = <<Finish(r, end, to), Launch(s.queued)>>
               \/ new = Farewell(s, r, end, to)
      BY <2>3, <3>1 DEF SettlesAhead
    <3>3. SettledWords(new, r, end, to, s.queued)
      BY <3>2, SettledSaid
    <3>4. \A i \in 1..Len(new) : new[i].end = "Stored" => new[i].run = r /\ end = "Stored"
      BY <3>3 DEF SettledWords, Finish, Launch
    <3>5. end = "Stored" => stamp[r] # NoStamp
      BY <2>3 DEF SettlesAhead, StampsKept
    <3> QED BY <2>1, <3>2, <3>4, <3>5
  <2> QED BY <1>8, <2>2, <2>3 DEF Settles
<1>9. ASSUME NEW w \in todo, Works(w)
      PROVE  StoredStamped'
  <2> DEFINE do == Head(w)
  <2> DEFINE said == [key |-> state[do.run].key, end |-> do.end, to |-> do.to]
  <2>1. do = w[1] /\ 1 \in 1..Len(w)
    BY EffectsShrink DEF IInv, TypeOK
  <2>2. state' = state \/ state' = [state EXCEPT ![do.run] = said]
    BY <1>9 DEF Works, Work
  <2>3. said.end = do.end
    OBVIOUS
  <2>4. do.end = "Stored" => stamp[do.run] # NoStamp
    BY <2>1 DEF StoredStamped
  <2>5. \A r \in RunId : state'[r].end = "Stored" => stamp[r] # NoStamp
    <3> HIDE DEF said
    <3> QED BY <2>2, <2>3, <2>4 DEF StoredStamped, IInv, TypeOK
  <2>6. \A v \in todo' : \A i \in 1..Len(v) :
              \/ v \in todo /\ v # w
              \/ v = Tail(w) /\ i + 1 \in 1..Len(w) /\ v[i] = w[i + 1]
    BY <1>9, WorkLeaves DEF IInv, Works, Work
  <2>7. \A v \in todo' : \A i \in 1..Len(v) : v[i].end = "Stored" =>
                v[i].run \in RunId /\ stamp[v[i].run] # NoStamp
    BY <1>2, <2>6 DEF StoredStamped
  <2> QED BY <1>3, <2>5, <2>7
<1> QED BY <1>4, <1>6, <1>7, <1>8, <1>9
        DEF Shape, TableStep, Leaves, Marks, tableVars

LEMMA LookLifeKept ==
    ASSUME IInv, TableLife, LookLife, Shape, TypeOK'
    PROVE  LookLife'
BY LaunchedOnceKept, StampsKeptKept, StoredStampedKept DEF LookLife, Shape

-----------------------------------------------------------------------------
(* The shapes keep who looked before whom: RecordBehind, NeedMet, WaitsOnKey. *)

\* A run that has not looked at its inputs by now looks no earlier than now.
LEMMA LooksLater ==
    ASSUME IInv, TypeOK', TableLife, LookLife, Shape,
           NEW q \in RunId, q <= made', NEW n \in Nat,
           q <= made => n <= version[state[q].key],
           stamp[q] = NoStamp \/ stamp[q] >= n
    PROVE  stamp'[q] = NoStamp \/ stamp'[q] >= n
<1>1. CASE stamp'[q] = stamp[q]
  BY <1>1
<1>2. CASE stamp'[q] = version[state[q].key] /\ thread[q].pc = "spawned"
  <2>1. q <= made /\ state[q].key \in Key
    BY <1>2, BegunHasKey
  <2>2. version[state[q].key] \in Nat
    BY <2>1 DEF IInv, TypeOK, Version
  <2> QED BY <1>2, <2>1, <2>2
<1> QED BY <1>1, <1>2 DEF Shape, ThreadStep

\* What is known of the runs made after r stays known, and of those made since.
LEMMA NoneLooksBeforeKept ==
    ASSUME IInv, TypeOK', TableLife, LookLife, Shape,
           NEW r \in RunId, r <= made, NEW n \in Nat,
           n <= version[state[r].key], NoneLooksBefore(r, n)
    PROVE  NoneLooksBefore(r, n)'
<1>1. /\ made \in Nat /\ made' \in Nat /\ made <= made' /\ made' <= MaxRun
      /\ \A q \in RunId : q <= made => state'[q].key = state[q].key
  BY RunsKeep DEF Shape, TypeOK
<1> SUFFICES ASSUME NEW q \in r..made', state'[q].key = state'[r].key
             PROVE  stamp'[q] = NoStamp \/ stamp'[q] >= n
  BY DEF NoneLooksBefore
<1>2. q \in RunId /\ q <= made'
  BY <1>1, ConstantsAssumption DEF RunId
<1>3. CASE q <= made
  <2>1. state[q].key = state[r].key /\ q \in r..made
    BY <1>1, <1>2, <1>3 DEF RunId
  <2>2. stamp[q] = NoStamp \/ stamp[q] >= n
    BY <2>1 DEF NoneLooksBefore
  <2> QED BY <1>2, <2>1, <2>2, LooksLater
<1>4. CASE ~(q <= made)
  <2>1. stamp[q] = NoStamp
    BY <1>2, <1>4 DEF IInv, TableSound, OnlyMadeRuns, LookLife, StampsKept
  <2> QED BY <1>2, <1>4, <2>1, LooksLater
<1> QED BY <1>3, <1>4

\* Which runs a slot may come to have: those it had, or one handed out.
LEMMA SlotsNext ==
    ASSUME IInv, TableLife, TableStep, NEW k \in Key,
           NEW r \in {slots'[k].running, slots'[k].queued}, r # NoRun
    PROVE  \/ r \in {slots[k].running, slots[k].queued}
           \/ r \in RunId /\ r = made + 1
<1>1. slots \in [Key -> Slot]
  BY DEF IInv, TypeOK
<1>2. ASSUME NEW j \in Key, NEW got \in RunId, Hands(j, got)
      PROVE  \/ r \in {slots[k].running, slots[k].queued}
             \/ r \in RunId /\ r = made + 1
  BY <1>1, <1>2 DEF Hands, InFlightOnly, QueuedOrNew
<1>3. ASSUME NEW j \in Key, NEW got \in RunId, Queues(j, got)
      PROVE  \/ r \in {slots[k].running, slots[k].queued}
             \/ r \in RunId /\ r = made + 1
  BY <1>1, <1>3 DEF Queues, QueuedOrNew
<1>4. ASSUME NEW q \in RunId, Settles(q)
      PROVE  r \in {slots[k].running, slots[k].queued}
  <2>1. CASE SettlesBehind(q)
    BY <2>1 DEF SettlesBehind
  <2>2. CASE \E end \in End, to \in RunId \cup {NoRun} : SettlesAhead(q, end, to)
    <3>1. \/ slots' = [slots EXCEPT ![state[q].key] = InFlightOnly(slots[state[q].key].queued)]
          \/ slots' = [slots EXCEPT ![state[q].key] = NoSlot]
      BY <2>2 DEF SettlesAhead
    <3> QED BY <1>1, <3>1 DEF InFlightOnly, NoSlot
  <2> QED BY <1>4, <2>1, <2>2 DEF Settles
<1> QED BY <1>2, <1>3, <1>4 DEF TableStep, Leaves, Marks, Works, Work, tableVars

\* Where a record comes from.
LEMMA RecordsNext ==
    ASSUME IInv, TableStep, NEW k \in Key, record'[k] # NoRun, record'[k] # record[k]
    PROVE  /\ record'[k] = slots[k].running
           /\ record'[k] \in RunId /\ record'[k] <= made /\ state[record'[k]].key = k
           /\ thread[record'[k]].pc = "executing" /\ thread'[record'[k]].pc = "done"
           /\ job[record'[k]].epoch >= retired[k]
           /\ slots'[k].running \in {NoRun, slots[k].queued}
           /\ slots'[k].queued = NoRun
           /\ UNCHANGED <<made, state>>
<1>1. /\ record \in [Key -> RunId \cup {NoRun}] /\ slots \in [Key -> Slot]
  BY DEF IInv, TypeOK
<1>2. ~Leaves
  BY <1>1 DEF Leaves
<1>3. ~UNCHANGED record
  OBVIOUS
<1>4. PICK r \in RunId : Settles(r)
  BY <1>2, <1>3 DEF TableStep, Hands, Queues, Marks, Works, Work, dataVars
<1>5. PICK end \in End, to \in RunId \cup {NoRun} : SettlesAhead(r, end, to)
  BY <1>3, <1>4 DEF Settles, SettlesBehind
<1>6. r <= made /\ state[r].key \in Key
  BY <1>4, BegunHasKey DEF Settles
<1>7. /\ end = "Stored" /\ record' = [record EXCEPT ![state[r].key] = r]
      /\ slots[state[r].key].running = r
      /\ thread[r].pc = "executing" /\ thread'[r].pc = "done"
      /\ job[r].epoch >= retired[state[r].key]
      /\ UNCHANGED <<made, state>>
  BY <1>3, <1>5 DEF SettlesAhead
<1>8. k = state[r].key /\ record'[k] = r
  BY <1>1, <1>6, <1>7
<1>9. slots'[k].running \in {NoRun, slots[k].queued} /\ slots'[k].queued = NoRun
  <2>1. \/ slots' = [slots EXCEPT ![state[r].key] = InFlightOnly(slots[state[r].key].queued)]
        \/ slots' = [slots EXCEPT ![state[r].key] = NoSlot]
    BY <1>5 DEF SettlesAhead
  <2> QED BY <1>1, <1>8, <2>1 DEF InFlightOnly, NoSlot
<1> QED BY <1>6, <1>7, <1>8, <1>9

LEMMA RecordBehindKept ==
    ASSUME IInv, TypeOK', TableLife, LookLife, RecordBehind, Shape
    PROVE  RecordBehind'
<1>1. /\ made \in Nat /\ made' \in Nat /\ made <= made'
      /\ \A q \in RunId : q <= made => state'[q].key = state[q].key
  BY RunsKeep DEF Shape
<1>2. /\ record \in [Key -> RunId \cup {NoRun}] /\ record' \in [Key -> RunId \cup {NoRun}]
      /\ slots \in [Key -> Slot]
      /\ stamp \in [RunId -> Nat]
  BY DEF IInv, TypeOK, Version, NoStamp
<1> SUFFICES ASSUME NEW k \in Key, record'[k] # NoRun
             PROVE  /\ record'[k] <= made' /\ state'[record'[k]].key = k
                    /\ thread'[record'[k]].pc = "done"
                    /\ \A r \in {slots'[k].running, slots'[k].queued} : r # NoRun => record'[k] < r
                    /\ NoneLooksBefore(record[k], stamp[record[k]])'
  BY DEF RecordBehind
<1>3. PICK p \in RunId : p = record'[k]
  BY <1>2
<1>4. CASE record'[k] = record[k]
  <2>1. /\ p <= made /\ state[p].key = k /\ thread[p].pc = "done"
        /\ \A r \in {slots[k].running, slots[k].queued} : r # NoRun => p < r
        /\ NoneLooksBefore(p, stamp[p])
    BY <1>3, <1>4 DEF RecordBehind
  <2>2. ~Launches(p)
    <3> SUFFICES ASSUME NEW w \in todo, Head(w).op = "launch", Head(w).run = p PROVE FALSE
      BY DEF Launches
    <3>1. Head(w) = w[1] /\ 1 \in 1..Len(w)
      BY EffectsShrink DEF IInv, TypeOK
    <3> QED BY <2>1, <3>1 DEF LookLife, LaunchedOnce
  <2>3. thread'[p].pc = "done" /\ stamp'[p] = stamp[p]
    BY <2>1, <2>2 DEF Shape, ThreadStep
  <2>4. stamp[p] <= version[state[p].key] /\ stamp[p] \in Nat
    BY <1>2, <2>1 DEF LookLife, StampsKept
  <2>5. PICK n \in Nat : n = stamp[p]
    BY <2>4
  <2>6. NoneLooksBefore(p, n)'
    BY <2>1, <2>4, <2>5, NoneLooksBeforeKept
  <2>7. \A r \in {slots'[k].running, slots'[k].queued} : r # NoRun => p < r
    BY <1>1, <2>1, SlotsNext DEF Shape, RunId
  <2>8. p <= made' /\ state'[p].key = k
    BY <1>1, <2>1 DEF RunId
  <2>9. NoneLooksBefore(record[k], stamp[record[k]])'
    BY <1>3, <2>3, <2>5, <2>6 DEF NoneLooksBefore
  <2> QED BY <1>3, <2>3, <2>7, <2>8, <2>9
<1>5. CASE record'[k] # record[k]
  <2>1. /\ p = slots[k].running /\ p <= made /\ state[p].key = k
        /\ thread[p].pc = "executing" /\ thread'[p].pc = "done"
        /\ slots'[k].running \in {NoRun, slots[k].queued}
        /\ slots'[k].queued = NoRun
        /\ UNCHANGED <<made, state>>
    BY <1>3, <1>5, RecordsNext DEF Shape
  <2>2. stamp'[p] = stamp[p]
    BY <2>1 DEF Shape, ThreadStep, Launches, Works, Work
  <2>3. stamp[p] <= version[state[p].key] /\ stamp[p] \in Nat
    BY <1>2, <2>1 DEF LookLife, StampsKept
  <2>4. PICK n \in Nat : n = stamp[p]
    BY <2>3
  <2>5. slots[k].queued # NoRun => slots[k].queued \in RunId /\ p < slots[k].queued
                                   /\ thread[slots[k].queued].pc = "none"
    BY <1>2, <2>1 DEF RunId, NoRun, Slot, IInv, TableSound, QueuedHasNotBegun,
       TableLife, SlotIsLatest
  <2>6. NoneLooksBefore(p, n)
    <3> SUFFICES ASSUME NEW q \in p..made, state[q].key = k
                 PROVE  stamp[q] = NoStamp \/ stamp[q] >= n
      BY <2>1 DEF NoneLooksBefore
    <3>1. q \in 1..made /\ p # NoRun
      BY <1>1 DEF RunId, NoRun
    <3>2. q <= p \/ q = slots[k].queued
      BY <2>1, <3>1 DEF TableLife, SlotIsLatest
    <3>3. CASE q = p
      BY <2>4, <3>3
    <3>4. CASE q = slots[k].queued
      BY <2>5, <3>1, <3>4 DEF LookLife, StampsKept, NoRun
    <3> QED BY <1>1, <3>1, <3>2, <3>3, <3>4 DEF RunId
  <2>7. NoneLooksBefore(p, n)'
    BY <2>1, <2>3, <2>4, <2>6, NoneLooksBeforeKept
  <2>8. NoneLooksBefore(record[k], stamp[record[k]])'
    BY <1>3, <2>2, <2>4, <2>7 DEF NoneLooksBefore
  <2> QED BY <1>3, <2>1, <2>5, <2>8
<1> QED BY <1>4, <1>5

LEMMA NeedMetKept ==
    ASSUME IInv, IInv', TableLife, TableLife', LookLife, LookLife', NeedMet, Shape
    PROVE  NeedMet'
<1>1. /\ made \in Nat /\ made' \in Nat /\ made <= made'
      /\ \A q \in RunId : q <= made => state'[q].key = state[q].key
  BY RunsKeep DEF Shape
<1>2. /\ caller \in [Caller -> Request] /\ caller' \in [Caller -> Request]
      /\ version \in [Key -> Nat] /\ version' \in [Key -> Nat]
      /\ \A k \in Key : version'[k] >= version[k]
      /\ slots' \in [Key -> Slot]
      /\ NoStamp \in Nat /\ Version \subseteq Nat
  BY DEF Shape, IInv, TypeOK, Version, NoStamp
<1> SUFFICES ASSUME NEW c \in Caller
             PROVE  /\ caller'[c].pc # "answered" => caller'[c].got = "None"
                    /\ caller'[c].pc # "idle" =>
                        /\ caller'[c].on <= made'
                        /\ caller'[c].need <= version'[state'[caller'[c].on].key]
                        /\ NoneLooksBefore(caller[c].on, caller[c].need)'
                        /\ caller'[c].got = "Stored" => stamp'[caller'[c].on] # NoStamp
  BY DEF NeedMet
<1>3. /\ caller[c].need \in Nat /\ caller'[c].need \in Nat
      /\ caller[c].pc # "idle" => caller[c].on \in RunId
      /\ caller'[c].pc # "idle" => caller'[c].on \in RunId
  BY <1>2 DEF Request, IInv, WaitersPointed, WaitersOnRuns
<1>4. \* what a caller had of its run it still has
      ASSUME caller[c].pc # "idle"
      PROVE  /\ caller[c].on \in RunId /\ caller[c].on <= made /\ caller[c].on <= made'
             /\ state[caller[c].on].key \in Key
             /\ \A q \in RunId : /\ caller[c].on <= q /\ q <= made
                                 /\ state[q].key = state[caller[c].on].key
                    => /\ caller[c].need <= version'[state'[q].key]
                       /\ NoneLooksBefore(q, caller[c].need)
                       /\ \A n : n = caller[c].need => NoneLooksBefore(q, n)'
             /\ stamp[caller[c].on] # NoStamp => stamp'[caller[c].on] # NoStamp
  <2> DEFINE on == caller[c].on
  <2>1. on \in RunId /\ on <= made /\ on <= made'
    BY <1>1, <1>3, <1>4 DEF NeedMet, RunId
  <2>2. state[on].key \in Key
    BY <2>1 DEF IInv, TableSound, OnlyMadeRuns
  <2>3. caller[c].need <= version[state[on].key] /\ NoneLooksBefore(on, caller[c].need)
    BY <1>4 DEF NeedMet
  <2>4. ASSUME NEW q \in RunId, on <= q, q <= made, state[q].key = state[on].key
        PROVE  /\ caller[c].need <= version'[state'[q].key]
               /\ NoneLooksBefore(q, caller[c].need)
               /\ \A n : n = caller[c].need => NoneLooksBefore(q, n)'
    <3>1. NoneLooksBefore(q, caller[c].need)
      BY <1>1, <2>1, <2>3, <2>4 DEF NoneLooksBefore, RunId
    <3>2. caller[c].need <= version'[state'[q].key]
      BY <1>1, <1>2, <1>3, <2>2, <2>3, <2>4
    <3>3. PICK n \in Nat : n = caller[c].need
      BY <1>3
    <3>4. NoneLooksBefore(q, n)'
      BY <2>3, <2>4, <3>1, <3>3, NoneLooksBeforeKept DEF IInv
    <3> QED BY <3>1, <3>2, <3>3, <3>4
  <2>5. stamp[on] # NoStamp => stamp'[on] # NoStamp
    BY <2>1, StampsStay DEF LookLife, Shape
  <2> QED BY <2>1, <2>2, <2>4, <2>5
<1>5. CASE caller'[c] = caller[c]
  <2>1. caller[c].pc # "idle" => /\ caller[c].on <= made'
                                 /\ caller[c].need <= version'[state'[caller[c].on].key]
                                 /\ \A n : n = caller[c].need => NoneLooksBefore(caller[c].on, n)'
                                 /\ stamp[caller[c].on] # NoStamp => stamp'[caller[c].on] # NoStamp
    <3> SUFFICES ASSUME caller[c].pc # "idle"
                 PROVE  /\ caller[c].on <= made'
                        /\ caller[c].need <= version'[state'[caller[c].on].key]
                        /\ \A n : n = caller[c].need => NoneLooksBefore(caller[c].on, n)'
                        /\ stamp[caller[c].on] # NoStamp => stamp'[caller[c].on] # NoStamp
      OBVIOUS
    <3>1. PICK on \in RunId : on = caller[c].on
      BY <1>3
    <3>2. on <= on /\ on <= made
      BY <1>4, <3>1 DEF RunId
    <3>3. /\ on <= made'
          /\ stamp[on] # NoStamp => stamp'[on] # NoStamp
      BY <1>4, <3>1
    <3>4. \A q \in RunId : (on <= q /\ q <= made /\ state[q].key = state[on].key)
            => /\ caller[c].need <= version'[state'[q].key]
               /\ \A n : n = caller[c].need => NoneLooksBefore(q, n)'
      BY <1>4, <3>1
    <3>5. /\ caller[c].need <= version'[state'[on].key]
          /\ \A n : n = caller[c].need => NoneLooksBefore(on, n)'
      BY <3>2, <3>4
    <3>6. \A n : n = caller[c].need => NoneLooksBefore(caller[c].on, n)'
      BY <1>5, <3>1, <3>5 DEF NoneLooksBefore
    <3> QED BY <3>1, <3>3, <3>5, <3>6
  <2>2. caller'[c].pc # "idle" => NoneLooksBefore(caller[c].on, caller[c].need)'
    BY <1>5, <2>1 DEF NoneLooksBefore
  <2> QED BY <1>5, <2>1, <2>2 DEF NeedMet
<1>6. CASE caller'[c] = Idle
  BY <1>6 DEF Idle
<1>7. CASE /\ caller[c].pc = "waiting" /\ state[caller[c].on].end \in Outcome
           /\ caller'[c] = [caller[c] EXCEPT !.pc = "answered", !.got = state[caller[c].on].end]
  <2>1. /\ caller'[c].pc = "answered" /\ caller'[c].got = state[caller[c].on].end
        /\ caller'[c].on = caller[c].on /\ caller'[c].need = caller[c].need
    BY <1>2, <1>7 DEF Request
  <2>2. /\ caller[c].on <= made'
        /\ caller[c].on \in RunId
        /\ caller[c].need <= version'[state'[caller[c].on].key]
        /\ \A n : n = caller[c].need => NoneLooksBefore(caller[c].on, n)'
        /\ stamp[caller[c].on] # NoStamp => stamp'[caller[c].on] # NoStamp
    BY <1>4, <1>7 DEF RunId
  <2>3. state[caller[c].on].end = "Stored" => stamp[caller[c].on] # NoStamp
    BY <2>2 DEF LookLife, StoredStamped
  <2>4. NoneLooksBefore(caller[c].on, caller[c].need)'
    BY <2>1, <2>2 DEF NoneLooksBefore
  <2> QED BY <2>1, <2>2, <2>3, <2>4
<1>8. CASE /\ caller[c].pc = "waiting" /\ state[caller[c].on].end = "Moved"
           /\ caller'[c] = [caller[c] EXCEPT !.on = state[caller[c].on].to]
  <2>1. PICK on, to : on = caller[c].on /\ to = state[on].to
    OBVIOUS
  <2>2. /\ caller'[c].pc = "waiting" /\ caller'[c].got = "None"
        /\ caller'[c].on = to /\ caller'[c].need = caller[c].need
    BY <1>2, <1>8, <2>1 DEF Request, NeedMet
  <2>3. on \in RunId /\ LeadsOn(on, to) /\ to \in RunId
    <3>1. on \in RunId
      BY <1>4, <1>8, <2>1
    <3>2. LeadsOn(on, to)
      BY <1>8, <2>1, <3>1 DEF TableLife, MovedOn
    <3> QED BY <2>1, <3>1, <3>2 DEF LeadsOn, IInv, TypeOK, State
  <2>4. on <= to /\ to <= made /\ to <= made' /\ state[to].key = state[on].key
    BY <1>1, <2>3 DEF LeadsOn, RunId
  <2>5. /\ caller[c].need <= version'[state'[to].key]
        /\ \A n : n = caller[c].need => NoneLooksBefore(to, n)'
    BY <1>4, <1>8, <2>1, <2>3, <2>4
  <2>6. NoneLooksBefore(caller[c].on, caller[c].need)'
    BY <2>2, <2>5 DEF NoneLooksBefore
  <2> QED BY <2>2, <2>4, <2>5, <2>6
<1>9. CASE AskStep(c)
  <2>1. PICK k \in Key :
        /\ caller'[c].pc = "waiting" /\ caller'[c].got = "None"
        /\ caller'[c].on \in {slots'[k].running, slots'[k].queued} \ {NoRun}
        /\ \/ caller'[c].need = NoStamp
           \/ /\ caller'[c].need = version[k]
              /\ stamp[caller'[c].on] \in {NoStamp, version[k]}
    BY <1>9 DEF AskStep
  <2>2. PICK on \in RunId, n \in Nat : on = caller'[c].on /\ n = caller'[c].need
    BY <1>3, <2>1
  <2>3. on <= made' /\ state'[on].key = k
    BY <2>1, <2>2 DEF IInv, TableSound, SlotsOwnTheirRuns
  <2>4. on <= made => state[on].key = k
    BY <1>1, <2>3
  <2>5. n <= version'[k] /\ n <= version[k]
    BY <1>2, <2>1, <2>2 DEF NoStamp
  <2>6. stamp'[on] = NoStamp \/ stamp'[on] >= n
    <3>1. stamp[on] = NoStamp \/ stamp[on] >= n
      <4>1. PICK m : m = stamp[on]
        OBVIOUS
      <4>2. m \in Nat
        BY <1>2, <2>2, <4>1 DEF NoStamp, IInv, TypeOK
      <4>3. n = 0 \/ m \in {0, n}
        BY <2>1, <2>2, <4>1 DEF NoStamp
      <4> QED BY <2>2, <4>1, <4>2, <4>3 DEF NoStamp
    <3> QED BY <2>3, <2>4, <2>5, <3>1, LooksLater DEF IInv
  <2>7. ASSUME NEW q \in on..made', state'[q].key = k
        PROVE  stamp'[q] = NoStamp \/ stamp'[q] >= n
    <3>1. slots'[k].running # NoRun /\ (slots'[k].queued # NoRun => slots'[k].running < slots'[k].queued)
      BY <2>1 DEF IInv, TableSound, QueuedBehindAnother, TableLife, SlotIsLatest
    <3>2. q \in 1..made'
      BY <1>1, <2>7 DEF RunId
    <3>3. q <= slots'[k].running \/ q = slots'[k].queued
      BY <2>7, <3>1, <3>2 DEF TableLife, SlotIsLatest
    <3>4. slots'[k].queued # NoRun => stamp'[slots'[k].queued] = NoStamp
      BY <1>2 DEF Slot, NoRun, IInv, TableSound, QueuedHasNotBegun, LookLife, StampsKept
    <3>5. slots'[k].running \in RunId /\ slots'[k].queued \in RunId \cup {NoRun}
      BY <1>2, <3>1 DEF Slot
    <3>6. CASE q = slots'[k].queued
      BY <3>2, <3>4, <3>6 DEF NoRun
    <3>7. CASE q <= slots'[k].running /\ q # slots'[k].queued
      <4>1. q = on
        BY <1>1, <2>1, <2>2, <2>7, <3>1, <3>5, <3>7 DEF RunId, NoRun
      <4> QED BY <2>6, <4>1
    <3> QED BY <3>3, <3>6, <3>7
  <2>8. NoneLooksBefore(caller[c].on, caller[c].need)'
    BY <2>2, <2>3, <2>7 DEF NoneLooksBefore
  <2> QED BY <2>1, <2>2, <2>3, <2>5, <2>8
<1>10. CallersStep(c)
  BY DEF Shape
<1> QED BY <1>5, <1>6, <1>7, <1>8, <1>9, <1>10 DEF CallersStep

LEMMA WaitsOnKeyKept ==
    ASSUME IInv, IInv', TableLife, WaitsOnKey, Shape
    PROVE  WaitsOnKey'
<1>1. /\ made \in Nat /\ made' \in Nat /\ made <= made'
      /\ \A q \in RunId : q <= made => state'[q].key = state[q].key
  BY RunsKeep DEF Shape
<1> SUFFICES ASSUME NEW r \in RunId, thread'[r].pc = "waiting"
             PROVE  thread'[r].on <= made' /\ waits'[r] = state'[thread'[r].on].key
  BY DEF WaitsOnKey
<1>2. thread[r].pc = "waiting" =>
        thread[r].on \in RunId /\ thread[r].on <= made /\ waits[r] = state[thread[r].on].key
  BY DEF WaitsOnKey, IInv, TypeOK, Thread, WaitersPointed, WaitersOnRuns
<1>3. CASE thread[r].pc = "waiting" /\ thread'[r].on = thread[r].on /\ waits'[r] = waits[r]
  BY <1>1, <1>2, <1>3 DEF RunId
<1>4. CASE /\ thread[r].pc = "waiting" /\ waits'[r] = waits[r]
           /\ state[thread[r].on].end = "Moved"
           /\ thread'[r].on = state[thread[r].on].to
  <2>1. PICK on, to : on = thread[r].on /\ to = state[on].to
    OBVIOUS
  <2>2. on \in RunId /\ LeadsOn(on, to) /\ to \in RunId
    <3>1. LeadsOn(on, to)
      BY <1>2, <1>4, <2>1 DEF TableLife, MovedOn
    <3> QED BY <1>2, <1>4, <2>1, <3>1 DEF LeadsOn, IInv, TypeOK, State
  <2> QED BY <1>1, <1>2, <1>4, <2>1, <2>2 DEF LeadsOn, RunId
<1>5. CASE \E k \in Key : /\ waits'[r] = k
                          /\ thread'[r].on \in {slots'[k].running, slots'[k].queued} \ {NoRun}
  BY <1>5 DEF IInv, TableSound, SlotsOwnTheirRuns
<1>6. WaitStep(r)
  BY DEF Shape
<1> QED BY <1>3, <1>4, <1>5, <1>6 DEF WaitStep

-----------------------------------------------------------------------------
(* What is kept: LifeInv.                                                    *)

LEMMA LifeInit == Init => LifeInv
<1> SUFFICES ASSUME Init PROVE LifeInv
  OBVIOUS
<1> USE DEF Init, NoRun, NoStamp, NoSlot, InFlightOnly, OpenFor, InThread, Idle, RunId
<1>1. TableLife
  BY DEF TableLife, FinishSpeaks, NoRunLost, SlotIsLatest, MovedOn
<1>2. LookLife
  BY DEF LookLife, LaunchedOnce, StampsKept, StoredStamped
<1>3. RecordBehind /\ NeedMet /\ WaitsOnKey
  BY DEF RecordBehind, NeedMet, WaitsOnKey
<1> QED BY <1>1, <1>2, <1>3 DEF LifeInv

\* A step that has one of the shapes keeps LifeInv, whoever takes it.
LEMMA LifeKept ==
    ASSUME IInv, IInv', LifeInv, Shape
    PROVE  LifeInv'
<1>1. TableLife /\ LookLife /\ RecordBehind /\ NeedMet /\ WaitsOnKey /\ TableStep /\ TypeOK'
  BY DEF LifeInv, IInv, Shape
<1>2. TableLife'
  BY <1>1, TableLifeKept
<1>3. LookLife'
  BY <1>1, LookLifeKept
<1>4. RecordBehind' /\ NeedMet' /\ WaitsOnKey'
  BY <1>1, <1>2, <1>3, RecordBehindKept, NeedMetKept, WaitsOnKeyKept
<1> QED BY <1>2, <1>3, <1>4 DEF LifeInv

LEMMA LifeStep ==
    ASSUME IInv, LifeInv, [Next]_vars
    PROVE  IInv' /\ LifeInv' /\ Shape
<1>1. IInv' /\ Shape
  BY StepInv, StepShape DEF LifeInv, LookLife
<1> QED BY <1>1, LifeKept

LEMMA LifeEver == Spec => [](IInv /\ LifeInv)
<1>1. Init => IInv /\ LifeInv
  BY InitInv, LifeInit
<1>2. IInv /\ LifeInv /\ [Next]_vars => (IInv /\ LifeInv)'
  BY LifeStep
<1> QED BY <1>1, <1>2, PTL DEF Spec

-----------------------------------------------------------------------------
(* What follows from it.                                                     *)

LEMMA LifeAnswers == IInv /\ LifeInv => AnswersSeeTheAsk
<1> SUFFICES ASSUME IInv, LifeInv, NEW c \in Caller, caller[c].got = "Stored"
             PROVE  stamp[caller[c].on] >= caller[c].need
  BY DEF AnswersSeeTheAsk
<1>1. caller[c].pc # "idle" /\ caller[c] \in Request
  BY DEF LifeInv, NeedMet, IInv, TypeOK, Request
<1>2. PICK on \in RunId : on = caller[c].on
  BY <1>1 DEF IInv, WaitersPointed, WaitersOnRuns, Request
<1>3. /\ on <= made /\ made \in Nat
      /\ NoneLooksBefore(on, caller[c].need) /\ stamp[on] # NoStamp
  BY <1>1, <1>2 DEF LifeInv, NeedMet, IInv, TypeOK
<1>4. on \in on..made
  BY <1>3 DEF RunId
<1> QED BY <1>2, <1>3, <1>4 DEF NoneLooksBefore

LEMMA ShapeGoesForward ==
    ASSUME IInv, LifeInv, Shape, NEW k \in Key, record[k] # NoRun, record'[k] # NoRun
    PROVE  stamp[record[k]] <= stamp[record'[k]]
<1>1. /\ record \in [Key -> RunId \cup {NoRun}] /\ made \in Nat
      /\ stamp \in [RunId -> Nat]
  BY DEF IInv, TypeOK, Version, NoStamp
<1>2. PICK p \in RunId : p = record[k]
  BY <1>1
<1>3. CASE record'[k] = record[k]
  <2>1. stamp[p] \in Nat
    BY <1>1
  <2> QED BY <1>2, <1>3, <2>1
<1>4. CASE record'[k] # record[k]
  <2>1. PICK q \in RunId : q = record'[k]
    BY <1>4, RecordsNext DEF Shape
  <2>2. /\ q = slots[k].running /\ q <= made /\ state[q].key = k
        /\ thread[q].pc = "executing"
    BY <1>4, <2>1, RecordsNext DEF Shape
  <2>3. p < q /\ state[p].key = k /\ NoneLooksBefore(p, stamp[p])
    BY <1>2, <2>1, <2>2 DEF LifeInv, RecordBehind, NoRun, RunId
  <2>4. stamp[q] # NoStamp
    BY <2>2 DEF LifeInv, LookLife, StampsKept
  <2>5. q \in p..made
    BY <1>1, <2>2, <2>3 DEF RunId
  <2>6. stamp[q] >= stamp[p]
    BY <2>2, <2>3, <2>4, <2>5 DEF NoneLooksBefore
  <2>7. stamp[p] \in Nat /\ stamp[q] \in Nat
    BY <1>1
  <2> QED BY <1>2, <2>1, <2>6, <2>7
<1> QED BY <1>3, <1>4

\* A ring of blocked threads would be a ring of the table's waits.
LEMMA RingFreeNoDeadlock ==
    ASSUME IInv, LifeInv, RingFree(slots, waits)
    PROVE  NoDeadlock
<1> SUFFICES ASSUME NEW R \in SUBSET {r \in 1..made : Blocked(r) /\ \E k \in Key : slots[k].running = r},
                    R # {}, \A r \in R : thread[r].on \in R
             PROVE  FALSE
  BY DEF NoDeadlock
<1> DEFINE S == {state[r].key : r \in R}
<1>1. \A r \in R : r \in RunId /\ r # NoRun
  BY ConstantsAssumption DEF IInv, TypeOK, RunId, NoRun
<1>2. ASSUME NEW r \in R
      PROVE  /\ state[r].key \in Key /\ slots[state[r].key].running = r
             /\ waits[r] = state[thread[r].on].key
  <2>1. PICK k \in Key : slots[k].running = r
    OBVIOUS
  <2>2. state[r].key = k
    BY <1>1, <2>1 DEF IInv, TableSound, SlotsOwnTheirRuns
  <2>3. waits[r] = state[thread[r].on].key
    BY <1>1 DEF Blocked, LifeInv, WaitsOnKey
  <2> QED BY <2>1, <2>2, <2>3
<1>3. S \in SUBSET Key /\ S # {}
  <2>1. PICK r \in R : TRUE
    OBVIOUS
  <2>2. state[r].key \in S
    OBVIOUS
  <2>3. \A k \in S : k \in Key
    BY <1>2
  <2> QED BY <2>2, <2>3
<1>4. \A k \in S : Hop(slots, waits, k) \in S
  BY <1>1, <1>2 DEF Hop
<1> QED BY <1>3, <1>4 DEF RingFree, Ring

-----------------------------------------------------------------------------
(* The failback, beside any start and any end of a run.                      *)

LEMMA StartHolds ==
    ASSUME IInv, NEW want \in Want, NEW e \in Epoch, NEW k \in Key, NEW got \in 0..MaxRun,
           Start(want, e, k, got), UNCHANGED failures,
           NEW j \in Key, slots'[j].running \notin {NoRun, slots[j].running},
           failures'[j].held
    PROVE  job'[slots'[j].running].forced
<1>1. slots \in [Key -> Slot] /\ job \in [RunId -> Job]
  BY DEF IInv, TypeOK
<1>2. ~StartNone(want, e, k, got) /\ ~StartJoin(want, e, k, got)
  BY DEF StartNone, StartJoin, tableVars
<1>3. ~StartQueue(want, e, k, got)
  <2> SUFFICES ASSUME StartQueue(want, e, k, got) PROVE FALSE
    OBVIOUS
  <2>1. slots' = [slots EXCEPT ![k] = WithQueued(@, e, want = "Forced", got)]
    BY DEF StartQueue
  <2>2. WithQueued(slots[k], e, want = "Forced", got).running = slots[k].running
    BY <1>1 DEF WithQueued, Slot
  <2> QED BY <1>1, <2>1, <2>2
<1>4. ~StartReplace(want, e, k, got)
  BY <1>1 DEF StartReplace, Replaces, Held
<1>5. CASE StartNew(want, e, k, got)
  <2>1. /\ slots' = [slots EXCEPT ![k] = InFlightOnly(got)] /\ got \in RunId
        /\ job' = [job EXCEPT ![got] = Begun(e, e, want = "Forced")]
        /\ want = "Forced" \/ ~Held(k)
    BY <1>5 DEF StartNew, Refused, Make
  <2>2. j = k /\ slots'[j].running = got
    BY <1>1, <2>1 DEF InFlightOnly
  <2>3. want = "Forced"
    BY <2>1, <2>2 DEF Held
  <2> QED BY <1>1, <2>1, <2>2, <2>3 DEF Begun
<1> QED BY <1>2, <1>3, <1>4, <1>5 DEF Start

LEMMA SettleHolds ==
    ASSUME IInv, NEW r \in RunId, NEW res \in Result, Settle(r, res),
           NEW j \in Key, slots'[j].running \notin {NoRun, slots[j].running},
           failures'[j].held
    PROVE  job'[slots'[j].running].forced
<1>1. slots \in [Key -> Slot] /\ job \in [RunId -> Job] /\ state[r].key \in Key
  BY BegunHasKey DEF IInv, TypeOK, Settle
<1>2. SettleOwn(r, res)
  BY DEF Settle, SettleReplaced
<1>3. PICK k, s : k = state[r].key /\ s = slots[k]
  OBVIOUS
<1>4. CASE slots' = [slots EXCEPT ![k] = NoSlot]
  BY <1>1, <1>3, <1>4 DEF NoSlot, InFlightOnly
<1>5. CASE /\ QueuedStarts(s, k, res)
           /\ slots' = [slots EXCEPT ![k] = InFlightOnly(s.queued)]
           /\ job' = [job EXCEPT ![r].task = "settled",
                                 ![s.queued] = Begun(s.epoch, s.epoch, s.forced)]
  <2>1. j = k /\ slots'[j].running = s.queued
    BY <1>1, <1>3, <1>5 DEF InFlightOnly
  <2>2. s.forced /\ s.queued \in RunId
    BY <1>1, <1>3, <1>5, <2>1 DEF QueuedStarts, Slot
  <2>3. job'[s.queued] = Begun(s.epoch, s.epoch, s.forced)
    BY <1>1, <1>5, <2>2
  <2> QED BY <2>1, <2>2, <2>3 DEF Begun
<1> QED BY <1>2, <1>3, <1>4, <1>5 DEF SettleOwn

LEMMA StepHolds ==
    ASSUME IInv, [Next]_vars,
           NEW j \in Key, slots'[j].running \notin {NoRun, slots[j].running},
           failures'[j].held
    PROVE  job'[slots'[j].running].forced
<1> USE ConstantsAssumption DEF IInv
<1>1. ~UNCHANGED slots
  OBVIOUS
<1>2. CASE \E r \in RunId, k \in Key : Call(r, k)
  <2>1. PICK r \in RunId, k \in Key, got \in 0..MaxRun :
            Start(WantFor(k), job[r].body, k, got) /\ UNCHANGED failures
    BY <1>2 DEF Call, dataVars
  <2>2. WantFor(k) \in Want /\ job[r].body \in Epoch
    BY DEF WantFor, Want, TypeOK, Job
  <2> QED BY <2>1, <2>2, StartHolds
<1>3. CASE \E r \in RunId, res \in Result : Settle(r, res)
  BY <1>3, SettleHolds
<1>4. CASE \E e \in 0..inForce, want \in Asks, k \in Key :
             Fire(e, want, k) \/ \E c \in Caller : Ask(c, e, want, k)
  <2>1. PICK e \in 0..inForce, want \in Asks, k \in Key, got \in 0..MaxRun :
            Start(want, e, k, got) /\ UNCHANGED failures
    BY <1>4 DEF Fire, Ask, dataVars
  <2>2. want \in Want
    BY DEF Want
  <2>3. inForce \in 0..MaxEpoch
    BY DEF TypeOK, Epoch
  <2>4. e \in Epoch
    BY <2>3 DEF Epoch
  <2> QED BY <2>1, <2>2, <2>4, StartHolds
<1>5. ASSUME NEW r \in RunId, RunStep(r)
      PROVE  job'[slots'[j].running].forced
  <2>1. \E res \in Result : Settle(r, res)
        \/ \E k \in Key : Call(r, k)
    BY <1>1, <1>5 DEF RunStep, Begin, ThreadFollows, ThreadWakes, Ended, ReturnsLate,
       Timeout, DropTask, tableVars, Result
  <2> QED BY <1>2, <1>3, <2>1
<1>6. ASSUME NEW w \in todo, Work(w)
      PROVE  FALSE
  BY <1>1, <1>6 DEF Work
<1>7. ASSUME NEW c \in Caller, CallerStep(c)
      PROVE  job'[slots'[j].running].forced
  BY <1>1, <1>4, <1>7 DEF CallerStep, CallerFollows, Answered, GivesUp, Moves, tableVars
<1>8. CASE WorldStep
  BY <1>1, <1>4, <1>8 DEF WorldStep, Change, Expire, Forget, Stop, tableVars
<1>9. CASE UNCHANGED vars
  BY <1>1, <1>9 DEF vars, tableVars
<1> QED BY <1>5, <1>6, <1>7, <1>8, <1>9 DEF Next

-----------------------------------------------------------------------------
(* The theorems.                                                             *)

\* No run is lost: whichever way a run leaves the table (it settles, another
\* takes its place, a reload drops it, the daemon stops), someone has yet to
\* say how it ended, or has said it.
THEOREM NoRunLostEver == Spec => []NoRunLost
<1>1. IInv /\ LifeInv => NoRunLost
  BY DEF LifeInv, TableLife
<1> QED BY LifeEver, <1>1, PTL

\* A caller that needed the inputs as they were when it asked, and was told its
\* run was stored, was given a run that stamped them no earlier, however many
\* times it was sent to another run.
THEOREM AnswersEver == Spec => []AnswersSeeTheAsk
<1> QED BY LifeEver, LifeAnswers, PTL

\* A record is never replaced by one whose run looked at the inputs earlier.
THEOREM RecordsForwardEver == Spec => RecordsGoForward
<1>1. IInv /\ LifeInv /\ [Next]_vars =>
        [\A k \in Key : (record[k] # NoRun /\ record'[k] # NoRun) =>
            stamp[record[k]] <= stamp[record'[k]]]_vars
  BY LifeStep, ShapeGoesForward
<1> QED BY LifeEver, <1>1, PTL DEF Spec, RecordsGoForward

\* The threads of the runs in flight are never blocked on one another in a
\* ring: some run of any set of them waits on none of the set.
THEOREM NoDeadlockEver == Spec => []NoDeadlock
<1>1. Init => RingFree(slots, waits)
  <2> SUFFICES ASSUME Init PROVE RingFree(slots, waits)
    OBVIOUS
  <2>1. \A k \in Key : Hop(slots, waits, k) = NoKey
    BY DEF Init, Hop, NoSlot, InFlightOnly
  <2> QED BY <2>1, ConstantsAssumption DEF RingFree, Ring
<1>2. IInv /\ RingFree(slots, waits) /\ [Next]_vars => RingFree(slots, waits)'
  BY StepRingFree DEF RingFree
<1> QED BY LifeEver, RingFreeNoDeadlock, <1>1, <1>2, PTL DEF Spec

\* What begins while the failback holds its Source back was asked for by force:
\* a new run, one that takes another's place, and a queued one when it is its
\* turn, after the failure that brought its turn was counted.
THEOREM FailbackHoldsEver == Spec => FailbackHolds
<1>1. IInv /\ [Next]_vars =>
        [\A k \in Key :
            LET begun == slots'[k].running IN
            (begun \notin {NoRun, slots[k].running} /\ failures'[k].held) =>
                job'[begun].forced]_vars
  BY StepHolds
<1> QED BY InitInv, StepInv, <1>1, PTL DEF Spec, FailbackHolds

=============================================================================
