--------------------------- MODULE LifecycleProofs ---------------------------
(***************************************************************************)
(* Theorems of module Lifecycle, for every set of instances, every way     *)
(* they call one another and every schedule of theirs.                     *)
(*                                                                         *)
(* The first two properties are inductive as they stand.  That nothing is  *)
(* evicted from under its caller is a property of one step, the tick's,    *)
(* whose evicted instances are a union of sets that each keep it.  That    *)
(* nothing leaves early needs more: at every step of its decay the time an *)
(* instance has been idle and the time it has left make up at least the    *)
(* window and the steps so far (OnTheLadder).                              *)
(***************************************************************************)
EXTENDS Lifecycle, Integers, TLAPS

LEMMA Product == \A x, y \in Nat : x * y \in Nat
OBVIOUS

LEMMA PositiveProduct == \A x, y \in Nat \ {0} : x * y \in Nat \ {0}
OBVIOUS

\* Windows and the steps that double from them are times.
LEMMA Times ==
    ASSUME NEW k \in Key
    PROVE  /\ Lifespan(k) \in Nat
           /\ Depth[k] \in 1..MaxDecay
           /\ Poll[k] \in Nat
           /\ \A n \in 0..MaxDecay : 2^n \in Nat /\ Lifespan(k) * 2^n \in Nat
           /\ Lifetime(k) \in Nat
<1>1. Poll[k] \in Nat /\ Count[k] \in Nat /\ DefaultPoll \in Nat
  BY LifecycleAssumption
<1>2. Lifespan(k) \in Nat
  <2> DEFINE p == IF Poll[k] = 0 THEN DefaultPoll ELSE Poll[k]
  <2>1. p \in Nat
    BY <1>1
  <2> HIDE DEF p
  <2>2. p * Count[k] \in Nat
    BY <1>1, <2>1, Product
  <2> QED BY <2>2 DEF Lifespan, p
<1>3. Depth[k] \in 1..MaxDecay
  BY LifecycleAssumption
<1>4. \A n \in 0..(MaxDecay + 1) : 2^n \in Nat \ {0}
  BY RatesAssumption
<1>5. \A n \in 0..MaxDecay : 2^n \in Nat
  <2>1. \A n \in 0..MaxDecay : n \in 0..(MaxDecay + 1)
    BY DEF MaxDecay
  <2>2. \A m \in Nat \ {0} : m \in Nat
    OBVIOUS
  <2> QED BY <1>4, <2>1, <2>2, Zenon
<1>6. \A n \in 0..MaxDecay : Lifespan(k) * 2^n \in Nat
  BY <1>2, <1>5, Product
<1>7. 2^(Depth[k] + 1) - 1 \in Nat
  <2>1. Depth[k] + 1 \in 0..(MaxDecay + 1)
    BY <1>3 DEF MaxDecay
  <2> DEFINE x == 2^(Depth[k] + 1)
  <2>2. x \in Nat \ {0}
    BY <2>1, <1>4
  <2> HIDE DEF x
  <2>3. x - 1 \in Nat
    BY <2>2
  <2> QED BY <2>3 DEF x
<1>8. Lifetime(k) \in Nat
  BY <1>2, <1>7, Product DEF Lifetime
<1> QED BY <1>1, <1>2, <1>3, <1>5, <1>6, <1>8

-----------------------------------------------------------------------------
(* Type correctness. *)

LEMMA StartType ==
    ASSUME TypeOK, NEW want, NEW S, Start(want, S)
    PROVE  flying' \in [Key -> 0..2]
<1> PICK refused \in SUBSET S : flying' = Started(want, S, refused)
  BY DEF Start
<1> QED BY DEF Started, TypeOK

LEMMA RenewedType ==
    ASSUME TypeOK, NEW k \in Key
    PROVE  Renewed(k) \in Entry
BY Times DEF Renewed, Entry, TypeOK, MaxDecay

LEMMA DemandAllType ==
    ASSUME TypeOK, NEW D, DemandAll(D)
    PROVE  entry' \in [Key -> Entry] /\ idle' \in [Key -> Nat]
BY RenewedType DEF DemandAll, TypeOK

LEMMA NextStepType ==
    ASSUME TypeOK, NEW k \in Key
    PROVE  NextStep(k) \in 0..MaxDecay
<1>1. entry[k].step \in 0..MaxDecay
  BY DEF TypeOK, Entry
<1>2. Depth[k] \in 1..MaxDecay
  BY Times
<1> QED BY <1>1, <1>2 DEF NextStep, MaxDecay

LEMMA PollLeftType ==
    ASSUME TypeOK, NEW k \in Key
    PROVE  /\ PollLeft(k) \in Nat
           /\ Poll[k] * 2^entry[k].step \in Nat
<1>1. entry[k].step \in 0..MaxDecay /\ entry[k].poll \in Nat
  BY DEF TypeOK, Entry
<1>2. Poll[k] * 2^entry[k].step \in Nat
  BY <1>1, Times, Product
<1> QED BY <1>1, <1>2 DEF PollLeft

LEMMA SteppedType ==
    ASSUME TypeOK, NEW k \in Key
    PROVE  Stepped(k) \in Entry
<1> DEFINE n == NextStep(k)
<1>1. n \in 0..MaxDecay
  BY NextStepType
<1>2. Lifespan(k) * 2^n \in Nat
  BY <1>1, Times
<1>3. PollLeft(k) \in Nat /\ PollLeft(k) + Poll[k] * 2^entry[k].step \in Nat
  BY PollLeftType
<1> HIDE DEF n
<1>4. [state |-> "Decay", step |-> n, left |-> Lifespan(k) * 2^n,
       poll |-> IF n = entry[k].step THEN PollLeft(k)
                ELSE PollLeft(k) + Poll[k] * 2^entry[k].step] \in Entry
  BY <1>1, <1>2, <1>3 DEF Entry
<1> QED BY <1>4 DEF Stepped, n

LEMMA TypeStep ==
    ASSUME TypeOK, [Next]_vars
    PROVE  TypeOK'
<1> USE DEF TypeOK
<1>1. ASSUME NEW k \in Key, NEW j \in Key, Call(k, j) PROVE TypeOK'
  BY <1>1, StartType DEF Call, loopVars
<1>2. ASSUME NEW k \in Key, RanCalling(k) PROVE TypeOK'
  <2>1. PICK called \in SUBSET Calls[k] : callees' = [callees EXCEPT ![k] = called]
    BY <1>2 DEF RanCalling
  <2>2. called \in SUBSET Key
    BY LifecycleAssumption
  <2> QED BY <1>2, <2>1, <2>2 DEF RanCalling, loopVars
<1>3. ASSUME NEW k \in Key, RunEnds(k) PROVE TypeOK'
  BY <1>3 DEF RunEnds, loopVars
<1>4. ASSUME NEW k \in Key, Read(k) PROVE TypeOK'
  BY <1>4, StartType DEF Read, loopVars
<1>5. ASSUME NEW k \in Key, Demand(k) PROVE TypeOK'
  <2>1. entry' \in [Key -> Entry] /\ idle' \in [Key -> Nat]
    BY <1>5, DemandAllType DEF Demand
  <2>2. flying' \in [Key -> 0..2]
    BY <1>5, StartType DEF Demand
  <2>3. watched' \in SUBSET Key
    BY <1>5, LifecycleAssumption DEF Demand, WatchAll
  <2> QED BY <1>5, <2>1, <2>2, <2>3 DEF Demand
<1>6. ASSUME NEW k \in Key, FileEvent(k) PROVE TypeOK'
  <2>1. entry' \in [Key -> Entry] /\ idle' \in [Key -> Nat]
    BY <1>6, DemandAllType DEF FileEvent
  <2> QED BY <1>6, <2>1 DEF FileEvent, runVars
<1>7. ASSUME NEW k \in Key, Settled(k) PROVE TypeOK'
  BY <1>7, StartType DEF Settled
<1>8. CASE Tick
  <2>1. entry' \in [Key -> Entry]
    <3>1. Cold \in Entry
      BY DEF Cold, Entry, MaxDecay
    <3>2. \A k \in Key : Polled(k) \in Entry
      BY PollLeftType DEF Polled, Entry
    <3> QED BY <1>8, <3>1, <3>2, SteppedType DEF Tick
  <2>2. flying' \in [Key -> 0..2]
    BY <1>8, StartType DEF Tick
  <2> QED BY <1>8, <2>1, <2>2 DEF Tick
<1>9. CASE Pass
  <2>1. \A n \in Nat : Less(n) \in Nat
    BY DEF Less
  <2>2. \A k \in Key : Aged(k) \in Entry
    BY <2>1 DEF Aged, Entry
  <2>3. idle' \in [Key -> Nat]
    BY <1>9 DEF Pass
  <2> HIDE DEF TypeOK
  <2> QED BY <1>9, <2>2, <2>3 DEF Pass, runVars, TypeOK
<1>10. CASE Quieten
  BY <1>10 DEF Quieten, loopVars, runVars
<1>11. CASE UNCHANGED vars
  BY <1>11 DEF vars, loopVars, runVars
<1> QED
  BY <1>1, <1>2, <1>3, <1>4, <1>5, <1>6, <1>7, <1>8, <1>9, <1>10, <1>11 DEF Next

LEMMA TypeInit == Init => TypeOK
<1> SUFFICES ASSUME Init PROVE TypeOK
  OBVIOUS
<1>1. Cold \in Entry
  BY DEF Cold, Entry, MaxDecay
<1>2. entry \in [Key -> Entry]
  BY <1>1 DEF Init
<1>3. callees \in [Key -> SUBSET Key]
  BY DEF Init
<1>4. idle \in [Key -> Nat] /\ flying \in [Key -> 0..2]
  BY DEF Init
<1> QED BY <1>2, <1>3, <1>4 DEF Init, TypeOK

\* Every variable of the lifecycle keeps its type: no countdown goes below
\* zero, no step past the last, no more than one run queued behind another.
THEOREM TypeCorrect == Spec => []TypeOK
BY TypeInit, TypeStep, PTL DEF Spec

-----------------------------------------------------------------------------
(* Watches follow the state. *)

LEMMA RenewedActive == \A k \in Key : Renewed(k).state = "Active"
BY DEF Renewed

LEMMA EvictedLeave == Evicted \subseteq Leaving
BY DEF Evicted

LEMMA WatchedStep ==
    ASSUME TypeOK, WatchedWhileActive, [Next]_vars
    PROVE  WatchedWhileActive'
<1> USE DEF WatchedWhileActive
<1>1. ASSUME NEW k \in Key,
             (\E j \in Key : Call(k, j)) \/ RanCalling(k) \/ RunEnds(k) \/ Read(k)
                \/ Settled(k)
      PROVE  WatchedWhileActive'
  BY <1>1 DEF Call, RanCalling, RunEnds, Read, Settled, loopVars
<1>2. ASSUME NEW k \in Key, Demand(k) PROVE WatchedWhileActive'
  <2> DEFINE D == WithCallees(k)
  <2>1. \A j \in Key : entry'[j] = IF j \in D THEN Renewed(j) ELSE entry[j]
    BY <1>2 DEF Demand, DemandAll
  <2>2. watched' = watched \cup {j \in D \cap Watches : entry[j].state # "Active"}
    BY <1>2 DEF Demand, WatchAll
  <2>3. \A j \in Key : entry'[j].state = IF j \in D THEN "Active" ELSE entry[j].state
    BY <2>1, RenewedActive
  <2> HIDE DEF D
  <2> QED BY <2>2, <2>3, LifecycleAssumption
<1>3. ASSUME NEW k \in Key, FileEvent(k) PROVE WatchedWhileActive'
  <2>1. watched' = watched
    BY <1>3 DEF FileEvent
  <2>2. CASE entry[k].state = "Active"
    <3>1. \A j \in Key : entry'[j] = IF j = k THEN Renewed(j) ELSE entry[j]
      BY <1>3, <2>2 DEF FileEvent, DemandAll
    <3>2. \A j \in Key : entry'[j].state = entry[j].state
      BY <3>1, <2>2, RenewedActive
    <3> QED BY <2>1, <3>2, LifecycleAssumption
  <2>3. CASE entry[k].state # "Active"
    BY <1>3, <2>1, <2>3 DEF FileEvent
  <2> QED BY <2>2, <2>3
<1>4. CASE Tick
  <2>1. \A j \in Key : entry'[j] = IF j \in Evicted THEN Cold
                                   ELSE IF Due(j) THEN Stepped(j) ELSE Polled(j)
    BY <1>4 DEF Tick
  <2>2. \A j \in Key : entry'[j].state = IF j \in Evicted THEN "Cold"
                           ELSE IF Due(j) THEN "Decay" ELSE entry[j].state
    <3>1. Cold.state = "Cold"
      BY DEF Cold
    <3>2. \A j \in Key : Stepped(j).state = "Decay" /\ Polled(j).state = entry[j].state
      BY DEF Stepped, Polled
    <3> QED BY <2>1, <3>1, <3>2
  <2>3. \A j \in Evicted : j \in Key /\ entry[j].state = "Decay"
    BY EvictedLeave DEF Leaving
  <2>4. \A j \in Key : entry'[j].state = "Active" <=>
                            entry[j].state = "Active" /\ j \notin Unwatched
    BY <2>2, <2>3 DEF Unwatched
  <2>5. watched' = watched \ Unwatched
    BY <1>4 DEF Tick
  <2> QED BY <2>4, <2>5, LifecycleAssumption
<1>5. CASE Pass
  <2>1. \A j \in Key : entry'[j].state = entry[j].state
    BY <1>5 DEF Pass, Aged
  <2> QED BY <1>5, <2>1, LifecycleAssumption DEF Pass
<1>6. CASE Quieten \/ UNCHANGED vars
  BY <1>6 DEF Quieten, vars, loopVars
<1> QED BY <1>1, <1>2, <1>3, <1>4, <1>5, <1>6 DEF Next

\* An instance's files are watched exactly while it is Active.
THEOREM WatchesFollow == Spec => []WatchedWhileActive
<1>1. Init => WatchedWhileActive
  <2> SUFFICES ASSUME Init PROVE watched = {} /\ \A k \in Watches : entry[k].state # "Active"
    BY DEF WatchedWhileActive
  <2>1. \A k \in Key : entry[k].state = "Cold"
    BY DEF Init, Cold
  <2> QED BY <2>1, LifecycleAssumption DEF Init
<1> QED BY <1>1, WatchedStep, TypeCorrect, PTL DEF Spec

-----------------------------------------------------------------------------
(* What the tick evicts. *)

\* Only the tick evicts, and an instance it does not evict stays.
LEMMA OnlyTickEvicts ==
    ASSUME [Next]_vars, NEW k \in Key, Tracked(k), ~Tracked(k)'
    PROVE  Tick /\ k \in Evicted
<1>1. ASSUME NEW j \in Key,
             (\E i \in Key : Call(j, i)) \/ RanCalling(j) \/ RunEnds(j) \/ Read(j)
                \/ Settled(j)
      PROVE  FALSE
  BY <1>1 DEF Call, RanCalling, RunEnds, Read, Settled, loopVars, Tracked
<1>2. ASSUME NEW j \in Key, Demand(j) \/ FileEvent(j) PROVE FALSE
  <2>1. \/ \E D : entry' = [i \in Key |-> IF i \in D THEN Renewed(i) ELSE entry[i]]
        \/ entry' = entry
    BY <1>2 DEF Demand, FileEvent, DemandAll
  <2>2. entry'[k] \in {Renewed(k), entry[k]}
    BY <2>1
  <2> QED BY <2>2, RenewedActive DEF Tracked
<1>3. CASE Pass
  BY <1>3 DEF Pass, Aged, Tracked
<1>4. CASE Quieten \/ UNCHANGED vars
  BY <1>4 DEF Quieten, vars, loopVars, Tracked
<1>5. CASE Tick
  <2>1. ASSUME k \notin Evicted PROVE FALSE
    <3>1. entry'[k] \in {Stepped(k), Polled(k)}
      BY <1>5, <2>1 DEF Tick
    <3>2. Stepped(k).state = "Decay" /\ Polled(k).state = entry[k].state
      BY DEF Stepped, Polled
    <3> QED BY <3>1, <3>2 DEF Tracked
  <2> QED BY <1>5, <2>1
<1> QED BY <1>1, <1>2, <1>3, <1>4, <1>5 DEF Next

\* An instance that calls one of the evicted, and has an entry, is evicted too.
LEMMA CallersGoToo ==
    ASSUME NEW k \in Evicted, NEW c \in Key, k \in callees[c], Tracked(c)
    PROVE  c \in Evicted
<1>1. PICK S \in SUBSET Leaving : k \in S /\ \A j \in S : ~StillCalled(j, S)
  BY DEF Evicted
<1>2. c \in S
  BY <1>1 DEF StillCalled
<1> QED BY <1>1, <1>2 DEF Evicted

\* No instance is evicted from under one that calls it and stays.
THEOREM CalleesKept == Spec => NoCalleeLeftBehind
<1>1. ASSUME [Next]_vars
      PROVE  [\A k, c \in Key :
                (Tracked(k) /\ ~Tracked(k)' /\ k \in callees[c]) => ~Tracked(c)']_vars
  <2> SUFFICES ASSUME NEW k \in Key, NEW c \in Key,
                      Tracked(k), ~Tracked(k)', k \in callees[c]
               PROVE  ~Tracked(c)'
    OBVIOUS
  <2>1. Tick /\ k \in Evicted
    BY <1>1, OnlyTickEvicts
  <2>2. CASE Tracked(c)
    <3>1. c \in Evicted
      BY <2>1, <2>2, CallersGoToo
    <3> QED BY <2>1, <3>1 DEF Tick, Tracked, Cold
  <2>3. CASE ~Tracked(c)
    <3>1. c \notin Evicted /\ ~Due(c)
      BY <2>3, EvictedLeave DEF Leaving, Due
    <3>2. entry'[c] = Polled(c)
      BY <2>1, <3>1 DEF Tick
    <3> QED BY <2>3, <3>2 DEF Polled, Tracked
  <2> QED BY <2>2, <2>3
<1> QED BY <1>1, PTL DEF Spec, NoCalleeLeftBehind

-----------------------------------------------------------------------------
(* Nothing leaves early. *)

\* What any other step than a tick, or time, does to an entry.
LEMMA DemandsRenew ==
    ASSUME [Next]_vars, ~Tick, ~Pass
    PROVE  \/ entry' = entry /\ idle' = idle
           \/ \A k \in Key : \/ entry'[k] = entry[k] /\ idle'[k] = idle[k]
                             \/ entry'[k] = Renewed(k) /\ idle'[k] = 0
<1>1. ASSUME NEW j \in Key,
             (\E i \in Key : Call(j, i)) \/ RanCalling(j) \/ RunEnds(j) \/ Read(j)
                \/ Settled(j)
      PROVE  entry' = entry /\ idle' = idle
  BY <1>1 DEF Call, RanCalling, RunEnds, Read, Settled, loopVars
<1>2. ASSUME NEW j \in Key, Demand(j) \/ FileEvent(j)
      PROVE  (\E D : DemandAll(D)) \/ (entry' = entry /\ idle' = idle)
  BY <1>2 DEF Demand, FileEvent
<1>3. ASSUME NEW D, DemandAll(D), NEW k \in Key
      PROVE  \/ entry'[k] = entry[k] /\ idle'[k] = idle[k]
             \/ entry'[k] = Renewed(k) /\ idle'[k] = 0
  BY <1>3 DEF DemandAll
<1>4. CASE Quieten \/ UNCHANGED vars
  BY <1>4 DEF Quieten, vars, loopVars
<1> QED BY <1>1, <1>2, <1>3, <1>4 DEF Next

\* How an entry may change.
LEMMA EntryNext ==
    ASSUME [Next]_vars, NEW k \in Key
    PROVE  \/ entry'[k].state = entry[k].state /\ entry'[k].step = entry[k].step
           \/ entry'[k] = Renewed(k)
           \/ entry'[k] = Cold
           \/ entry'[k] = Stepped(k) /\ Due(k)
<1>1. CASE entry' = entry
  BY <1>1
<1>2. CASE Tick
  BY <1>2 DEF Tick, Polled
<1>3. CASE Pass
  BY <1>3 DEF Pass, Aged
<1> QED BY <1>1, <1>2, <1>3, DemandsRenew

LEMMA StepsStep ==
    ASSUME TypeOK, StepsInOrder, [Next]_vars
    PROVE  StepsInOrder'
<1> SUFFICES ASSUME NEW k \in Key
             PROVE  /\ entry'[k].state = "Active" => entry'[k].step = 0
                    /\ entry'[k].state = "Decay" => entry'[k].step \in 1..Depth[k]
  BY DEF StepsInOrder
<1>1. CASE /\ entry'[k].state = entry[k].state
           /\ entry'[k].step = entry[k].step
  BY <1>1 DEF StepsInOrder
<1>2. CASE entry'[k] = Renewed(k)
  BY <1>2 DEF Renewed
<1>3. CASE entry'[k] = Cold
  BY <1>3 DEF Cold
<1>4. CASE entry'[k] = Stepped(k) /\ Due(k)
  <2>1. Depth[k] \in 1..MaxDecay
    BY Times
  <2>2. NextStep(k) \in 1..Depth[k]
    <3>1. entry[k].state \in {"Cold", "Active", "Decay"} /\ entry[k].step \in 0..MaxDecay
      BY DEF TypeOK, Entry
    <3>2. entry[k].state # "Cold"
      BY <1>4 DEF Due, Tracked
    <3> QED BY <2>1, <3>1, <3>2 DEF NextStep, StepsInOrder, MaxDecay
  <2> QED BY <1>4, <2>2 DEF Stepped
<1>5. \/ entry'[k].state = entry[k].state /\ entry'[k].step = entry[k].step
      \/ entry'[k] = Renewed(k)
      \/ entry'[k] = Cold
      \/ entry'[k] = Stepped(k) /\ Due(k)
  BY EntryNext
<1> QED BY <1>1, <1>2, <1>3, <1>4, <1>5

\* A sum of steps, each twice as long as the last.
LEMMA OneMoreStep ==
    ASSUME NEW l \in Nat, NEW x \in Nat, NEW i \in Nat, i >= l * (x - 1)
    PROVE  i + l * x >= l * (2 * x - 1)
OBVIOUS

LEMMA FewerSteps ==
    ASSUME NEW l \in Nat, NEW x \in Nat, NEW i \in Nat, i >= l * (2 * x - 1)
    PROVE  i >= l * (x - 1)
<1>1. l * x \in Nat
  BY Product
<1>2. l * (2 * x - 1) = l * (x - 1) + l * x
  OBVIOUS
<1>3. l * (x - 1) \in Int
  OBVIOUS
<1> QED BY <1>1, <1>2, <1>3

LEMMA LadderStep ==
    ASSUME TypeOK, TypeOK', StepsInOrder, OnTheLadder, [Next]_vars
    PROVE  OnTheLadder'
<1> SUFFICES ASSUME NEW k \in Key, Tracked(k)'
             PROVE  \/ idle'[k] >= Lifetime(k)
                    \/ idle'[k] + entry'[k].left
                            >= Lifespan(k) * (2^(entry'[k].step + 1) - 1)
  BY DEF OnTheLadder, Lifetime, Lifespan
<1> DEFINE L == Lifespan(k)
<1>1. L \in Nat /\ Lifetime(k) \in Nat /\ idle[k] \in Nat /\ idle'[k] \in Nat
  BY Times DEF TypeOK
<1>2. /\ entry[k].left \in Nat
      /\ entry[k].step \in 0..MaxDecay
      /\ entry[k].state \in {"Cold", "Active", "Decay"}
  BY DEF TypeOK, Entry
<1>3. CASE entry'[k] = entry[k] /\ idle'[k] = idle[k]
  BY <1>3 DEF OnTheLadder, Tracked
<1>4. CASE entry'[k] = Renewed(k) /\ idle'[k] = 0
  <2>1. entry'[k].left = L /\ entry'[k].step = 0
    BY <1>4 DEF Renewed
  <2>2. 2^(0 + 1) = 2
    <3>1. 2^(0 + 1) = 2 * 2^0
      BY RatesAssumption DEF MaxDecay
    <3> QED BY <3>1, RatesAssumption
  <2>3. L * (2 - 1) = L
    BY <1>1
  <2> HIDE DEF L
  <2>4. 0 + L >= L * (2 - 1)
    BY <1>1, <2>3
  <2> QED BY <1>4, <2>1, <2>2, <2>4 DEF L
<1>5. CASE Tick
  <2>1. idle' = idle
    BY <1>5 DEF Tick
  <2>2. CASE k \in Evicted
    BY <1>5, <2>2 DEF Tick, Tracked, Cold
  <2>3. CASE k \notin Evicted /\ ~Due(k)
    <3>1. entry'[k] = Polled(k)
      BY <1>5, <2>3 DEF Tick
    <3>2. /\ entry'[k].state = entry[k].state
          /\ entry'[k].step = entry[k].step
          /\ entry'[k].left = entry[k].left
      BY <3>1 DEF Polled
    <3> QED BY <2>1, <3>2 DEF OnTheLadder, Tracked
  <2>4. CASE k \notin Evicted /\ Due(k)
    <3> DEFINE n == NextStep(k)
               s == entry[k].step
    <3>1. entry'[k].step = n /\ entry'[k].left = L * 2^n
      BY <1>5, <2>4 DEF Tick, Stepped
    <3>2. Tracked(k) /\ entry[k].left = 0
      BY <2>4 DEF Due
    <3>3. n \in 0..MaxDecay
      BY NextStepType
    <3>4. n = s + 1 \/ n = s
      BY <1>2 DEF NextStep, StepsInOrder
    <3>5. 2^n \in Nat /\ 2^(n + 1) = 2 * 2^n
      BY <3>3, Times, RatesAssumption
    <3>6. 2^s \in Nat /\ 2^(s + 1) = 2 * 2^s
      BY <1>2, Times, RatesAssumption
    <3>7. idle[k] >= Lifetime(k) \/ idle[k] >= L * (2^(s + 1) - 1)
      <4>1. \/ idle[k] >= Lifetime(k)
            \/ idle[k] + 0 >= L * (2^(s + 1) - 1)
        BY <3>2 DEF OnTheLadder
      <4> QED BY <1>1, <4>1
    <3> HIDE DEF n, s, L
    <3>8. ASSUME idle[k] >= L * (2^(s + 1) - 1)
          PROVE  idle[k] >= L * (2^n - 1)
      <4>1. CASE n = s + 1
        BY <3>8, <4>1
      <4>2. CASE n = s
        <5>1. idle[k] >= L * (2 * 2^n - 1)
          BY <3>8, <3>6, <4>2
        <5> QED BY <1>1, <3>5, <5>1, FewerSteps
      <4> QED BY <3>4, <4>1, <4>2
    <3>9. ASSUME idle[k] >= L * (2^(s + 1) - 1)
          PROVE  idle[k] + L * 2^n >= L * (2^(n + 1) - 1)
      <4>1. idle[k] + L * 2^n >= L * (2 * 2^n - 1)
        BY <1>1, <3>5, <3>8, <3>9, OneMoreStep
      <4> QED BY <3>5, <4>1
    <3> QED BY <2>1, <3>1, <3>7, <3>9 DEF L
  <2> QED BY <2>2, <2>3, <2>4
<1>6. CASE Pass
  <2>1. /\ entry'[k].state = entry[k].state
        /\ entry'[k].step = entry[k].step
        /\ entry'[k].left = Less(entry[k].left)
    BY <1>6 DEF Pass, Aged
  <2>2. Tracked(k)
    BY <2>1 DEF Tracked
  <2>3. idle'[k] = IF idle[k] < Lifetime(k) THEN idle[k] + 1 ELSE idle[k]
    BY <1>6, <2>2 DEF Pass
  <2>4. idle[k] < Lifetime(k) => idle'[k] + entry'[k].left >= idle[k] + entry[k].left
    BY <1>1, <1>2, <2>1, <2>3 DEF Less
  <2>5. CASE idle[k] >= Lifetime(k)
    BY <1>1, <2>3, <2>5
  <2>6. CASE idle[k] < Lifetime(k)
    <3> DEFINE bound == L * (2^(entry[k].step + 1) - 1)
    <3>1. idle[k] + entry[k].left >= bound
      BY <1>1, <2>2, <2>6 DEF OnTheLadder
    <3>2. bound \in Int
      <4> DEFINE x == 2^(entry[k].step + 1)
      <4>1. x \in Nat
        <5>1. entry[k].step + 1 \in 0..(MaxDecay + 1)
          BY <1>2 DEF MaxDecay
        <5> QED BY <5>1, RatesAssumption
      <4> HIDE DEF x, L
      <4> QED BY <1>1, <4>1 DEF x
    <3>3. entry'[k].left \in Nat
      BY <1>2, <2>1 DEF Less
    <3> HIDE DEF bound
    <3>4. idle'[k] + entry'[k].left >= bound
      BY <1>1, <1>2, <2>4, <2>6, <3>1, <3>2, <3>3
    <3> QED BY <2>1, <3>4 DEF bound
  <2> QED BY <1>1, <2>5, <2>6
<1>7. CASE ~Tick /\ ~Pass
  <2>1. \/ entry'[k] = entry[k] /\ idle'[k] = idle[k]
        \/ entry'[k] = Renewed(k) /\ idle'[k] = 0
    BY <1>7, DemandsRenew
  <2> HIDE DEF L
  <2> QED BY <2>1, <1>3, <1>4
<1> HIDE DEF L
<1> QED BY <1>5, <1>6, <1>7

\* No instance leaves before it has been idle for its window and all its decay.
THEOREM LeavesInTime == Spec => NoEarlyEviction
<1> DEFINE IInv == TypeOK /\ StepsInOrder /\ OnTheLadder
<1>1. Init => IInv
  <2>1. ASSUME Init PROVE \A k \in Key : entry[k] = Cold
    BY <2>1 DEF Init
  <2> QED BY <2>1, TypeInit DEF StepsInOrder, OnTheLadder, Tracked, Cold
<1>2. IInv /\ [Next]_vars => IInv'
  BY TypeStep, StepsStep, LadderStep
<1>3. ASSUME IInv, [Next]_vars
      PROVE  [\A k \in Key : (Tracked(k) /\ ~Tracked(k)') => idle[k] >= Lifetime(k)]_vars
  <2> SUFFICES ASSUME NEW k \in Key, Tracked(k), ~Tracked(k)'
               PROVE  idle[k] >= Lifetime(k)
    OBVIOUS
  <2>1. k \in Leaving
    BY <1>3, OnlyTickEvicts, EvictedLeave
  <2>2. entry[k].left = 0 /\ entry[k].state = "Decay" /\ entry[k].step >= Depth[k]
    BY <2>1 DEF Leaving, Due
  <2>3. entry[k].step = Depth[k]
    <3>1. entry[k].step \in 1..Depth[k] /\ Depth[k] \in 1..MaxDecay
      BY <1>3, <2>2, Times DEF StepsInOrder
    <3> QED BY <2>2, <3>1 DEF MaxDecay
  <2>4. \/ idle[k] >= Lifetime(k)
        \/ idle[k] + 0 >= Lifespan(k) * (2^(Depth[k] + 1) - 1)
    BY <1>3, <2>2, <2>3 DEF OnTheLadder
  <2>5. idle[k] \in Nat
    BY <1>3 DEF TypeOK
  <2> QED BY <2>4, <2>5 DEF Lifetime
<1> QED BY <1>1, <1>2, <1>3, PTL DEF Spec, NoEarlyEviction

=============================================================================
