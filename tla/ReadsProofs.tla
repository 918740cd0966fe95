------------------------------ MODULE ReadsProofs ------------------------------
(***************************************************************************)
(* Proofs about a read (module Climb) and about what it stacks (module     *)
(* Layers): it answers with what the runs it saw end have stored, and from *)
(* the nearest instance that has the field; what is put below a directory  *)
(* stays at the addresses it was put at; and what a read returns is what   *)
(* its layers stack to.                                                    *)
(*                                                                         *)
(* A read climbs the instances of several Sources at once, a level at a    *)
(* time, while others store what they like.  The invariant says how far    *)
(* each Source's walk has come, and that what is left of it is no nearer   *)
(* than what has been visited.                                             *)
(*                                                                         *)
(* A layer is a set of claims, one a leaf, of whoever holds it there; and  *)
(* a layer in front hides of the one behind what its own leaves replace.   *)
(* One merge gives what the overlay shows in front of the base; a read     *)
(* folds that over the layers of a link, and over the links.               *)
(***************************************************************************)
EXTENDS Climb, Layers, PutsProofs, FiniteSetTheorems

-----------------------------------------------------------------------------
(* A read that has waited looks again. *)

\* A run the read saw end is yet to be looked at, and the read will look.
UnreadIsAwaited ==
    unread # {} => progress = "failed" \/ (Settling /\ anyEnded)

LEMMA UnreadInit == ClimbInit => UnreadIsAwaited
BY DEF ClimbInit, UnreadIsAwaited

LEMMA UnreadStep ==
    ASSUME UnreadIsAwaited, [ClimbNext]_climbVars
    PROVE  UnreadIsAwaited'
<1> USE DEF UnreadIsAwaited, Settling, readVars, waitVars
<1>1. CASE Reach \/ RootFails \/ Visit \/ LevelDone \/ Top
  BY <1>1 DEF Reach, RootFails, Visit, LevelDone, Top
<1>2. CASE Settle
  <2>1. progress' = "failed" \/ (progress' = progress /\ anyEnded' = TRUE)
           \/ (UNCHANGED <<progress, anyEnded, unread>>)
    BY <1>2 DEF Settle
  <2>2. progress \in {"settle", "settle last", "settle called"}
    BY <1>2 DEF Settle
  <2>3. CASE progress' = "failed"
    BY <2>3
  <2>4. CASE progress' = progress /\ anyEnded' = TRUE
    BY <2>2, <2>4
  <2>5. CASE UNCHANGED <<progress, anyEnded, unread>>
    BY <2>5
  <2> QED BY <2>1, <2>3, <2>4, <2>5
<1>3. CASE LookAgain
  <2>1. CASE progress = "settle called" /\ ~RendersAgain
    <3>1. ~anyEnded /\ unread' = unread
      BY <1>3, <2>1 DEF LookAgain, RendersAgain
    <3> QED BY <2>1, <3>1
  <2>2. CASE ~(progress = "settle called" /\ ~RendersAgain)
    BY <1>3, <2>2 DEF LookAgain
  <2> QED BY <2>1, <2>2
<1>4. CASE WarmCalled
  BY <1>4 DEF WarmCalled
<1>5. CASE \E i \in DOMAIN held : Others(i)
  <2>1. UNCHANGED <<progress, anyEnded, unread>>
    BY <1>5 DEF Others
  <2> QED BY <2>1
<1>6. CASE UNCHANGED climbVars
  BY <1>6 DEF climbVars
<1> QED BY <1>1, <1>2, <1>3, <1>4, <1>5, <1>6 DEF ClimbNext

\* A read that has waited for a run to end has looked at what is stored since, of
\* its own Sources' runs and of those its lines call (settle, climb, warm_called).
THEOREM WaitedIsShownEver == ClimbSpec => []WaitedIsShown
<1>1. UnreadIsAwaited => WaitedIsShown
  BY DEF UnreadIsAwaited, WaitedIsShown, Settling
<1> QED BY UnreadInit, UnreadStep, <1>1, PTL DEF ClimbSpec

-----------------------------------------------------------------------------
(* The walk up a Source's instances, to its end. *)

Planned == plan \in Plan /\ rule \in [Demanded -> Rule] /\ nearest \subseteq Demanded

\* The walk after i steps, given those after fewer; and the walks of up to n steps.
WalkStep(s, f, i) ==
    IF i = 0 THEN <<>>
    ELSE IF NextOf(s, f[i - 1]) = NoDepth THEN f[i - 1]
    ELSE Append(f[i - 1], NextOf(s, f[i - 1]))

Walks(s, f, n) == f = [i \in 0..n |-> WalkStep(s, f, i)]

LEMMA WalkExists ==
    ASSUME NEW s, NEW n \in Nat
    PROVE  \E f : Walks(s, f, n)
<1> DEFINE P == {m \in Nat : \E f : Walks(s, f, m)}
<1>1. 0 \in P
  <2>1. [i \in 0..0 |-> <<>>] = [i \in 0..0 |-> WalkStep(s, [j \in 0..0 |-> <<>>], i)]
    BY DEF WalkStep
  <2> QED BY <2>1 DEF Walks
<1>2. ASSUME NEW m \in Nat, m \in P PROVE m + 1 \in P
  <2>1. PICK f : Walks(s, f, m)
    BY <1>2
  <2> DEFINE g == [i \in 0..(m + 1) |-> IF i = m + 1 THEN WalkStep(s, f, i) ELSE f[i]]
  <2>2. ASSUME NEW i \in 0..(m + 1) PROVE WalkStep(s, g, i) = WalkStep(s, f, i)
    <3>1. CASE i = 0
      BY <3>1 DEF WalkStep
    <3>2. CASE i # 0
      <4>1. i - 1 \in 0..(m + 1) /\ i - 1 # m + 1
        BY <3>2
      <4>2. g[i - 1] = f[i - 1]
        BY <4>1
      <4> HIDE DEF g
      <4> QED BY <4>2 DEF WalkStep
    <3> QED BY <3>1, <3>2
  <2>3. ASSUME NEW i \in 0..(m + 1) PROVE g[i] = WalkStep(s, f, i)
    BY <2>1 DEF Walks
  <2>4. g = [i \in 0..(m + 1) |-> g[i]]
    OBVIOUS
  <2> HIDE DEF g
  <2>5. g = [i \in 0..(m + 1) |-> WalkStep(s, g, i)]
    BY <2>2, <2>3, <2>4
  <2> QED BY <2>5 DEF Walks
<1> HIDE DEF P
<1>3. Nat \subseteq P
  BY <1>1, <1>2, CountUp
<1> QED BY <1>3 DEF P

LEMMA WholeWalkIs ==
    ASSUME NEW s \in Demanded
    PROVE  \E f : Walks(s, f, Deep + 1) /\ WholeWalk(s) = f[Deep + 1]
<1> DEFINE k == CHOOSE f : f = [i \in 0..(Deep + 1) |-> WalkStep(s, f, i)]
<1>1. k = CHOOSE f : Walks(s, f, Deep + 1)
  BY DEF Walks
<1>2. WholeWalk(s) = k[Deep + 1]
  BY DEF WholeWalk, WalkStep
<1> HIDE DEF k
<1>3. Deep + 1 \in Nat
  BY ClimbAssumption
<1>4. \E f : Walks(s, f, Deep + 1)
  BY <1>3, WalkExists
<1>5. Walks(s, k, Deep + 1)
  BY <1>1, <1>4
<1> QED BY <1>2, <1>5

\* What a walk has found, one after the other: each nearer than the next, each
\* from what was found before it, and the last not far below where it was asked.
GoesUp(s, w) ==
    /\ w \in Seq(Depth)
    /\ \A i, j \in 1..Len(w) : i < j => w[j] < w[i]
    /\ \A i \in 1..Len(w) : w[i] = NextOf(s, SubSeq(w, 1, i - 1))
    /\ w # <<>> /\ s \notin nearest /\ w[Len(w)] # Tilde =>
           \E d \in Directory : w[Len(w)] = rule[s][d] /\ w[Len(w)] <= d + 1

LEMMA AskCases ==
    ASSUME NEW s, NEW w
    PROVE  /\ w = <<>> => Ask(s, w) = IF plan.from = Tilde /\ s \in nearest
                                        THEN plan.home ELSE plan.from
           /\ w # <<>> /\ (s \in nearest \/ Last(w) = Tilde) => Ask(s, w) = NoDepth
           /\ w # <<>> /\ s \notin nearest /\ Last(w) # Tilde =>
                  Ask(s, w) = IF Last(w) - 1 \in {0, plan.home} THEN Tilde
                                                                ELSE Last(w) - 1
BY Zenon DEF Ask

LEMMA PrefixOfAppend ==
    ASSUME NEW T, NEW w \in Seq(T), NEW x \in T
    PROVE  /\ Append(w, x) \in Seq(T) /\ Len(Append(w, x)) = Len(w) + 1
           /\ Append(w, x) # <<>>
           /\ Append(w, x)[Len(w) + 1] = x
           /\ \A i \in 1..Len(w) : Append(w, x)[i] = w[i]
           /\ \A i \in 1..Len(w) : SubSeq(Append(w, x), 1, i - 1) = SubSeq(w, 1, i - 1)
           /\ SubSeq(Append(w, x), 1, Len(w)) = w
<1> DEFINE a == Append(w, x)
<1>1. a \in Seq(T) /\ Len(a) = Len(w) + 1 /\ a # <<>> /\ a[Len(w) + 1] = x
      /\ \A i \in 1..Len(w) : a[i] = w[i]
  OBVIOUS
<1> HIDE DEF a
<1>2. ASSUME NEW i \in 1..(Len(w) + 1)
      PROVE  SubSeq(a, 1, i - 1) = SubSeq(w, 1, i - 1)
  <2>1. i - 1 \in 0..Len(w) /\ Len(w) \in Nat
    OBVIOUS
  <2>2. SubSeq(a, 1, i - 1) = [j \in 1..(i - 1) |-> a[j]]
    BY <1>1, <2>1, SMT
  <2>3. SubSeq(w, 1, i - 1) = [j \in 1..(i - 1) |-> w[j]]
    BY <2>1, SMT
  <2>4. \A j \in 1..(i - 1) : a[j] = w[j]
    BY <1>1, <2>1
  <2> QED BY <2>2, <2>3, <2>4
<1>3. SubSeq(w, 1, Len(w)) = w
  OBVIOUS
<1> QED BY <1>1, <1>2, <1>3 DEF a

LEMMA NextCases ==
    ASSUME Planned, NEW s \in Demanded, NEW w \in Seq(Depth)
    PROVE  /\ NextOf(s, w) \in Depth \cup {NoDepth}
           /\ w # <<>> /\ (s \in nearest \/ w[Len(w)] = Tilde) => NextOf(s, w) = NoDepth
           /\ w # <<>> /\ s \notin nearest /\ w[Len(w)] # Tilde =>
                \/ NextOf(s, w) = Tilde
                \/ LET d == w[Len(w)] - 1
                   IN  /\ d \in Directory
                       /\ NextOf(s, w) = rule[s][d] /\ rule[s][d] # 0
                       /\ rule[s][d] \notin ToSet(w)
           /\ w = <<>> /\ s \notin nearest =>
                \/ NextOf(s, w) = Tilde
                \/ Deep \in Directory /\ NextOf(s, w) = rule[s][Deep] /\ rule[s][Deep] # 0
<1> DEFINE a == Ask(s, w)
<1>1. plan.from \in {Tilde, Deep} /\ plan.home \in 0..Deep
  BY DEF Planned, Plan
<1>2. \A d \in Directory : rule[s][d] \in 0..Deep
  BY ClimbAssumption DEF Planned
<1>3. Depth = 0..Deep /\ Directory = 1..Deep /\ Tilde = 0 /\ NoDepth = Deep + 1 /\ Deep \in Nat /\ Deep # 0
  BY ClimbAssumption DEF Depth, Directory, Tilde, NoDepth
<1>4. w # <<>> => w[Len(w)] \in Depth /\ Last(w) = w[Len(w)]
  BY DEF Last
<1>5. a \in 0..Deep \cup {NoDepth}
  <2>1. CASE w = <<>>
    BY <1>1, <1>3, <2>1, AskCases
  <2>2. CASE w # <<>> /\ (s \in nearest \/ Last(w) = Tilde)
    BY <2>2, AskCases
  <2>3. CASE w # <<>> /\ s \notin nearest /\ Last(w) # Tilde
    BY <1>1, <1>3, <1>4, <2>3, AskCases
  <2> QED BY <2>1, <2>2, <2>3
<1>6. NextOf(s, w) = IF a \in Directory THEN Found(s, w, a) ELSE a
  BY DEF NextOf
<1>7. a \in Directory => Found(s, w, a) \in {NoDepth, Tilde, rule[s][a]}
  BY DEF Found
<1>8. a \in Directory /\ s \notin nearest =>
          \/ Found(s, w, a) = Tilde
          \/ /\ Found(s, w, a) = rule[s][a] /\ rule[s][a] # 0
             /\ rule[s][a] \notin ToSet(w)
  BY DEF Found
<1> HIDE DEF a
<1>9. NextOf(s, w) \in Depth \cup {NoDepth}
  BY <1>2, <1>3, <1>5, <1>6, <1>7
<1>10. w # <<>> /\ (s \in nearest \/ w[Len(w)] = Tilde) => NextOf(s, w) = NoDepth
  <2> SUFFICES ASSUME w # <<>> /\ (s \in nearest \/ w[Len(w)] = Tilde)
               PROVE  NextOf(s, w) = NoDepth
    OBVIOUS
  <2>1. a = NoDepth
    BY <1>4, AskCases DEF a
  <2> QED BY <1>3, <1>6, <2>1
<1>11. ASSUME w # <<>> /\ s \notin nearest /\ w[Len(w)] # Tilde
       PROVE  \/ NextOf(s, w) = Tilde
              \/ LET d == w[Len(w)] - 1
                 IN  /\ d \in Directory
                     /\ NextOf(s, w) = rule[s][d] /\ rule[s][d] # 0
                     /\ rule[s][d] \notin ToSet(w)
  <2>1. a = IF Last(w) - 1 \in {0, plan.home} THEN Tilde ELSE Last(w) - 1
    BY <1>4, <1>11, AskCases DEF a
  <2>2. CASE a = Tilde
    BY <1>3, <1>6, <2>2
  <2>3. CASE a # Tilde
    <3>1. a = w[Len(w)] - 1 /\ a \in Directory
      BY <1>3, <1>4, <1>11, <2>1, <2>3
    <3> QED BY <1>6, <1>8, <1>11, <3>1
  <2> QED BY <2>2, <2>3
<1>12. ASSUME w = <<>> /\ s \notin nearest
       PROVE  \/ NextOf(s, w) = Tilde
              \/ Deep \in Directory /\ NextOf(s, w) = rule[s][Deep] /\ rule[s][Deep] # 0
  <2>1. a = plan.from
    BY <1>12, AskCases DEF a
  <2>2. CASE a = Tilde
    BY <1>3, <1>6, <2>2
  <2>3. CASE a # Tilde
    <3>1. a = Deep /\ a \in Directory
      BY <1>1, <1>3, <2>1, <2>3
    <3> QED BY <1>6, <1>8, <1>12, <3>1
  <2> QED BY <2>2, <2>3
<1> QED BY <1>9, <1>10, <1>11, <1>12

LEMMA WalkOn ==
    ASSUME Planned, RootsSettle, NEW s \in Demanded, NEW w, GoesUp(s, w),
           NextOf(s, w) # NoDepth
    PROVE  GoesUp(s, Append(w, NextOf(s, w)))
<1> DEFINE x == NextOf(s, w)
           n == Len(w)
           v == Append(w, x)
<1>1. w \in Seq(Depth) /\ n \in Nat
  BY DEF GoesUp
<1>2. x \in Depth
  BY <1>1, NextCases
<1>3. Depth = 0..Deep /\ Directory = 1..Deep /\ Tilde = 0 /\ Deep \in Nat
  BY ClimbAssumption DEF Depth, Directory, Tilde
<1>4. /\ v \in Seq(Depth) /\ Len(v) = n + 1 /\ v # <<>> /\ v[n + 1] = x
      /\ \A i \in 1..n : v[i] = w[i]
      /\ \A i \in 1..n : SubSeq(v, 1, i - 1) = SubSeq(w, 1, i - 1)
      /\ SubSeq(v, 1, n) = w
  BY <1>1, <1>2, PrefixOfAppend
<1>5. w # <<>> => s \notin nearest /\ w[n] # Tilde
  BY <1>1, NextCases
<1>6. /\ w # <<>> => x < w[n]
      /\ s \notin nearest /\ x # Tilde =>
             \E d \in Directory : x = rule[s][d] /\ x <= d + 1
  <2>1. CASE x = Tilde
    <3>1. w # <<>> => w[n] \in Depth
      BY <1>1
    <3> QED BY <1>3, <1>5, <2>1, <3>1
  <2>2. CASE x # Tilde /\ w # <<>>
    <3> DEFINE d == w[n] - 1
    <3>1. d \in Directory /\ x = rule[s][d] /\ x \notin ToSet(w)
      BY <1>1, <1>5, <2>2, NextCases
    <3>2. PICK e \in Directory : w[n] = rule[s][e] /\ w[n] <= e + 1
      BY <1>5, <2>2 DEF GoesUp
    <3>3. n \in 1..n /\ w[n] \in ToSet(w) /\ w[n] \in Depth
      <4>1. n \in 1..n
        BY <1>1, <2>2
      <4> QED BY <1>1, <4>1 DEF ToSet
    <3>4. d <= e
      BY <1>3, <3>2, <3>3
    <3>5. rule[s] \in Rule
      BY DEF Planned
    <3>6. rule[s][d] <= rule[s][e]
      BY <3>1, <3>4, <3>5 DEF RootsSettle
    <3>7. x < w[n]
      BY <1>2, <1>3, <3>1, <3>2, <3>3, <3>6
    <3>8. x <= d + 1
      BY <1>2, <1>3, <3>3, <3>7
    <3> QED BY <3>1, <3>7, <3>8
  <2>3. CASE x # Tilde /\ w = <<>>
    <3>1. s \notin nearest => Deep \in Directory /\ x = rule[s][Deep]
      BY <1>1, <2>3, NextCases
    <3>2. x <= Deep + 1
      BY <1>2, <1>3
    <3> QED BY <2>3, <3>1, <3>2
  <2> QED BY <2>1, <2>2, <2>3
<1> HIDE DEF v
<1>7. \A i, j \in 1..Len(v) : i < j => v[j] < v[i]
  <2> SUFFICES ASSUME NEW i \in 1..Len(v), NEW j \in 1..Len(v), i < j
               PROVE  v[j] < v[i]
    OBVIOUS
  <2>1. i \in 1..n /\ v[i] = w[i] /\ w[i] \in Depth
    BY <1>1, <1>4
  <2>2. CASE j = n + 1
    <3>1. w # <<>> /\ n \in 1..n
      BY <1>1, <2>1
    <3>2. i < n => w[n] < w[i]
      BY <2>1, <3>1 DEF GoesUp
    <3>3. w[n] \in Depth
      BY <1>1, <3>1
    <3> QED BY <1>2, <1>3, <1>4, <1>6, <2>1, <2>2, <3>1, <3>2, <3>3
  <2>3. CASE j # n + 1
    <3>1. j \in 1..n /\ v[j] = w[j]
      BY <1>1, <1>4, <2>3
    <3> QED BY <2>1, <3>1 DEF GoesUp
  <2> QED BY <2>2, <2>3
<1>8. \A i \in 1..Len(v) : v[i] = NextOf(s, SubSeq(v, 1, i - 1))
  <2> SUFFICES ASSUME NEW i \in 1..Len(v) PROVE v[i] = NextOf(s, SubSeq(v, 1, i - 1))
    OBVIOUS
  <2>1. CASE i = n + 1
    <3>1. i - 1 = n
      BY <1>1, <2>1
    <3> QED BY <1>4, <2>1, <3>1
  <2>2. CASE i # n + 1
    <3>1. i \in 1..n
      BY <1>1, <1>4, <2>2
    <3> QED BY <1>4, <3>1 DEF GoesUp
  <2> QED BY <2>1, <2>2
<1> HIDE DEF x, n
<1>9. GoesUp(s, v)
  BY <1>4, <1>6, <1>7, <1>8 DEF GoesUp
<1> QED BY <1>9 DEF v, x

LEMMA WalkShort ==
    ASSUME NEW s, NEW w, GoesUp(s, w), NEW i \in 1..Len(w)
    PROVE  w[i] <= Deep + 1 - i
<1> DEFINE P == {k \in Nat : k \in 1..Len(w) => w[k] <= Deep + 1 - k}
<1>1. w \in Seq(Depth) /\ Depth = 0..Deep /\ Deep \in Nat /\ Len(w) \in Nat
  BY ClimbAssumption DEF GoesUp, Depth, Directory, Tilde
<1>2. 0 \in P
  OBVIOUS
<1>3. ASSUME NEW k \in Nat, k \in P PROVE k + 1 \in P
  <2> SUFFICES ASSUME k + 1 \in 1..Len(w) PROVE w[k + 1] <= Deep + 1 - (k + 1)
    OBVIOUS
  <2>1. w[k + 1] \in 0..Deep
    BY <1>1
  <2>2. CASE k = 0
    BY <1>1, <2>1, <2>2
  <2>3. CASE k # 0
    <3>1. k \in 1..Len(w) /\ k < k + 1
      BY <1>1, <2>3
    <3>2. w[k] <= Deep + 1 - k /\ w[k + 1] < w[k]
      BY <1>3, <3>1 DEF GoesUp
    <3>3. w[k] \in 0..Deep
      BY <1>1, <3>1
    <3> QED BY <1>1, <2>1, <3>2, <3>3
  <2> QED BY <2>2, <2>3
<1> HIDE DEF P
<1>4. Nat \subseteq P
  BY <1>2, <1>3, CountUp
<1>5. i \in P
  BY <1>1, <1>4
<1> QED BY <1>5 DEF P

LEMMA EmptyGoesUp == ASSUME NEW s PROVE GoesUp(s, <<>>)
BY DEF GoesUp

\* The walk finds one after the other, and is over: there are not more depths
\* than it takes steps.
LEMMA WholeWalkGoesUp ==
    ASSUME Planned, RootsSettle, NEW s \in Demanded
    PROVE  GoesUp(s, WholeWalk(s)) /\ NextOf(s, WholeWalk(s)) = NoDepth
<1>1. PICK f : Walks(s, f, Deep + 1) /\ WholeWalk(s) = f[Deep + 1]
  BY WholeWalkIs
<1>2. \A i \in 0..(Deep + 1) : f[i] = WalkStep(s, f, i)
  BY <1>1 DEF Walks
<1>3. Deep \in Nat /\ Depth = 0..Deep /\ Tilde = 0
  BY ClimbAssumption DEF Depth, Directory, Tilde
<1> DEFINE P == {n \in Nat : n \in 0..(Deep + 1) =>
                    /\ GoesUp(s, f[n])
                    /\ Len(f[n]) = n \/ NextOf(s, f[n]) = NoDepth}
<1>4. 0 \in P
  <2>1. 0 \in 0..(Deep + 1)
    BY <1>3
  <2>2. f[0] = <<>>
    BY <1>2, <2>1 DEF WalkStep
  <2> QED BY <2>2, EmptyGoesUp
<1>5. ASSUME NEW n \in Nat, n \in P PROVE n + 1 \in P
  <2> SUFFICES ASSUME n + 1 \in 0..(Deep + 1)
               PROVE  /\ GoesUp(s, f[n + 1])
                      /\ Len(f[n + 1]) = n + 1 \/ NextOf(s, f[n + 1]) = NoDepth
    OBVIOUS
  <2>1. n \in 0..(Deep + 1) /\ n + 1 # 0 /\ n + 1 - 1 = n
    BY <1>3
  <2>2. GoesUp(s, f[n]) /\ (Len(f[n]) = n \/ NextOf(s, f[n]) = NoDepth)
    BY <1>5, <2>1
  <2>3. f[n + 1] = IF NextOf(s, f[n]) = NoDepth THEN f[n]
                   ELSE Append(f[n], NextOf(s, f[n]))
    BY <1>2, <2>1 DEF WalkStep
  <2>4. CASE NextOf(s, f[n]) = NoDepth
    BY <2>2, <2>3, <2>4
  <2>5. CASE NextOf(s, f[n]) # NoDepth
    <3>1. f[n] \in Seq(Depth)
      BY <2>2 DEF GoesUp
    <3>2. NextOf(s, f[n]) \in Depth
      BY <2>5, <3>1, NextCases
    <3>3. Len(f[n + 1]) = n + 1
      BY <2>2, <2>3, <2>5, <3>1, <3>2, PrefixOfAppend
    <3> QED BY <2>2, <2>3, <2>5, <3>3, WalkOn
  <2> QED BY <2>4, <2>5
<1> HIDE DEF P
<1>6. Nat \subseteq P
  BY <1>4, <1>5, CountUp
<1> DEFINE w == f[Deep + 1]
<1>7. GoesUp(s, w) /\ (Len(w) = Deep + 1 \/ NextOf(s, w) = NoDepth)
  <2>1. Deep + 1 \in P /\ Deep + 1 \in 0..(Deep + 1)
    BY <1>3, <1>6
  <2> QED BY <2>1 DEF P
<1> HIDE DEF w
<1>8. Len(w) = Deep + 1 => NextOf(s, w) = NoDepth
  <2> SUFFICES ASSUME Len(w) = Deep + 1 PROVE NextOf(s, w) = NoDepth
    OBVIOUS
  <2>1. w \in Seq(Depth) /\ w # <<>> /\ Len(w) \in 1..Len(w)
    BY <1>3, <1>7 DEF GoesUp
  <2>2. w[Len(w)] <= Deep + 1 - Len(w) /\ w[Len(w)] \in Depth
    BY <1>7, <2>1, WalkShort
  <2>3. w[Len(w)] = Tilde
    BY <1>3, <2>2
  <2> QED BY <2>1, <2>3, NextCases
<1> QED BY <1>1, <1>7, <1>8 DEF w

LEMMA SameWalk ==
    ASSUME NEW s \in Demanded, UNCHANGED planVars
    PROVE  WholeWalk(s)' = WholeWalk(s)
BY DEF planVars, WholeWalk, NextOf, Ask, Found

-----------------------------------------------------------------------------
(* What the climb has visited, and what it has yet to. *)

\* What the walk of s has yet to find is no nearer than at.
RestFrom(s, at) ==
    \A j \in 1..Len(WholeWalk(s)) :
        j > Len(walks[s]) => WholeWalk(s)[j] <= at

\* The types the walks need.
ClimbSound ==
    /\ Planned
    /\ walks \in [Demanded -> Seq(Depth)]
    /\ next \in [Demanded -> Depth \cup {NoDepth}]
    /\ level \subseteq Demanded
    /\ visited \in Seq(Instance)

\* What a Source's walk has found is the first of what it will, and of that only
\* the last may be yet to be visited.
OnTheWay ==
    \A s \in Demanded :
        /\ Len(walks[s]) <= Len(WholeWalk(s))
        /\ \A j \in 1..Len(walks[s]) :
               /\ walks[s][j] = WholeWalk(s)[j]
               /\ \/ <<s, walks[s][j]>> \in ToSet(visited)
                  \/ next[s] # NoDepth /\ j = Len(walks[s])
        /\ next[s] # NoDepth =>
               walks[s] # <<>> /\ next[s] = walks[s][Len(walks[s])]

\* Nothing nearer than what was visited is left.
NearestFirst ==
    /\ \A i \in ToSet(visited) : \A s \in Demanded :
           RestFrom(s, i[2]) /\ (next[s] # NoDepth => next[s] <= i[2])
    /\ progress = "visit" =>
           \A s \in level : /\ next[s] # NoDepth
                            /\ \A t \in Demanded :
                                   /\ RestFrom(t, next[s])
                                   /\ next[t] # NoDepth => next[t] <= next[s]

\* No put answers from nearer than the Source that does.
NoPutNearer ==
    merged.of = "source" /\ OnChain(merged.at) =>
        ~(OnChain(plan.put) /\ plan.put >= merged.at)

\* Every Source's walk has found all there is to find, and all of it is visited.
WalksOver ==
    \A s \in Demanded : Len(walks[s]) = Len(WholeWalk(s)) /\ next[s] = NoDepth

\* What holds between any two steps of a read.
ClimbInv ==
    /\ ClimbSound /\ OnTheWay /\ NearestFirst
    /\ progress \in {"reach", "visit", "settle", "top"} => merged = Miss
    /\ progress \in {"top", "settle last", "call", "settle called"} => WalksOver
    /\ progress \in {"call", "settle called"} => NoPutNearer
    /\ NearestAnswers

LEMMA Depths ==
    /\ Depth = 0..Deep /\ Directory = 1..Deep /\ Tilde = 0
    /\ NoDepth = Deep + 1 /\ Deep \in Nat /\ NoDepth \notin Depth
    /\ \A d \in Depth : d \in Nat
BY ClimbAssumption DEF Depth, Directory, Tilde, NoDepth

\* Where there are places there is a nearest of them.
LEMMA NearestOfAll ==
    ASSUME NEW S, S \subseteq Depth, S # {}
    PROVE  \E m \in S : \A d \in S : d <= m
<1> DEFINE B == {Deep - d : d \in S}
<1>1. \A d \in S : d \in 0..Deep
  BY Depths
<1>2. B \subseteq Nat /\ B # {}
  <2>1. \A d \in S : Deep - d \in Nat
    BY <1>1, Depths
  <2>2. PICK d \in S : TRUE
    OBVIOUS
  <2>3. Deep - d \in B
    BY <2>2
  <2> QED BY <2>1, <2>3
<1> HIDE DEF B
<1>3. PICK b \in B : \A c \in B : ~(c < b)
  BY <1>2, NatMin
<1>4. PICK m \in S : b = Deep - m
  BY <1>3 DEF B
<1>5. ASSUME NEW d \in S PROVE d <= m
  <2>1. ~(Deep - d < b)
    BY <1>3 DEF B
  <2> QED BY <1>1, <1>4, <2>1, Depths
<1> QED BY <1>4, <1>5

LEMMA ClimbInitInv == ASSUME RootsSettle, ClimbInit PROVE ClimbInv
<1> USE DEF ClimbInit
<1>1. ClimbSound
  <2>1. ClimbReads \subseteq Plan
    BY ClimbAssumption
  <2>2. <<>> \in Seq(Depth) /\ <<>> \in Seq(Instance)
    OBVIOUS
  <2> QED BY <2>1, <2>2 DEF ClimbSound, Planned
<1>2. \A s \in Demanded : Len(WholeWalk(s)) \in Nat
  BY <1>1, WholeWalkGoesUp DEF ClimbSound, GoesUp
<1>3. \A s \in Demanded : walks[s] = <<>> /\ next[s] = NoDepth
  OBVIOUS
<1>4. OnTheWay
  <2>1. Len(<<>>) = 0 /\ 1..0 = {}
    OBVIOUS
  <2> QED BY <1>2, <1>3, <2>1 DEF OnTheWay
<1>5. NearestFirst
  <2>1. ToSet(visited) = {}
    BY DEF ToSet
  <2> QED BY <2>1 DEF NearestFirst
<1> QED BY <1>1, <1>4, <1>5 DEF ClimbInv, NearestAnswers

\* The walks do not change but in Reach.
LEMMA SameRest ==
    ASSUME UNCHANGED planVars
    PROVE  /\ Planned' = Planned
           /\ \A s \in Demanded : WholeWalk(s)' = WholeWalk(s)
           /\ OnChain(plan.put)' = OnChain(plan.put)
           /\ \A p : OnChain(p)' = OnChain(p)
<1>1. Planned' = Planned
  BY DEF planVars, Planned
<1>2. \A p : OnChain(p)' = OnChain(p)
  BY DEF planVars, OnChain, PathChain
<1>3. OnChain(plan.put)' = OnChain(plan.put)
  BY <1>2 DEF planVars, OnChain, PathChain
<1> QED BY <1>1, <1>2, <1>3, SameWalk

LEMMA ReachStep ==
    ASSUME RootsSettle, ClimbInv, Reach
    PROVE  ClimbInv'
<1> DEFINE found == [s \in Demanded |-> IF next[s] # NoDepth THEN next[s]
                                        ELSE NextOf(s, walks[s])]
           W(s) == WholeWalk(s)
<1>1. /\ Planned /\ walks \in [Demanded -> Seq(Depth)]
      /\ next \in [Demanded -> Depth \cup {NoDepth}]
      /\ OnTheWay /\ NearestFirst
  BY DEF ClimbInv, ClimbSound
<1>2. /\ UNCHANGED <<planVars, visited, merged>> /\ progress = "reach"
      /\ walks' = [s \in Demanded |->
                       IF next[s] # NoDepth \/ found[s] = NoDepth
                         THEN walks[s] ELSE Append(walks[s], found[s])]
      /\ next' = found /\ level' = NearestOf(found)
      /\ progress' = IF NearestOf(found) # {} THEN "visit" ELSE "top"
  BY DEF Reach, readVars
<1>3. \A s \in Demanded : W(s)' = W(s)
  BY <1>2, SameRest
<1>4. \A s \in Demanded : GoesUp(s, W(s)) /\ NextOf(s, W(s)) = NoDepth
  BY <1>1, WholeWalkGoesUp
<1>5. \A s \in Demanded : found[s] \in Depth \cup {NoDepth}
  BY <1>1, NextCases
<1> HIDE DEF W
<1>6. ASSUME NEW s \in Demanded
      PROVE  /\ W(s) \in Seq(Depth) /\ walks[s] \in Seq(Depth)
             /\ Len(W(s)) \in Nat /\ Len(walks[s]) \in Nat
             /\ Len(walks[s]) <= Len(W(s))
             /\ \A j \in 1..Len(walks[s]) : walks[s][j] = W(s)[j]
             /\ walks[s] = SubSeq(W(s), 1, Len(walks[s]))
  <2>1. W(s) \in Seq(Depth) /\ walks[s] \in Seq(Depth)
    BY <1>1, <1>4 DEF GoesUp
  <2>2. Len(walks[s]) <= Len(W(s)) /\ \A j \in 1..Len(walks[s]) : walks[s][j] = W(s)[j]
    BY <1>1 DEF OnTheWay, W
  <2>3. Len(W(s)) \in Nat /\ Len(walks[s]) \in Nat
    BY <2>1
  <2> DEFINE n == Len(walks[s])
             u == SubSeq(W(s), 1, n)
  <2>4. u = [j \in 1..n |-> W(s)[j]]
    BY <2>1, <2>2, <2>3, SMT
  <2>5. walks[s] = [j \in 1..n |-> walks[s][j]]
    BY <2>1
  <2>6. walks[s] = u
    BY <2>2, <2>4, <2>5
  <2> QED BY <2>1, <2>2, <2>3, <2>6
\* What it finds is what comes next of the walk; or the walk is over.
<1>7. ASSUME NEW s \in Demanded, next[s] = NoDepth
      PROVE  /\ found[s] = NoDepth => Len(walks[s]) = Len(W(s))
             /\ found[s] # NoDepth => /\ Len(walks[s]) < Len(W(s))
                                      /\ found[s] = W(s)[Len(walks[s]) + 1]
  <2>1. found[s] = NextOf(s, walks[s])
    BY <1>7
  <2> DEFINE n == Len(walks[s])
  <2>2. CASE n = Len(W(s))
    <3>1. SubSeq(W(s), 1, Len(W(s))) = W(s)
      BY <1>6
    <3>2. walks[s] = W(s)
      BY <1>6, <2>2, <3>1
    <3> QED BY <1>4, <2>1, <2>2, <3>2
  <2>3. CASE n # Len(W(s))
    <3>1. n < Len(W(s)) /\ n + 1 \in 1..Len(W(s)) /\ n + 1 - 1 = n
      BY <1>6, <2>3
    <3>2. W(s)[n + 1] = NextOf(s, SubSeq(W(s), 1, n))
      BY <1>4, <3>1 DEF GoesUp
    <3>3. W(s)[n + 1] = found[s]
      BY <1>6, <2>1, <3>2
    <3>4. W(s)[n + 1] \in Depth
      BY <1>6, <3>1
    <3> QED BY <3>1, <3>3, <3>4, Depths
  <2> QED BY <2>2, <2>3
<1>8. ASSUME NEW s \in Demanded
      PROVE  /\ walks'[s] \in Seq(Depth)
             /\ Len(walks[s]) <= Len(walks'[s]) /\ Len(walks'[s]) <= Len(W(s))
             /\ \A j \in 1..Len(walks'[s]) :
                    /\ walks'[s][j] = W(s)[j]
                    /\ \/ <<s, walks'[s][j]>> \in ToSet(visited)
                       \/ found[s] # NoDepth /\ j = Len(walks'[s])
             /\ found[s] # NoDepth =>
                    walks'[s] # <<>> /\ found[s] = walks'[s][Len(walks'[s])]
             /\ found[s] = NoDepth => Len(walks'[s]) = Len(W(s))
             /\ next[s] = NoDepth /\ found[s] # NoDepth =>
                    Len(walks'[s]) = Len(walks[s]) + 1
  <2>1. CASE next[s] # NoDepth
    <3>1. walks'[s] = walks[s] /\ found[s] = next[s]
      BY <1>2, <2>1
    <3>2. \A j \in 1..Len(walks[s]) :
              \/ <<s, walks[s][j]>> \in ToSet(visited)
              \/ next[s] # NoDepth /\ j = Len(walks[s])
      BY <1>1 DEF OnTheWay
    <3>3. walks[s] # <<>> /\ next[s] = walks[s][Len(walks[s])]
      BY <1>1, <2>1 DEF OnTheWay
    <3> HIDE DEF found
    <3> QED BY <1>6, <2>1, <3>1, <3>2, <3>3
  <2>2. CASE next[s] = NoDepth
    <3>2. \A j \in 1..Len(walks[s]) : <<s, walks[s][j]>> \in ToSet(visited)
      BY <1>1, <2>2 DEF OnTheWay
    <3>3. CASE found[s] = NoDepth
      <4>1. walks'[s] = walks[s]
        BY <1>2, <3>3
      <4> HIDE DEF found
      <4> QED BY <1>6, <1>7, <2>2, <3>2, <3>3, <4>1
    <3>4. CASE found[s] # NoDepth
      <4>1. walks'[s] = Append(walks[s], found[s]) /\ found[s] \in Depth
        BY <1>2, <1>5, <2>2, <3>4
      <4> HIDE DEF found
      <4> DEFINE v == walks'[s]
                 n == Len(walks[s])
      <4>2. /\ v \in Seq(Depth) /\ Len(v) = n + 1 /\ v # <<>> /\ v[n + 1] = found[s]
            /\ \A j \in 1..n : v[j] = walks[s][j]
        BY <1>6, <4>1, PrefixOfAppend
      <4>3. n < Len(W(s)) /\ found[s] = W(s)[n + 1] /\ n \in Nat
        BY <1>6, <1>7, <2>2, <3>4
      <4> HIDE DEF v
      <4>4. ASSUME NEW j \in 1..Len(v)
            PROVE  /\ v[j] = W(s)[j]
                   /\ <<s, v[j]>> \in ToSet(visited) \/ j = Len(v)
        <5>1. CASE j = n + 1
          BY <4>2, <4>3, <5>1
        <5>2. CASE j # n + 1
          <6>1. j \in 1..n
            BY <4>2, <4>3, <5>2
          <6> QED BY <1>6, <3>2, <4>2, <6>1
        <5> QED BY <5>1, <5>2
      <4>5. Len(W(s)) \in Nat
        BY <1>6
      <4> HIDE DEF n
      <4>6. n <= Len(v) /\ Len(v) <= Len(W(s))
        BY <4>2, <4>3, <4>5
      <4> QED BY <2>2, <3>4, <4>2, <4>4, <4>6 DEF v, n
    <3> QED BY <3>3, <3>4
  <2> QED BY <2>1, <2>2
<1> HIDE DEF found
<1>9. ClimbSound'
  <2>1. Planned'
    BY <1>1, <1>2, SameRest
  <2>2. walks' \in [Demanded -> Seq(Depth)]
    BY <1>2, <1>8
  <2>3. next' \in [Demanded -> Depth \cup {NoDepth}]
    <3>1. found = [s \in Demanded |-> found[s]]
      BY DEF found
    <3> QED BY <1>2, <1>5, <3>1
  <2>4. level' \subseteq Demanded
    BY <1>2 DEF NearestOf
  <2>5. visited' \in Seq(Instance)
    BY <1>2 DEF ClimbInv, ClimbSound
  <2> QED BY <2>1, <2>2, <2>3, <2>4, <2>5 DEF ClimbSound
<1>10. OnTheWay'
  BY <1>2, <1>3, <1>8 DEF OnTheWay, W
<1>11. ASSUME NEW s \in Demanded, NEW at, RestFrom(s, at) PROVE RestFrom(s, at)'
  <2> SUFFICES ASSUME NEW j \in 1..Len(W(s)), j > Len(walks'[s]) PROVE W(s)[j] <= at
    BY <1>3 DEF RestFrom, W
  <2>1. j > Len(walks[s])
    <3>1. Len(walks'[s]) \in Nat
      BY <1>8
    <3> QED BY <1>6, <1>8, <3>1
  <2> QED BY <1>11, <2>1 DEF RestFrom, W
\* What is yet to be found is above what is found.
<1>12. ASSUME NEW s \in Demanded, NEW at, at = found[s], at # NoDepth
       PROVE  RestFrom(s, at)'
  <2> SUFFICES ASSUME NEW j \in 1..Len(W(s)), j > Len(walks'[s])
               PROVE  W(s)[j] <= at
    BY <1>3 DEF RestFrom, W
  <2> DEFINE n == Len(walks'[s])
  <2>1. n \in 1..Len(W(s)) /\ found[s] = W(s)[n]
    <3>1. walks'[s] # <<>> /\ walks'[s] \in Seq(Depth) /\ n <= Len(W(s))
      BY <1>8, <1>12
    <3>2. n \in 1..n /\ n \in Nat
      BY <3>1
    <3>3. found[s] = walks'[s][n] /\ walks'[s][n] = W(s)[n]
      BY <1>8, <1>12, <3>2
    <3>4. n \in 1..Len(W(s))
      BY <1>6, <3>1, <3>2
    <3> QED BY <3>3, <3>4
  <2>2. W(s)[j] < W(s)[n]
    BY <1>4, <2>1 DEF GoesUp
  <2>3. W(s)[j] \in Nat /\ W(s)[n] \in Nat
    BY <1>6, <2>1, Depths
  <2> QED BY <1>12, <2>1, <2>2, <2>3
<1>13. ASSUME NEW s \in Demanded, found[s] = NoDepth, NEW at PROVE RestFrom(s, at)'
  <2>1. \A j \in 1..Len(W(s)) : ~(j > Len(walks'[s]))
    BY <1>6, <1>8, <1>13
  <2> QED BY <1>3, <2>1 DEF RestFrom, W
<1>14. NearestFirst'
  <2>1. ASSUME NEW i \in ToSet(visited), NEW s \in Demanded
        PROVE  RestFrom(s, i[2])' /\ (found[s] # NoDepth => found[s] <= i[2])
    <3>1. RestFrom(s, i[2]) /\ (next[s] # NoDepth => next[s] <= i[2])
      BY <1>1, <2>1 DEF NearestFirst
    <3>2. RestFrom(s, i[2])'
      BY <1>11, <3>1
    <3>3. CASE next[s] # NoDepth
      BY <3>1, <3>2, <3>3 DEF found
    <3>4. CASE next[s] = NoDepth /\ found[s] # NoDepth
      <4>1. /\ Len(walks[s]) < Len(W(s)) /\ Len(walks[s]) \in Nat /\ Len(W(s)) \in Nat
            /\ found[s] = W(s)[Len(walks[s]) + 1]
        BY <1>6, <1>7, <3>4
      <4>2. Len(walks[s]) + 1 \in 1..Len(W(s)) /\ Len(walks[s]) + 1 > Len(walks[s])
        BY <4>1
      <4>3. W(s)[Len(walks[s]) + 1] <= i[2]
        BY <3>1, <4>2 DEF RestFrom, W
      <4> QED BY <3>2, <4>1, <4>3
    <3> QED BY <3>2, <3>3, <3>4
  <2>2. ASSUME NEW s \in NearestOf(found), NEW at, at = found[s]
        PROVE  /\ at # NoDepth
               /\ \A t \in Demanded : /\ RestFrom(t, at)'
                                      /\ found[t] # NoDepth => found[t] <= at
    <3>1. s \in Demanded /\ at # NoDepth
          /\ \A t \in Demanded : found[t] # NoDepth => found[t] <= at
      BY <2>2 DEF NearestOf
    <3>2. ASSUME NEW t \in Demanded PROVE RestFrom(t, at)'
      <4>1. CASE found[t] = NoDepth
        BY <1>13, <4>1
      <4>2. CASE found[t] # NoDepth
        <5>1. PICK near : near = found[t]
          OBVIOUS
        <5>2. RestFrom(t, near)' /\ near <= at
          BY <1>12, <3>1, <4>2, <5>1
        <5>3. near \in Nat /\ at \in Nat
          BY <1>5, <2>2, <3>1, <4>2, <5>1, Depths
        <5> SUFFICES ASSUME NEW j \in 1..Len(W(t)), j > Len(walks'[t])
                     PROVE  W(t)[j] <= at
          BY <1>3 DEF RestFrom, W
        <5>4. W(t)[j] <= near
          BY <1>3, <5>2 DEF RestFrom, W
        <5>5. W(t)[j] \in Nat
          BY <1>6, Depths
        <5> QED BY <5>2, <5>3, <5>4, <5>5
      <4> QED BY <4>1, <4>2
    <3> QED BY <3>1, <3>2
  <2>3. ToSet(visited)' = ToSet(visited)
    BY <1>2
  <2>4. \A i \in ToSet(visited)' : \A s \in Demanded :
            RestFrom(s, i[2])' /\ (next'[s] # NoDepth => next'[s] <= i[2])
    BY <1>2, <2>1, <2>3
  <2>5. ASSUME NEW s \in level'
        PROVE  /\ next'[s] # NoDepth
               /\ \A t \in Demanded : /\ RestFrom(t, next[s])'
                                      /\ next'[t] # NoDepth => next'[t] <= next'[s]
    <3>1. PICK at : at = found[s]
      OBVIOUS
    <3>2. s \in NearestOf(found) /\ next'[s] = at
      BY <1>2, <3>1
    <3>3. /\ at # NoDepth
          /\ \A t \in Demanded : /\ RestFrom(t, at)'
                                 /\ found[t] # NoDepth => found[t] <= at
      BY <2>2, <3>1, <3>2
    <3>4. \A t \in Demanded : RestFrom(t, next[s])'
      BY <3>2, <3>3 DEF RestFrom
    <3> QED BY <1>2, <3>2, <3>3, <3>4
  <2> QED BY <2>4, <2>5 DEF NearestFirst
<1>15. progress' \in {"top", "settle last", "call", "settle called"} => WalksOver'
  <2> SUFFICES ASSUME NearestOf(found) = {} PROVE WalksOver'
    BY <1>2
  <2>1. \A s \in Demanded : found[s] = NoDepth
    <3> SUFFICES ASSUME NEW t \in Demanded, found[t] # NoDepth PROVE FALSE
      OBVIOUS
    <3> DEFINE S == {found[s] : s \in {u \in Demanded : found[u] # NoDepth}}
    <3>1. S \subseteq Depth /\ found[t] \in S
      BY <1>5
    <3> HIDE DEF S
    <3>2. PICK m \in S : \A d \in S : d <= m
      BY <3>1, NearestOfAll
    <3>3. PICK s \in Demanded : found[s] # NoDepth /\ m = found[s]
      BY DEF S
    <3>4. s \in NearestOf(found)
      BY <3>2, <3>3 DEF NearestOf, S
    <3> QED BY <3>4
  <2> QED BY <1>2, <1>3, <1>8, <2>1 DEF WalksOver, W
<1>16. progress' \in {"visit", "top"}
  BY <1>2
<1>17. merged' = Miss
  BY <1>2 DEF ClimbInv
<1>18. NearestAnswers'
  BY <1>16 DEF NearestAnswers
<1> QED BY <1>9, <1>10, <1>14, <1>15, <1>16, <1>17, <1>18 DEF ClimbInv, Miss

LEMMA SameRestFrom ==
    ASSUME UNCHANGED planVars, UNCHANGED walks, NEW s \in Demanded, NEW at
    PROVE  RestFrom(s, at)' = RestFrom(s, at)
<1>1. WholeWalk(s)' = WholeWalk(s)
  BY SameRest
<1> QED BY <1>1 DEF RestFrom

LEMMA VisitStep ==
    ASSUME ClimbInv, Visit
    PROVE  ClimbInv'
<1> DEFINE s == Min(level)
           i == <<s, next[s]>>
<1>1. /\ Planned /\ walks \in [Demanded -> Seq(Depth)]
      /\ next \in [Demanded -> Depth \cup {NoDepth}]
      /\ level \subseteq Demanded /\ visited \in Seq(Instance)
      /\ OnTheWay /\ NearestFirst
  BY DEF ClimbInv, ClimbSound
<1>2. /\ UNCHANGED <<planVars, progress, walks, merged>> /\ progress = "visit"
      /\ level # {}
      /\ visited' = Append(visited, i)
      /\ next' = [next EXCEPT ![s] = NoDepth]
      /\ level' = level \ {s}
  BY DEF Visit, readVars
<1>3. s \in level
  <2>1. level \subseteq Nat
    BY <1>1 DEF Demanded
  <2>2. \E x \in level : \A y \in level : ~(y < x)
    BY <1>2, <2>1, NatMin
  <2>3. \E x \in level : \A y \in level : x <= y
    BY <2>1, <2>2
  <2> QED BY <2>3 DEF Min
<1> HIDE DEF s
<1>4. /\ next[s] # NoDepth
      /\ \A t \in Demanded : /\ RestFrom(t, next[s])
                             /\ next[t] # NoDepth => next[t] <= next[s]
  BY <1>1, <1>2, <1>3 DEF NearestFirst
<1>5. s \in Demanded /\ next[s] \in Depth /\ i \in Instance /\ i[2] = next[s]
  BY <1>1, <1>3, <1>4 DEF Instance
<1> HIDE DEF i
<1>6. visited' \in Seq(Instance) /\ ToSet(visited') = ToSet(visited) \cup {i}
  <2>1. /\ visited' \in Seq(Instance) /\ Len(visited') = Len(visited) + 1
        /\ visited'[Len(visited) + 1] = i /\ Len(visited) \in Nat
        /\ \A j \in 1..Len(visited) : visited'[j] = visited[j]
    BY <1>1, <1>2, <1>5, PrefixOfAppend
  <2>2. \A j \in 1..Len(visited') : j \in 1..Len(visited) \/ j = Len(visited) + 1
    BY <2>1
  <2>3. 1..Len(visited) \subseteq 1..Len(visited') /\ Len(visited) + 1 \in 1..Len(visited')
    BY <2>1
  <2>4. DOMAIN visited = 1..Len(visited) /\ DOMAIN visited' = 1..Len(visited')
    BY <1>1, <2>1
  <2>5. ToSet(visited) = {visited[j] : j \in 1..Len(visited)}
        /\ ToSet(visited') = {visited'[j] : j \in 1..Len(visited')}
    BY <2>4 DEF ToSet
  <2>6. ASSUME NEW v \in ToSet(visited') PROVE v \in ToSet(visited) \cup {i}
    BY <2>1, <2>2, <2>5
  <2>7. ASSUME NEW v \in ToSet(visited) \cup {i} PROVE v \in ToSet(visited')
    BY <2>1, <2>3, <2>5
  <2> QED BY <2>1, <2>6, <2>7
<1>7. \A t \in Demanded : next'[t] = IF t = s THEN NoDepth ELSE next[t]
  BY <1>1, <1>2
<1>8. ClimbSound'
  <2>1. Planned'
    BY <1>1, <1>2, SameRest
  <2>2. next' \in [Demanded -> Depth \cup {NoDepth}]
    BY <1>1, <1>2
  <2> QED BY <1>1, <1>2, <1>6, <2>1, <2>2 DEF ClimbSound
<1>9. OnTheWay'
  <2> SUFFICES ASSUME NEW t \in Demanded
               PROVE  /\ Len(walks[t]) <= Len(WholeWalk(t))
                      /\ \A j \in 1..Len(walks[t]) :
                             /\ walks[t][j] = WholeWalk(t)[j]
                             /\ \/ <<t, walks[t][j]>> \in ToSet(visited')
                                \/ next'[t] # NoDepth /\ j = Len(walks[t])
                      /\ next'[t] # NoDepth =>
                             walks[t] # <<>> /\ next'[t] = walks[t][Len(walks[t])]
    BY <1>2, SameRest DEF OnTheWay
  <2>1. /\ Len(walks[t]) <= Len(WholeWalk(t))
        /\ \A j \in 1..Len(walks[t]) :
               /\ walks[t][j] = WholeWalk(t)[j]
               /\ \/ <<t, walks[t][j]>> \in ToSet(visited)
                  \/ next[t] # NoDepth /\ j = Len(walks[t])
        /\ next[t] # NoDepth =>
               walks[t] # <<>> /\ next[t] = walks[t][Len(walks[t])]
    BY <1>1 DEF OnTheWay
  <2>2. CASE t # s
    BY <1>6, <1>7, <2>1, <2>2
  <2>3. CASE t = s
    <3>1. <<t, walks[t][Len(walks[t])]>> = i
      BY <1>4, <2>1, <2>3 DEF i
    <3>2. next'[t] = NoDepth
      BY <1>7, <2>3
    <3> QED BY <1>6, <2>1, <3>1, <3>2
  <2> QED BY <2>2, <2>3
<1>10. NearestFirst'
  <2>1. ASSUME NEW v \in ToSet(visited'), NEW t \in Demanded
        PROVE  RestFrom(t, v[2])' /\ (next'[t] # NoDepth => next'[t] <= v[2])
    <3>1. RestFrom(t, v[2]) /\ (next[t] # NoDepth => next[t] <= v[2])
      <4>1. CASE v \in ToSet(visited)
        BY <1>1, <4>1 DEF NearestFirst
      <4>2. CASE v = i
        BY <1>4, <1>5, <4>2
      <4> QED BY <1>6, <4>1, <4>2
    <3>2. RestFrom(t, v[2])'
      <4>1. PICK at : at = v[2]
        OBVIOUS
      <4>2. RestFrom(t, at)'
        BY <1>2, <3>1, <4>1, SameRestFrom
      <4> QED BY <4>1, <4>2
    <3> QED BY <1>7, <3>1, <3>2
  <2>2. ASSUME NEW u \in level'
        PROVE  /\ next'[u] # NoDepth
               /\ \A t \in Demanded : /\ RestFrom(t, next[u])'
                                      /\ next'[t] # NoDepth => next'[t] <= next'[u]
    <3>1. u \in level /\ u # s /\ u \in Demanded
      BY <1>1, <1>2, <2>2
    <3>2. /\ next[u] # NoDepth
          /\ \A t \in Demanded : /\ RestFrom(t, next[u])
                                 /\ next[t] # NoDepth => next[t] <= next[u]
      BY <1>1, <1>2, <3>1 DEF NearestFirst
    <3>3. PICK at : at = next[u]
      OBVIOUS
    <3>4. next'[u] = at
      BY <1>7, <3>1, <3>3
    <3>5. ASSUME NEW t \in Demanded PROVE RestFrom(t, next[u])'
      <4>1. RestFrom(t, at)'
        BY <1>2, <3>2, <3>3, SameRestFrom
      <4> QED BY <3>4, <4>1 DEF RestFrom
    <3> QED BY <1>7, <3>2, <3>3, <3>4, <3>5
  <2>3. \A v \in ToSet(visited)' : \A t \in Demanded :
            RestFrom(t, v[2])' /\ (next'[t] # NoDepth => next'[t] <= v[2])
    BY <2>1
  <2> QED BY <2>2, <2>3 DEF NearestFirst
<1>11. progress' = "visit" /\ merged' = Miss
  BY <1>2 DEF ClimbInv
<1>12. NearestAnswers'
  BY <1>11 DEF NearestAnswers
<1> QED BY <1>8, <1>9, <1>10, <1>11, <1>12 DEF ClimbInv, Miss

\* Most steps leave the walks as they are.
LEMMA WalksLeft ==
    ASSUME ClimbInv, UNCHANGED <<planVars, walks, next, level, visited>>,
           progress' = "visit" => progress = "visit"
    PROVE  ClimbSound' /\ OnTheWay' /\ NearestFirst' /\ (WalksOver => WalksOver')
<1>1. ClimbSound'
  <2>1. Planned'
    BY SameRest DEF ClimbInv, ClimbSound
  <2> QED BY <2>1 DEF ClimbInv, ClimbSound
<1>2. \A s \in Demanded : WholeWalk(s)' = WholeWalk(s)
  BY SameRest
<1>3. OnTheWay'
  <2>1. OnTheWay
    BY DEF ClimbInv
  <2> QED BY <1>2, <2>1 DEF OnTheWay
<1>4. NearestFirst'
  <2>1. ASSUME NEW v \in ToSet(visited), NEW t \in Demanded
        PROVE  RestFrom(t, v[2])' /\ (next[t] # NoDepth => next[t] <= v[2])
    <3>1. RestFrom(t, v[2]) /\ (next[t] # NoDepth => next[t] <= v[2])
      BY DEF ClimbInv, NearestFirst
    <3>2. PICK at : at = v[2]
      OBVIOUS
    <3>3. RestFrom(t, at)'
      BY <3>1, <3>2, SameRestFrom
    <3> QED BY <3>1, <3>2, <3>3
  <2>2. \A v \in ToSet(visited)' : \A t \in Demanded :
            RestFrom(t, v[2])' /\ (next'[t] # NoDepth => next'[t] <= v[2])
    BY <2>1
  <2>3. ASSUME progress' = "visit", NEW u \in level'
        PROVE  /\ next'[u] # NoDepth
               /\ \A t \in Demanded : /\ RestFrom(t, next[u])'
                                      /\ next'[t] # NoDepth => next'[t] <= next'[u]
    <3>1. /\ next[u] # NoDepth
          /\ \A t \in Demanded : /\ RestFrom(t, next[u])
                                 /\ next[t] # NoDepth => next[t] <= next[u]
      BY <2>3 DEF ClimbInv, NearestFirst
    <3>2. PICK at : at = next[u]
      OBVIOUS
    <3>3. ASSUME NEW t \in Demanded PROVE RestFrom(t, next[u])'
      <4>1. RestFrom(t, at)'
        BY <3>1, <3>2, SameRestFrom
      <4> QED BY <3>2, <4>1 DEF RestFrom
    <3> QED BY <3>1, <3>3
  <2> QED BY <2>2, <2>3 DEF NearestFirst
<1>5. WalksOver => WalksOver'
  BY <1>2 DEF WalksOver
<1> QED BY <1>1, <1>3, <1>4, <1>5

\* The path chain climbs.
LEMMA PathClimbs ==
    ASSUME Planned
    PROVE  /\ PathChain \in Seq(Depth)
           /\ \A j, k \in 1..Len(PathChain) : j < k => PathChain[k] < PathChain[j]
<1>1. plan.from \in {Tilde, Deep} /\ plan.home \in 0..Deep
  BY DEF Planned, Plan
<1>2. CASE plan.from = Tilde
  <2>1. PathChain = <<Tilde>>
    BY <1>2 DEF PathChain
  <2>2. Tilde \in Depth
    BY Depths
  <2>3. <<Tilde>> \in Seq(Depth) /\ Len(<<Tilde>>) = 1
    BY <2>2
  <2> QED BY <2>1, <2>3
<1>3. CASE plan.from # Tilde
  <2> DEFINE n == Deep - plan.home
             b == [k \in 1..n |-> Deep + 1 - k]
             c == b \o <<Tilde>>
  <2>1. PathChain = c
    BY <1>3 DEF PathChain
  <2>2. n \in Nat /\ n <= Deep
    BY <1>1, Depths
  <2> HIDE DEF n
  <2>3. \A k \in 1..n : Deep + 1 - k \in 1..Deep
    BY <2>2, Depths
  <2>4. b \in Seq(Depth) /\ Len(b) = n /\ \A k \in 1..n : b[k] = Deep + 1 - k
    BY <2>2, <2>3, Depths
  <2>5. <<Tilde>> \in Seq(Depth) /\ Len(<<Tilde>>) = 1 /\ <<Tilde>>[1] = 0
    BY Depths
  <2> HIDE DEF b
  <2>6. /\ c \in Seq(Depth) /\ Len(c) = n + 1 /\ c[n + 1] = 0
        /\ \A k \in 1..n : c[k] = Deep + 1 - k
    BY <2>2, <2>4, <2>5
  <2> HIDE DEF c
  <2>7. ASSUME NEW j \in 1..Len(c), NEW k \in 1..Len(c), j < k PROVE c[k] < c[j]
    <3>1. j \in 1..n /\ c[j] = Deep + 1 - j /\ c[j] \in 1..Deep
      BY <2>2, <2>3, <2>6, <2>7
    <3>2. CASE k = n + 1
      BY <2>6, <3>1, <3>2, Depths
    <3>3. CASE k # n + 1
      <4>1. k \in 1..n /\ c[k] = Deep + 1 - k
        BY <2>2, <2>6, <3>3
      <4> QED BY <2>2, <2>7, <3>1, <4>1, Depths
    <3> QED BY <3>2, <3>3
  <2> QED BY <2>1, <2>6, <2>7
<1> QED BY <1>2, <1>3

LEMMA MinIs ==
    ASSUME NEW I, I \subseteq Nat, I # {}
    PROVE  Min(I) \in I /\ \A j \in I : Min(I) <= j
<1>1. PICK x \in I : \A y \in I : ~(y < x)
  BY NatMin
<1>2. \A y \in I : x <= y
  BY <1>1
<1> QED BY <1>1, <1>2 DEF Min

\* No put is nearer on the path chain than a Source that answers a read there, which
\* is one of an instance that the read has visited.
LEMMA MergedNear ==
    ASSUME Planned, visited \in Seq(Instance),
           ClimbMerged.of = "source", OnChain(ClimbMerged.at)
    PROVE  /\ ~(OnChain(plan.put) /\ plan.put >= ClimbMerged.at)
           /\ \E i \in ToSet(visited) : i[2] = ClimbMerged.at
<1> DEFINE I == {j \in 1..Len(Roots) : ~OnChain(Roots[j]) /\ AnswersAt(Roots[j])}
           J == {j \in 1..Len(PathChain) : AnswersAt(PathChain[j])}
           extra == IF I # {} THEN Min(I) ELSE 0
           link == IF J # {} THEN Min(J) ELSE 0
<1>1. ClimbMerged = CASE extra # 0              -> Answer(Roots[extra])
                      [] extra = 0 /\ link # 0  -> Answer(PathChain[link])
                      [] OTHER                  -> Miss
  BY DEF ClimbMerged, SelectInSeq
<1>2. /\ PathChain \in Seq(Depth)
      /\ \A j, k \in 1..Len(PathChain) : j < k => PathChain[k] < PathChain[j]
  BY PathClimbs
<1>3. Len(PathChain) \in Nat
  BY <1>2
<1>4. I # {} => Min(I) \in I
  <2>1. I \subseteq Nat
    <3>1. Len(Roots) \in Nat
      BY DEF Roots
    <3> QED BY <3>1
  <2> HIDE DEF I
  <2> QED BY <2>1, MinIs
<1>5. J # {} => Min(J) \in J /\ \A j \in J : Min(J) <= j
  <2>1. J \subseteq Nat
    BY <1>3
  <2> HIDE DEF J
  <2> QED BY <2>1, MinIs
<1>6. extra = 0
  <2> SUFFICES ASSUME extra # 0 PROVE FALSE
    OBVIOUS
  <2>1. extra \in I
    BY <1>4
  <2>2. ClimbMerged = Answer(Roots[extra])
    BY <1>1, Zenon
  <2>3. ClimbMerged.at = Roots[extra]
    BY <2>2 DEF Answer
  <2> HIDE DEF extra
  <2> QED BY <2>1, <2>3
<1>7. link # 0
  <2> SUFFICES ASSUME link = 0 PROVE FALSE
    OBVIOUS
  <2> HIDE DEF extra, link
  <2>1. ClimbMerged = Miss
    BY <1>1, <1>6, Zenon
  <2> QED BY <2>1 DEF Miss
<1>8. link \in J /\ \A j \in J : link <= j
  BY <1>5, <1>7
<1> HIDE DEF extra, link
<1>9. ClimbMerged = Answer(PathChain[link])
  BY <1>1, <1>6, <1>7, Zenon
<1> DEFINE at == PathChain[link]
<1>10. ClimbMerged.at = at /\ plan.put # at
  BY <1>9 DEF Answer
<1>11. AnswersAt(at) /\ link \in 1..Len(PathChain) /\ at \in Depth
  BY <1>2, <1>8
<1>12. \E i \in ToSet(visited) : i[2] = at
  BY <1>10, <1>11 DEF AnswersAt
<1>13. ASSUME OnChain(plan.put), plan.put >= at PROVE FALSE
  <2>1. PICK k \in 1..Len(PathChain) : PathChain[k] = plan.put
    BY <1>2, <1>13 DEF OnChain, ToSet
  <2>2. PathChain[k] \in Nat /\ at \in Nat
    BY <1>2, <1>11, <2>1, Depths
  <2>3. at < PathChain[k]
    BY <1>10, <1>13, <2>1, <2>2
  <2>4. k \in J
    BY <2>1 DEF AnswersAt
  <2>5. link <= k
    BY <1>8, <2>4
  <2>6. k # link
    BY <2>2, <2>3
  <2>7. PathChain[k] < at
    BY <1>2, <1>3, <1>11, <2>1, <2>5, <2>6
  <2> QED BY <2>2, <2>3, <2>7
<1> QED BY <1>10, <1>12, <1>13

\* What of a walk is nearer than an instance visited has been visited too.
LEMMA VisitedNearer ==
    ASSUME RootsSettle, ClimbInv, NEW i \in ToSet(visited), NEW s \in Demanded,
           NEW place \in ToSet(WholeWalk(s)), place > i[2]
    PROVE  <<s, place>> \in ToSet(visited)
<1>1. Planned /\ OnTheWay /\ NearestFirst /\ visited \in Seq(Instance)
      /\ walks \in [Demanded -> Seq(Depth)]
  BY DEF ClimbInv, ClimbSound
<1>2. WholeWalk(s) \in Seq(Depth)
  BY <1>1, WholeWalkGoesUp DEF GoesUp
<1>3. PICK j \in 1..Len(WholeWalk(s)) : WholeWalk(s)[j] = place
  BY <1>2 DEF ToSet
<1>4. i[2] \in Nat /\ place \in Nat
  <2>1. i \in Instance
    BY <1>1 DEF ToSet
  <2>2. i[2] \in Depth
    BY <2>1 DEF Instance
  <2>3. place \in Depth
    BY <1>2, <1>3
  <2> QED BY <2>2, <2>3, Depths
<1>5. RestFrom(s, i[2]) /\ (next[s] # NoDepth => next[s] <= i[2])
  BY <1>1 DEF NearestFirst
<1>6. ~(j > Len(walks[s]))
  BY <1>3, <1>4, <1>5 DEF RestFrom
<1>7. j \in 1..Len(walks[s])
  <2>1. Len(walks[s]) \in Nat /\ j \in Nat /\ 1 <= j
    BY <1>1, <1>2
  <2> QED BY <1>6, <2>1
<1>8. /\ walks[s][j] = place
      /\ \/ <<s, place>> \in ToSet(visited)
         \/ next[s] # NoDepth /\ next[s] = place
  BY <1>1, <1>3, <1>7 DEF OnTheWay
<1> QED BY <1>4, <1>5, <1>8

LEMMA AllVisited ==
    ASSUME RootsSettle, ClimbInv, WalksOver, NEW s \in Demanded,
           NEW place \in ToSet(WholeWalk(s))
    PROVE  <<s, place>> \in ToSet(visited)
<1>1. Planned /\ OnTheWay
  BY DEF ClimbInv, ClimbSound
<1>2. WholeWalk(s) \in Seq(Depth)
  BY <1>1, WholeWalkGoesUp DEF GoesUp
<1>3. PICK j \in 1..Len(WholeWalk(s)) : WholeWalk(s)[j] = place
  BY <1>2 DEF ToSet
<1>4. j \in 1..Len(walks[s]) /\ next[s] = NoDepth
  BY <1>3 DEF WalksOver
<1> QED BY <1>1, <1>3, <1>4 DEF OnTheWay

LEMMA LookAgainStep ==
    ASSUME RootsSettle, ClimbInv, LookAgain
    PROVE  ClimbInv'
<1>1. /\ UNCHANGED <<planVars, walks, next, level, visited>>
      /\ merged' = ClimbMerged \/ (progress = "settle called" /\ merged' = merged)
      /\ \/ progress = "settle called" /\ progress' = "answered"
         \/ /\ progress = "settle"
            /\ progress' = IF ClimbMerged # Miss THEN "answered" ELSE "reach"
         \/ /\ progress = "settle last"
            /\ progress' \in {"call", "answered"}
  BY DEF LookAgain, walkVars
<1>2. ClimbSound' /\ OnTheWay' /\ NearestFirst' /\ (WalksOver => WalksOver')
  BY <1>1, WalksLeft
<1>3. Planned /\ visited \in Seq(Instance)
  BY DEF ClimbInv, ClimbSound
<1>4. NoPutNearer'
  <2>1. CASE merged' = ClimbMerged
    <3> SUFFICES ASSUME merged'.of = "source", OnChain(merged.at)'
                 PROVE  ~(OnChain(plan.put) /\ plan.put >= merged.at)'
      BY DEF NoPutNearer
    <3>1. PICK at : at = merged'.at
      OBVIOUS
    <3>2. OnChain(at)' = OnChain(at) /\ OnChain(plan.put)' = OnChain(plan.put)
      BY <1>1, SameRest
    <3>3. OnChain(at)
      BY <3>1, <3>2 DEF OnChain
    <3>4. ~(OnChain(plan.put) /\ plan.put >= ClimbMerged.at)
      BY <1>3, <2>1, <3>1, <3>3, MergedNear
    <3>5. plan' = plan
      BY <1>1 DEF planVars
    <3> QED BY <2>1, <3>2, <3>4, <3>5
  <2>2. CASE progress = "settle called" /\ merged' = merged
    <3>1. NoPutNearer
      BY <2>2 DEF ClimbInv
    <3>2. PICK at : at = merged.at
      OBVIOUS
    <3>3. OnChain(at)' = OnChain(at) /\ OnChain(plan.put)' = OnChain(plan.put)
      BY <1>1, SameRest
    <3>4. OnChain(merged.at)' = OnChain(merged.at)
      BY <2>2, <3>2, <3>3 DEF OnChain
    <3>5. plan' = plan
      BY <1>1 DEF planVars
    <3> QED BY <2>2, <3>1, <3>3, <3>4, <3>5 DEF NoPutNearer
  <2> QED BY <1>1, <2>1, <2>2
<1>5. NearestAnswers'
  <2> SUFFICES ASSUME progress' = "answered", merged'.of = "source",
                      OnChain(merged.at)'
               PROVE  \A s \in Demanded : \A place \in ToSet(WholeWalk(s)) :
                          place > merged'.at => <<s, place>> \in ToSet(visited)
    <3>1. \A s \in Demanded : WholeWalk(s)' = WholeWalk(s)
      BY <1>1, SameRest
    <3> QED BY <1>1, <1>4, <3>1 DEF NearestAnswers, NoPutNearer, ToSet
  <2>1. CASE progress = "settle"
    <3>1. merged' = ClimbMerged
      BY <1>1, <2>1
    <3>2. PICK at : at = merged'.at
      OBVIOUS
    <3>3. OnChain(at)
      <4>1. OnChain(at)' = OnChain(at)
        BY <1>1, SameRest
      <4> QED BY <3>2, <4>1 DEF OnChain
    <3>4. PICK i \in ToSet(visited) : i[2] = merged'.at
      BY <1>3, <3>1, <3>2, <3>3, MergedNear
    <3> QED BY <3>4, VisitedNearer
  <2>2. CASE progress # "settle"
    <3>1. WalksOver
      BY <1>1, <2>2 DEF ClimbInv
    <3> QED BY <3>1, AllVisited
  <2> QED BY <2>1, <2>2
<1>6. progress' \in {"reach", "visit", "settle", "top"} => merged' = Miss
  BY <1>1
<1>7. progress' \in {"top", "settle last", "call", "settle called"} => WalksOver'
  BY <1>1, <1>2 DEF ClimbInv
<1> QED BY <1>2, <1>4, <1>5, <1>6, <1>7 DEF ClimbInv, Miss

LEMMA RestStep ==
    ASSUME ClimbInv,
           \/ RootFails \/ LevelDone \/ Top \/ Settle \/ WarmCalled
           \/ \E i \in DOMAIN held : UnderWay /\ Others(i)
    PROVE  ClimbInv'
<1>1. /\ UNCHANGED <<planVars, walks, next, level, visited, merged>>
      /\ \/ progress' = "failed"
         \/ progress = "visit" /\ progress' \in {"settle", "reach"}
         \/ progress = "top" /\ progress' \in {"settle last", "answered"}
         \/ progress = "call" /\ progress' = "settle called"
         \/ progress \notin {"answered", "failed"} /\ progress' = progress
  <2>1. CASE RootFails \/ LevelDone
    BY <2>1 DEF RootFails, LevelDone, walkVars, readVars
  <2>2. CASE Top
    BY <2>2 DEF Top, walkVars
  <2>3. CASE Settle
    <3>1. progress \in {"settle", "settle last", "settle called"}
          /\ progress' \in {progress, "failed"}
          /\ UNCHANGED <<planVars, walkVars, merged>>
      BY <2>3 DEF Settle, Settling
    <3> QED BY <3>1 DEF walkVars
  <2>4. CASE WarmCalled
    BY <2>4 DEF WarmCalled, walkVars
  <2>5. CASE \E i \in DOMAIN held : UnderWay /\ Others(i)
    <3>1. UNCHANGED <<planVars, progress, walkVars, waitVars, readVars>>
          /\ progress \notin {"answered", "failed"}
      BY <2>5 DEF Others, UnderWay
    <3> QED BY <3>1 DEF walkVars, readVars
  <2> QED BY <2>1, <2>2, <2>3, <2>4, <2>5
<1>2. ClimbSound' /\ OnTheWay' /\ NearestFirst' /\ (WalksOver => WalksOver')
  BY <1>1, WalksLeft
<1>3. progress' \in {"reach", "visit", "settle", "top"} => merged' = Miss
  BY <1>1 DEF ClimbInv
<1>4. progress' \in {"top", "settle last", "call", "settle called"} => WalksOver'
  BY <1>1, <1>2 DEF ClimbInv
<1>5. progress' \in {"call", "settle called"} => NoPutNearer'
  <2> SUFFICES ASSUME progress \in {"call", "settle called"} PROVE NoPutNearer'
    BY <1>1
  <2>1. NoPutNearer
    BY DEF ClimbInv
  <2>2. PICK at : at = merged.at
    OBVIOUS
  <2>3. OnChain(at)' = OnChain(at) /\ OnChain(plan.put)' = OnChain(plan.put)
    BY <1>1, SameRest
  <2>4. OnChain(merged.at)' = OnChain(merged.at)
    BY <1>1, <2>2, <2>3 DEF OnChain
  <2>5. plan' = plan
    BY <1>1 DEF planVars
  <2> QED BY <1>1, <2>1, <2>3, <2>4, <2>5 DEF NoPutNearer
<1>6. NearestAnswers'
  <2>1. progress' = "answered" => progress = "top"
    BY <1>1
  <2>2. progress = "top" => merged = Miss
    BY DEF ClimbInv
  <2>3. progress' = "answered" => merged' = Miss
    BY <1>1, <2>1, <2>2
  <2> QED BY <2>3 DEF NearestAnswers, Miss
<1> QED BY <1>2, <1>3, <1>4, <1>5, <1>6 DEF ClimbInv, Miss

LEMMA ClimbStutter ==
    ASSUME ClimbInv, UNCHANGED climbVars
    PROVE  ClimbInv'
<1>1. UNCHANGED <<planVars, progress, walks, next, level, visited, merged>>
  BY DEF climbVars, walkVars, readVars
<1>2. ClimbSound' /\ OnTheWay' /\ NearestFirst' /\ (WalksOver => WalksOver')
  BY <1>1, WalksLeft
<1>3. plan' = plan /\ OnChain(plan.put)' = OnChain(plan.put)
  BY <1>1, SameRest DEF planVars
<1>4. PICK at : at = merged.at
  OBVIOUS
<1>5. OnChain(at)' = OnChain(at)
  BY <1>1, SameRest
<1>6. OnChain(merged.at)' = OnChain(merged.at)
  BY <1>1, <1>4, <1>5 DEF OnChain
<1>7. \A s \in Demanded : WholeWalk(s)' = WholeWalk(s)
  BY <1>1, SameRest
<1>8. NearestAnswers'
  BY <1>1, <1>3, <1>6, <1>7 DEF ClimbInv, NearestAnswers, ToSet
<1>9. NoPutNearer => NoPutNearer'
  BY <1>1, <1>3, <1>6 DEF NoPutNearer
<1> QED BY <1>1, <1>2, <1>8, <1>9 DEF ClimbInv, Miss

LEMMA ClimbStep ==
    ASSUME RootsSettle, ClimbInv, [ClimbNext]_climbVars
    PROVE  ClimbInv'
BY ReachStep, VisitStep, LookAgainStep, RestStep, ClimbStutter DEF ClimbNext

\* A field a Source answers is answered from the nearest place there is, however many
\* Sources' instances are climbed together, whichever runs the read waits for, and
\* whatever others store meanwhile: where roots settle, that is where what is found
\* from farther up is no deeper (climb, InstanceWalk, read_merged).  A root that is
\* found deeper from farther up is one the walk may come to when it has been past
\* its depth.
THEOREM NearestAnswersEver == RootsSettle => (ClimbSpec => []NearestAnswers)
<1> SUFFICES ASSUME RootsSettle PROVE ClimbSpec => []NearestAnswers
  OBVIOUS
<1>1. ClimbInit => ClimbInv
  BY ClimbInitInv
<1>2. ClimbInv /\ [ClimbNext]_climbVars => ClimbInv'
  BY ClimbStep
<1>3. ClimbInv => NearestAnswers
  BY DEF ClimbInv
<1> QED BY <1>1, <1>2, <1>3, PTL DEF ClimbSpec

-----------------------------------------------------------------------------
(* Layers: what is put, and the addresses it was put at. *)

Leaf == {"value", "empty"}

\* None of the leaves is below another.
Apart(leaves) == \A l \in leaves : Inside(l) \cap leaves = {}

LEMMA TreeOf ==
    ASSUME NEW S, S \subseteq Place \ {Whole}, Apart(S), NEW f \in [S -> Leaf]
    PROVE  f \in Tree
BY DEF Tree, Apart, Leaf

LEMMA InTree ==
    ASSUME NEW f \in Tree
    PROVE  /\ DOMAIN f \subseteq Place \ {Whole} /\ Apart(DOMAIN f)
           /\ f \in [DOMAIN f -> Leaf]
BY DEF Tree, Apart, Leaf

LEMMA NoTreeIs ==
    /\ NoTree \in Tree /\ DOMAIN NoTree = {}
    /\ \A f \in Tree : f # NoTree => DOMAIN f # {}
<1>1. DOMAIN NoTree = {} /\ NoTree \in [{} -> Leaf]
  BY DEF NoTree, Leaf
<1>2. NoTree \in Tree
  BY <1>1, TreeOf DEF Apart
<1>3. ASSUME NEW f \in Tree, DOMAIN f = {} PROVE f = NoTree
  <2>1. f \in [{} -> Leaf]
    BY <1>3, InTree
  <2> QED BY <2>1 DEF NoTree
<1> QED BY <1>1, <1>2, <1>3

LEMMA MinusIs ==
    ASSUME NEW f, NEW gone
    PROVE  /\ DOMAIN Minus(f, gone) = DOMAIN f \ gone
           /\ \A l \in DOMAIN f \ gone : Minus(f, gone)[l] = f[l]
BY DEF Minus, Restrict

LEMMA InsertIs ==
    ASSUME NEW old, NEW new, NEW n, n = Insert(old, new),
           \A l \in DOMAIN old : old[l] \in Leaf, \A l \in DOMAIN new : new[l] \in Leaf
    PROVE  /\ n \in [DOMAIN n -> Leaf]
           /\ \A l : l \in DOMAIN n <=>
                     \/ l \in DOMAIN new
                     \/ l \in DOMAIN old /\ DOMAIN new \cap Under[l] = {}
BY DEF Insert, Overlaid, Restrict

\* Two leaves of a tree, one at or below the other, are one.
LEMMA LeafOnce ==
    ASSUME NEW f \in Tree, NEW l \in DOMAIN f, NEW m \in DOMAIN f, m \in Under[l]
    PROVE  m = l
BY InTree DEF Apart, Inside

\* Each address holds something of the tree, and each leaf has an address.
Addresses(tree, addrs) ==
    /\ \A a \in addrs : Holds(tree, a)
    /\ \A l \in DOMAIN tree : \E a \in addrs : l \in Under[a]

LEMMA UnderNests ==
    ASSUME NEW t \in Place
    PROVE  /\ t \in Under[t] /\ Under[t] \subseteq Place
           /\ \A u \in Under[t] : Under[u] \subseteq Under[t]
BY LayersAssumption

LEMMA CutKeeps ==
    ASSUME NEW old \in Tree, NEW addrs \in SUBSET Place, NEW t \in Place,
           Addresses(old, addrs)
    PROVE  /\ Cut(old, t) \in Tree /\ DOMAIN Cut(old, t) = DOMAIN old \ Under[t]
           /\ \A l \in DOMAIN old \ Under[t] : Cut(old, t)[l] = old[l]
           /\ Addresses(Cut(old, t), Addressed(Cut(old, t), addrs, t))
<1> DEFINE c == Cut(old, t)
<1>1. DOMAIN c = DOMAIN old \ Under[t] /\ \A l \in DOMAIN c : c[l] = old[l]
  <2>1. c = [l \in DOMAIN old \ Under[t] |-> old[l]]
    BY DEF Cut, Minus, Restrict
  <2> HIDE DEF c
  <2> QED BY <2>1
<1>2. c \in Tree
  <2>1. c = [l \in DOMAIN c |-> c[l]]
    BY DEF Cut, Minus, Restrict
  <2>2. /\ DOMAIN old \subseteq Place \ {Whole} /\ Apart(DOMAIN old)
        /\ old \in [DOMAIN old -> Leaf]
    BY InTree
  <2> HIDE DEF c
  <2>3. c \in [DOMAIN c -> Leaf]
    BY <1>1, <2>1, <2>2
  <2>4. Apart(DOMAIN c) /\ DOMAIN c \subseteq Place \ {Whole}
    BY <1>1, <2>2 DEF Apart
  <2> QED BY <2>3, <2>4, TreeOf
<1> HIDE DEF c
<1>3. ASSUME NEW l \in DOMAIN c PROVE \E a \in Addressed(c, addrs, t) : l \in Under[a]
  <2>1. PICK a \in addrs : l \in Under[a]
    BY <1>1 DEF Addresses
  <2>2. a \notin Under[t]
    BY <1>1, <2>1, UnderNests
  <2>3. Holds(c, a)
    BY <2>1 DEF Holds
  <2> QED BY <2>1, <2>2, <2>3 DEF Addressed
<1>4. Addresses(c, Addressed(c, addrs, t))
  BY <1>3 DEF Addresses, Addressed
<1> QED BY <1>1, <1>2, <1>4 DEF c

LEMMA PutKeeps ==
    ASSUME NEW old \in Tree, NEW addrs \in SUBSET Place, NEW t \in Place,
           Addresses(old, addrs), NEW new \in Tree, DOMAIN new \subseteq Under[t],
           NEW c, c = Cut(old, t), NEW kept, kept = Addressed(c, addrs, t),
           NEW inWay, inWay = {a \in DOMAIN c : t \in Inside(a) /\ c[a] = "value"},
           NEW bs, bs = IF new = NoTree THEN kept ELSE (kept \ inWay) \cup {t}
    PROVE  /\ Insert(c, new) \in Tree
           /\ Addresses(Insert(c, new), bs)
<1> DEFINE n == Insert(c, new)
<1>1. /\ c \in Tree /\ DOMAIN c = DOMAIN old \ Under[t]
      /\ Addresses(c, kept)
  BY CutKeeps
<1>3. /\ DOMAIN c \subseteq Place \ {Whole} /\ Apart(DOMAIN c)
      /\ c \in [DOMAIN c -> Leaf]
      /\ DOMAIN new \subseteq Place \ {Whole} /\ Apart(DOMAIN new)
      /\ new \in [DOMAIN new -> Leaf]
  BY <1>1, InTree
<1>2. /\ n \in [DOMAIN n -> Leaf]
      /\ \A l : l \in DOMAIN n <=>
                \/ l \in DOMAIN new
                \/ l \in DOMAIN c /\ DOMAIN new \cap Under[l] = {}
  <2>1. (\A l \in DOMAIN c : c[l] \in Leaf) /\ (\A l \in DOMAIN new : new[l] \in Leaf)
    BY <1>3
  <2> HIDE DEF n
  <2>2. n = Insert(c, new)
    BY DEF n
  <2> QED BY <2>1, <2>2, InsertIs
<1> HIDE DEF n
<1>4. n \in Tree
  <2>1. n \in [DOMAIN n -> Leaf] /\ DOMAIN n \subseteq Place \ {Whole}
    BY <1>2, <1>3
  <2>2. ASSUME NEW l \in DOMAIN n, NEW m \in DOMAIN n, m \in Inside(l) PROVE FALSE
    <3>1. CASE l \in DOMAIN new /\ m \in DOMAIN new
      BY <1>3, <2>2, <3>1 DEF Apart
    <3>2. CASE l \in DOMAIN new /\ m \notin DOMAIN new
      <4>1. m \notin Under[t] /\ l \in Under[t]
        BY <1>1, <1>2, <3>2
      <4> QED BY <2>2, <4>1, UnderNests DEF Inside
    <3>3. CASE l \notin DOMAIN new /\ m \in DOMAIN new
      <4>1. DOMAIN new \cap Under[l] = {}
        BY <1>2, <3>3
      <4> QED BY <2>2, <3>3, <4>1 DEF Inside
    <3>4. CASE l \notin DOMAIN new /\ m \notin DOMAIN new
      BY <1>2, <1>3, <2>2, <3>4 DEF Apart
    <3> QED BY <3>1, <3>2, <3>3, <3>4
  <2> QED BY <2>1, <2>2, TreeOf DEF Apart
<1>5. kept \subseteq Place
  BY DEF Addressed
\* What an address held is there, or what was put in its way is.
<1>6. ASSUME NEW a \in kept PROVE Holds(n, a)
  <2>1. PICK l \in DOMAIN c : l \in Under[a]
    BY <1>1, <1>6 DEF Addresses, Holds
  <2>2. CASE DOMAIN new \cap Under[l] = {}
    BY <1>2, <2>1, <2>2 DEF Holds
  <2>3. CASE DOMAIN new \cap Under[l] # {}
    <3>1. PICK m \in DOMAIN new : m \in Under[l]
      BY <2>3
    <3>2. m \in Under[a]
      BY <1>5, <2>1, <3>1, UnderNests
    <3> QED BY <1>2, <3>1, <3>2 DEF Holds
  <2> QED BY <2>2, <2>3
<1>7. new # NoTree => Holds(n, t)
  BY <1>2, NoTreeIs DEF Holds
<1>8. \A a \in bs : Holds(n, a)
  BY <1>6, <1>7
<1>9. ASSUME NEW l \in DOMAIN n PROVE \E a \in bs : l \in Under[a]
  <2>1. CASE l \in DOMAIN new
    <3>1. new # NoTree
      BY <2>1, NoTreeIs
    <3> QED BY <2>1, <3>1
  <2>2. CASE l \notin DOMAIN new
    <3>1. l \in DOMAIN c /\ DOMAIN new \cap Under[l] = {}
      BY <1>2, <2>2
    <3>2. PICK a \in kept : l \in Under[a]
      BY <1>1, <3>1 DEF Addresses
    <3>3. new # NoTree => a \notin inWay
      <4> SUFFICES ASSUME new # NoTree, a \in inWay PROVE FALSE
        OBVIOUS
      <4>1. a \in DOMAIN c /\ t \in Inside(a)
        OBVIOUS
      <4>2. a = l
        BY <1>1, <3>1, <3>2, <4>1, LeafOnce
      <4>3. Under[t] \subseteq Under[l]
        BY <1>5, <4>1, <4>2, UnderNests DEF Inside
      <4>4. DOMAIN new # {}
        BY NoTreeIs
      <4> QED BY <3>1, <4>3, <4>4
    <3> QED BY <3>2, <3>3
  <2> QED BY <2>1, <2>2
<1>10. Addresses(n, bs)
  BY <1>8, <1>9 DEF Addresses
<1> QED BY <1>4, <1>10 DEF n

LEMMA EvictKeeps ==
    ASSUME NEW old \in Tree, NEW addrs \in SUBSET Place, NEW t \in Place,
           Addresses(old, addrs), NEW c, c = Cut(old, t),
           NEW deeper, deeper = addrs \cap Inside(t),
           NEW kept, kept = DOMAIN old \cap UNION {Under[a] : a \in deeper}
    PROVE  /\ Insert(c, Restrict(old, kept)) \in Tree
           /\ Addresses(Insert(c, Restrict(old, kept)),
                        Addressed(c, addrs, t) \cup deeper)
<1> DEFINE r == Restrict(old, kept)
           n == Insert(c, r)
           bs == Addressed(c, addrs, t) \cup deeper
<1>1. /\ c \in Tree /\ DOMAIN c = DOMAIN old \ Under[t]
      /\ \A l \in DOMAIN c : c[l] = old[l]
      /\ Addresses(c, Addressed(c, addrs, t))
  BY CutKeeps
<1>2. DOMAIN r = kept /\ \A l \in kept : r[l] = old[l]
  BY DEF Restrict
<1> HIDE DEF r
<1>4. /\ DOMAIN old \subseteq Place \ {Whole} /\ Apart(DOMAIN old)
      /\ old \in [DOMAIN old -> Leaf]
  BY InTree
<1>3. /\ n \in [DOMAIN n -> Leaf]
      /\ \A l : l \in DOMAIN n <=>
                \/ l \in kept
                \/ l \in DOMAIN c /\ kept \cap Under[l] = {}
  <2>1. (\A l \in DOMAIN c : c[l] \in Leaf) /\ (\A l \in DOMAIN r : r[l] \in Leaf)
    BY <1>1, <1>2, <1>4
  <2> HIDE DEF n
  <2>2. n = Insert(c, r)
    BY DEF n
  <2>3. /\ n \in [DOMAIN n -> Leaf]
        /\ \A l : l \in DOMAIN n <=>
                  \/ l \in DOMAIN r
                  \/ l \in DOMAIN c /\ DOMAIN r \cap Under[l] = {}
    BY <2>1, <2>2, InsertIs
  <2> QED BY <1>2, <2>3
<1> HIDE DEF n
<1>5. n \in Tree
  <2>1. DOMAIN n \subseteq DOMAIN old
    BY <1>1, <1>3
  <2>3. n \in [DOMAIN n -> Leaf]
    BY <1>3
  <2>4. Apart(DOMAIN n)
    BY <1>4, <2>1 DEF Apart
  <2> QED BY <1>4, <2>1, <2>3, <2>4, TreeOf
<1>6. DOMAIN c \subseteq DOMAIN n
  <2> SUFFICES ASSUME NEW l \in DOMAIN c, NEW k \in kept, k \in Under[l] PROVE l \in kept
    BY <1>3
  <2>1. k = l
    BY <1>1, LeafOnce
  <2> QED BY <2>1
<1>7. \A a \in bs : Holds(n, a)
  <2>1. ASSUME NEW a \in Addressed(c, addrs, t) PROVE Holds(n, a)
    BY <1>1, <1>6 DEF Addresses, Holds
  <2>2. ASSUME NEW a \in deeper PROVE Holds(n, a)
    <3>1. PICK l \in DOMAIN old : l \in Under[a]
      BY DEF Addresses, Holds
    <3>2. l \in kept
      BY <3>1
    <3> QED BY <1>3, <3>1, <3>2 DEF Holds
  <2> QED BY <2>1, <2>2
<1>8. ASSUME NEW l \in DOMAIN n PROVE \E a \in bs : l \in Under[a]
  <2>1. CASE l \in kept
    BY <2>1
  <2>2. CASE l \notin kept
    <3>1. l \in DOMAIN c
      BY <1>3, <2>2
    <3> QED BY <1>1, <3>1 DEF Addresses
  <2> QED BY <2>1, <2>2
<1> HIDE DEF bs
<1>9. Addresses(n, bs)
  BY <1>7, <1>8 DEF Addresses
<1> QED BY <1>5, <1>9 DEF n, bs, r

LEMMA LayersType ==
    LayersTypeOK <=>
        /\ sources \in [Level -> Tree] /\ seeds \in [1..Seeds -> Tree]
        /\ putTrees \in [Level -> Tree] /\ addresses \in [Level -> SUBSET Place]
        /\ \A l \in Level : Addresses(putTrees[l], addresses[l])
BY DEF LayersTypeOK, Addresses

LEMMA LayersInitType == ASSUME LayersInit PROVE LayersTypeOK
<1>1. sources \in [Level -> Tree] /\ seeds \in [1..Seeds -> Tree]
  BY TreesAssumption DEF LayersInit
<1>2. putTrees \in [Level -> Tree] /\ addresses \in [Level -> SUBSET Place]
  BY NoTreeIs DEF LayersInit
<1>3. ASSUME NEW l \in Level PROVE Addresses(putTrees[l], addresses[l])
  <2>1. putTrees[l] = NoTree /\ addresses[l] = {}
    BY DEF LayersInit
  <2> QED BY <2>1, NoTreeIs DEF Addresses
<1> QED BY <1>1, <1>2, <1>3, LayersType

\* One level's tree and addresses change together.
LEMMA OneLevel ==
    ASSUME LayersTypeOK, UNCHANGED <<sources, seeds>>, NEW link \in Level,
           NEW tree \in Tree, NEW addrs \in SUBSET Place, Addresses(tree, addrs),
           putTrees' = [putTrees EXCEPT ![link] = tree],
           addresses' = [addresses EXCEPT ![link] = addrs]
    PROVE  LayersTypeOK'
<1>1. /\ sources \in [Level -> Tree] /\ seeds \in [1..Seeds -> Tree]
      /\ putTrees \in [Level -> Tree] /\ addresses \in [Level -> SUBSET Place]
      /\ \A l \in Level : Addresses(putTrees[l], addresses[l])
  BY LayersType
<1>2. putTrees' \in [Level -> Tree] /\ addresses' \in [Level -> SUBSET Place]
  BY <1>1
<1>3. ASSUME NEW l \in Level PROVE Addresses(putTrees'[l], addresses'[l])
  <2>1. CASE l = link
    BY <1>1, <2>1
  <2>2. CASE l # link
    BY <1>1, <2>2
  <2> QED BY <2>1, <2>2
<1>4. \A l \in Level : /\ \A a \in addresses'[l] : Holds(putTrees'[l], a)
                       /\ \A t \in DOMAIN putTrees'[l] :
                              \E a \in addresses'[l] : t \in Under[a]
  BY <1>3 DEF Addresses
<1> QED BY <1>1, <1>2, <1>4 DEF LayersTypeOK

LEMMA LayersStep ==
    ASSUME LayersTypeOK, [LayersNext]_layersVars
    PROVE  LayersTypeOK'
<1>1. /\ sources \in [Level -> Tree] /\ seeds \in [1..Seeds -> Tree]
      /\ putTrees \in [Level -> Tree] /\ addresses \in [Level -> SUBSET Place]
      /\ \A l \in Level : Addresses(putTrees[l], addresses[l])
  BY LayersType
<1>2. ASSUME NEW link \in Level, NEW tree \in Given, PutSource(link, tree)
      PROVE  LayersTypeOK'
  <2>1. sources' \in [Level -> Tree]
    BY <1>1, <1>2, TreesAssumption DEF PutSource
  <2> QED BY <1>2, <2>1 DEF PutSource, LayersTypeOK
<1>3. ASSUME NEW link \in Level, NEW t \in Place, NEW new \in Stated \cup {NoTree},
             DOMAIN new \subseteq Under[t], PutTree(link, t, new)
      PROVE  LayersTypeOK'
  <2>1. PICK c : c = Cut(putTrees[link], t)
    OBVIOUS
  <2>2. PICK kept : kept = Addressed(c, addresses[link], t)
    OBVIOUS
  <2>3. PICK inWay : inWay = {a \in DOMAIN c : t \in Inside(a) /\ c[a] = "value"}
    OBVIOUS
  <2>4. PICK addrs : addrs = IF new = NoTree THEN kept ELSE (kept \ inWay) \cup {t}
    OBVIOUS
  <2>5. /\ putTrees' = [putTrees EXCEPT ![link] = Insert(c, new)]
        /\ addresses' = [addresses EXCEPT ![link] = addrs]
        /\ UNCHANGED <<sources, seeds>>
    BY <1>3, <2>1, <2>2, <2>3, <2>4 DEF PutTree
  <2>6. new \in Tree
    BY TreesAssumption, NoTreeIs
  <2>7. putTrees[link] \in Tree /\ addresses[link] \in SUBSET Place
        /\ Addresses(putTrees[link], addresses[link])
    <3>1. putTrees[link] \in Tree
      BY <1>1
    <3>2. addresses[link] \in SUBSET Place
      BY <1>1
    <3>3. Addresses(putTrees[link], addresses[link])
      BY <1>1
    <3> QED BY <3>1, <3>2, <3>3
  <2>8. Insert(c, new) \in Tree /\ Addresses(Insert(c, new), addrs)
    <3>1. PICK old : old = putTrees[link]
      OBVIOUS
    <3>2. PICK was : was = addresses[link]
      OBVIOUS
    <3>3. /\ old \in Tree /\ was \in SUBSET Place /\ Addresses(old, was)
          /\ c = Cut(old, t) /\ kept = Addressed(c, was, t)
      BY <2>1, <2>2, <2>7, <3>1, <3>2
    <3>4. DOMAIN new \subseteq Under[t]
      BY <1>3
    <3> QED BY ONLY t \in Place, <2>3, <2>4, <2>6, <3>3, <3>4, PutKeeps
  <2>9. addrs \in SUBSET Place
    BY <2>2, <2>4, <2>7 DEF Addressed
  <2> QED BY <2>5, <2>8, <2>9, OneLevel
<1>4. ASSUME NEW link \in Level, NEW t \in Place, RemovePut(link, t)
      PROVE  LayersTypeOK'
  <2>1. PICK c : c = Cut(putTrees[link], t)
    OBVIOUS
  <2>2. PICK addrs : addrs = Addressed(c, addresses[link], t)
    OBVIOUS
  <2>3. /\ putTrees' = [putTrees EXCEPT ![link] = c]
        /\ addresses' = [addresses EXCEPT ![link] = addrs]
        /\ UNCHANGED <<sources, seeds>>
    BY <1>4, <2>1, <2>2 DEF RemovePut
  <2>4. c \in Tree /\ Addresses(c, addrs)
    BY <1>1, <2>1, <2>2, CutKeeps
  <2>5. addrs \in SUBSET Place
    BY <1>1, <2>2 DEF Addressed
  <2> QED BY <2>3, <2>4, <2>5, OneLevel
<1>5. ASSUME NEW link \in Level, NEW t \in Place, EvictAddress(link, t)
      PROVE  LayersTypeOK'
  <2>1. PICK c : c = Cut(putTrees[link], t)
    OBVIOUS
  <2>2. PICK deeper : deeper = addresses[link] \cap Inside(t)
    OBVIOUS
  <2>3. PICK kept : kept = DOMAIN putTrees[link] \cap UNION {Under[a] : a \in deeper}
    OBVIOUS
  <2>4. PICK n : n = Insert(c, Restrict(putTrees[link], kept))
    OBVIOUS
  <2>5. PICK addrs : addrs = Addressed(c, addresses[link], t) \cup deeper
    OBVIOUS
  <2>6. /\ putTrees' = [putTrees EXCEPT ![link] = n]
        /\ addresses' = [addresses EXCEPT ![link] = addrs]
        /\ UNCHANGED <<sources, seeds>>
    BY <1>5, <2>1, <2>2, <2>3, <2>4, <2>5 DEF EvictAddress
  <2>7. putTrees[link] \in Tree /\ addresses[link] \in SUBSET Place
        /\ Addresses(putTrees[link], addresses[link])
    BY <1>1
  <2>8. n \in Tree /\ Addresses(n, addrs)
    BY <2>1, <2>2, <2>3, <2>4, <2>5, <2>7, EvictKeeps
  <2>9. addrs \in SUBSET Place
    BY <2>2, <2>5, <2>7 DEF Addressed
  <2> QED BY <2>6, <2>8, <2>9, OneLevel
<1>6. ASSUME NEW trees \in [1..Seeds -> Given], ReseedStatic(trees)
      PROVE  LayersTypeOK'
  <2>1. seeds' \in [1..Seeds -> Tree]
    BY <1>6, TreesAssumption DEF ReseedStatic
  <2> QED BY <1>6, <2>1 DEF ReseedStatic, LayersTypeOK
<1>7. CASE UNCHANGED layersVars
  BY <1>7 DEF layersVars, LayersTypeOK
<1> QED BY <1>2, <1>3, <1>4, <1>5, <1>6, <1>7 DEF LayersNext

\* Every address of a put holds something of what was put, and each leaf that was
\* put has an address that says when, whatever is put over, below and above it,
\* removed, and expired (drop_put_subtree, drop_put_address, apply_static_write).
THEOREM AddressesHoldEver == LayersSpec => []LayersTypeOK
BY LayersInitType, LayersStep, PTL DEF LayersSpec

-----------------------------------------------------------------------------
(* Layers: what shows of one layer in front of another. *)

\* Two places that lie above one and the same are one above the other.
LEMMA PathsNest ==
    ASSUME NEW t \in Place
    PROVE  /\ Inside(t) \subseteq Place
           /\ \A u \in Inside(t) : \A v \in Under[u] : v \in Inside(t)
           /\ \A u \in Under[t] : \A v \in Inside(u) : v \in Inside(t)
           /\ \A u, v \in Place : t \in Under[u] /\ t \in Under[v] =>
                  u = v \/ u \in Inside(v) \/ v \in Inside(u)
           /\ \A u \in Inside(t) : t \notin Under[u]
<1>1. Under[t] \subseteq Place /\ \A u \in Under[t] : Under[u] \subseteq Under[t]
  BY UnderNests
<1>2. \A u, v \in Place :
          t \in Under[u] /\ t \in Under[v] => u \in Under[v] \/ v \in Under[u]
  BY PathsAssumption
<1>3. \A u \in Under[t] : t \in Under[u] => u = t
  BY PathsAssumption
<1>4. ASSUME NEW u \in Under[t], NEW v \in Under[u], v = t PROVE u = t
  BY <1>3, <1>4
<1> QED BY <1>1, <1>2, <1>3, <1>4 DEF Inside

\* Claim n, of a layer in front, hides claim m.
Hides(n, m) ==
    \/ n.at \in Inside(m.at)
    \/ m.at \in Inside(n.at) /\ n.is = "value"
    \/ m.at = n.at /\ "value" \in {m.is, n.is}

Hidden(C, m) == \E n \in C : Hides(n, m)

Tops(C) == {m \in C : ~\E n \in C : n.at \in Inside(m.at)}

\* What shows of two layers, A in front.
Stacked(A, B) == Tops(A \cup {m \in B : ~Hidden(A, m)})

\* What a tree claims, except that an empty object may be claimed by several.
Sound(C) ==
    /\ \A m \in C : m.at \in Place \ {Whole} /\ m.is \in Leaf
    /\ \A m, n \in C : n.at \notin Inside(m.at)
    /\ \A m, n \in C : m.at = n.at => m = n \/ (m.is = "empty" /\ n.is = "empty")

\* What hides a claim hides every claim above that.
LEMMA HidesAbove ==
    ASSUME NEW a, NEW n, NEW m, a.at \in Place, n.at \in Place, m.at \in Place,
           Hides(a, n), n.at \in Inside(m.at)
    PROVE  Hides(a, m)
<1>1. n.at \in Under[m.at]
  BY DEF Inside
<1>2. CASE a.at \in Inside(n.at)
  BY <1>1, <1>2, PathsNest DEF Hides
<1>3. CASE n.at \in Inside(a.at) /\ a.is = "value"
  <2>1. n.at \in Under[a.at]
    BY <1>3 DEF Inside
  <2>2. a.at = m.at \/ a.at \in Inside(m.at) \/ m.at \in Inside(a.at)
    BY <1>1, <2>1, PathsNest
  <2> QED BY <1>3, <2>2 DEF Hides
<1>4. CASE n.at = a.at
  BY <1>4 DEF Hides
<1> QED BY <1>2, <1>3, <1>4 DEF Hides

\* What shows of layers i to n, the first of them in front.
Unhidden(layers, i, n) ==
    UNION {{m \in layers[k] : ~\E j \in i..(k - 1) : Hidden(layers[j], m)} : k \in i..n}

ShowFrom(layers, i, n) == Tops(Unhidden(layers, i, n))

LEMMA ShowingIs ==
    ASSUME NEW layers
    PROVE  Showing(layers) = ShowFrom(layers, 1, Len(layers))
BY DEF Showing, ShowFrom, Unhidden, Tops, Hidden, Hides

LEMMA ShowNone ==
    ASSUME NEW layers, NEW n \in Nat
    PROVE  ShowFrom(layers, n + 1, n) = {}
BY DEF ShowFrom, Unhidden, Tops

\* One more layer in front.
LEMMA UnhiddenStep ==
    ASSUME NEW layers, NEW n \in Nat, NEW i \in 1..n
    PROVE  Unhidden(layers, i, n) =
               layers[i] \cup {m \in Unhidden(layers, i + 1, n) : ~Hidden(layers[i], m)}
<1> DEFINE U == Unhidden(layers, i, n)
           V == Unhidden(layers, i + 1, n)
<1>1. ASSUME NEW m \in U
      PROVE  m \in layers[i] \/ (m \in V /\ ~Hidden(layers[i], m))
  <2>1. PICK k \in i..n : m \in layers[k] /\ ~\E j \in i..(k - 1) : Hidden(layers[j], m)
    BY DEF Unhidden
  <2>2. CASE k = i
    BY <2>1, <2>2
  <2>3. CASE k # i
    <3>1. k \in (i + 1)..n /\ i \in i..(k - 1)
      BY <2>3
    <3>2. ~\E j \in (i + 1)..(k - 1) : Hidden(layers[j], m)
      BY <2>1
    <3> QED BY <2>1, <3>1, <3>2 DEF Unhidden
  <2> QED BY <2>2, <2>3
<1>2. ASSUME NEW m \in layers[i] PROVE m \in U
  <2>1. i \in i..n /\ ~\E j \in i..(i - 1) : Hidden(layers[j], m)
    OBVIOUS
  <2> QED BY <2>1 DEF Unhidden
<1>3. ASSUME NEW m \in V, ~Hidden(layers[i], m) PROVE m \in U
  <2>1. PICK k \in (i + 1)..n :
            m \in layers[k] /\ ~\E j \in (i + 1)..(k - 1) : Hidden(layers[j], m)
    BY DEF Unhidden
  <2>2. k \in i..n /\ \A j \in i..(k - 1) : j = i \/ j \in (i + 1)..(k - 1)
    OBVIOUS
  <2>3. ~\E j \in i..(k - 1) : Hidden(layers[j], m)
    BY <1>3, <2>1, <2>2
  <2> QED BY <2>1, <2>2, <2>3 DEF Unhidden
<1> HIDE DEF U, V
<1>4. U = layers[i] \cup {m \in V : ~Hidden(layers[i], m)}
  BY <1>1, <1>2, <1>3
<1> QED BY <1>4 DEF U, V

LEMMA UnhiddenAreClaims ==
    ASSUME NEW layers, NEW n \in Nat, NEW i \in Nat \ {0}, \A k \in 1..n : Sound(layers[k]),
           NEW m \in Unhidden(layers, i, n)
    PROVE  /\ m.at \in Place \ {Whole} /\ m.is \in Leaf
           /\ \E k \in i..n : /\ k \in 1..n /\ m \in layers[k]
                              /\ ~\E j \in i..(k - 1) : Hidden(layers[j], m)
<1>1. PICK k \in i..n : m \in layers[k] /\ ~\E j \in i..(k - 1) : Hidden(layers[j], m)
  BY DEF Unhidden
<1>2. k \in 1..n
  OBVIOUS
<1>3. Sound(layers[k])
  BY <1>2
<1> QED BY <1>1, <1>2, <1>3 DEF Sound

\* Below a claim that A does not hide some claim shows that A does not hide either,
\* or it shows itself: of the claims below, that of the farthest layer.
LEMMA DeepestShows ==
    ASSUME NEW layers, NEW n \in Nat, NEW i \in Nat \ {0}, \A k \in 1..n : Sound(layers[k]),
           NEW A, \A a \in A : a.at \in Place, NEW t \in Place,
           NEW c \in Unhidden(layers, i, n), c.at \in Inside(t), ~Hidden(A, c)
    PROVE  \E d \in ShowFrom(layers, i, n) : d.at \in Inside(t) /\ ~Hidden(A, d)
<1> DEFINE V == Unhidden(layers, i, n)
           Here(k) == {d \in V : /\ d.at \in Inside(t) /\ ~Hidden(A, d)
                                 /\ d \in layers[k]
                                 /\ ~\E j \in i..(k - 1) : Hidden(layers[j], d)}
           Q == {q \in Nat : \E k \in i..n : q = n - k /\ Here(k) # {}}
<1>1. ASSUME NEW d \in V, d.at \in Inside(t), ~Hidden(A, d)
      PROVE  \E k \in i..n : d \in Here(k) /\ n - k \in Q
  <2>1. PICK k \in i..n : d \in layers[k] /\ ~\E j \in i..(k - 1) : Hidden(layers[j], d)
    BY UnhiddenAreClaims
  <2>2. d \in Here(k)
    BY <1>1, <2>1
  <2>3. n - k \in Nat
    BY <2>1
  <2> QED BY <2>2, <2>3
<1>2. Q # {} /\ Q \subseteq Nat
  BY <1>1
<1>3. PICK q \in Q : \A y \in Q : ~(y < q)
  BY <1>2, NatMin
<1>4. PICK k \in i..n : q = n - k /\ Here(k) # {}
  BY <1>3
<1>5. PICK d : d \in Here(k)
  BY <1>4
<1>6. ASSUME NEW e \in V, e.at \in Inside(d.at) PROVE FALSE
  <2>1. d.at \in Place /\ e.at \in Place /\ k \in 1..n
    BY <1>5, UnhiddenAreClaims
  <2>2. e.at \in Inside(t)
    <3>1. d.at \in Inside(t) /\ e.at \in Under[d.at]
      BY <1>5, <1>6 DEF Inside
    <3> QED BY <3>1, PathsNest
  <2>3. ~Hidden(A, e)
    <3> SUFFICES ASSUME NEW a \in A, Hides(a, e) PROVE FALSE
      BY DEF Hidden
    <3>1. Hides(a, d)
      BY <1>6, <2>1, HidesAbove
    <3> QED BY <1>5, <3>1 DEF Hidden
  <2>4. PICK l \in i..n : e \in Here(l) /\ n - l \in Q
    BY <1>1, <2>2, <2>3
  <2>5. ~(n - l < n - k)
    BY <1>3, <1>4, <2>4
  <2>6. l \in i..(k - 1) \/ l = k
    BY <2>5
  <2>7. Hides(e, d)
    BY <1>6 DEF Hides
  <2>8. CASE l \in i..(k - 1)
    BY <1>5, <2>4, <2>7, <2>8 DEF Hidden
  <2>9. CASE l = k
    <3>1. Sound(layers[k]) /\ e \in layers[k] /\ d \in layers[k]
      BY <1>5, <2>1, <2>4, <2>9
    <3> QED BY <1>6, <3>1 DEF Sound
  <2> QED BY <2>6, <2>8, <2>9
<1>7. d \in ShowFrom(layers, i, n)
  BY <1>5, <1>6 DEF ShowFrom, Tops
<1> QED BY <1>5, <1>7

\* The layers from the i-th on show what it shows in front of the rest.
LEMMA ShowStep ==
    ASSUME NEW layers, NEW n \in Nat, NEW i \in 1..n, \A k \in 1..n : Sound(layers[k])
    PROVE  ShowFrom(layers, i, n) = Stacked(layers[i], ShowFrom(layers, i + 1, n))
<1> DEFINE A == layers[i]
           V == Unhidden(layers, i + 1, n)
           S == ShowFrom(layers, i + 1, n)
           W == {m \in S : ~Hidden(A, m)}
           U == {m \in V : ~Hidden(A, m)}
<1>1. ShowFrom(layers, i, n) = Tops(A \cup U)
  <2>1. Unhidden(layers, i, n) = A \cup U
    BY UnhiddenStep
  <2> HIDE DEF A, U
  <2> QED BY <2>1 DEF ShowFrom
<1>2. S \subseteq V /\ W \subseteq U
  BY DEF ShowFrom, Tops
<1>3. /\ \A a \in A : a.at \in Place
      /\ \A m \in V : m.at \in Place
      /\ i + 1 \in Nat \ {0}
  <2>1. Sound(A) /\ i + 1 \in Nat \ {0}
    OBVIOUS
  <2>2. \A m \in V : m.at \in Place
    BY <2>1, UnhiddenAreClaims
  <2> QED BY <2>1, <2>2 DEF Sound
<1>4. ASSUME NEW m \in Tops(A \cup U) PROVE m \in Tops(A \cup W)
  <2>1. m \in A \cup W
    <3> SUFFICES ASSUME m \in U PROVE m \in S
      BY <1>4 DEF Tops
    <3>1. ASSUME NEW c \in V, c.at \in Inside(m.at) PROVE FALSE
      <4>1. ASSUME NEW a \in A, Hides(a, c) PROVE FALSE
        <5>1. Hides(a, m)
          BY <1>3, <3>1, <4>1, HidesAbove
        <5> QED BY <5>1 DEF Hidden
      <4>2. c \in U
        BY <4>1 DEF Hidden
      <4> QED BY <1>4, <3>1, <4>2 DEF Tops
    <3> QED BY <3>1 DEF ShowFrom, Tops
  <2> QED BY <1>2, <1>4, <2>1 DEF Tops
<1>5. ASSUME NEW m \in Tops(A \cup W) PROVE m \in Tops(A \cup U)
  <2>1. m \in A \cup U /\ m.at \in Place
    BY <1>2, <1>3, <1>5 DEF Tops
  <2>2. ASSUME NEW c \in U, c.at \in Inside(m.at) PROVE FALSE
    <3>1. PICK d \in S : d.at \in Inside(m.at) /\ ~Hidden(A, d)
      <4> HIDE DEF A
      <4> QED BY <1>3, <2>1, <2>2, DeepestShows
    <3> QED BY <1>5, <3>1 DEF Tops
  <2> QED BY <1>5, <2>1, <2>2 DEF Tops
<1>6. Tops(A \cup U) = Tops(A \cup W)
  BY <1>4, <1>5
<1> QED BY <1>1, <1>6 DEF Stacked

-----------------------------------------------------------------------------
(* Layers: one merge. *)

\* Of places above or at one and the same, there is a topmost.
LEMMA Topmost ==
    ASSUME NEW l \in Place, NEW K, K \subseteq {u \in Place : l \in Under[u]}, K # {}
    PROVE  \E t \in K : \A u \in K : t \notin Inside(u)
<1> DEFINE Above(t) == {u \in Place : t \in Under[u]}
           Q == {q \in Nat : \E t \in K : q = Cardinality(Above(t))}
<1>1. ASSUME NEW t \in Place PROVE IsFiniteSet(Above(t)) /\ Cardinality(Above(t)) \in Nat
  <2>1. IsFiniteSet(Above(t))
    BY PathsAssumption
  <2> HIDE DEF Above
  <2> QED BY <2>1, FS_CardinalityType
<1>2. Q # {} /\ Q \subseteq Nat
  BY <1>1
<1>3. PICK q \in Q : \A y \in Q : ~(y < q)
  BY <1>2, NatMin
<1>4. PICK t \in K : q = Cardinality(Above(t))
  BY <1>3
<1>5. ASSUME NEW u \in K, t \in Inside(u) PROVE FALSE
  <2>1. u \in Place /\ t \in Place /\ t \in Under[u] /\ u \notin Under[t]
    <3>1. u \in Place /\ t \in Place
      OBVIOUS
    <3>2. t \in Under[u]
      BY <1>5 DEF Inside
    <3>3. u \notin Under[t]
      BY <1>5, <3>1, PathsNest
    <3> QED BY <3>1, <3>2, <3>3
  <2>2. Above(u) \subseteq Above(t)
    BY <2>1, UnderNests
  <2>3. u \in Above(u) /\ t \in Above(t) /\ t \notin Above(u)
    <3>1. u \in Under[u] /\ t \in Under[t]
      BY <2>1, UnderNests
    <3> QED BY <2>1, <3>1
  <2>4. /\ IsFiniteSet(Above(t)) /\ Cardinality(Above(u)) \in Nat
        /\ Cardinality(Above(t)) \in Nat
    BY <1>1, <2>1
  <2>5. Cardinality(Above(u)) \in Q
    BY <2>4
  <2> HIDE DEF Above, Q
  <2>6. /\ Cardinality(Above(u)) <= Cardinality(Above(t))
        /\ Cardinality(Above(u)) = Cardinality(Above(t)) => Above(u) = Above(t)
    BY <2>2, <2>4, FS_Subset
  <2>7. Cardinality(Above(u)) < Cardinality(Above(t))
    BY <2>3, <2>4, <2>6
  <2> QED BY <1>3, <1>4, <2>5, <2>7
<1> QED BY <1>4, <1>5

\* The leaves of F that land on G, and the places of G that then go.
Landed(G, F) == {l \in DOMAIN F : \E t \in Landing(G, F) : l \in Under[t]}

Gone(G, F) ==
    {t \in Place : IsObject(G, t) /\ Inside(t) \cap DOMAIN F # {}}
        \cup UNION {Under[t] : t \in Landing(G, F)}

LEMMA TreeIs ==
    ASSUME NEW F \in Tree
    PROVE  /\ \A l \in DOMAIN F : l \in Place /\ l # Whole /\ F[l] \in {"value", "empty"}
           /\ \A l, m \in DOMAIN F : m \notin Inside(l)
           /\ \A l \in DOMAIN F : IsObject(F, l) <=> F[l] = "empty"
BY InTree DEF Apart, Leaf, IsObject

\* Above a leaf there are objects.
LEMMA AboveIsObject ==
    ASSUME NEW F, NEW l \in DOMAIN F, NEW u, l \in Inside(u)
    PROVE  IsObject(F, u)
BY DEF IsObject

LEMMA WholeIsOutside ==
    ASSUME NEW t \in Place
    PROVE  Whole \notin Inside(t)
<1>1. Whole \in Place /\ Under[Whole] = Place
  BY LayersAssumption
<1> QED BY <1>1, PathsNest

\* A leaf lands unless it is an empty object where an object is.
LEMMA LandedIs ==
    ASSUME NEW G \in Tree, NEW F \in Tree, NEW l \in DOMAIN F
    PROVE  l \in Landed(G, F) <=> ~(F[l] = "empty" /\ IsObject(G, l))
<1>1. l \in Place /\ l # Whole /\ l \in Under[l]
  BY TreeIs, UnderNests
<1>2. ASSUME l \in Landed(G, F), F[l] = "empty", IsObject(G, l) PROVE FALSE
  <2>1. PICK t \in Landing(G, F) : l \in Under[t]
    BY <1>2 DEF Landed
  <2>2. t \in Place /\ ~(IsObject(G, t) /\ IsObject(F, t))
    BY <2>1 DEF Landing
  <2>3. t # l
    BY <1>2, <2>2, TreeIs
  <2>4. l \in Inside(t)
    BY <2>1, <2>3 DEF Inside
  <2>5. IsObject(F, t)
    BY <2>4, AboveIsObject
  <2>6. IsObject(G, t)
    <3>1. CASE l \in DOMAIN G
      BY <2>4, <3>1, AboveIsObject
    <3>2. CASE DOMAIN G \cap Inside(l) # {}
      <4>1. PICK k \in DOMAIN G : k \in Inside(l)
        BY <3>2
      <4>2. k \in Inside(t)
        BY <2>1, <2>2, <4>1, PathsNest
      <4> QED BY <4>2, AboveIsObject
    <3> QED BY <1>1, <1>2, <3>1, <3>2 DEF IsObject
  <2> QED BY <2>2, <2>5, <2>6
<1>3. ASSUME ~(F[l] = "empty" /\ IsObject(G, l)) PROVE l \in Landed(G, F)
  <2> DEFINE K == {t \in Place : l \in Under[t] /\ ~(IsObject(G, t) /\ IsObject(F, t))}
  <2>1. l \in K
    BY <1>1, <1>3, TreeIs
  <2>2. PICK t \in K : \A u \in K : t \notin Inside(u)
    <3>1. K # {} /\ K \subseteq {u \in Place : l \in Under[u]}
      BY <2>1
    <3> HIDE DEF K
    <3> QED BY <1>1, <3>1, Topmost
  <2>3. Holds(F, t)
    BY <2>2 DEF Holds
  <2>4. ASSUME NEW u \in Place, t \in Inside(u) PROVE IsObject(G, u)
    <3>1. l \in Under[u]
      BY <2>2, <2>4, UnderNests DEF Inside
    <3> QED BY <2>2, <2>4, <3>1
  <2>5. t \in Landing(G, F)
    BY <2>2, <2>3, <2>4 DEF Landing
  <2> QED BY <2>2, <2>5 DEF Landed
<1> QED BY <1>2, <1>3

\* What hides a leaf of G makes it go, and nothing else does.
LEMMA GoneIs ==
    ASSUME NEW G \in Tree, NEW F \in Tree, NEW l \in DOMAIN G
    PROVE  l \in Gone(G, F) <=>
               \E n \in DOMAIN F : \/ n \in Inside(l)
                                   \/ l \in Inside(n) /\ F[n] = "value"
                                   \/ l = n /\ "value" \in {G[l], F[n]}
<1>1. /\ l \in Place /\ l # Whole /\ l \in Under[l]
      /\ \A n \in DOMAIN F : n \in Place /\ n \in Under[n]
  BY TreeIs, UnderNests
<1>2. \A u \in Place : l \in Inside(u) => IsObject(G, u)
  BY AboveIsObject
<1>3. ASSUME l \in Gone(G, F)
      PROVE  \E n \in DOMAIN F : \/ n \in Inside(l)
                                 \/ l \in Inside(n) /\ F[n] = "value"
                                 \/ l = n /\ "value" \in {G[l], F[n]}
  <2>1. CASE Inside(l) \cap DOMAIN F # {}
    BY <2>1
  <2>2. ASSUME NEW t \in Landing(G, F), l \in Under[t], Inside(l) \cap DOMAIN F = {}
        PROVE  \E n \in DOMAIN F : \/ l \in Inside(n) /\ F[n] = "value"
                                   \/ l = n /\ "value" \in {G[l], F[n]}
    <3>1. t \in Place /\ Holds(F, t) /\ ~(IsObject(G, t) /\ IsObject(F, t))
      BY DEF Landing
    <3>2. CASE ~IsObject(F, t)
      <4>1. t \in DOMAIN F
        BY <3>1, <3>2 DEF Holds, IsObject, Inside
      <4>2. F[t] = "value"
        BY <3>2, <4>1, TreeIs
      <4> QED BY <2>2, <4>1, <4>2 DEF Inside
    <3>3. CASE ~IsObject(G, t)
      <4>1. t = l
        BY <1>2, <2>2, <3>1, <3>3 DEF Inside
      <4>2. G[l] = "value"
        BY <3>3, <4>1, TreeIs
      <4>3. l \in DOMAIN F
        BY <2>2, <3>1, <4>1 DEF Holds, Inside
      <4> QED BY <4>2, <4>3
    <3> QED BY <3>1, <3>2, <3>3
  <2> QED BY <1>3, <2>1, <2>2 DEF Gone
<1>4. ASSUME NEW n \in DOMAIN F,
             \/ n \in Inside(l)
             \/ l \in Inside(n) /\ F[n] = "value"
             \/ l = n /\ "value" \in {G[l], F[n]}
      PROVE  l \in Gone(G, F)
  <2>1. CASE n \in Inside(l) /\ G[l] = "empty"
    BY <1>1, <2>1, TreeIs DEF Gone
  <2>2. ASSUME NEW t \in Place, l \in Under[t], Holds(F, t),
               ~(IsObject(G, t) /\ IsObject(F, t))
        PROVE  l \in Gone(G, F)
    <3>1. ASSUME NEW u \in Place, t \in Inside(u) PROVE IsObject(G, u)
      <4>1. l \in Inside(u)
        BY <2>2, <3>1, PathsNest
      <4> QED BY <1>2, <4>1
    <3>2. t \in Landing(G, F)
      BY <2>2, <3>1 DEF Landing
    <3> QED BY <2>2, <3>2 DEF Gone
  <2>3. CASE n \in Inside(l) /\ G[l] = "value"
    <3>1. Holds(F, l)
      BY <2>3 DEF Holds, Inside
    <3>2. ~IsObject(G, l)
      BY <2>3, TreeIs
    <3> QED BY <1>1, <2>2, <3>1, <3>2
  <2>4. CASE l \in Under[n] /\ F[n] = "value"
    <3>1. Holds(F, n)
      BY <1>1 DEF Holds
    <3>2. ~IsObject(F, n)
      BY <2>4, TreeIs
    <3> QED BY <1>1, <2>2, <2>4, <3>1, <3>2
  <2>5. CASE l = n /\ G[l] = "value"
    <3>1. Holds(F, l)
      BY <1>1, <2>5 DEF Holds
    <3>2. ~IsObject(G, l)
      BY <2>5, TreeIs
    <3> QED BY <1>1, <2>2, <3>1, <3>2
  <2>6. G[l] \in {"value", "empty"}
    BY TreeIs
  <2> QED BY <1>1, <1>4, <2>1, <2>3, <2>4, <2>5, <2>6 DEF Inside
<1> QED BY <1>3, <1>4

LEMMA RestrictIs ==
    ASSUME NEW f, NEW S
    PROVE  DOMAIN Restrict(f, S) = S /\ \A l \in S : Restrict(f, S)[l] = f[l]
BY DEF Restrict

\* Read m has the leaves of the overlay that land, and of the rest those that stay.
MergesTo(base, overlay, landed, stays, m) ==
    /\ DOMAIN m.fields = landed \cup stays
    /\ m.fields = [l \in DOMAIN m.fields |-> m.fields[l]]
    /\ DOMAIN m.records = landed \cup stays
    /\ \A l \in landed : /\ m.fields[l] = overlay.fields[l]
                         /\ m.records[l] = overlay.records[l]
    /\ \A l \in stays \ landed : /\ m.fields[l] = base.fields[l]
                                 /\ m.records[l] = base.records[l]

LEMMA MergeIs ==
    ASSUME NEW base, NEW overlay, base.fields \in Tree, overlay.fields \in Tree,
           DOMAIN base.records = DOMAIN base.fields,
           DOMAIN overlay.records = DOMAIN overlay.fields
    PROVE  MergesTo(base, overlay, Landed(base.fields, overlay.fields),
                    DOMAIN base.fields \ Gone(base.fields, overlay.fields),
                    Merge(base, overlay))
<1> SUFFICES ASSUME NEW landed, landed = Landed(base.fields, overlay.fields),
                    NEW stays,
                    stays = DOMAIN base.fields \ Gone(base.fields, overlay.fields),
                    NEW m, m = Merge(base, overlay)
             PROVE  MergesTo(base, overlay, landed, stays, m)
  OBVIOUS
<1> DEFINE G == base.fields
           F == overlay.fields
           gone == Gone(G, F)
           rest == Minus(G, gone)
           new == Restrict(F, landed)
           above == {l \in DOMAIN rest : DOMAIN new \cap Under[l] = {}}
           records == Overlaid(Restrict(overlay.records, landed \cap DOMAIN overlay.records),
                               Minus(base.records, gone))
<1>1. m.fields = Insert(rest, new) /\ m.records = records
  BY DEF Merge, Landed, Gone
<1>2. landed \subseteq DOMAIN F /\ landed \cap DOMAIN overlay.records = landed
  BY DEF Landed
<1>3. /\ DOMAIN rest = stays /\ \A l \in stays : rest[l] = G[l]
      /\ DOMAIN new = landed /\ \A l \in landed : new[l] = F[l]
  <2>1. DOMAIN rest = DOMAIN G \ gone /\ \A l \in DOMAIN G \ gone : rest[l] = G[l]
    <3> HIDE DEF G, gone
    <3> QED BY MinusIs
  <2>2. DOMAIN new = landed /\ \A l \in landed : new[l] = F[l]
    <3> HIDE DEF F
    <3> QED BY RestrictIs
  <2> QED BY <2>1, <2>2
<1>4. above = stays
  <2>1. ASSUME NEW l \in stays, NEW n \in landed, n \in Under[l] PROVE FALSE
    <3>1. l \in DOMAIN G /\ l \notin gone /\ n \in DOMAIN F
      BY <1>2
    <3>2. ~(n \in Inside(l)) /\ ~(l = n /\ "value" \in {G[l], F[n]})
      <4> HIDE DEF gone, F, G
      <4>1. G \in Tree /\ F \in Tree
        BY DEF F, G
      <4>2. gone = Gone(G, F)
        BY DEF gone
      <4> QED BY <3>1, <4>1, <4>2, GoneIs
    <3>3. l = n /\ G[l] # "value" /\ F[l] # "value"
      BY <2>1, <3>2 DEF Inside
    <3>4. G[l] = "empty" /\ F[l] = "empty" /\ IsObject(G, l)
      BY <3>1, <3>3, TreeIs
    <3> QED BY <3>1, <3>3, <3>4, LandedIs
  <2> QED BY <1>3, <2>1
<1>5. m.fields = Overlaid(new, Restrict(rest, stays))
  BY <1>1, <1>4 DEF Insert
<1>6. /\ DOMAIN m.fields = landed \cup stays
      /\ m.fields = [l \in DOMAIN m.fields |-> m.fields[l]]
      /\ \A l \in landed : m.fields[l] = F[l]
      /\ \A l \in stays \ landed : m.fields[l] = G[l]
  <2> DEFINE old == Restrict(rest, stays)
  <2>1. DOMAIN old = stays /\ \A l \in stays : old[l] = rest[l]
    <3> HIDE DEF rest
    <3> QED BY RestrictIs
  <2>2. m.fields = Overlaid(new, old)
    BY <1>5
  <2> HIDE DEF new, rest, old
  <2>4. m.fields = [l \in DOMAIN m.fields |-> m.fields[l]]
    BY <2>2 DEF Overlaid
  <2>3. /\ DOMAIN m.fields = DOMAIN new \cup DOMAIN old
        /\ \A l \in DOMAIN new : m.fields[l] = new[l]
        /\ \A l \in DOMAIN old \ DOMAIN new : m.fields[l] = old[l]
    BY <2>2 DEF Overlaid
  <2> QED BY <1>3, <2>1, <2>3, <2>4
<1>7. /\ DOMAIN m.records = landed \cup stays
      /\ \A l \in landed : m.records[l] = overlay.records[l]
      /\ \A l \in stays \ landed : m.records[l] = base.records[l]
  <2> DEFINE R == base.records
             old == Minus(R, gone)
             P == overlay.records
             put == Restrict(P, landed)
  <2>1. m.records = Overlaid(put, old)
    BY <1>1, <1>2
  <2>2. DOMAIN old = DOMAIN R \ gone /\ \A l \in DOMAIN R \ gone : old[l] = R[l]
    <3> HIDE DEF R, gone
    <3> QED BY MinusIs
  <2>3. DOMAIN put = landed /\ \A l \in landed : put[l] = P[l]
    <3> HIDE DEF P
    <3> QED BY RestrictIs
  <2>4. DOMAIN R \ gone = stays
    OBVIOUS
  <2> HIDE DEF old, put
  <2>5. /\ DOMAIN m.records = DOMAIN put \cup DOMAIN old
        /\ \A l \in DOMAIN put : m.records[l] = put[l]
        /\ \A l \in DOMAIN old \ DOMAIN put : m.records[l] = old[l]
    BY <2>1 DEF Overlaid
  <2> QED BY <2>2, <2>3, <2>4, <2>5
<1> QED BY <1>6, <1>7 DEF MergesTo

Claim(t, v, w) == [at |-> t, is |-> v, of |-> w]

\* A read gives, at each place something shows, one claim that shows there.
Gives(read, C) ==
    /\ read.fields \in Tree /\ DOMAIN read.records = DOMAIN read.fields
    /\ DOMAIN read.fields = {m.at : m \in C}
    /\ \A t \in DOMAIN read.fields : Claim(t, read.fields[t], read.records[t]) \in C

LEMMA StackedSound ==
    ASSUME NEW A, NEW B, Sound(A), Sound(B)
    PROVE  Sound(Stacked(A, B))
<1> DEFINE C == Stacked(A, B)
<1>1. \A m \in C : m \in A \/ (m \in B /\ ~Hidden(A, m))
  BY DEF Stacked, Tops
<1>2. \A m, n \in C : n.at \notin Inside(m.at)
  BY DEF Stacked, Tops
<1>3. ASSUME NEW m \in A, NEW n \in C, n \notin A, m.at = n.at
      PROVE  m.is = "empty" /\ n.is = "empty"
  <2>1. n \in B /\ ~Hides(m, n)
    BY <1>1, <1>3 DEF Hidden
  <2>2. m.is \in Leaf /\ n.is \in Leaf
    BY <2>1 DEF Sound
  <2> QED BY <1>3, <2>1, <2>2 DEF Hides, Leaf
<1>4. ASSUME NEW m \in C, NEW n \in C, m.at = n.at
      PROVE  m = n \/ (m.is = "empty" /\ n.is = "empty")
  <2>1. CASE m \in A /\ n \in A
    BY <1>4, <2>1 DEF Sound
  <2>2. CASE m \notin A /\ n \notin A
    BY <1>1, <1>4, <2>2 DEF Sound
  <2> QED BY <1>3, <1>4, <2>1, <2>2
<1> HIDE DEF C
<1>5. \A m \in C : m.at \in Place \ {Whole} /\ m.is \in Leaf
  BY <1>1 DEF Sound
<1>6. Sound(C)
  BY <1>2, <1>4, <1>5 DEF Sound
<1> QED BY <1>6 DEF C

\* What a read gives is what is claimed there.
LEMMA GivesClaimed ==
    ASSUME NEW read, NEW C, Sound(C), Gives(read, C)
    PROVE  /\ \A c \in C : c.at \in DOMAIN read.fields /\ c.is = read.fields[c.at]
           /\ \A l \in DOMAIN read.fields :
                  \E c \in C : /\ c = Claim(l, read.fields[l], read.records[l])
                               /\ c.at = l /\ c.is = read.fields[l]
<1>1. ASSUME NEW l \in DOMAIN read.fields
      PROVE  \E c \in C : /\ c = Claim(l, read.fields[l], read.records[l])
                          /\ c.at = l /\ c.is = read.fields[l]
  <2>1. Claim(l, read.fields[l], read.records[l]) \in C
    BY DEF Gives
  <2>2. /\ Claim(l, read.fields[l], read.records[l]).at = l
        /\ Claim(l, read.fields[l], read.records[l]).is = read.fields[l]
    BY DEF Claim
  <2> QED BY <2>1, <2>2
<1>2. ASSUME NEW c \in C PROVE c.at \in DOMAIN read.fields /\ c.is = read.fields[c.at]
  <2>1. c.at \in DOMAIN read.fields
    BY DEF Gives
  <2>2. PICK d \in C : d.at = c.at /\ d.is = read.fields[c.at]
    BY <1>1, <2>1
  <2>3. c.is = d.is
    BY <2>2 DEF Sound
  <2> QED BY <2>1, <2>2, <2>3
<1> QED BY <1>1, <1>2

\* A merge shows the overlay in front.
LEMMA MergeGives ==
    ASSUME NEW base, NEW overlay, NEW A, NEW B, Sound(A), Sound(B),
           Gives(base, B), Gives(overlay, A)
    PROVE  Gives(Merge(base, overlay), Stacked(A, B))
<1>1. PICK G : G = base.fields
  OBVIOUS
<1>2. PICK F : F = overlay.fields
  OBVIOUS
<1>3. G \in Tree /\ F \in Tree
  BY <1>1, <1>2 DEF Gives
<1>4. PICK landed : landed = Landed(G, F)
  OBVIOUS
<1>5. PICK stays : stays = DOMAIN G \ Gone(G, F)
  OBVIOUS
<1>6. PICK m : m = Merge(base, overlay)
  OBVIOUS
<1>7. /\ DOMAIN m.fields = landed \cup stays
      /\ m.fields = [l \in DOMAIN m.fields |-> m.fields[l]]
      /\ DOMAIN m.records = landed \cup stays
      /\ \A l \in landed : m.fields[l] = F[l] /\ m.records[l] = overlay.records[l]
      /\ \A l \in stays \ landed :
             m.fields[l] = G[l] /\ m.records[l] = base.records[l]
  <2>1. /\ base.fields \in Tree /\ overlay.fields \in Tree
        /\ DOMAIN base.records = DOMAIN base.fields
        /\ DOMAIN overlay.records = DOMAIN overlay.fields
    BY DEF Gives
  <2>2. MergesTo(base, overlay, landed, stays, m)
    BY <1>1, <1>2, <1>4, <1>5, <1>6, <2>1, MergeIs
  <2> QED BY <1>1, <1>2, <2>2 DEF MergesTo
<1>8. /\ \A c \in A : c.at \in DOMAIN F /\ c.is = F[c.at]
      /\ \A l \in DOMAIN F :
             \E c \in A : /\ c = Claim(l, F[l], overlay.records[l])
                          /\ c.at = l /\ c.is = F[l]
  BY <1>2, GivesClaimed
<1>9. /\ \A c \in B : c.at \in DOMAIN G /\ c.is = G[c.at]
      /\ \A l \in DOMAIN G :
             \E c \in B : /\ c = Claim(l, G[l], base.records[l])
                          /\ c.at = l /\ c.is = G[l]
  BY <1>1, GivesClaimed
<1>10. ASSUME NEW c \in B PROVE Hidden(A, c) <=> c.at \in Gone(G, F)
  <2>1. c.at \in DOMAIN G /\ c.is = G[c.at]
    BY <1>9
  <2>2. Hidden(A, c) <=>
            \E n \in DOMAIN F : \/ n \in Inside(c.at)
                                \/ c.at \in Inside(n) /\ F[n] = "value"
                                \/ c.at = n /\ "value" \in {G[c.at], F[n]}
    BY <1>8, <2>1 DEF Hidden, Hides
  <2> QED BY <1>3, <2>1, <2>2, GoneIs
<1>11. ASSUME NEW l \in stays
       PROVE  Claim(l, G[l], base.records[l]) \in Stacked(A, B)
  <2>1. PICK c \in B : c = Claim(l, G[l], base.records[l]) /\ c.at = l
    BY <1>5, <1>9
  <2>2. ~Hidden(A, c)
    BY <1>5, <1>10, <2>1
  <2>3. ASSUME NEW n \in A \cup {d \in B : ~Hidden(A, d)}, n.at \in Inside(c.at)
        PROVE  FALSE
    <3>1. n \notin A
      BY <2>2, <2>3 DEF Hidden, Hides
    <3> QED BY <2>3, <3>1 DEF Sound
  <2> QED BY <2>1, <2>2, <2>3 DEF Stacked, Tops
<1>12. ASSUME NEW l \in landed
       PROVE  Claim(l, F[l], overlay.records[l]) \in Stacked(A, B)
  <2>0. l \in DOMAIN F
    BY <1>4 DEF Landed
  <2>1. PICK c \in A : /\ c = Claim(l, F[l], overlay.records[l])
                       /\ c.at = l /\ c.is = F[l]
    BY <1>8, <2>0
  <2>3. ASSUME NEW n \in A \cup {d \in B : ~Hidden(A, d)}, n.at \in Inside(c.at)
        PROVE  FALSE
    <3>1. n \in B /\ ~Hidden(A, n)
      BY <2>3 DEF Sound
    <3>2. n.at \in DOMAIN G
      BY <1>9, <3>1
    <3>3. IsObject(G, l)
      BY <2>1, <2>3, <3>2, AboveIsObject
    <3>4. F[l] = "value"
      BY <1>3, <1>4, <2>0, <3>3, LandedIs, TreeIs
    <3>5. Hides(c, n)
      BY <2>1, <2>3, <3>4 DEF Hides
    <3> QED BY <3>1, <3>5 DEF Hidden
  <2> QED BY <2>1, <2>3 DEF Stacked, Tops
<1>13. ASSUME NEW c \in Stacked(A, B) PROVE c.at \in landed \cup stays
  <2>1. CASE c \notin A
    <3>1. c \in B /\ ~Hidden(A, c)
      BY <1>13, <2>1 DEF Stacked, Tops
    <3> QED BY <1>5, <1>9, <1>10, <3>1
  <2>2. CASE c \in A /\ c.at \notin landed
    <3>1. c.at \in DOMAIN F /\ c.at \in Place
      BY <1>8, <2>2 DEF Sound
    <3>2. F[c.at] = "empty" /\ IsObject(G, c.at)
      BY <1>3, <1>4, <2>2, <3>1, LandedIs
    <3>3. ASSUME NEW k \in DOMAIN G, k \in Under[c.at], k \in Gone(G, F)
          PROVE  k = c.at /\ G[k] = "value"
      <4>1. PICK n \in DOMAIN F : \/ n \in Inside(k)
                                  \/ k \in Inside(n) /\ F[n] = "value"
                                  \/ k = n /\ "value" \in {G[k], F[n]}
        BY <1>3, <3>3, GoneIs
      <4>2. n \in Place /\ n \notin Inside(c.at) /\ c.at \notin Inside(n)
        BY <1>3, <3>1, TreeIs
      <4>3. n \notin Inside(k)
        BY <3>1, <3>3, <4>2, PathsNest
      <4>4. k \in Under[n]
        BY <4>1, <4>2, <4>3, UnderNests DEF Inside
      <4>5. n = c.at
        <5>1. k \in Place
          BY <1>3, TreeIs
        <5> QED BY <3>1, <3>3, <4>2, <4>4, <5>1, PathsNest
      <4> QED BY <3>2, <4>1, <4>3, <4>5
    <3>4. CASE c.at \in DOMAIN G
      <4>1. G[c.at] = "empty"
        BY <1>3, <3>2, <3>4, TreeIs
      <4>2. c.at \in Under[c.at]
        BY <3>1, UnderNests
      <4> QED BY <1>5, <3>3, <3>4, <4>1, <4>2
    <3>5. CASE DOMAIN G \cap Inside(c.at) # {}
      <4>1. PICK k \in DOMAIN G : k \in Inside(c.at)
        BY <3>5
      <4>2. k \notin Gone(G, F)
        BY <3>3, <4>1 DEF Inside
      <4>3. PICK n \in B : n.at = k
        BY <1>9
      <4>4. ~Hidden(A, n)
        BY <1>10, <4>2, <4>3
      <4> QED BY <1>13, <4>1, <4>3, <4>4 DEF Stacked, Tops
    <3>6. c.at # Whole
      BY <2>2 DEF Sound
    <3> QED BY <3>2, <3>4, <3>5, <3>6 DEF IsObject
  <2> QED BY <2>1, <2>2
<1>14. \A l \in DOMAIN m.fields :
           Claim(l, m.fields[l], m.records[l]) \in Stacked(A, B)
  BY <1>7, <1>11, <1>12
<1>15. DOMAIN m.fields = {c.at : c \in Stacked(A, B)}
  <2>1. ASSUME NEW l \in DOMAIN m.fields PROVE \E c \in Stacked(A, B) : c.at = l
    <3>1. Claim(l, m.fields[l], m.records[l]).at = l
      BY DEF Claim
    <3> QED BY <1>14, <3>1
  <2> QED BY <1>7, <1>13, <2>1
<1>16. m.fields \in Tree
  <2>1. Sound(Stacked(A, B))
    BY StackedSound
  <2>2. DOMAIN m.fields \subseteq Place \ {Whole} /\ Apart(DOMAIN m.fields)
    BY <1>15, <2>1 DEF Sound, Apart
  <2>3. ASSUME NEW l \in DOMAIN m.fields PROVE m.fields[l] \in Leaf
    <3>1. Claim(l, m.fields[l], m.records[l]).is = m.fields[l]
      BY DEF Claim
    <3> QED BY <1>14, <2>1, <3>1 DEF Sound
  <2>4. m.fields \in [DOMAIN m.fields -> Leaf]
    BY <1>7, <2>3
  <2> QED BY <2>2, <2>4, TreeOf
<1>17. Gives(m, Stacked(A, B))
  BY <1>7, <1>14, <1>15, <1>16 DEF Gives
<1> QED BY <1>6, <1>17

-----------------------------------------------------------------------------
(* Layers: one link's. *)

LEMMA LayerGives ==
    ASSUME NEW tree \in Tree, NEW name
    PROVE  Sound(Claims(tree, name)) /\ Gives(Layer(tree, name), Claims(tree, name))
<1> DEFINE C == Claims(tree, name)
<1>1. ASSUME NEW c \in C
      PROVE  \E t \in DOMAIN tree : c.at = t /\ c.is = tree[t] /\ c.of = name
                                    /\ c = [at |-> t, is |-> tree[t], of |-> name]
  BY DEF Claims
<1>2. /\ \A l \in DOMAIN tree : l \in Place /\ l # Whole /\ tree[l] \in Leaf
      /\ \A l, k \in DOMAIN tree : k \notin Inside(l)
  BY TreeIs DEF Leaf
<1>3. \A t \in DOMAIN tree : Claim(t, tree[t], name) \in C
  BY DEF Claims, Claim
<1>4. DOMAIN tree = {c.at : c \in C}
  <2>1. \A t \in DOMAIN tree : Claim(t, tree[t], name).at = t
    BY DEF Claim
  <2> HIDE DEF C
  <2> QED BY <1>1, <1>3, <2>1
<1>5. /\ Layer(tree, name).fields = tree
      /\ DOMAIN Layer(tree, name).records = DOMAIN tree
      /\ \A t \in DOMAIN tree : Layer(tree, name).records[t] = name
  BY DEF Layer
<1> HIDE DEF C
<1>6. Sound(C)
  <2>1. ASSUME NEW c \in C, NEW d \in C, c.at = d.at PROVE c = d
    BY <1>1, <2>1
  <2>2. \A c \in C : c.at \in Place \ {Whole} /\ c.is \in Leaf
    BY <1>1, <1>2
  <2>3. \A c, d \in C : d.at \notin Inside(c.at)
    BY <1>1, <1>2
  <2> QED BY <2>1, <2>2, <2>3 DEF Sound
<1>7. Gives(Layer(tree, name), C)
  BY <1>3, <1>4, <1>5 DEF Gives
<1> QED BY <1>6, <1>7 DEF C

LEMMA Read0Gives == Gives(Read0, {}) /\ Sound({})
<1>1. Read0.fields = NoTree /\ Read0.records = NoTree
  BY DEF Read0
<1> QED BY <1>1, NoTreeIs DEF Gives, Sound

LEMMA StackedEmpty ==
    ASSUME NEW C, Sound(C)
    PROVE  Stacked({}, C) = C /\ Stacked(C, {}) = C
<1>1. ~(\E m \in C : Hidden({}, m))
  BY DEF Hidden
<1>2. {m \in C : ~Hidden({}, m)} = C
  BY <1>1
<1>3. Tops(C) = C
  BY DEF Tops, Sound
<1> QED BY <1>2, <1>3 DEF Stacked

\* A read of which the places of a set are taken away.
LEMMA CutGives ==
    ASSUME NEW read, NEW S, Sound(S), Gives(read, S), NEW gone,
           NEW left, left = {m \in S : m.at \notin gone}
    PROVE  /\ Sound(left)
           /\ Gives([fields  |-> Minus(read.fields, gone),
                     records |-> Minus(read.records, gone)], left)
<1>1. PICK F : F = read.fields
  OBVIOUS
<1>2. PICK R : R = read.records
  OBVIOUS
<1>3. PICK f : f = Minus(F, gone)
  OBVIOUS
<1>4. PICK r : r = Minus(R, gone)
  OBVIOUS
<1>5. F \in Tree /\ DOMAIN R = DOMAIN F
  BY <1>1, <1>2 DEF Gives
<1>6. /\ DOMAIN f = DOMAIN F \ gone /\ \A l \in DOMAIN f : f[l] = F[l]
      /\ f = [l \in DOMAIN f |-> f[l]]
  BY <1>3 DEF Minus, Restrict
<1>7. DOMAIN r = DOMAIN R \ gone /\ \A l \in DOMAIN r : r[l] = R[l]
  BY <1>4 DEF Minus, Restrict
<1>8. f \in Tree
  <2>1. /\ DOMAIN F \subseteq Place \ {Whole} /\ Apart(DOMAIN F)
        /\ \A l \in DOMAIN F : F[l] \in Leaf
    BY <1>5, InTree
  <2>2. f \in [DOMAIN f -> Leaf]
    BY <1>6, <2>1
  <2>3. DOMAIN f \subseteq Place \ {Whole} /\ Apart(DOMAIN f)
    BY <1>6, <2>1 DEF Apart
  <2> QED BY <2>2, <2>3, TreeOf
<1>9. Sound(left)
  BY DEF Sound
<1>10. ASSUME NEW l \in DOMAIN f PROVE Claim(l, f[l], r[l]) \in left
  <2>1. l \in DOMAIN F /\ f[l] = F[l] /\ r[l] = R[l] /\ l \notin gone
    BY <1>5, <1>6, <1>7
  <2>2. Claim(l, F[l], R[l]) \in S
    BY <1>1, <1>2, <2>1 DEF Gives
  <2>3. Claim(l, F[l], R[l]).at = l
    BY DEF Claim
  <2> QED BY <2>1, <2>2, <2>3
<1>11. DOMAIN f = {m.at : m \in left}
  <2>1. \A m \in left : m.at \in DOMAIN F
    BY <1>1 DEF Gives
  <2>2. \A l \in DOMAIN f : Claim(l, f[l], r[l]).at = l
    BY DEF Claim
  <2> QED BY <1>6, <1>10, <2>1, <2>2
<1>12. PICK q : q = [fields |-> f, records |-> r]
  OBVIOUS
<1>13. Gives(q, left)
  BY <1>5, <1>6, <1>7, <1>8, <1>10, <1>11, <1>12 DEF Gives
<1> QED BY <1>1, <1>2, <1>3, <1>4, <1>9, <1>12, <1>13

\* The claims a set of places leaves.
Outside(C, gone) == {m \in C : m.at \notin gone}

Covered(addrs) == UNION {Under[a] : a \in addrs}

Cuts(addrs, layers, others, i, n) ==
    /\ \A k \in 1..n : Sound(layers[k])
    /\ \A k \in i..n : others[k] = Outside(layers[k], Covered(addrs))

HoldsEach(P, addrs) ==
    /\ addrs \subseteq Place
    /\ Sound(P)
    /\ \A a \in addrs : \E p \in P : p.at \in Under[a]

SameOver(P, addrs, layers, others, i, n) ==
    Stacked(P, Outside(ShowFrom(layers, i, n), Covered(addrs))) =
        Stacked(P, ShowFrom(others, i, n))

\* What is cut before the layers are stacked might as well be cut after, where each
\* address that cuts holds something that is put.
LEMMA CutShows ==
    ASSUME NEW layers, NEW others, NEW n \in Nat, NEW i \in Nat \ {0}, NEW addrs, NEW P,
           Cuts(addrs, layers, others, i, n), HoldsEach(P, addrs)
    PROVE  SameOver(P, addrs, layers, others, i, n)
<1>a. /\ \A k \in 1..n : Sound(layers[k])
      /\ \A k \in i..n : others[k] = Outside(layers[k], Covered(addrs))
  BY DEF Cuts
<1>b. /\ addrs \subseteq Place
      /\ Sound(P)
      /\ \A a \in addrs : \E p \in P : p.at \in Under[a]
  BY DEF HoldsEach
<1> SUFFICES ASSUME NEW gone, gone = Covered(addrs)
             PROVE  Stacked(P, Outside(ShowFrom(layers, i, n), gone)) =
                        Stacked(P, ShowFrom(others, i, n))
  BY DEF SameOver
<1> USE <1>a, <1>b
<1> DEFINE V == Unhidden(layers, i, n)
           W == Unhidden(others, i, n)
           S == Outside(ShowFrom(layers, i, n), gone)
           T == ShowFrom(others, i, n)
<1> USE DEF Outside
<1>0. /\ \A c \in gone : \E a \in addrs : c \in Under[a]
      /\ \A a \in addrs : Under[a] \subseteq gone
  BY DEF Covered
<1>1. \A p \in P : p.at \in Place
  BY DEF Sound
<1>2. ASSUME NEW t \in Place, t \notin gone, NEW c \in gone, NEW m, m.at = t, ~Hidden(P, m)
      PROVE  c \in Place /\ c \notin Inside(t) /\ t \notin Inside(c) /\ t # c
  <2>1. PICK a \in addrs : c \in Under[a]
    BY <1>0, <1>2
  <2>2. c \in Place /\ \A u \in Under[c] : u \in gone
    <3>1. a \in Place /\ Under[a] \subseteq gone
      BY <1>0
    <3> QED BY <2>1, <3>1, UnderNests
  <2>3. t \notin Inside(c) /\ t # c
    BY <1>2, <2>2 DEF Inside
  <2>4. ASSUME c \in Inside(t) PROVE FALSE
    <3>1. t \notin Under[a] /\ a \in Place
      BY <1>0, <1>2
    <3>2. a \in Inside(t)
      <4>1. c \in Under[t]
        BY <2>4 DEF Inside
      <4>2. t \in Under[t]
        BY UnderNests
      <4> QED BY <2>1, <2>2, <3>1, <4>1, <4>2, PathsNest DEF Inside
    <3>3. PICK p \in P : p.at \in Under[a]
      OBVIOUS
    <3>4. p.at \in Inside(t)
      BY <3>2, <3>3, PathsNest
    <3> QED BY <1>2, <3>4 DEF Hidden, Hides
  <2> QED BY <2>2, <2>3, <2>4
<1>3. ASSUME NEW m, m.at \in Place, m.at \notin gone, ~Hidden(P, m)
      PROVE  m \in V <=> m \in W
  <2>1. ASSUME NEW k \in i..n
        PROVE  Hidden(layers[k], m) <=> Hidden(others[k], m)
    <3>1. others[k] = {d \in layers[k] : d.at \notin gone}
      OBVIOUS
    <3>2. ASSUME NEW d \in layers[k], Hides(d, m) PROVE d.at \notin gone
      BY <1>2, <1>3, <3>2 DEF Hides
    <3> QED BY <3>1, <3>2 DEF Hidden
  <2>2. \A k \in i..n : m \in layers[k] <=> m \in others[k]
    BY <1>3
  <2>3. \A k \in i..n : \A j \in i..(k - 1) : j \in i..n
    OBVIOUS
  <2>4. \A k \in i..n : (\E j \in i..(k - 1) : Hidden(layers[j], m))
                            <=> (\E j \in i..(k - 1) : Hidden(others[j], m))
    BY <2>1, <2>3
  <2> QED BY <2>2, <2>4 DEF Unhidden
<1>4. \A m \in V : m.at \in Place
  BY UnhiddenAreClaims
<1>5. \A m \in W : m.at \in Place /\ m.at \notin gone
  <2> SUFFICES ASSUME NEW m \in W PROVE m.at \in Place /\ m.at \notin gone
    OBVIOUS
  <2>1. PICK k \in i..n : m \in others[k]
    BY DEF Unhidden
  <2>2. k \in 1..n /\ m \in layers[k] /\ m.at \notin gone
    <3>1. k \in i..n /\ k \in 1..n
      BY <2>1
    <3>2. others[k] = {d \in layers[k] : d.at \notin gone}
      BY <3>1
    <3> QED BY <2>1, <3>1, <3>2
  <2> QED BY <2>2 DEF Sound
<1>6. ASSUME NEW m, m.at \in Place, m.at \notin gone, ~Hidden(P, m)
      PROVE  m \in ShowFrom(layers, i, n) <=> m \in T
  <2>1. ASSUME NEW c, c.at \in Inside(m.at), c.at \in Place
        PROVE  c \in V <=> c \in W
    <3>1. c.at \notin gone
      BY <1>2, <1>6, <2>1
    <3>2. ~Hidden(P, c)
      <4> SUFFICES ASSUME NEW p \in P, Hides(p, c) PROVE FALSE
        BY DEF Hidden
      <4>1. Hides(p, m)
        BY <1>1, <1>6, <2>1, HidesAbove
      <4> QED BY <1>6, <4>1 DEF Hidden
    <3> QED BY <1>3, <2>1, <3>1, <3>2
  <2>2. m \in V <=> m \in W
    BY <1>3, <1>6
  <2>3. (\E c \in V : c.at \in Inside(m.at)) <=> (\E c \in W : c.at \in Inside(m.at))
    BY <1>4, <1>5, <2>1
  <2> QED BY <2>2, <2>3 DEF ShowFrom, Tops
<1>7. \A m \in S : m.at \in Place /\ m.at \notin gone /\ m \in ShowFrom(layers, i, n)
  BY <1>4 DEF ShowFrom, Tops
<1>8. \A m \in T : m.at \in Place /\ m.at \notin gone
  BY <1>5 DEF ShowFrom, Tops
<1>9. {m \in S : ~Hidden(P, m)} = {m \in T : ~Hidden(P, m)}
  <2>1. ASSUME NEW m \in S, ~Hidden(P, m) PROVE m \in T
    BY <1>6, <1>7, <2>1
  <2>2. ASSUME NEW m \in T, ~Hidden(P, m) PROVE m \in S
    BY <1>6, <1>8, <2>2
  <2> HIDE DEF S, T
  <2> QED BY <2>1, <2>2
<1> QED BY <1>9 DEF Stacked

LEMMA ShowFromSound ==
    ASSUME NEW layers, NEW n \in Nat, NEW i \in Nat \ {0}, \A k \in 1..n : Sound(layers[k])
    PROVE  Sound(ShowFrom(layers, i, n))
<1> DEFINE S == ShowFrom(layers, i, n)
<1>1. ASSUME NEW m \in S
      PROVE  /\ m.at \in Place \ {Whole} /\ m.is \in Leaf
             /\ \E k \in i..n : /\ k \in 1..n /\ m \in layers[k]
                                /\ ~\E j \in i..(k - 1) : Hidden(layers[j], m)
  <2>1. m \in Unhidden(layers, i, n)
    BY DEF ShowFrom, Tops
  <2> HIDE DEF S
  <2> QED BY <2>1, UnhiddenAreClaims
<1>2. ASSUME NEW m \in S, NEW d \in S, m.at = d.at
      PROVE  m = d \/ (m.is = "empty" /\ d.is = "empty")
  <2>1. PICK k \in i..n : /\ k \in 1..n /\ m \in layers[k]
                          /\ ~\E j \in i..(k - 1) : Hidden(layers[j], m)
    BY <1>1
  <2>2. PICK l \in i..n : /\ l \in 1..n /\ d \in layers[l]
                          /\ ~\E j \in i..(l - 1) : Hidden(layers[j], d)
    BY <1>1
  <2>3. m.is \in Leaf /\ d.is \in Leaf
    BY <1>1
  <2>4. CASE k = l
    <3>1. Sound(layers[k])
      BY <2>1
    <3> QED BY <1>2, <2>1, <2>2, <2>4, <3>1 DEF Sound
  <2>5. CASE k < l
    <3>1. k \in i..(l - 1)
      BY <2>1, <2>2, <2>5
    <3>2. ~Hides(m, d)
      BY <2>1, <2>2, <3>1 DEF Hidden
    <3> QED BY <1>2, <2>3, <3>2 DEF Hides, Leaf
  <2>6. CASE l < k
    <3>1. l \in i..(k - 1)
      BY <2>1, <2>2, <2>6
    <3>2. ~Hides(d, m)
      BY <2>1, <2>2, <3>1 DEF Hidden
    <3> QED BY <1>2, <2>3, <3>2 DEF Hides, Leaf
  <2> QED BY <2>1, <2>2, <2>4, <2>5, <2>6
<1>3. \A m, d \in S : d.at \notin Inside(m.at)
  BY DEF ShowFrom, Tops
<1> HIDE DEF S
<1>4. Sound(S)
  BY <1>1, <1>2, <1>3 DEF Sound
<1> QED BY <1>4 DEF S

\* What the functions that fold the seeds, and the links, make of the first i.
FoldStep(fold, f, link, out, i) ==
    IF i = 0 THEN out
    ELSE IF fold = "seeds" THEN Merge(f[i - 1], SeedLayer(link, i))
                           ELSE ReadLevel(f[i - 1], Levels + 1 - i)

FoldsTo(fold, f, link, out, n) == f = [i \in 0..n |-> FoldStep(fold, f, link, out, i)]

LEMMA FoldExists ==
    ASSUME NEW fold, NEW link, NEW out, NEW n \in Nat
    PROVE  \E f : FoldsTo(fold, f, link, out, n)
<1> DEFINE P == {m \in Nat : \E f : FoldsTo(fold, f, link, out, m)}
<1>1. 0 \in P
  <2>1. [i \in 0..0 |-> out] =
            [i \in 0..0 |-> FoldStep(fold, [j \in 0..0 |-> out], link, out, i)]
    BY DEF FoldStep
  <2> QED BY <2>1 DEF FoldsTo
<1>2. ASSUME NEW m \in Nat, m \in P PROVE m + 1 \in P
  <2>1. PICK f : FoldsTo(fold, f, link, out, m)
    BY <1>2
  <2> DEFINE g == [i \in 0..(m + 1) |->
                       IF i = m + 1 THEN FoldStep(fold, f, link, out, i) ELSE f[i]]
  <2>2. ASSUME NEW i \in 0..(m + 1)
        PROVE  FoldStep(fold, g, link, out, i) = FoldStep(fold, f, link, out, i)
    <3>1. CASE i = 0
      BY <3>1 DEF FoldStep
    <3>2. CASE i # 0
      <4>1. i - 1 \in 0..(m + 1) /\ i - 1 # m + 1
        BY <3>2
      <4>2. g[i - 1] = f[i - 1]
        BY <4>1
      <4> HIDE DEF g
      <4> QED BY <4>2 DEF FoldStep
    <3> QED BY <3>1, <3>2
  <2>3. ASSUME NEW i \in 0..(m + 1) PROVE g[i] = FoldStep(fold, f, link, out, i)
    BY <2>1 DEF FoldsTo
  <2>4. g = [i \in 0..(m + 1) |-> g[i]]
    OBVIOUS
  <2> HIDE DEF g
  <2>5. g = [i \in 0..(m + 1) |-> FoldStep(fold, g, link, out, i)]
    BY <2>2, <2>3, <2>4
  <2> QED BY <2>5 DEF FoldsTo
<1> HIDE DEF P
<1>3. Nat \subseteq P
  BY <1>1, <1>2, CountUp
<1> QED BY <1>3 DEF P

LEMMA MergeSeedsIs ==
    ASSUME NEW link, link = Levels, NEW out
    PROVE  \E f : FoldsTo("seeds", f, link, out, Seeds) /\ MergeSeeds(link, out) = f[Seeds]
<1> DEFINE k == CHOOSE f : f = [i \in 0..Seeds |-> FoldStep("seeds", f, link, out, i)]
<1>1. k = CHOOSE f : FoldsTo("seeds", f, link, out, Seeds)
  BY DEF FoldsTo
<1>2. MergeSeeds(link, out) = k[Seeds]
  BY DEF MergeSeeds, FoldStep
<1> HIDE DEF k
<1>3. \E f : FoldsTo("seeds", f, link, out, Seeds)
  BY LayersAssumption, FoldExists
<1> QED BY <1>1, <1>2, <1>3

LEMMA ReadMergedIs ==
    \E f : FoldsTo("links", f, 0, Read0, Levels) /\ ReadMerged = f[Levels]
<1> DEFINE k == CHOOSE f : f = [i \in 0..Levels |-> FoldStep("links", f, 0, Read0, i)]
<1>1. k = CHOOSE f : FoldsTo("links", f, 0, Read0, Levels)
  BY DEF FoldsTo
<1>2. ReadMerged = k[Levels]
  BY DEF ReadMerged, FoldStep
<1> HIDE DEF k
<1>3. \E f : FoldsTo("links", f, 0, Read0, Levels)
  BY LayersAssumption, FoldExists
<1> QED BY <1>1, <1>2, <1>3

LEMMA FoldIs ==
    ASSUME NEW fold, NEW f, NEW link, NEW out, NEW n \in Nat,
           FoldsTo(fold, f, link, out, n)
    PROVE  /\ f[0] = out
           /\ \A i \in 1..n : f[i] = FoldStep(fold, f, link, out, i)
<1>1. \A i \in 0..n : f[i] = FoldStep(fold, f, link, out, i)
  BY DEF FoldsTo
<1>2. FoldStep(fold, f, link, out, 0) = out
  BY DEF FoldStep
<1> QED BY <1>1, <1>2

CutOf(link) == Covered(addresses[link])

Count(link) == IF link = Levels THEN Seeds + 2 ELSE 2

PutClaims(link) == Claims(putTrees[link], <<link, "put">>)

\* The layers of a link, the put one in front, and of the others the set gone left out.
LayersAt(link, gone) ==
    [k \in 1..Count(link) |->
         IF k = 1 THEN PutClaims(link)
         ELSE IF k = Count(link)
              THEN Claims(Minus(sources[link], gone), <<link, "source">>)
              ELSE Claims(Minus(seeds[Count(link) - k], gone),
                          <<link, "seed", Count(link) - k>>)]

LEMMA MinusTree ==
    ASSUME NEW tree \in Tree, NEW gone, NEW name
    PROVE  /\ Minus(tree, gone) \in Tree
           /\ Claims(Minus(tree, gone), name) =
                  {m \in Claims(tree, name) : m.at \notin gone}
           /\ Minus(tree, {}) = tree
<1> DEFINE f == Minus(tree, gone)
<1>1. /\ DOMAIN f = DOMAIN tree \ gone /\ \A l \in DOMAIN f : f[l] = tree[l]
      /\ f = [l \in DOMAIN f |-> f[l]]
  BY DEF Minus, Restrict
<1>2. /\ DOMAIN tree \subseteq Place \ {Whole} /\ Apart(DOMAIN tree)
      /\ tree \in [DOMAIN tree -> Leaf]
  BY InTree
<1>3. Minus(tree, {}) = tree
  BY <1>2 DEF Minus, Restrict
<1> HIDE DEF f
<1>4. f \in Tree
  <2>1. f \in [DOMAIN f -> Leaf]
    BY <1>1, <1>2
  <2>2. DOMAIN f \subseteq Place \ {Whole} /\ Apart(DOMAIN f)
    BY <1>1, <1>2 DEF Apart
  <2> QED BY <2>1, <2>2, TreeOf
<1>5. Claims(f, name) = {m \in Claims(tree, name) : m.at \notin gone}
  <2>1. \A m \in Claims(tree, name) :
            \E t \in DOMAIN tree : m = [at |-> t, is |-> tree[t], of |-> name]
    BY DEF Claims
  <2>2. \A m \in Claims(f, name) :
            \E t \in DOMAIN f : m = [at |-> t, is |-> f[t], of |-> name]
    BY DEF Claims
  <2>3. ASSUME NEW m \in Claims(f, name)
        PROVE  m \in Claims(tree, name) /\ m.at \notin gone
    <3>1. PICK t \in DOMAIN f : m = [at |-> t, is |-> f[t], of |-> name]
      BY <2>2
    <3>2. t \in DOMAIN tree /\ t \notin gone /\ f[t] = tree[t]
      BY <1>1
    <3> QED BY <3>1, <3>2 DEF Claims
  <2>4. ASSUME NEW m \in Claims(tree, name), m.at \notin gone
        PROVE  m \in Claims(f, name)
    <3>1. PICK t \in DOMAIN tree : m = [at |-> t, is |-> tree[t], of |-> name]
      BY <2>1
    <3>2. t \in DOMAIN f /\ f[t] = tree[t]
      BY <1>1, <2>4, <3>1
    <3> QED BY <3>1, <3>2 DEF Claims
  <2> QED BY <2>3, <2>4
<1> QED BY <1>3, <1>4, <1>5 DEF f

LEMMA LayersAtIs ==
    ASSUME NEW link, NEW gone, NEW n \in Nat, n = Count(link), n >= 2
    PROVE  /\ LayersAt(link, gone)[1] = PutClaims(link)
           /\ LayersAt(link, gone)[n] =
                  Claims(Minus(sources[link], gone), <<link, "source">>)
           /\ \A k \in 2..n : k # n =>
                  LayersAt(link, gone)[k] =
                      Claims(Minus(seeds[n - k], gone), <<link, "seed", n - k>>)
<1>1. LayersAt(link, gone) =
          [k \in 1..n |->
               IF k = 1 THEN PutClaims(link)
               ELSE IF k = n THEN Claims(Minus(sources[link], gone), <<link, "source">>)
                    ELSE Claims(Minus(seeds[n - k], gone), <<link, "seed", n - k>>)]
  BY DEF LayersAt
<1> QED BY <1>1

LEMMA LayersAre ==
    ASSUME LayersTypeOK, NEW link \in Level, NEW gone
    PROVE  /\ Count(link) \in Nat /\ Count(link) >= 2
           /\ \A k \in 1..Count(link) : Sound(LayersAt(link, gone)[k])
           /\ \A k \in 2..Count(link) :
                  LayersAt(link, gone)[k] =
                      {m \in LayersAt(link, {})[k] : m.at \notin gone}
           /\ LayersAt(link, gone)[1] = PutClaims(link)
           /\ LayersAt(link, {})[Count(link)] = Claims(sources[link], <<link, "source">>)
           /\ link = Levels => \A i \in 1..Seeds :
                  LayersAt(link, {})[Count(link) - i] = Claims(seeds[i], <<link, "seed", i>>)
<1>1. /\ sources[link] \in Tree /\ putTrees[link] \in Tree
      /\ \A i \in 1..Seeds : seeds[i] \in Tree
  BY DEF LayersTypeOK
<1>2. Seeds \in Nat
  BY LayersAssumption
<1>3. PICK n : n = Count(link)
  OBVIOUS
<1>4. n \in Nat /\ n >= 2 /\ (link = Levels => n = Seeds + 2) /\ (link # Levels => n = 2)
  BY <1>2, <1>3 DEF Count
<1>5. ASSUME NEW k \in 2..n, k # n PROVE n - k \in 1..Seeds /\ seeds[n - k] \in Tree
  <2>1. link = Levels
    BY <1>4, <1>5
  <2>2. n - k \in 1..Seeds
    BY <1>2, <1>4, <1>5, <2>1
  <2> QED BY <1>1, <2>2
<1>6. \A g : /\ LayersAt(link, g)[1] = PutClaims(link)
             /\ LayersAt(link, g)[n] = Claims(Minus(sources[link], g), <<link, "source">>)
             /\ \A k \in 2..n : k # n =>
                    LayersAt(link, g)[k] =
                        Claims(Minus(seeds[n - k], g), <<link, "seed", n - k>>)
  BY <1>3, <1>4, LayersAtIs
<1>7. ASSUME NEW k \in 2..n
      PROVE  /\ Sound(LayersAt(link, gone)[k])
             /\ LayersAt(link, gone)[k] = {m \in LayersAt(link, {})[k] : m.at \notin gone}
  <2>1. CASE k = n
    <3>1. LayersAt(link, gone)[k] = Claims(Minus(sources[link], gone), <<link, "source">>)
          /\ LayersAt(link, {})[k] = Claims(Minus(sources[link], {}), <<link, "source">>)
      BY <1>6, <2>1
    <3> QED BY <1>1, <3>1, MinusTree, LayerGives
  <2>2. CASE k # n
    <3>1. PICK s : s = seeds[n - k]
      OBVIOUS
    <3>2. PICK name : name = <<link, "seed", n - k>>
      OBVIOUS
    <3>3. LayersAt(link, gone)[k] = Claims(Minus(s, gone), name)
          /\ LayersAt(link, {})[k] = Claims(Minus(s, {}), name)
      BY <1>6, <2>2, <3>1, <3>2
    <3>4. s \in Tree
      BY <1>5, <2>2, <3>1
    <3> QED BY <3>3, <3>4, MinusTree, LayerGives
  <2> QED BY <2>1, <2>2
<1>8. Sound(LayersAt(link, gone)[1])
  BY <1>1, <1>6, LayerGives DEF PutClaims
<1>9. \A k \in 1..n : Sound(LayersAt(link, gone)[k])
  <2>1. \A k \in 1..n : k = 1 \/ k \in 2..n
    BY <1>4
  <2> QED BY <1>7, <1>8, <2>1
<1>10. LayersAt(link, {})[n] = Claims(sources[link], <<link, "source">>)
  <2>1. Minus(sources[link], {}) = sources[link]
    BY <1>1, MinusTree
  <2> QED BY <1>6, <2>1
<1>11. ASSUME link = Levels, NEW i \in 1..Seeds
       PROVE  LayersAt(link, {})[n - i] = Claims(seeds[i], <<link, "seed", i>>)
  <2>1. n - i \in 2..n /\ n - i # n /\ n - (n - i) = i
    BY <1>2, <1>4, <1>11
  <2>2. LayersAt(link, {})[n - i] =
            Claims(Minus(seeds[n - (n - i)], {}), <<link, "seed", n - (n - i)>>)
    BY <1>6, <2>1
  <2>3. Minus(seeds[i], {}) = seeds[i]
    BY <1>1, MinusTree
  <2> QED BY <2>1, <2>2, <2>3
<1> QED BY <1>3, <1>4, <1>6, <1>7, <1>9, <1>10, <1>11

LEMMA SameShow ==
    ASSUME NEW layers, NEW others, NEW n \in Nat, \A k \in 1..n : layers[k] = others[k]
    PROVE  ShowFrom(layers, 1, n) = ShowFrom(others, 1, n)
<1>1. \A k \in 1..n : \A j \in 1..(k - 1) : j \in 1..n
  OBVIOUS
<1>2. \A k \in 1..n : \A m : (\E j \in 1..(k - 1) : Hidden(layers[j], m))
                                <=> (\E j \in 1..(k - 1) : Hidden(others[j], m))
  BY <1>1
<1>3. \A m : m \in Unhidden(layers, 1, n) <=> m \in Unhidden(others, 1, n)
  BY <1>2 DEF Unhidden
<1>4. Unhidden(layers, 1, n) = Unhidden(others, 1, n)
  BY <1>3
<1> QED BY <1>4 DEF ShowFrom

LEMMA ShowingAtIs ==
    ASSUME LayersTypeOK, NEW link \in Level
    PROVE  ShowingAt(link) = ShowFrom(LayersAt(link, CutOf(link)), 1, Count(link))
<1> DEFINE gone == CutOf(link)
           p == PutClaims(link)
           s == Claims(Minus(sources[link], gone), <<link, "source">>)
           files == [i \in 1..Seeds |-> Claims(Minus(seeds[Seeds + 1 - i], gone),
                                               <<link, "seed", Seeds + 1 - i>>)]
           between == IF link = Levels THEN files ELSE <<>>
           q == <<p>> \o between \o <<s>>
           all == {p, s} \cup {files[i] : i \in 1..Seeds}
<1>1. ShowingAt(link) = Showing(q)
  BY DEF ShowingAt, CutOf, Covered, PutClaims
<1>2. Seeds \in Nat
  BY LayersAssumption
<1>3. PICK n : n = Count(link)
  OBVIOUS
<1>9. n \in Nat /\ n >= 2 /\ (link = Levels => n = Seeds + 2) /\ (link # Levels => n = 2)
  BY <1>2, <1>3 DEF Count
<1>10. /\ LayersAt(link, gone)[1] = p /\ LayersAt(link, gone)[n] = s
       /\ \A k \in 2..n : k # n =>
              LayersAt(link, gone)[k] =
                  Claims(Minus(seeds[n - k], gone), <<link, "seed", n - k>>)
  BY <1>3, <1>9, LayersAtIs
<1>4. \A i \in 1..Seeds :
          files[i] = Claims(Minus(seeds[Seeds + 1 - i], gone),
                            <<link, "seed", Seeds + 1 - i>>)
  OBVIOUS
<1>5. files \in Seq(all) /\ Len(files) = Seeds /\ <<p>> \in Seq(all) /\ <<s>> \in Seq(all)
  <2>1. files \in [1..Seeds -> all]
    OBVIOUS
  <2> HIDE DEF files, all
  <2>2. files \in Seq(all) /\ Len(files) = Seeds
    BY <1>2, <2>1
  <2>3. p \in all /\ s \in all
    BY DEF all
  <2> QED BY <2>2, <2>3
<1> HIDE DEF gone, p, s, files, all
<1>6. Len(q) = n /\ \A k \in 1..n : q[k] = LayersAt(link, gone)[k]
  <2>1. CASE link = Levels
    <3> DEFINE front == <<p>> \o files
    <3>1. /\ front \in Seq(all) /\ Len(front) = Seeds + 1 /\ front[1] = p
          /\ \A k \in 2..(Seeds + 1) : front[k] = files[k - 1]
      BY <1>2, <1>5
    <3>2. q = front \o <<s>>
      BY <2>1
    <3>3. n = Seeds + 2
      BY <1>9, <2>1
    <3> HIDE DEF front, q
    <3>4. Len(q) = n /\ \A k \in 1..(Seeds + 1) : q[k] = front[k]
      BY <1>2, <1>5, <3>1, <3>2, <3>3
    <3>5. q[n] = s /\ q[1] = p
      BY <1>2, <1>5, <3>1, <3>2, <3>3, <3>4
    <3>6. ASSUME NEW k \in 2..n, k # n
          PROVE  q[k] = Claims(Minus(seeds[n - k], gone), <<link, "seed", n - k>>)
      <4>1. k - 1 \in 1..Seeds /\ Seeds + 1 - (k - 1) = n - k
        BY <1>2, <3>3, <3>6
      <4>2. k \in 2..(Seeds + 1) /\ k \in 1..(Seeds + 1)
        BY <1>2, <3>3, <3>6
      <4>3. q[k] = files[k - 1]
        BY <3>1, <3>4, <4>2
      <4>4. files[k - 1] = Claims(Minus(seeds[Seeds + 1 - (k - 1)], gone),
                                  <<link, "seed", Seeds + 1 - (k - 1)>>)
        BY <1>4, <4>1
      <4> QED BY <4>1, <4>3, <4>4
    <3>7. \A k \in 1..n : k = 1 \/ k = n \/ (k \in 2..n /\ k # n)
      BY <1>9
    <3> QED BY <1>10, <3>4, <3>5, <3>6, <3>7
  <2>2. CASE link # Levels
    <3>1. n = 2 /\ q = <<p>> \o <<>> \o <<s>>
      BY <1>9, <2>2
    <3>2. Len(q) = 2 /\ q[1] = p /\ q[2] = s
      BY <3>1
    <3> HIDE DEF q
    <3>3. \A k \in 1..2 : k = 1 \/ k = 2
      OBVIOUS
    <3> QED BY <1>10, <3>1, <3>2, <3>3
  <2> QED BY <2>1, <2>2
<1> HIDE DEF q
<1>8. ShowFrom(q, 1, n) = ShowFrom(LayersAt(link, gone), 1, n)
  BY <1>6, <1>9, SameShow
<1> QED BY <1>1, <1>3, <1>6, <1>8, ShowingIs DEF gone

\* A layer that nothing lies behind shows whole.
LEMMA ShowLast ==
    ASSUME NEW layers, NEW n \in Nat \ {0}, \A k \in 1..n : Sound(layers[k])
    PROVE  ShowFrom(layers, n, n) = layers[n]
<1>1. ShowFrom(layers, n, n) = Stacked(layers[n], ShowFrom(layers, n + 1, n))
  BY ShowStep
<1>2. ShowFrom(layers, n + 1, n) = {}
  BY ShowNone
<1>3. Sound(layers[n])
  OBVIOUS
<1> QED BY <1>1, <1>2, <1>3, StackedEmpty

\* What was put is laid over what it cuts away.
LEMMA MergePutsGives ==
    ASSUME LayersTypeOK, NEW link \in Level, NEW read, NEW S, Sound(S), Gives(read, S)
    PROVE  Gives(MergePuts(link, read),
                 Stacked(PutClaims(link), {m \in S : m.at \notin CutOf(link)}))
<1>1. PICK gone : gone = CutOf(link)
  OBVIOUS
<1>2. PICK tree : tree = putTrees[link]
  OBVIOUS
<1>3. PICK put : put = Layer(tree, <<link, "put">>)
  OBVIOUS
<1>4. PICK left : left = {m \in S : m.at \notin gone}
  OBVIOUS
<1>5. PICK base : base = [fields  |-> Minus(read.fields, gone),
                          records |-> Minus(read.records, gone)]
  OBVIOUS
<1>6. PICK q : q = Merge(base, put)
  OBVIOUS
<1>7. PICK P : P = PutClaims(link)
  OBVIOUS
<1>8. tree \in Tree /\ \A l \in DOMAIN tree : \E a \in addresses[link] : l \in Under[a]
  BY <1>2 DEF LayersTypeOK
<1>9. Sound(P) /\ Gives(put, P)
  BY <1>2, <1>3, <1>7, <1>8, LayerGives DEF PutClaims
<1>10. Sound(left) /\ Gives(base, left)
  BY <1>4, <1>5, CutGives
<1>11. Gives(q, Stacked(P, left))
  BY <1>6, <1>9, <1>10, MergeGives
<1>12. PICK records : records = Overlaid(put.records, q.records)
  OBVIOUS
<1>13. PICK made : made = MergePuts(link, read)
  OBVIOUS
<1>14. made.fields = q.fields /\ made.records = records
  <2>1. made = [q EXCEPT !.records = records]
    BY <1>1, <1>2, <1>3, <1>5, <1>6, <1>12, <1>13 DEF MergePuts, CutOf, Covered
  <2>2. "records" \in DOMAIN q /\ "fields" \in DOMAIN q
    BY <1>6 DEF Merge
  <2> QED BY <2>1, <2>2
<1>15. /\ put.fields = tree /\ DOMAIN put.records = DOMAIN tree
       /\ \A l \in DOMAIN tree : put.records[l] = <<link, "put">>
  BY <1>3 DEF Layer
\* A leaf that was put is nobody else's to give.
<1>16. ASSUME NEW l \in DOMAIN tree
       PROVE  /\ l \in DOMAIN q.fields
              /\ Claim(l, q.fields[l], <<link, "put">>) \in Stacked(P, left)
  <2>1. PICK c \in P : c = Claim(l, tree[l], <<link, "put">>) /\ c.at = l
    BY <1>9, <1>15, GivesClaimed
  <2>2. Under[l] \subseteq gone
    <3>1. PICK a \in addresses[link] : l \in Under[a]
      BY <1>8
    <3>2. addresses[link] \subseteq Place
      BY DEF LayersTypeOK
    <3> QED BY <1>1, <3>1, <3>2, UnderNests DEF CutOf, Covered
  <2>3. c \in Stacked(P, left)
    <3>1. ASSUME NEW n \in P \cup {m \in left : ~Hidden(P, m)}, n.at \in Inside(c.at)
          PROVE  FALSE
      <4>1. n \in left
        BY <1>9, <3>1 DEF Sound
      <4>2. n.at \in gone
        BY <2>1, <2>2, <3>1 DEF Inside
      <4> QED BY <1>4, <4>1, <4>2
    <3> QED BY <3>1 DEF Stacked, Tops
  <2>4. l \in DOMAIN q.fields
    BY <1>11, <2>1, <2>3 DEF Gives
  <2>5. PICK d \in Stacked(P, left) :
            d = Claim(l, q.fields[l], q.records[l]) /\ d.at = l /\ d.is = q.fields[l]
    BY <1>9, <1>10, <1>11, <2>4, StackedSound, GivesClaimed
  <2>6. d \in P
    <3>1. l \in gone
      <4>1. l \in Place
        BY <1>8, TreeIs
      <4> QED BY <2>2, <4>1, UnderNests
    <3>2. d \notin left
      BY <1>4, <2>5, <3>1
    <3> QED BY <2>5, <3>2 DEF Stacked, Tops
  <2>7. q.fields[l] = tree[l]
    <3>1. d.is = tree[l]
      BY <1>9, <1>15, <2>5, <2>6, GivesClaimed
    <3> QED BY <2>5, <3>1
  <2> QED BY <2>1, <2>3, <2>4, <2>7
<1>17. /\ DOMAIN records = DOMAIN q.fields
       /\ \A l \in DOMAIN tree : records[l] = <<link, "put">>
       /\ \A l \in DOMAIN q.fields \ DOMAIN tree : records[l] = q.records[l]
  <2>1. DOMAIN q.records = DOMAIN q.fields /\ DOMAIN tree \subseteq DOMAIN q.fields
    BY <1>11, <1>16 DEF Gives
  <2> QED BY <1>12, <1>15, <2>1 DEF Overlaid
<1>18. ASSUME NEW l \in DOMAIN made.fields
       PROVE  Claim(l, made.fields[l], made.records[l]) \in Stacked(P, left)
  <2>1. CASE l \in DOMAIN tree
    BY <1>14, <1>16, <1>17, <2>1
  <2>2. CASE l \notin DOMAIN tree
    <3>1. made.fields[l] = q.fields[l] /\ made.records[l] = q.records[l]
      BY <1>14, <1>17, <1>18, <2>2
    <3>2. l \in DOMAIN q.fields
      BY <1>14, <1>18
    <3>3. Claim(l, q.fields[l], q.records[l]) \in Stacked(P, left)
      BY <1>11, <3>2 DEF Gives
    <3> QED BY <3>1, <3>3
  <2> QED BY <2>1, <2>2
<1>19. Gives(made, Stacked(P, left))
  <2>1. /\ q.fields \in Tree
        /\ DOMAIN q.fields = {m.at : m \in Stacked(P, left)}
    BY <1>11 DEF Gives
  <2>2. /\ made.fields \in Tree /\ DOMAIN made.records = DOMAIN made.fields
        /\ DOMAIN made.fields = {m.at : m \in Stacked(P, left)}
    BY <1>14, <1>17, <2>1
  <2> QED BY <1>18, <2>2 DEF Gives
<1> QED BY <1>1, <1>4, <1>7, <1>13, <1>19

\* A link's layers but the put one, from the Source on: the seeds are merged over it.
LEMMA SeedsGive ==
    ASSUME LayersTypeOK, NEW link \in Level
    PROVE  Gives(MergeSeeds(link, Merge(Read0, Layer(sources[link], <<link, "source">>))),
                 ShowFrom(LayersAt(link, {}), 2, Count(link)))
<1> DEFINE out == Merge(Read0, Layer(sources[link], <<link, "source">>))
           S(i) == ShowFrom(LayersAt(link, {}), i, Count(link))
<1>1. PICK n : n = Count(link)
  OBVIOUS
<1>2. PICK layers : layers = LayersAt(link, {})
  OBVIOUS
<1>3. /\ n \in Nat /\ n >= 2
      /\ \A k \in 1..n : Sound(layers[k])
      /\ layers[n] = Claims(sources[link], <<link, "source">>)
      /\ link = Levels =>
             \A i \in 1..Seeds : layers[n - i] = Claims(seeds[i], <<link, "seed", i>>)
  BY <1>1, <1>2, LayersAre
<1>4. sources[link] \in Tree /\ \A i \in 1..Seeds : seeds[i] \in Tree
  BY DEF LayersTypeOK
<1>5. Seeds \in Nat
  BY LayersAssumption
<1>6. Gives(out, ShowFrom(layers, n, n))
  <2>1. Gives(out, Stacked(layers[n], {}))
    BY <1>3, <1>4, LayerGives, Read0Gives, MergeGives
  <2>2. Stacked(layers[n], {}) = layers[n]
    BY <1>3, StackedEmpty
  <2>3. ShowFrom(layers, n, n) = layers[n]
    BY <1>3, ShowLast
  <2> QED BY <2>1, <2>2, <2>3
<1> HIDE DEF out
<1>7. CASE link # Levels
  <2>1. n = 2 /\ MergeSeeds(link, out) = out
    BY <1>1, <1>7 DEF Count, MergeSeeds
  <2> QED BY <1>1, <1>2, <1>6, <2>1 DEF out
<1>8. CASE link = Levels
  <2>1. n = Seeds + 2
    BY <1>1, <1>8 DEF Count
  <2>2. PICK f : FoldsTo("seeds", f, link, out, Seeds) /\ MergeSeeds(link, out) = f[Seeds]
    BY <1>8, MergeSeedsIs
  <2>3. f[0] = out /\ \A i \in 1..Seeds : f[i] = FoldStep("seeds", f, link, out, i)
    BY <1>5, <2>2, FoldIs
  <2> DEFINE Q == {i \in Nat : i <= Seeds => Gives(f[i], ShowFrom(layers, n - i, n))}
  <2>4. 0 \in Q
    <3>1. n - 0 = n
      BY <1>3
    <3> QED BY <1>6, <2>3, <3>1
  <2>5. ASSUME NEW i \in Nat, i \in Q PROVE i + 1 \in Q
    <3> SUFFICES ASSUME i + 1 <= Seeds
                 PROVE  Gives(f[i + 1], ShowFrom(layers, n - (i + 1), n))
      OBVIOUS
    <3>1. /\ i + 1 \in 1..Seeds /\ (i + 1) - 1 = i /\ i + 1 # 0
          /\ n - (i + 1) \in 1..n /\ (n - (i + 1)) + 1 = n - i
          /\ n - i \in Nat \ {0}
      BY <1>3, <1>5, <2>1
    <3>2. Gives(f[i], ShowFrom(layers, n - i, n))
      BY <1>5, <2>5, <3>1
    <3>3. f[i + 1] = Merge(f[i], SeedLayer(link, i + 1))
      BY <2>3, <3>1 DEF FoldStep
    <3>4. PICK c : c = layers[n - (i + 1)]
      OBVIOUS
    <3>5. Sound(c) /\ Gives(SeedLayer(link, i + 1), c)
      <4>1. c = Claims(seeds[i + 1], <<link, "seed", i + 1>>)
        BY <1>3, <1>8, <3>1, <3>4
      <4>2. seeds[i + 1] \in Tree
        BY <1>4, <3>1
      <4> QED BY <4>1, <4>2, LayerGives DEF SeedLayer
    <3>6. Sound(ShowFrom(layers, n - i, n))
      BY <1>3, <3>1, ShowFromSound
    <3>7. Gives(f[i + 1], Stacked(c, ShowFrom(layers, n - i, n)))
      BY <3>2, <3>3, <3>5, <3>6, MergeGives
    <3>8. ShowFrom(layers, n - (i + 1), n) =
              Stacked(c, ShowFrom(layers, (n - (i + 1)) + 1, n))
      BY <1>3, <3>1, <3>4, ShowStep
    <3> QED BY <3>1, <3>7, <3>8
  <2> HIDE DEF Q
  <2>6. Seeds \in Q
    BY <1>5, <2>4, <2>5, CountUp
  <2>7. Gives(f[Seeds], ShowFrom(layers, n - Seeds, n))
    BY <1>5, <2>6 DEF Q
  <2>8. n - Seeds = 2
    BY <1>5, <2>1
  <2> QED BY <1>1, <1>2, <2>2, <2>7, <2>8 DEF out
<1> QED BY <1>7, <1>8

\* A link read on its own shows what is claimed there, and its puts cut what is theirs.
LEMMA OwnGives ==
    ASSUME LayersTypeOK, NEW link \in Level
    PROVE  /\ Sound(ShowingAt(link))
           /\ Gives(MergePuts(link, MergeSeeds(link,
                        Merge(Read0, Layer(sources[link], <<link, "source">>)))),
                    ShowingAt(link))
<1>1. PICK n : n = Count(link)
  OBVIOUS
<1>2. PICK gone : gone = CutOf(link)
  OBVIOUS
<1>3. PICK layers : layers = LayersAt(link, {})
  OBVIOUS
<1>4. PICK left : left = LayersAt(link, gone)
  OBVIOUS
<1>5. PICK P : P = PutClaims(link)
  OBVIOUS
<1>6. /\ n \in Nat /\ n >= 2 /\ 1 \in 1..n
      /\ \A k \in 1..n : Sound(layers[k]) /\ Sound(left[k])
      /\ \A k \in 2..n : left[k] = Outside(layers[k], gone)
      /\ left[1] = P
  <2>1. /\ n \in Nat /\ n >= 2
        /\ \A k \in 1..n : Sound(layers[k])
    BY <1>1, <1>3, LayersAre
  <2>2. /\ \A k \in 1..n : Sound(left[k])
        /\ \A k \in 2..n : left[k] = Outside(layers[k], gone)
        /\ left[1] = P
    BY <1>1, <1>3, <1>4, <1>5, LayersAre DEF Outside
  <2> QED BY <2>1, <2>2
<1>7. ShowingAt(link) = ShowFrom(left, 1, n)
  BY <1>1, <1>2, <1>4, ShowingAtIs
<1>8. ShowFrom(left, 1, n) = Stacked(P, ShowFrom(left, 2, n))
  <2>1. ShowFrom(left, 1, n) = Stacked(left[1], ShowFrom(left, 1 + 1, n))
    BY <1>6, ShowStep
  <2> QED BY <1>6, <2>1
<1>9. Stacked(P, Outside(ShowFrom(layers, 2, n), gone)) =
          Stacked(P, ShowFrom(left, 2, n))
  <2>1. Sound(P) /\ 2 \in Nat \ {0}
    BY <1>6
  <2>2. PICK addrs : addrs = addresses[link]
    OBVIOUS
  <2>3. addrs \subseteq Place /\ gone = Covered(addrs)
    BY <1>2, <2>2 DEF CutOf, LayersTypeOK
  <2>4. \A a \in addrs : \E p \in P : p.at \in Under[a]
    <3>1. PICK tree : tree = putTrees[link]
      OBVIOUS
    <3>2. tree \in Tree /\ \A a \in addrs : Holds(tree, a)
      BY <2>2, <3>1 DEF LayersTypeOK
    <3>3. Gives(Layer(tree, <<link, "put">>), P) /\ Layer(tree, <<link, "put">>).fields = tree
      BY <1>5, <3>1, <3>2, LayerGives DEF PutClaims, Layer
    <3>4. \A l \in DOMAIN tree : \E p \in P : p.at = l
      BY <3>3 DEF Gives
    <3> QED BY <3>2, <3>4 DEF Holds
  <2>5. /\ n \in Nat /\ \A k \in 1..n : Sound(layers[k])
        /\ \A k \in 2..n : left[k] = Outside(layers[k], gone)
    BY <1>6
  <2>6. Cuts(addrs, layers, left, 2, n) /\ HoldsEach(P, addrs)
    BY <2>1, <2>3, <2>4, <2>5 DEF Cuts, HoldsEach
  <2>7. SameOver(P, addrs, layers, left, 2, n)
    BY <2>1, <2>5, <2>6, CutShows
  <2> QED BY <2>3, <2>7 DEF SameOver
<1>10. Sound(ShowingAt(link))
  BY <1>6, <1>7, ShowFromSound
<1>11. PICK read : read = MergeSeeds(link,
                              Merge(Read0, Layer(sources[link], <<link, "source">>)))
  OBVIOUS
<1>12. Gives(read, ShowFrom(layers, 2, n)) /\ Sound(ShowFrom(layers, 2, n))
  BY <1>1, <1>3, <1>6, <1>11, SeedsGive, ShowFromSound
<1>13. Gives(MergePuts(link, read),
             Stacked(P, Outside(ShowFrom(layers, 2, n), gone)))
  BY <1>2, <1>5, <1>12, MergePutsGives DEF Outside
<1> QED BY <1>7, <1>8, <1>9, <1>10, <1>11, <1>13

\* A link is laid over what the farther ones gave; the farthest has none behind it.
LEMMA LevelGives ==
    ASSUME LayersTypeOK, NEW link \in Level, NEW out, NEW O, Sound(O), Gives(out, O),
           link = Levels => out = Read0 /\ O = {}
    PROVE  Gives(ReadLevel(out, link), Stacked(ShowingAt(link), O))
<1> DEFINE src == Layer(sources[link], <<link, "source">>)
           own == MergePuts(link, MergeSeeds(link, Merge(Read0, src)))
<1>1. Sound(ShowingAt(link)) /\ Gives(own, ShowingAt(link))
  BY OwnGives
<1>2. CASE CutsOwn(link)
  <2>1. ReadLevel(out, link) = Merge(out, own)
    BY <1>2 DEF ReadLevel
  <2> HIDE DEF own
  <2> QED BY <1>1, <2>1, MergeGives
<1>3. CASE ~CutsOwn(link) /\ link = Levels
  <2>1. ReadLevel(out, link) = own /\ O = {}
    BY <1>3 DEF ReadLevel
  <2> HIDE DEF own
  <2> QED BY <1>1, <2>1, StackedEmpty
<1>4. CASE ~CutsOwn(link) /\ link # Levels
  <2>1. ReadLevel(out, link) = MergePuts(link, Merge(out, src))
    BY <1>4 DEF ReadLevel, MergeSeeds
  <2>2. addresses[link] = {} /\ CutOf(link) = {}
    BY <1>4 DEF CutsOwn, CutOf, Covered
  <2>3. PutClaims(link) = {}
    <3>1. DOMAIN putTrees[link] = {}
      BY <2>2 DEF LayersTypeOK
    <3> QED BY <3>1 DEF PutClaims, Claims
  <2>4. PICK C : C = Claims(sources[link], <<link, "source">>)
    OBVIOUS
  <2>5. Sound(C) /\ Gives(src, C)
    <3>1. sources[link] \in Tree
      BY DEF LayersTypeOK
    <3> QED BY <2>4, <3>1, LayerGives
  <2>6. PICK S : S = Stacked(C, O)
    OBVIOUS
  <2>7. Sound(S) /\ Gives(Merge(out, src), S)
    <3> HIDE DEF src
    <3> QED BY <2>5, <2>6, MergeGives, StackedSound
  <2>8. Gives(ReadLevel(out, link), S)
    <3>1. Gives(MergePuts(link, Merge(out, src)),
                Stacked(PutClaims(link), {m \in S : m.at \notin CutOf(link)}))
      <4> HIDE DEF src
      <4> QED BY <2>7, MergePutsGives
    <3>2. {m \in S : m.at \notin CutOf(link)} = S
      BY <2>2
    <3>3. Stacked({}, S) = S
      BY <2>7, StackedEmpty
    <3> QED BY <2>1, <2>3, <3>1, <3>2, <3>3
  <2>9. ShowingAt(link) = C
    <3>1. PICK layers : layers = LayersAt(link, {})
      OBVIOUS
    <3>2. /\ Count(link) = 2 /\ \A k \in 1..2 : Sound(layers[k])
          /\ layers[1] = {} /\ layers[2] = C
      <4>1. Count(link) = 2
        BY <1>4 DEF Count
      <4> QED BY <2>3, <2>4, <3>1, <4>1, LayersAre
    <3>3. ShowingAt(link) = ShowFrom(layers, 1, 2)
      BY <2>2, <3>1, <3>2, ShowingAtIs
    <3>4. ShowFrom(layers, 2, 2) = C
      BY <3>2, ShowLast
    <3>5. ShowFrom(layers, 1, 2) = Stacked(layers[1], ShowFrom(layers, 1 + 1, 2))
      BY <3>2, ShowStep
    <3> QED BY <2>5, <3>2, <3>3, <3>4, <3>5, StackedEmpty
  <2> QED BY <2>6, <2>8, <2>9
<1> QED BY <1>2, <1>3, <1>4

LEMMA ReadGives ==
    ASSUME LayersTypeOK
    PROVE  Gives(ReadMerged, Showing([l \in Level |-> ShowingAt(l)]))
<1>1. PICK links : links = [l \in Level |-> ShowingAt(l)]
  OBVIOUS
<1>2. Levels \in Nat /\ Levels # 0 /\ Level = 1..Levels
  BY LayersAssumption DEF Level
<1>3. /\ \A l \in 1..Levels : links[l] = ShowingAt(l) /\ Sound(links[l])
      /\ Len(links) = Levels
  <2>1. \A l \in 1..Levels : links[l] = ShowingAt(l) /\ Sound(links[l])
    BY <1>1, <1>2, OwnGives
  <2>2. links \in [1..Levels -> {links[l] : l \in 1..Levels}]
    BY <1>1, <1>2
  <2>3. Len(links) = Levels
    <3>1. PICK T : T = {links[l] : l \in 1..Levels}
      OBVIOUS
    <3>2. links \in [1..Levels -> T]
      BY <2>2, <3>1
    <3> QED BY <1>2, <3>2
  <2> QED BY <2>1, <2>3
<1>4. PICK f : FoldsTo("links", f, 0, Read0, Levels) /\ ReadMerged = f[Levels]
  BY ReadMergedIs
<1>5. f[0] = Read0 /\ \A i \in 1..Levels : f[i] = FoldStep("links", f, 0, Read0, i)
  BY <1>2, <1>4, FoldIs
<1> DEFINE Q == {i \in Nat : i <= Levels =>
                                 Gives(f[i], ShowFrom(links, Levels + 1 - i, Levels))}
<1>6. 0 \in Q
  <2>1. Levels + 1 - 0 = Levels + 1
    BY <1>2
  <2>2. ShowFrom(links, Levels + 1, Levels) = {}
    BY <1>2, ShowNone
  <2> QED BY <1>5, <2>1, <2>2, Read0Gives
<1>7. ASSUME NEW i \in Nat, i \in Q PROVE i + 1 \in Q
  <2> SUFFICES ASSUME i + 1 <= Levels
               PROVE  Gives(f[i + 1], ShowFrom(links, Levels + 1 - (i + 1), Levels))
    OBVIOUS
  <2>1. PICK link : link = Levels + 1 - (i + 1)
    OBVIOUS
  <2>2. /\ i + 1 \in 1..Levels /\ (i + 1) - 1 = i /\ i + 1 # 0
        /\ link \in 1..Levels /\ link + 1 = Levels + 1 - i
        /\ link + 1 \in Nat \ {0} /\ (link = Levels => i = 0)
    BY <1>2, <2>1
  <2>3. PICK O : O = ShowFrom(links, link + 1, Levels)
    OBVIOUS
  <2>4. Gives(f[i], O) /\ Sound(O)
    <3>1. i <= Levels
      BY <1>2
    <3>2. Gives(f[i], O)
      BY <1>7, <2>2, <2>3, <3>1
    <3> QED BY <1>2, <1>3, <2>2, <2>3, <3>2, ShowFromSound
  <2>5. f[i + 1] = ReadLevel(f[i], link)
    BY <1>5, <2>1, <2>2 DEF FoldStep
  <2>6. link = Levels => f[i] = Read0 /\ O = {}
    <3> SUFFICES ASSUME link = Levels PROVE f[i] = Read0 /\ O = {}
      OBVIOUS
    <3>1. i = 0
      BY <2>2
    <3>2. O = {}
      BY <1>2, <2>3, ShowNone
    <3> QED BY <1>5, <3>1, <3>2
  <2>7. Gives(f[i + 1], Stacked(links[link], O))
    <3>1. link \in Level /\ links[link] = ShowingAt(link)
      BY <1>2, <1>3, <2>2
    <3> QED BY <2>4, <2>5, <2>6, <3>1, LevelGives
  <2>8. ShowFrom(links, link, Levels) = Stacked(links[link], O)
    BY <1>2, <1>3, <2>2, <2>3, ShowStep
  <2> QED BY <2>1, <2>7, <2>8
<1> HIDE DEF Q
<1>8. Levels \in Q
  BY <1>2, <1>6, <1>7, CountUp
<1>9. Gives(f[Levels], ShowFrom(links, 1, Levels))
  <2>1. Levels + 1 - Levels = 1
    BY <1>2
  <2> QED BY <1>2, <1>8, <2>1 DEF Q
<1>10. Showing(links) = ShowFrom(links, 1, Levels)
  BY <1>3, ShowingIs
<1> QED BY <1>1, <1>4, <1>9, <1>10

\* A read gives what its layers stack to, whatever was put, removed, expired, stored
\* and seeded, at any addresses and over any number of links (read_merged,
\* merge_layer, merge_read, merge_puts): of each link what shows of its layers, its
\* puts having cut what they replace, the nearest link in front; and each leaf with
\* the record of a layer that holds it there.
THEOREM ReadsAsStackedEver == LayersSpec => []ReadsAsStacked
<1>1. ASSUME LayersTypeOK PROVE ReadsAsStacked
  <2>1. PICK shown : shown = Showing([l \in Level |-> ShowingAt(l)])
    OBVIOUS
  <2>2. PICK read : read = ReadMerged
    OBVIOUS
  <2>3. Gives(read, shown)
    BY <1>1, <2>1, <2>2, ReadGives
  <2>4. /\ DOMAIN read.fields = {m.at : m \in shown}
        /\ DOMAIN read.records = DOMAIN read.fields
        /\ \A t \in DOMAIN read.fields :
               [at |-> t, is |-> read.fields[t], of |-> read.records[t]] \in shown
    BY <2>3 DEF Gives, Claim
  <2> QED BY <2>1, <2>2, <2>4 DEF ReadsAsStacked
<1> QED BY <1>1, AddressesHoldEver, PTL

===============================================================================
