----------------------------- MODULE PartsProofs -----------------------------
(***************************************************************************)
(* Proofs about three parts that share no state with one another here.     *)
(*                                                                         *)
(* Watch streams (module Streams): a stream at rest has sent what its      *)
(* links hold, no stream is left on a channel that writers no longer find, *)
(* and channels go with their last receiver.  For each link a stream walks *)
(* there is always somebody to hear of a write: it has the link's          *)
(* receiver, or has still to subscribe before it reads; and what it read   *)
(* of the link is what the link holds, or something will make it read      *)
(* again.                                                                  *)
(*                                                                         *)
(* Memos (module Memos): a memo seen as it was dropped is never read       *)
(* again, and a memo that is held has a lease, or one is to come: its      *)
(* writer is still to tell of it, or the message is on its way with none   *)
(* behind it that overlaps it.                                             *)
(*                                                                         *)
(* The daemon's singleton (module Singleton): what a superseding process   *)
(* signals owns the flock of a file, since a record names a process that   *)
(* had the lock when it wrote it, and keeps it until it ends.  And a start *)
(* that came to nothing without a word left a daemon that serves: as long  *)
(* as one relies on that, somebody serves, is placed to, or may take the   *)
(* lock and do so.                                                         *)
(***************************************************************************)
EXTENDS Streams, Memos, Singleton, FiniteSetTheorems, TLAPS

-----------------------------------------------------------------------------
(* Sequences: a queue and what is left of it. *)

ElementsOf(q) == {q[i] : i \in DOMAIN q}

LEMMA HeadAndTail ==
    ASSUME NEW S, NEW q \in Seq(S), q # <<>>
    PROVE  /\ Head(q) \in S /\ Tail(q) \in Seq(S)
           /\ ElementsOf(q) = {Head(q)} \cup ElementsOf(Tail(q))
<1>1. /\ Head(q) \in S /\ Tail(q) \in Seq(S) /\ Len(q) \in Nat /\ Len(q) > 0
      /\ DOMAIN q = 1..Len(q) /\ DOMAIN Tail(q) = 1..(Len(q) - 1)
      /\ Head(q) = q[1]
      /\ \A i \in 1..(Len(q) - 1) : Tail(q)[i] = q[i + 1]
  OBVIOUS
<1>2. ASSUME NEW i \in 1..Len(q)
      PROVE  q[i] \in {Head(q)} \cup ElementsOf(Tail(q))
  <2>1. CASE i = 1
    BY <1>1, <2>1
  <2>2. CASE i # 1
    <3>1. i - 1 \in 1..(Len(q) - 1) /\ Tail(q)[i - 1] = q[i]
      BY <1>1, <2>2
    <3> QED BY <1>1, <3>1 DEF ElementsOf
  <2> QED BY <2>1, <2>2
<1>3. ASSUME NEW i \in 1..(Len(q) - 1)
      PROVE  Tail(q)[i] \in ElementsOf(q)
  <2>1. i + 1 \in 1..Len(q)
    BY <1>1
  <2> QED BY <1>1, <2>1 DEF ElementsOf
<1>4. Head(q) \in ElementsOf(q)
  BY <1>1 DEF ElementsOf
<1> QED BY <1>1, <1>2, <1>3, <1>4 DEF ElementsOf

LEMMA NoElements == ElementsOf(<<>>) = {}
BY DEF ElementsOf

-----------------------------------------------------------------------------
(* Streams. *)

\* What a read of some links gives.
Frame == UNION {[L -> Nat] : L \in SUBSET Link}

\* The receiver of the setup made last, for a link.
Mine(s, l, r) == r.of = s /\ r.setup = setup[s] /\ r.link = l

HasEnd(s, l) == \E r \in subs : Mine(s, l, r)

\* The stream will read the link again: it has a permit, or will be given one.
WillLook(s, l) ==
    \/ s \in permit
    \/ \E r \in heard : Mine(s, l, r)
    \/ \E w \in Writer : writing[w].step = "notify" /\ writing[w].link = l

UpToDate(s, l, n) == n = value[l] \/ WillLook(s, l)

\* What is true of a stream in each of its phases.
SubscribesToAll(s) ==
    /\ phase[s] = "subscribe" =>
           \A l \in Walked(seen[s]) : HasEnd(s, l) \/ l \in ElementsOf(todo[s])
    /\ phase[s] \in {"read", "wait"} => \A l \in Walked(seen[s]) : HasEnd(s, l)

ReadsAll(s) ==
    /\ phase[s] = "read" => DOMAIN view[s] \cup ElementsOf(todo[s]) = Walked(seen[s])
    /\ phase[s] # "read" => view[s] = Nothing
    /\ phase[s] = "wait" => DOMAIN last[s] = Walked(seen[s])

MissesNothing(s) ==
    /\ phase[s] = "read" => \A l \in DOMAIN view[s] : UpToDate(s, l, view[s][l])
    /\ phase[s] = "wait" => \A l \in DOMAIN last[s] : UpToDate(s, l, last[s][l])

StreamsSound ==
    /\ view \in [Stream -> Frame] /\ last \in [Stream -> Frame]
    /\ IsFiniteSet(subs) /\ \A r \in subs : r.gen # 0
    /\ \A l \in Link : value[l] <= writes
    /\ \A s \in Stream : seen[s] <= inForce /\ setup[s] <= seen[s] + 1

StreamsInv ==
    /\ StreamsTypeOK /\ StreamsSound
    /\ SubscribedIsHeard /\ ChannelsCollected
    /\ \A s \in Stream : SubscribesToAll(s) /\ ReadsAll(s) /\ MissesNothing(s)

\* A channel somebody receives from is never unused, and so never collected.
LEMMA HeardIsUsed ==
    ASSUME SubscribedIsHeard, NEW r \in subs
    PROVE  r \in Receivers(r.link) /\ ~Unused(r.link)
BY DEF SubscribedIsHeard, Receivers, Unused

\* The new channel is one nobody receives from.
LEMMA NewGenIsNew ==
    ASSUME StreamsInv, NEW l \in Link, chan[l] = 0
    PROVE  NewGen(l) \in Nat \ {0} /\ \A r \in subs : r.link # l
<1>1. \A r \in subs : r.link # l
  BY DEF StreamsInv, StreamsSound, SubscribedIsHeard
<1>2. Cardinality(subs) \in Nat
  BY FS_CardinalityType DEF StreamsInv, StreamsSound
<1>3. \E g \in 1..(Cardinality(subs) + 1) : \A r \in subs : r.link = l => r.gen # g
  <2>1. 1 \in 1..(Cardinality(subs) + 1)
    BY <1>2
  <2> QED BY <1>1, <2>1
<1>4. NewGen(l) \in 1..(Cardinality(subs) + 1)
  BY <1>3 DEF NewGen
<1> QED BY <1>1, <1>2, <1>4

LEMMA ChainWalks ==
    ASSUME NEW g \in Registry
    PROVE  Chain[g] \in Seq(Link) /\ Walked(g) = ElementsOf(Chain[g]) /\ Walked(g) \subseteq Link
<1>1. Chain[g] \in Seq(Link)
  BY StreamsAssumption DEF Registry
<1> QED BY <1>1 DEF Walked, ElementsOf

LEMMA StreamsInitInv == StreamsInit => StreamsInv
<1> SUFFICES ASSUME StreamsInit PROVE StreamsInv
  OBVIOUS
<1>1. Nothing \in Frame /\ Nothing = [l \in {} |-> 0]
  <2>1. Nothing \in [{} -> Nat]
    BY DEF Nothing
  <2> QED BY <2>1 DEF Frame, Nothing
<1>2. StreamsTypeOK
  BY <1>1, StreamsAssumption
     DEF StreamsInit, StreamsTypeOK, Registry, Setup, Phase, Nothing
<1>3. StreamsSound
  BY <1>1, FS_EmptySet DEF StreamsInit, StreamsSound
<1> QED BY <1>2, <1>3 DEF StreamsInit, StreamsInv, SubscribedIsHeard, ChannelsCollected,
     SubscribesToAll, ReadsAll, MissesNothing

\* A step that leaves a stream alone, and what would make it look.
LEMMA StreamStill ==
    ASSUME NEW s \in Stream, SubscribesToAll(s), ReadsAll(s), MissesNothing(s),
           phase'[s] = phase[s], seen'[s] = seen[s], todo'[s] = todo[s],
           view'[s] = view[s], last'[s] = last[s],
           \A l : phase[s] \in {"subscribe", "read", "wait"} /\ HasEnd(s, l) => HasEnd(s, l)',
           \A n : \A l \in Link : phase[s] \in {"read", "wait"} /\ HasEnd(s, l) /\ UpToDate(s, l, n)
                                   => UpToDate(s, l, n)',
           seen[s] \in Registry
    PROVE  SubscribesToAll(s)' /\ ReadsAll(s)' /\ MissesNothing(s)'
<1>1. Walked(seen[s]) \subseteq Link
  BY ChainWalks
<1>2. SubscribesToAll(s)'
  BY DEF SubscribesToAll
<1>3. ReadsAll(s)'
  BY DEF ReadsAll
<1>4. phase[s] = "read" => \A l \in DOMAIN view[s] : l \in Link /\ HasEnd(s, l)
  BY <1>1 DEF SubscribesToAll, ReadsAll
<1>5. phase[s] = "wait" => \A l \in DOMAIN last[s] : l \in Link /\ HasEnd(s, l)
  BY <1>1 DEF SubscribesToAll, ReadsAll
<1>6. phase[s] = "read" => \A l \in DOMAIN view[s] : UpToDate(s, l, view[s][l])'
  BY <1>4 DEF MissesNothing
<1>7. phase[s] = "wait" => \A l \in DOMAIN last[s] : UpToDate(s, l, last[s][l])'
  BY <1>5 DEF MissesNothing
<1>8. MissesNothing(s)'
  BY <1>6, <1>7 DEF MissesNothing
<1> QED BY <1>2, <1>3, <1>8

\* What is written is to be told to who receives.
LEMMA StoreValueKeeps ==
    ASSUME StreamsInv, NEW w \in Writer, NEW k \in Link, StoreValue(w, k)
    PROVE  StreamsInv'
<1> USE DEF StoreValue, channels, streamSide
<1>1. StreamsTypeOK'
  <2>1. value' \in [Link -> 0..MaxWrite] /\ writes' \in 0..MaxWrite
    <3>1. value \in [Link -> 0..MaxWrite] /\ writes \in 0..MaxWrite /\ writes < MaxWrite
      BY DEF StreamsInv, StreamsTypeOK
    <3>2. value[k] + 1 \in 0..MaxWrite /\ writes + 1 \in 0..MaxWrite
      BY <3>1, StreamsAssumption DEF StreamsInv, StreamsSound
    <3> QED BY <3>1, <3>2
  <2>2. writing' \in [Writer -> [link : Link \cup {NoLink}, step : {"idle", "notify", "sweep"}]]
    BY DEF StreamsInv, StreamsTypeOK
  <2> QED BY <2>1, <2>2 DEF StreamsInv, StreamsTypeOK
<1>2. StreamsSound'
  BY DEF StreamsInv, StreamsTypeOK, StreamsSound
<1>3. SubscribedIsHeard' /\ ChannelsCollected'
  BY DEF StreamsInv, SubscribedIsHeard, ChannelsCollected, Receivers
<1>4. ASSUME NEW s \in Stream
      PROVE  SubscribesToAll(s)' /\ ReadsAll(s)' /\ MissesNothing(s)'
  <2>1. \A l : HasEnd(s, l) => HasEnd(s, l)'
    BY DEF HasEnd, Mine
  <2>2. ASSUME NEW l \in Link, NEW n, UpToDate(s, l, n)
        PROVE  UpToDate(s, l, n)'
    <3>1. CASE l = k
      <4>1. writing'[w].step = "notify" /\ writing'[w].link = l
        BY <3>1 DEF StreamsInv, StreamsTypeOK
      <4> QED BY <4>1 DEF UpToDate, WillLook
    <3>2. CASE l # k
      <4>1. value'[l] = value[l]
        BY <3>2 DEF StreamsInv, StreamsTypeOK
      <4>2. WillLook(s, l) => WillLook(s, l)'
        <5>1. \A v \in Writer : writing[v].step = "notify" => writing'[v] = writing[v]
          BY DEF StreamsInv, StreamsTypeOK
        <5> QED BY <5>1 DEF WillLook, Mine
      <4> QED BY <2>2, <4>1, <4>2 DEF UpToDate
    <3> QED BY <3>1, <3>2
  <2>3. seen[s] \in Registry
    BY DEF StreamsInv, StreamsTypeOK
  <2> QED BY <2>1, <2>2, <2>3, StreamStill DEF StreamsInv
<1> QED BY <1>1, <1>2, <1>3, <1>4 DEF StreamsInv

\* Who receives hears of it; nobody who is subscribed to the link is missed.
LEMMA NotifyKeeps ==
    ASSUME StreamsInv, NEW w \in Writer, Notify(w)
    PROVE  StreamsInv'
<1> DEFINE k == writing[w].link
<1>1. StreamsTypeOK'
  <2>1. Receivers(k) \subseteq subs
    BY DEF Receivers
  <2>2. heard' \subseteq subs
    BY <2>1 DEF Notify, StreamsInv, StreamsTypeOK
  <2>3. writing' \in [Writer -> [link : Link \cup {NoLink}, step : {"idle", "notify", "sweep"}]]
    <3>1. CASE Unused(k)
      <4>1. writing' = [writing EXCEPT ![w] = [link |-> k, step |-> "sweep"]]
        BY <3>1 DEF Notify, StreamsInv, StreamsTypeOK
      <4> QED BY <4>1 DEF StreamsInv, StreamsTypeOK
    <3>2. CASE ~Unused(k)
      <4>1. writing' = [writing EXCEPT ![w] = [link |-> NoLink, step |-> "idle"]]
        BY <3>2 DEF Notify, Idle
      <4> QED BY <4>1 DEF StreamsInv, StreamsTypeOK
    <3> QED BY <3>1, <3>2
  <2> QED BY <2>2, <2>3 DEF Notify, StreamsInv, StreamsTypeOK, streamSide
<1>2. StreamsSound' /\ SubscribedIsHeard' /\ ChannelsCollected'
  BY DEF Notify, streamSide, StreamsInv, StreamsSound, SubscribedIsHeard, ChannelsCollected, Receivers
<1>3. ASSUME NEW s \in Stream
      PROVE  SubscribesToAll(s)' /\ ReadsAll(s)' /\ MissesNothing(s)'
  <2>1. \A l : HasEnd(s, l) => HasEnd(s, l)'
    BY DEF Notify, HasEnd, Mine, streamSide
  <2>2. ASSUME NEW l \in Link, NEW n, HasEnd(s, l), UpToDate(s, l, n)
        PROVE  UpToDate(s, l, n)'
    <3>1. heard \subseteq heard'
      BY DEF Notify
    <3>2. \A v \in Writer \ {w} : writing'[v] = writing[v]
      BY DEF Notify, Idle, StreamsInv, StreamsTypeOK
    <3>3. CASE l = k
      <4>1. PICK r \in subs : Mine(s, l, r)
        BY <2>2 DEF HasEnd
      <4>2. r \in Receivers(k) /\ ~Unused(k)
        BY <3>3, <4>1, HeardIsUsed DEF Mine, StreamsInv
      <4>3. r \in heard'
        BY <4>2 DEF Notify
      <4> QED BY <4>1, <4>3 DEF UpToDate, WillLook, Mine, Notify, streamSide
    <3>4. CASE l # k
      <4>1. WillLook(s, l) => WillLook(s, l)'
        BY <3>1, <3>2, <3>4 DEF WillLook, Mine, Notify, streamSide
      <4> QED BY <2>2, <4>1 DEF UpToDate, Notify
    <3> QED BY <3>3, <3>4
  <2>3. seen[s] \in Registry
    BY DEF StreamsInv, StreamsTypeOK
  <2> QED BY <2>1, <2>2, <2>3, StreamStill DEF StreamsInv, Notify, streamSide
<1> QED BY <1>1, <1>2, <1>3 DEF StreamsInv

\* What is collected is a channel nobody receives from.
LEMMA RemoveKeeps ==
    ASSUME StreamsInv, NEW k \in Link \cup {NoLink}, RemoveIfUnused(k), UNCHANGED subs,
           \A r \in collecting : r \in collecting' \/ r.link = k
    PROVE  /\ chan' \in [Link -> Nat]
           /\ SubscribedIsHeard' /\ ChannelsCollected'
<1>1. chan \in [Link -> Nat] /\ subs \subseteq Sub
  BY DEF StreamsInv, StreamsTypeOK
<1>2. chan' \in [Link -> Nat]
  BY <1>1 DEF RemoveIfUnused
<1>3. SubscribedIsHeard'
  <2>1. \A r \in subs : r.link = k => ~Unused(k)
    BY HeardIsUsed DEF StreamsInv
  <2>2. \A r \in subs : chan'[r.link] = chan[r.link]
    BY <1>1, <2>1 DEF RemoveIfUnused, Sub
  <2> QED BY <2>2 DEF SubscribedIsHeard, StreamsInv
<1>4. ChannelsCollected'
  <2> SUFFICES ASSUME NEW l \in Link, chan'[l] # 0
               PROVE  Receivers(l)' # {} \/ \E r \in collecting' : r.link = l
    BY DEF ChannelsCollected
  <2>1. chan'[l] = chan[l] /\ (l = k => ~Unused(k))
    BY <1>1 DEF RemoveIfUnused
  <2>2. Receivers(l)' = Receivers(l)
    BY <2>1 DEF Receivers
  <2>3. CASE l = k
    BY <2>1, <2>2, <2>3 DEF Unused
  <2>4. CASE l # k
    BY <2>1, <2>2, <2>4 DEF StreamsInv, ChannelsCollected
  <2> QED BY <2>3, <2>4
<1> QED BY <1>2, <1>3, <1>4

LEMMA SweepKeeps ==
    ASSUME StreamsInv, NEW w \in Writer, Sweep(w)
    PROVE  StreamsInv'
<1>1. writing[w].link \in Link \cup {NoLink}
  BY DEF StreamsInv, StreamsTypeOK
<1>2. chan' \in [Link -> Nat] /\ SubscribedIsHeard' /\ ChannelsCollected'
  BY <1>1, RemoveKeeps DEF Sweep
<1>3. writing' = [writing EXCEPT ![w] = [link |-> NoLink, step |-> "idle"]]
  BY DEF Sweep, Idle
<1>4. writing' \in [Writer -> [link : Link \cup {NoLink}, step : {"idle", "notify", "sweep"}]]
  BY <1>3 DEF StreamsInv, StreamsTypeOK
<1>5. StreamsTypeOK' /\ StreamsSound'
  BY <1>2, <1>4 DEF StreamsInv, StreamsTypeOK, StreamsSound, Sweep, streamSide
<1>6. ASSUME NEW s \in Stream
      PROVE  SubscribesToAll(s)' /\ ReadsAll(s)' /\ MissesNothing(s)'
  <2>1. \A l : HasEnd(s, l) => HasEnd(s, l)'
    BY DEF Sweep, HasEnd, Mine, streamSide
  <2>2. ASSUME NEW l \in Link, NEW n, UpToDate(s, l, n)
        PROVE  UpToDate(s, l, n)'
    <3>1. \A v \in Writer : writing[v].step = "notify" => writing'[v] = writing[v]
      BY <1>3 DEF Sweep, StreamsInv, StreamsTypeOK
    <3> QED BY <2>2, <3>1 DEF UpToDate, WillLook, Mine, Sweep, streamSide
  <2>3. seen[s] \in Registry
    BY DEF StreamsInv, StreamsTypeOK
  <2> QED BY <2>1, <2>2, <2>3, StreamStill DEF StreamsInv, Sweep, streamSide
<1> QED BY <1>2, <1>5, <1>6 DEF StreamsInv

\* A key is collected, by the stream whose receiver it was or by the loop.
LEMMA CollectKeeps ==
    ASSUME StreamsInv, NEW k \in Link, RemoveIfUnused(k),
           UNCHANGED <<cacheSide, subs, heard, streamSide>>,
           collecting' \subseteq collecting,
           \A r \in collecting : r \in collecting' \/ r.link = k
    PROVE  StreamsInv'
<1> USE DEF cacheSide, streamSide
<1>1. chan' \in [Link -> Nat] /\ SubscribedIsHeard' /\ ChannelsCollected'
  BY RemoveKeeps
<1>2. StreamsTypeOK' /\ StreamsSound'
  BY <1>1 DEF StreamsInv, StreamsTypeOK, StreamsSound
<1>3. ASSUME NEW s \in Stream
      PROVE  SubscribesToAll(s)' /\ ReadsAll(s)' /\ MissesNothing(s)'
  <2>1. \A l : HasEnd(s, l) => HasEnd(s, l)'
    BY DEF HasEnd, Mine
  <2>2. \A n : \A l \in Link : UpToDate(s, l, n) => UpToDate(s, l, n)'
    BY DEF UpToDate, WillLook, Mine
  <2>3. seen[s] \in Registry
    BY DEF StreamsInv, StreamsTypeOK
  <2> QED BY <2>1, <2>2, <2>3, StreamStill DEF StreamsInv
<1> QED BY <1>1, <1>2, <1>3 DEF StreamsInv

LEMMA GcKeeps ==
    ASSUME StreamsInv,
           (\E r \in collecting : GcKey(r)) \/ (\E l \in Link : GcTick(l))
    PROVE  StreamsInv'
<1>1. ASSUME NEW r \in collecting, GcKey(r)
      PROVE  StreamsInv'
  <2>1. r.link \in Link
    BY DEF StreamsInv, StreamsTypeOK, Sub
  <2> QED BY <1>1, <2>1, CollectKeeps DEF GcKey
<1>2. ASSUME NEW l \in Link, GcTick(l)
      PROVE  StreamsInv'
  BY <1>2, CollectKeeps DEF GcTick
<1> QED BY <1>1, <1>2

LEMMA ReloadsKeeps ==
    ASSUME StreamsInv, Reloads
    PROVE  StreamsInv'
<1> USE DEF Reloads, channels, streamSide
<1>1. inForce' \in Registry
  BY StreamsAssumption DEF StreamsInv, StreamsTypeOK, Registry
<1>2. StreamsTypeOK'
  BY <1>1 DEF StreamsInv, StreamsTypeOK
<1>3. StreamsSound'
  <2>1. \A s \in Stream : seen[s] \in Nat /\ inForce \in Nat
    BY StreamsAssumption DEF StreamsInv, StreamsTypeOK, Registry
  <2> QED BY <2>1 DEF StreamsInv, StreamsSound
<1>4. SubscribedIsHeard' /\ ChannelsCollected'
  BY DEF StreamsInv, SubscribedIsHeard, ChannelsCollected, Receivers
<1>5. ASSUME NEW s \in Stream
      PROVE  SubscribesToAll(s)' /\ ReadsAll(s)' /\ MissesNothing(s)'
  <2>1. \A l : HasEnd(s, l) => HasEnd(s, l)'
    BY DEF HasEnd, Mine
  <2>2. \A n : \A l \in Link : UpToDate(s, l, n) => UpToDate(s, l, n)'
    BY DEF UpToDate, WillLook, Mine
  <2>3. seen[s] \in Registry
    BY DEF StreamsInv, StreamsTypeOK
  <2> QED BY <2>1, <2>2, <2>3, StreamStill DEF StreamsInv
<1> QED BY <1>2, <1>3, <1>4, <1>5 DEF StreamsInv

\* What a receiver heard is handed on; and its end is dropped only once the
\* setup it was of has its place taken, or the stream is over.
LEMMA ForwardKeeps ==
    ASSUME StreamsInv, NEW r \in subs, Forward(r)
    PROVE  StreamsInv'
<1> USE DEF Forward, cacheSide
<1>1. StreamsTypeOK' /\ StreamsSound'
  BY DEF StreamsInv, StreamsTypeOK, StreamsSound, Sub
<1>2. SubscribedIsHeard' /\ ChannelsCollected'
  BY DEF StreamsInv, SubscribedIsHeard, ChannelsCollected, Receivers
<1>3. ASSUME NEW s \in Stream
      PROVE  SubscribesToAll(s)' /\ ReadsAll(s)' /\ MissesNothing(s)'
  <2>1. \A l : HasEnd(s, l) => HasEnd(s, l)'
    BY DEF HasEnd, Mine
  <2>2. ASSUME NEW l \in Link, NEW n, phase[s] \in {"read", "wait"}, UpToDate(s, l, n)
        PROVE  UpToDate(s, l, n)'
    <3>1. CASE Mine(s, l, r)
      BY <2>2, <3>1 DEF UpToDate, WillLook, Mine
    <3>2. CASE ~Mine(s, l, r)
      BY <2>2, <3>2 DEF UpToDate, WillLook, Mine
    <3> QED BY <3>1, <3>2
  <2>3. seen[s] \in Registry
    BY DEF StreamsInv, StreamsTypeOK
  <2> QED BY <2>1, <2>2, <2>3, StreamStill DEF StreamsInv
<1> QED BY <1>1, <1>2, <1>3 DEF StreamsInv

LEMMA DropSubKeeps ==
    ASSUME StreamsInv, NEW r \in subs, DropSub(r)
    PROVE  StreamsInv'
<1> USE DEF DropSub, cacheSide, streamSide
<1>1. StreamsTypeOK' /\ StreamsSound'
  <2>1. IsFiniteSet(subs')
    BY FS_RemoveElement DEF StreamsInv, StreamsSound
  <2> QED BY <2>1 DEF StreamsInv, StreamsTypeOK, StreamsSound
<1>2. SubscribedIsHeard'
  BY DEF StreamsInv, SubscribedIsHeard
<1>3. ChannelsCollected'
  <2> SUFFICES ASSUME NEW l \in Link, chan[l] # 0
               PROVE  Receivers(l)' # {} \/ \E q \in collecting' : q.link = l
    BY DEF ChannelsCollected
  <2>1. CASE r.link = l
    BY <2>1
  <2>2. CASE r.link # l
    BY <2>2 DEF StreamsInv, ChannelsCollected, Receivers
  <2> QED BY <2>1, <2>2
<1>4. ASSUME NEW s \in Stream
      PROVE  SubscribesToAll(s)' /\ ReadsAll(s)' /\ MissesNothing(s)'
  <2>1. ASSUME NEW l, phase[s] \in {"subscribe", "read", "wait"}
        PROVE  ~Mine(s, l, r)
    <3>1. setup[s] \in Nat
      BY DEF StreamsInv, StreamsTypeOK, Setup
    <3> QED BY <2>1, <3>1 DEF Mine, Over
  <2>2. \A l : phase[s] \in {"subscribe", "read", "wait"} /\ HasEnd(s, l) => HasEnd(s, l)'
    BY <2>1 DEF HasEnd, Mine
  <2>3. ASSUME NEW l \in Link, NEW n, phase[s] \in {"read", "wait"}, UpToDate(s, l, n)
        PROVE  UpToDate(s, l, n)'
    BY <2>1, <2>3 DEF UpToDate, WillLook, Mine
  <2>4. seen[s] \in Registry
    BY DEF StreamsInv, StreamsTypeOK
  <2> QED BY <2>2, <2>3, <2>4, StreamStill DEF StreamsInv
<1> QED BY <1>1, <1>2, <1>3, <1>4 DEF StreamsInv

\* A step of one stream leaves every other as it was.
LEMMA StreamBeside ==
    ASSUME StreamsInv, NEW s \in Stream, UNCHANGED <<cacheSide, heard>>,
           subs \subseteq subs',
           phase'[s] = phase[s], seen'[s] = seen[s], todo'[s] = todo[s],
           view'[s] = view[s], last'[s] = last[s], setup'[s] = setup[s],
           s \in permit => s \in permit'
    PROVE  SubscribesToAll(s)' /\ ReadsAll(s)' /\ MissesNothing(s)'
<1>1. \A l : HasEnd(s, l) => HasEnd(s, l)'
  BY DEF HasEnd, Mine
<1>2. \A n : \A l \in Link : UpToDate(s, l, n) => UpToDate(s, l, n)'
  BY DEF UpToDate, WillLook, Mine, cacheSide
<1>3. seen[s] \in Registry
  BY DEF StreamsInv, StreamsTypeOK
<1> QED BY <1>1, <1>2, <1>3, StreamStill DEF StreamsInv

\* The links to subscribe to are those of the registry in force.
LEMMA PlanSetupKeeps ==
    ASSUME StreamsInv, NEW s \in Stream, PlanSetup(s)
    PROVE  StreamsInv'
<1>1. inForce \in Registry /\ Chain[inForce] \in Seq(Link)
      /\ Walked(inForce) = ElementsOf(Chain[inForce])
  BY ChainWalks DEF StreamsInv, StreamsTypeOK
<1>2. setup' \in [Stream -> Setup]
      /\ \A t \in Stream : seen'[t] <= inForce /\ setup'[t] <= seen'[t] + 1
  <2>1. /\ setup \in [Stream -> Setup] /\ seen \in [Stream -> Registry]
        /\ \A t \in Stream : seen[t] <= inForce /\ setup[t] <= seen[t] + 1
        /\ \A t \in Stream : seen[t] \in Nat /\ setup[t] \in Nat /\ setup[t] > 0
        /\ inForce \in Nat /\ inForce <= MaxReload /\ MaxReload \in Nat
    <3>1. /\ setup \in [Stream -> Setup] /\ seen \in [Stream -> Registry] /\ inForce \in Registry
          /\ \A t \in Stream : seen[t] <= inForce /\ setup[t] <= seen[t] + 1
      BY DEF StreamsInv, StreamsTypeOK, StreamsSound
    <3> QED BY <3>1, StreamsAssumption DEF Registry, Setup
  <2>2. seen' = [seen EXCEPT ![s] = inForce]
    BY DEF PlanSetup
  <2>3. CASE UNCHANGED setup
    BY <2>1, <2>2, <2>3
  <2>4. CASE seen[s] # inForce /\ setup' = [setup EXCEPT ![s] = setup[s] + 1]
    <3>1. setup[s] + 1 \in Setup /\ setup[s] + 1 <= inForce + 1
      BY <2>1, <2>4 DEF Setup
    <3> QED BY <2>1, <2>2, <2>4, <3>1
  <2> QED BY <2>3, <2>4 DEF PlanSetup
<1> USE DEF PlanSetup, cacheSide, channels
<1>3. StreamsTypeOK' /\ StreamsSound'
  <2>1. /\ phase' \in [Stream -> Phase] /\ todo' \in [Stream -> Seq(Link)]
        /\ seen' \in [Stream -> Registry] /\ permit' \subseteq Stream
    BY <1>1 DEF StreamsInv, StreamsTypeOK, Phase
  <2>2. StreamsTypeOK'
    BY <1>2, <2>1 DEF StreamsInv, StreamsTypeOK
  <2> QED BY <1>2, <2>2 DEF StreamsInv, StreamsSound
<1>4. SubscribedIsHeard' /\ ChannelsCollected'
  BY DEF StreamsInv, SubscribedIsHeard, ChannelsCollected, Receivers
<1>5. ASSUME NEW t \in Stream, t # s
      PROVE  SubscribesToAll(t)' /\ ReadsAll(t)' /\ MissesNothing(t)'
  <2>1. /\ phase'[t] = phase[t] /\ seen'[t] = seen[t] /\ todo'[t] = todo[t]
        /\ setup'[t] = setup[t]
    BY <1>5 DEF StreamsInv, StreamsTypeOK
  <2> QED BY <1>5, <2>1, StreamBeside
<1>6. SubscribesToAll(s)' /\ ReadsAll(s)' /\ MissesNothing(s)'
  <2>1. phase'[s] = "subscribe" /\ seen'[s] = inForce /\ todo'[s] = Chain[inForce]
    BY DEF StreamsInv, StreamsTypeOK
  <2>2. view'[s] = Nothing
    BY DEF StreamsInv, ReadsAll
  <2> QED BY <1>1, <2>1, <2>2 DEF SubscribesToAll, ReadsAll, MissesNothing
<1> QED BY <1>3, <1>4, <1>5, <1>6 DEF StreamsInv

\* A subscription is to the channel writers find, or a new one is made.
LEMMA SubscribeLinkKeeps ==
    ASSUME StreamsInv, NEW s \in Stream, SubscribeLink(s)
    PROVE  StreamsInv'
<1>0. PICK l : l = Head(todo[s])
  OBVIOUS
<1> DEFINE gen == IF chan[l] = 0 THEN NewGen(l) ELSE chan[l]
           new == [of |-> s, setup |-> setup[s], link |-> l, gen |-> gen]
<1>1. /\ l \in Link /\ Tail(todo[s]) \in Seq(Link)
      /\ ElementsOf(todo[s]) = {l} \cup ElementsOf(Tail(todo[s]))
  BY <1>0, HeadAndTail DEF SubscribeLink, StreamsInv, StreamsTypeOK
<1>2. gen \in Nat \ {0} /\ \A r \in subs : r.link = l => r.gen = gen
  <2>1. CASE chan[l] = 0
    BY <1>1, <2>1, NewGenIsNew
  <2>2. CASE chan[l] # 0
    BY <1>1, <2>2 DEF StreamsInv, StreamsTypeOK, SubscribedIsHeard
  <2> QED BY <2>1, <2>2
<1>3. chan' = [chan EXCEPT ![l] = gen] /\ subs' = subs \cup {new}
      /\ todo' = [todo EXCEPT ![s] = Tail(todo[s])]
  BY <1>0 DEF SubscribeLink
<1>4. new \in Sub
  BY <1>1, <1>2 DEF Sub, StreamsInv, StreamsTypeOK
<1> HIDE DEF gen
<1>5. StreamsTypeOK' /\ StreamsSound'
  <2>1. /\ chan' \in [Link -> Nat] /\ subs' \subseteq Sub
        /\ todo' \in [Stream -> Seq(Link)]
    BY <1>1, <1>2, <1>3, <1>4 DEF StreamsInv, StreamsTypeOK
  <2>2. IsFiniteSet(subs')
    BY <1>3, FS_AddElement DEF StreamsInv, StreamsSound
  <2>3. \A r \in subs' : r.gen # 0
    BY <1>2, <1>3 DEF StreamsInv, StreamsSound
  <2> QED BY <1>3, <2>1, <2>2, <2>3 DEF StreamsInv, StreamsTypeOK, StreamsSound, SubscribeLink, cacheSide
<1>6. SubscribedIsHeard'
  <2>1. chan \in [Link -> Nat] /\ \A r \in subs : r.link \in Link
    BY DEF StreamsInv, StreamsTypeOK, Sub
  <2>2. \A r \in subs : chan'[r.link] = r.gen
    BY <1>1, <1>2, <1>3, <2>1 DEF StreamsInv, SubscribedIsHeard
  <2> QED BY <1>1, <1>3, <2>1, <2>2 DEF SubscribedIsHeard
<1>7. ChannelsCollected'
  <2> SUFFICES ASSUME NEW k \in Link, chan'[k] # 0
               PROVE  Receivers(k)' # {} \/ \E q \in collecting' : q.link = k
    BY DEF ChannelsCollected
  <2>1. CASE k = l
    <3>1. new \in Receivers(k)'
      BY <1>1, <1>3, <2>1 DEF Receivers, StreamsInv, StreamsTypeOK
    <3> QED BY <3>1
  <2>2. CASE k # l
    <3>1. chan'[k] = chan[k]
      BY <1>3, <2>2 DEF StreamsInv, StreamsTypeOK
    <3>2. Receivers(k) \subseteq Receivers(k)'
      BY <1>3, <3>1 DEF Receivers
    <3> QED BY <3>1, <3>2 DEF StreamsInv, ChannelsCollected, SubscribeLink
  <2> QED BY <2>1, <2>2
<1>8. ASSUME NEW t \in Stream, t # s
      PROVE  SubscribesToAll(t)' /\ ReadsAll(t)' /\ MissesNothing(t)'
  <2>1. todo'[t] = todo[t]
    BY <1>3, <1>8 DEF StreamsInv, StreamsTypeOK
  <2> QED BY <1>3, <2>1, StreamBeside DEF SubscribeLink
<1>9. SubscribesToAll(s)' /\ ReadsAll(s)' /\ MissesNothing(s)'
  <2>1. phase'[s] = "subscribe" /\ seen'[s] = seen[s] /\ setup' = setup /\ view' = view
        /\ phase[s] = "subscribe"
    BY DEF SubscribeLink
  <2>2. todo'[s] = Tail(todo[s])
    BY <1>3 DEF StreamsInv, StreamsTypeOK
  <2>3. HasEnd(s, l)'
    <3>1. new \in subs' /\ new.of = s /\ new.setup = setup[s] /\ new.link = l
      BY <1>3
    <3>2. \E r \in subs' : r.of = s /\ r.setup = setup[s] /\ r.link = l
      BY <3>1
    <3> QED BY <2>1, <3>2 DEF HasEnd, Mine
  <2>4. \A k : HasEnd(s, k) => HasEnd(s, k)'
    BY <1>3, <2>1 DEF HasEnd, Mine
  <2>5. SubscribesToAll(s)'
    BY <1>1, <2>1, <2>2, <2>3, <2>4 DEF StreamsInv, SubscribesToAll
  <2> QED BY <2>1, <2>5 DEF StreamsInv, ReadsAll, MissesNothing
<1> QED BY <1>5, <1>6, <1>7, <1>8, <1>9 DEF StreamsInv

\* The links are all read, ...
LEMMA BeginReadKeeps ==
    ASSUME StreamsInv, NEW s \in Stream, BeginRead(s) \/ Woken(s)
    PROVE  StreamsInv'
<1>1. seen[s] \in Registry
  BY DEF StreamsInv, StreamsTypeOK
<1>2. Chain[seen[s]] \in Seq(Link) /\ Walked(seen[s]) = ElementsOf(Chain[seen[s]])
  BY <1>1, ChainWalks
<1>3. /\ phase' = [phase EXCEPT ![s] = "read"] /\ todo' = [todo EXCEPT ![s] = Chain[seen[s]]]
      /\ UNCHANGED <<cacheSide, channels, seen, setup, view, last>>
      /\ \A t \in Stream \ {s} : t \in permit => t \in permit'
      /\ permit' \subseteq permit
      /\ phase[s] = "wait" \/ (phase[s] = "subscribe" /\ todo[s] = <<>>)
  BY DEF BeginRead, Woken
<1>4. StreamsTypeOK'
  <2>1. phase' \in [Stream -> Phase] /\ todo' \in [Stream -> Seq(Link)]
    BY <1>2, <1>3 DEF StreamsInv, StreamsTypeOK, Phase
  <2> QED BY <1>3, <2>1 DEF StreamsInv, StreamsTypeOK, cacheSide, channels
<1>5. StreamsSound' /\ SubscribedIsHeard' /\ ChannelsCollected'
  BY <1>3 DEF StreamsInv, StreamsSound, SubscribedIsHeard, ChannelsCollected, Receivers,
     cacheSide, channels
<1>6. ASSUME NEW t \in Stream, t # s
      PROVE  SubscribesToAll(t)' /\ ReadsAll(t)' /\ MissesNothing(t)'
  <2>1. phase'[t] = phase[t] /\ todo'[t] = todo[t]
    BY <1>3, <1>6 DEF StreamsInv, StreamsTypeOK
  <2> QED BY <1>3, <1>6, <2>1, StreamBeside DEF channels
<1>7. SubscribesToAll(s)' /\ ReadsAll(s)' /\ MissesNothing(s)'
  <2>1. /\ phase'[s] = "read" /\ seen'[s] = seen[s] /\ todo'[s] = Chain[seen[s]]
        /\ view'[s] = Nothing
    BY <1>3 DEF StreamsInv, StreamsTypeOK, ReadsAll
  <2>2. \A l \in Walked(seen[s]) : HasEnd(s, l)
    BY <1>3, NoElements DEF StreamsInv, SubscribesToAll
  <2>3. \A l : HasEnd(s, l) => HasEnd(s, l)'
    BY <1>3 DEF HasEnd, Mine, channels
  <2>4. SubscribesToAll(s)'
    BY <2>1, <2>2, <2>3 DEF SubscribesToAll
  <2>5. DOMAIN view'[s] = {}
    BY <2>1 DEF Nothing
  <2> QED BY <1>2, <2>1, <2>4, <2>5 DEF ReadsAll, MissesNothing
<1> QED BY <1>4, <1>5, <1>6, <1>7 DEF StreamsInv

\* ... one by one, ...
LEMMA ReadLinkKeeps ==
    ASSUME StreamsInv, NEW s \in Stream, ReadLink(s)
    PROVE  StreamsInv'
<1>1. PICK l, m, now : l = Head(todo[s]) /\ m = Tail(todo[s])
                       /\ now = [k \in DOMAIN view[s] \cup {l} |->
                                   IF k = l THEN value[l] ELSE view[s][k]]
  OBVIOUS
<1>2. l \in Link /\ m \in Seq(Link) /\ ElementsOf(todo[s]) = {l} \cup ElementsOf(m)
  BY <1>1, HeadAndTail DEF ReadLink, StreamsInv, StreamsTypeOK
<1>3. /\ view' = [view EXCEPT ![s] = now] /\ todo' = [todo EXCEPT ![s] = m]
      /\ phase[s] = "read"
      /\ UNCHANGED <<cacheSide, channels, phase, seen, setup, permit, last>>
  BY <1>1 DEF ReadLink
<1>4. /\ DOMAIN now = DOMAIN view[s] \cup {l}
      /\ now[l] = value[l]
      /\ \A k \in DOMAIN view[s] : k # l => now[k] = view[s][k]
  BY <1>1
<1>5. now \in Frame /\ DOMAIN now \subseteq Link
  <2>1. PICK L \in SUBSET Link : view[s] \in [L -> Nat]
    BY DEF StreamsInv, StreamsSound, Frame
  <2>2. value[l] \in Nat
    BY <1>2, StreamsAssumption DEF StreamsInv, StreamsTypeOK
  <2>3. now \in [L \cup {l} -> Nat]
    BY <1>1, <2>1, <2>2
  <2> QED BY <1>2, <2>1, <2>3 DEF Frame
<1>6. StreamsTypeOK' /\ StreamsSound'
  <2>1. view' \in [Stream -> Frame] /\ todo' \in [Stream -> Seq(Link)]
    BY <1>2, <1>3, <1>5 DEF StreamsInv, StreamsTypeOK, StreamsSound
  <2>2. \A t \in Stream : DOMAIN view'[t] \subseteq Link
    BY <1>3, <1>5 DEF StreamsInv, StreamsTypeOK, StreamsSound
  <2> QED BY <1>3, <2>1, <2>2 DEF StreamsInv, StreamsTypeOK, StreamsSound, cacheSide, channels
<1>7. SubscribedIsHeard' /\ ChannelsCollected'
  BY <1>3 DEF StreamsInv, SubscribedIsHeard, ChannelsCollected, Receivers, channels
<1>8. ASSUME NEW t \in Stream, t # s
      PROVE  SubscribesToAll(t)' /\ ReadsAll(t)' /\ MissesNothing(t)'
  <2>1. view'[t] = view[t] /\ todo'[t] = todo[t]
    BY <1>3, <1>8 DEF StreamsInv, StreamsTypeOK, StreamsSound
  <2> QED BY <1>3, <1>8, <2>1, StreamBeside DEF channels
<1>9. SubscribesToAll(s)' /\ ReadsAll(s)' /\ MissesNothing(s)'
  <2>1. /\ view'[s] = now /\ todo'[s] = m /\ phase'[s] = "read" /\ seen'[s] = seen[s]
    BY <1>3 DEF StreamsInv, StreamsTypeOK, StreamsSound
  <2>2. \A k : HasEnd(s, k) => HasEnd(s, k)'
    BY <1>3 DEF HasEnd, Mine, channels
  <2>3. SubscribesToAll(s)'
    BY <1>3, <2>1, <2>2 DEF StreamsInv, SubscribesToAll
  <2>4. ReadsAll(s)'
    BY <1>2, <1>3, <1>4, <2>1 DEF StreamsInv, ReadsAll
  <2>5. \A k, n : UpToDate(s, k, n) => UpToDate(s, k, n)'
    BY <1>3 DEF UpToDate, WillLook, Mine, cacheSide, channels
  <2>6. \A k \in DOMAIN now : UpToDate(s, k, now[k])
    BY <1>3, <1>4 DEF StreamsInv, MissesNothing, UpToDate
  <2> QED BY <1>3, <2>1, <2>3, <2>4, <2>5, <2>6 DEF MissesNothing
<1> QED BY <1>6, <1>7, <1>8, <1>9 DEF StreamsInv

\* ... and what was read is what was sent last.
LEMMA SendFrameKeeps ==
    ASSUME StreamsInv, NEW s \in Stream, SendFrame(s)
    PROVE  StreamsInv'
<1>1. PICK now : now = view[s]
  OBVIOUS
<1>2. /\ view' = [view EXCEPT ![s] = Nothing] /\ last' = [last EXCEPT ![s] = now]
      /\ phase' = [phase EXCEPT ![s] = "wait"] /\ phase[s] = "read" /\ todo[s] = <<>>
      /\ UNCHANGED <<cacheSide, channels, seen, setup, permit, todo>>
  BY <1>1 DEF SendFrame
<1>3. now \in Frame /\ Nothing \in Frame /\ DOMAIN now \subseteq Link /\ DOMAIN Nothing = {}
  <2>1. Nothing \in [{} -> Nat]
    BY DEF Nothing
  <2>2. now \in Frame /\ DOMAIN now \subseteq Link
    BY <1>1 DEF StreamsInv, StreamsTypeOK, StreamsSound
  <2> QED BY <2>1, <2>2 DEF Frame
<1>4. StreamsTypeOK' /\ StreamsSound'
  <2>1. /\ view' \in [Stream -> Frame] /\ last' \in [Stream -> Frame]
        /\ phase' \in [Stream -> Phase]
    BY <1>2, <1>3 DEF StreamsInv, StreamsTypeOK, StreamsSound, Phase
  <2>2. \A t \in Stream : DOMAIN view'[t] \subseteq Link /\ DOMAIN last'[t] \subseteq Link
    BY <1>2, <1>3 DEF StreamsInv, StreamsTypeOK, StreamsSound
  <2> QED BY <1>2, <2>1, <2>2 DEF StreamsInv, StreamsTypeOK, StreamsSound, cacheSide, channels
<1>5. SubscribedIsHeard' /\ ChannelsCollected'
  BY <1>2 DEF StreamsInv, SubscribedIsHeard, ChannelsCollected, Receivers, channels
<1>6. ASSUME NEW t \in Stream, t # s
      PROVE  SubscribesToAll(t)' /\ ReadsAll(t)' /\ MissesNothing(t)'
  <2>1. view'[t] = view[t] /\ last'[t] = last[t] /\ phase'[t] = phase[t]
    BY <1>2, <1>6 DEF StreamsInv, StreamsTypeOK, StreamsSound
  <2> QED BY <1>2, <1>6, <2>1, StreamBeside DEF channels
<1>7. SubscribesToAll(s)' /\ ReadsAll(s)' /\ MissesNothing(s)'
  <2>1. /\ view'[s] = Nothing /\ last'[s] = now /\ phase'[s] = "wait" /\ seen'[s] = seen[s]
    BY <1>2 DEF StreamsInv, StreamsTypeOK, StreamsSound
  <2>2. \A k : HasEnd(s, k) => HasEnd(s, k)'
    BY <1>2 DEF HasEnd, Mine, channels
  <2>3. SubscribesToAll(s)'
    BY <1>2, <2>1, <2>2 DEF StreamsInv, SubscribesToAll
  <2>4. DOMAIN now = Walked(seen[s])
    BY <1>1, <1>2, NoElements DEF StreamsInv, ReadsAll
  <2>5. \A k, n : UpToDate(s, k, n) => UpToDate(s, k, n)'
    BY <1>2 DEF UpToDate, WillLook, Mine, cacheSide, channels
  <2>6. \A k \in DOMAIN now : UpToDate(s, k, now[k])
    BY <1>1, <1>2 DEF StreamsInv, MissesNothing
  <2> QED BY <2>1, <2>3, <2>4, <2>5, <2>6 DEF ReadsAll, MissesNothing
<1> QED BY <1>4, <1>5, <1>6, <1>7 DEF StreamsInv

LEMMA CloseWatchKeeps ==
    ASSUME StreamsInv, NEW s \in Stream, CloseWatch(s)
    PROVE  StreamsInv'
<1>1. /\ last' = [last EXCEPT ![s] = Nothing] /\ phase' = [phase EXCEPT ![s] = "closed"]
      /\ phase[s] = "wait" /\ permit' = permit \ {s}
      /\ UNCHANGED <<cacheSide, channels, seen, setup, todo, view>>
  BY DEF CloseWatch
<1>2. Nothing \in Frame /\ DOMAIN Nothing = {}
  <2>1. Nothing \in [{} -> Nat]
    BY DEF Nothing
  <2> QED BY <2>1 DEF Frame
<1>3. StreamsTypeOK' /\ StreamsSound'
  <2>1. last' \in [Stream -> Frame] /\ phase' \in [Stream -> Phase]
    BY <1>1, <1>2 DEF StreamsInv, StreamsTypeOK, StreamsSound, Phase
  <2>2. \A t \in Stream : DOMAIN last'[t] \subseteq Link
    BY <1>1, <1>2 DEF StreamsInv, StreamsTypeOK, StreamsSound
  <2> QED BY <1>1, <2>1, <2>2 DEF StreamsInv, StreamsTypeOK, StreamsSound, cacheSide, channels
<1>4. SubscribedIsHeard' /\ ChannelsCollected'
  BY <1>1 DEF StreamsInv, SubscribedIsHeard, ChannelsCollected, Receivers, channels
<1>5. ASSUME NEW t \in Stream, t # s
      PROVE  SubscribesToAll(t)' /\ ReadsAll(t)' /\ MissesNothing(t)'
  <2>1. last'[t] = last[t] /\ phase'[t] = phase[t]
    BY <1>1, <1>5 DEF StreamsInv, StreamsTypeOK, StreamsSound
  <2> QED BY <1>1, <1>5, <2>1, StreamBeside DEF channels
<1>6. SubscribesToAll(s)' /\ ReadsAll(s)' /\ MissesNothing(s)'
  <2>1. phase'[s] = "closed" /\ view'[s] = Nothing
    BY <1>1 DEF StreamsInv, StreamsTypeOK, ReadsAll
  <2> QED BY <2>1 DEF SubscribesToAll, ReadsAll, MissesNothing
<1> QED BY <1>3, <1>4, <1>5, <1>6 DEF StreamsInv

LEMMA StreamsStepInv == StreamsInv /\ [StreamsNext]_streamVars => StreamsInv'
<1> SUFFICES ASSUME StreamsInv, [StreamsNext]_streamVars PROVE StreamsInv'
  OBVIOUS
<1>1. CASE UNCHANGED streamVars
  <2> USE <1>1 DEF streamVars, cacheSide, channels, streamSide
  <2>1. StreamsTypeOK' /\ StreamsSound'
    BY DEF StreamsInv, StreamsTypeOK, StreamsSound
  <2>2. SubscribedIsHeard' /\ ChannelsCollected'
    BY DEF StreamsInv, SubscribedIsHeard, ChannelsCollected, Receivers
  <2>3. \A s \in Stream : SubscribesToAll(s)' /\ ReadsAll(s)' /\ MissesNothing(s)'
    BY StreamBeside DEF StreamsInv
  <2> QED BY <2>1, <2>2, <2>3 DEF StreamsInv
<1>2. CASE StreamsNext
  BY <1>2, StoreValueKeeps, NotifyKeeps, SweepKeeps, GcKeeps, ReloadsKeeps, ForwardKeeps,
     DropSubKeeps, PlanSetupKeeps, SubscribeLinkKeeps, BeginReadKeeps, ReadLinkKeeps,
     SendFrameKeeps, CloseWatchKeeps DEF StreamsNext
<1> QED BY <1>1, <1>2

LEMMA StreamsEver == StreamsSpec => []StreamsInv
<1> QED BY StreamsInitInv, StreamsStepInv, PTL DEF StreamsSpec

\* Nobody is left on a channel that writers no longer find, however
\* subscriptions, notifications and collections of it meet.
THEOREM SubscribedIsHeardEver == StreamsSpec => []SubscribedIsHeard
<1>1. StreamsInv => SubscribedIsHeard
  BY DEF StreamsInv
<1> QED BY <1>1, StreamsEver, PTL

\* Channels go with the last to receive from them.
THEOREM ChannelsCollectedEver == StreamsSpec => []ChannelsCollected
<1>1. StreamsInv => ChannelsCollected
  BY DEF StreamsInv
<1> QED BY <1>1, StreamsEver, PTL

\* A stream at rest has sent what its links hold, whatever was written while it
\* subscribed, read, or changed its setup for a reload, for any number of
\* streams, writers, links and reloads.
THEOREM StreamCaughtUpEver == StreamsSpec => []StreamCaughtUp
<1>1. StreamsInv => StreamCaughtUp
  <2> SUFFICES ASSUME StreamsInv, NEW s \in Stream, Quiet(s)
               PROVE  last[s] = [l \in Walked(inForce) |-> value[l]]
    BY DEF StreamCaughtUp
  <2>1. DOMAIN last[s] = Walked(inForce)
    BY DEF StreamsInv, Quiet, ReadsAll
  <2>2. \A l : ~WillLook(s, l)
    BY DEF Quiet, WillLook, Mine
  <2>3. \A l \in DOMAIN last[s] : last[s][l] = value[l]
    BY <2>2 DEF StreamsInv, Quiet, MissesNothing, UpToDate
  <2>4. last[s] = [l \in DOMAIN last[s] |-> last[s][l]]
    BY DEF StreamsInv, StreamsSound, Frame
  <2> QED BY <2>1, <2>3, <2>4
<1> QED BY <1>1, StreamsEver, PTL

-----------------------------------------------------------------------------
(* Memos: the invariant. *)

\* A writer that has the listing, from its memo's number to its keys.
StoringAt == {"listed", "dropped", "cleared", "stored"}
Writing(w) == storing[w].at \in StoringAt

\* One at a time has the listing: a writer that stores, or the tick that evicts.
ListingHeld ==
    /\ \A w \in MemoWriter : /\ Writing(w) <=> listing = w
                             /\ storing[w].at \in StoringAt \cup {"idle", "done"}
    /\ ending.at \notin {"idle", "asked"} <=> listing = Tick

\* A directory that holds a memo, or is to, is listed.
HeldIsListed ==
    /\ \A d \in Dir : Held(d) # {} => d \in listed
    /\ \A w \in MemoWriter : Writing(w) => storing[w].dir \in listed
    /\ ending.at = "empty" => Held(ending.dir) = {}

\* Writes are numbered as they take the listing.
Numbered ==
    /\ \A d \in Dir, l \in Leaf : memos[d][l] <= numbered
    /\ \A w \in MemoWriter : storing[w].at # "idle" =>
           storing[w].number \in 1..numbered
    /\ \A v, w \in MemoWriter : Writing(v) /\ storing[w].at = "done" =>
           storing[w].number < storing[v].number

\* What was seen with its hash, and is neither missed yet nor still to be
\* dropped: nothing.
MissedNow(m) ==
    ~(/\ memos[m[1]][m[2]] = m[3] /\ keys[m[1]][m[2]] = m[3]
      /\ m[2] \in hashed[m[1]])

StillDropped(m) ==
    /\ dropping.at = "drops" /\ m[2] \in Within[dropping.node]
    /\ m[1] \in dropping.dirs \/ (m[1] = dropping.dir /\ m[2] \in dropping.leaves)

SeenIsDropped ==
    \A m \in dropping.seen :
        /\ m[3] \in 1..numbered
        /\ \A w \in MemoWriter : Writing(w) => storing[w].number # m[3]
        /\ MissedNow(m) \/ StillDropped(m)

\* A memo somebody has stored, and is to tell of.
Untold(d, l) ==
    \E w \in MemoWriter : /\ storing[w].at \in {"stored", "done"}
                          /\ storing[w].dir = d /\ storing[w].leaf = l
                          /\ storing[w].number = memos[d][l]

Overlaps(k, d, l) == messages[k].dir = d /\ messages[k].leaf \in Within[l]

\* A memo told of last among those it overlaps.
Told(d, l) ==
    \E i \in 1..Len(messages) :
        /\ messages[i] = [dir |-> d, leaf |-> l, number |-> memos[d][l]]
        /\ \A k \in 1..Len(messages) : k > i => ~Overlaps(k, d, l)

Leased(d, l) ==
    /\ leases[d][l] = memos[d][l]
    /\ \A k \in 1..Len(messages) : ~Overlaps(k, d, l)

\* Its lease has ended, and it is about to go.
Ends(d, l) == ending.at \in {"asked", "listed"} /\ ending.dir = d /\ ending.leaf = l

LeaseComes ==
    \A d \in Dir \ crossed, l \in Leaf :
        memos[d][l] = 0 \/ Untold(d, l) \/ Told(d, l) \/ Leased(d, l) \/ Ends(d, l)

\* A writer replaced what it overlaps, and until it tells of its memo only later
\* ones overlap that.
Replaced(w, l) ==
    LET n == memos[storing[w].dir][l]
    IN  /\ storing[w].at \in {"dropped", "cleared"} => n = 0
        /\ storing[w].at = "stored" =>
               n = IF l = storing[w].leaf THEN storing[w].number ELSE 0
        /\ storing[w].at = "done" =>
               \/ n = 0
               \/ l = storing[w].leaf /\ n = storing[w].number
               \/ n > storing[w].number /\ (Untold(storing[w].dir, l)
                                            \/ storing[w].dir \in crossed)

ReplacedAll ==
    \A w \in MemoWriter : \A l \in Within[storing[w].leaf] : Replaced(w, l)

MemosInv ==
    /\ MemosTypeOK /\ ListingHeld /\ HeldIsListed /\ Numbered
    /\ SeenIsDropped /\ LeaseComes /\ ReplacedAll

-----------------------------------------------------------------------------
(* Memos: lemmas, steps and theorems. *)

LEMMA OneMore ==
    ASSUME NEW S, NEW q \in Seq(S), NEW e \in S
    PROVE  /\ Append(q, e) \in Seq(S) /\ Len(q) \in Nat
           /\ Len(Append(q, e)) = Len(q) + 1
           /\ Append(q, e)[Len(q) + 1] = e
           /\ \A i \in 1..Len(q) : Append(q, e)[i] = q[i]
OBVIOUS

LEMMA RestOf ==
    ASSUME NEW S, NEW q \in Seq(S), q # <<>>
    PROVE  /\ Head(q) \in S /\ Head(q) = q[1] /\ Tail(q) \in Seq(S)
           /\ Len(q) \in Nat \ {0} /\ Len(Tail(q)) = Len(q) - 1
           /\ \A i \in 1..Len(Tail(q)) : Tail(q)[i] = q[i + 1] /\ i + 1 \in 1..Len(q)
OBVIOUS

LEMMA MemosConstants ==
    /\ MaxMemo \in Nat \ {0} /\ Number = 0..MaxMemo /\ 0 \in Number
    /\ \A l \in Leaf : Within[l] \subseteq Leaf /\ l \in Within[l]
    /\ \A k, l \in Leaf : k \in Within[l] <=> l \in Within[k]
    /\ Tick \notin MemoWriter /\ Nobody \notin MemoWriter /\ Nobody # Tick
BY MemosAssumption DEF Number

\* What is left once some leaves' numbers are taken, and what there is with one
\* more.
LEMMA LessIs ==
    ASSUME NEW f \in [Dir -> [Leaf -> Number]], NEW d \in Dir, NEW gone
    PROVE  /\ Less(f, d, gone) \in [Dir -> [Leaf -> Number]]
           /\ \A e \in Dir, l \in Leaf :
                  Less(f, d, gone)[e][l] = IF e = d /\ l \in gone THEN 0 ELSE f[e][l]
BY MemosConstants DEF Less

LEMMA StoredIs ==
    ASSUME NEW f \in [Dir -> [Leaf -> Number]], NEW d \in Dir, NEW l \in Leaf,
           NEW n \in Number
    PROVE  /\ [f EXCEPT ![d][l] = n] \in [Dir -> [Leaf -> Number]]
           /\ \A e \in Dir, k \in Leaf :
                  [f EXCEPT ![d][l] = n][e][k] = IF e = d /\ k = l THEN n ELSE f[e][k]
OBVIOUS

LEMMA WorkIs ==
    ASSUME MemosTypeOK, NEW w \in MemoWriter
    PROVE  /\ storing[w] \in Work /\ storing[w].dir \in Dir /\ storing[w].leaf \in Leaf
           /\ storing[w].number \in Number /\ storing[w].gone \in SUBSET Leaf
BY DEF MemosTypeOK, Work

LEMMA HeldIs ==
    ASSUME MemosTypeOK, NEW d \in Dir
    PROVE  Held(d) \subseteq Leaf /\ \A l \in Leaf : l \in Held(d) <=> memos[d][l] # 0
BY DEF Held

-----------------------------------------------------------------------------
(* What a step that stores nothing keeps. *)

\* Memos may go.
Fewer(f, g) == \A d \in Dir, l \in Leaf : f[d][l] \in {g[d][l], 0}

LEMMA ReplacedStays ==
    ASSUME NEW v \in MemoWriter, NEW l \in Within[storing[v].leaf], Replaced(v, l),
           storing'[v] = storing[v],
           \/ memos'[storing[v].dir][l] = memos[storing[v].dir][l]
           \/ memos'[storing[v].dir][l] = 0 /\ storing[v].at # "stored",
           memos'[storing[v].dir][l] # 0 /\ Untold(storing[v].dir, l)
               => Untold(storing[v].dir, l)' \/ storing[v].dir \in crossed',
           crossed \subseteq crossed'
    PROVE  Replaced(v, l)'
BY DEF Replaced

LEMMA SeenStays ==
    ASSUME MemosInv, dropping' = dropping, numbered' = numbered,
           Fewer(memos', memos), Fewer(keys', keys),
           \A d \in Dir : hashed'[d] \subseteq hashed[d],
           \A v \in MemoWriter :
               Writing(v)' => Writing(v) /\ storing'[v].number = storing[v].number
    PROVE  SeenIsDropped'
<1> SUFFICES ASSUME NEW m \in dropping.seen
             PROVE  /\ m[3] \in 1..numbered'
                    /\ \A v \in MemoWriter : Writing(v)' => storing'[v].number # m[3]
                    /\ MissedNow(m)' \/ StillDropped(m)'
  BY DEF SeenIsDropped
<1>1. /\ m[3] \in 1..numbered /\ (MissedNow(m) \/ StillDropped(m))
      /\ \A v \in MemoWriter : Writing(v) => storing[v].number # m[3]
  BY DEF MemosInv, SeenIsDropped
<1>2. m[1] \in Dir /\ m[2] \in Leaf /\ m[3] # 0
  <2>1. dropping \in Drop /\ dropping.seen \subseteq Dir \X Leaf \X Number
    BY DEF MemosInv, MemosTypeOK, Drop
  <2>2. m[3] # 0
    BY <1>1 DEF MemosInv, MemosTypeOK, Number
  <2> QED BY <2>1, <2>2
<1>3. MissedNow(m) => MissedNow(m)'
  BY <1>2 DEF MissedNow, Fewer
<1>4. StillDropped(m) => StillDropped(m)'
  BY DEF StillDropped
<1> QED BY <1>1, <1>3, <1>4

LEMMA LeaseStays ==
    ASSUME MemosInv, UNCHANGED <<messages, leases>>, crossed \subseteq crossed',
           Fewer(memos', memos),
           \A d \in Dir, l \in Leaf : memos'[d][l] # 0 =>
               /\ Untold(d, l) => Untold(d, l)'
               /\ Ends(d, l) => Ends(d, l)'
    PROVE  LeaseComes'
<1> SUFFICES ASSUME NEW d \in Dir \ crossed', NEW l \in Leaf, memos'[d][l] # 0
             PROVE  Untold(d, l)' \/ Told(d, l)' \/ Leased(d, l)' \/ Ends(d, l)'
  BY DEF LeaseComes
<1>1. memos'[d][l] = memos[d][l] /\ d \notin crossed
  BY DEF Fewer
<1>2. Untold(d, l) \/ Told(d, l) \/ Leased(d, l) \/ Ends(d, l)
  BY <1>1 DEF MemosInv, LeaseComes
<1>3. Told(d, l) => Told(d, l)'
  BY <1>1 DEF Told, Overlaps
<1>4. Leased(d, l) => Leased(d, l)'
  BY <1>1 DEF Leased, Overlaps
<1> QED BY <1>2, <1>3, <1>4

\* The rest of a writer's step that takes memos away, or keeps all.
LEMMA StorerKeeps ==
    ASSUME MemosInv, NEW w \in MemoWriter, Writing(w),
           UNCHANGED <<listed, listing, numbered, messages, leases, ending, dropping, crossed>>,
           MemosTypeOK',
           Fewer(memos', memos), Fewer(keys', keys),
           \A d \in Dir : hashed'[d] \subseteq hashed[d],
           \A v \in MemoWriter : v # w => storing'[v] = storing[v],
           storing[w].at \in {"listed", "dropped", "cleared"},
           storing'[w].at \in {"dropped", "cleared"},
           storing'[w].dir = storing[w].dir, storing'[w].leaf = storing[w].leaf,
           storing'[w].number = storing[w].number,
           \A l \in Within[storing[w].leaf] : memos'[storing[w].dir][l] = 0
    PROVE  MemosInv'
<1> USE MemosConstants
<1>1. listing = w /\ \A v \in MemoWriter : Writing(v) <=> v = w
  BY DEF MemosInv, ListingHeld
<1>2. \A v \in MemoWriter : Writing(v)' <=> v = w
  BY <1>1 DEF Writing, StoringAt
<1>3. ListingHeld'
  BY <1>1, <1>2 DEF MemosInv, ListingHeld, Writing, StoringAt
<1>4. HeldIsListed'
  <2>1. \A d \in Dir : Held(d)' \subseteq Held(d)
    BY DEF Held, Fewer
  <2>2. \A v \in MemoWriter : Writing(v)' => Writing(v) /\ storing'[v].dir = storing[v].dir
    BY <1>1, <1>2
  <2>3. ending.at # "empty"
    BY <1>1 DEF MemosInv, ListingHeld
  <2> QED BY <2>1, <2>2, <2>3 DEF MemosInv, HeldIsListed
<1>5. Numbered'
  <2>1. \A d \in Dir, l \in Leaf : memos'[d][l] <= numbered'
    <3> SUFFICES ASSUME NEW d \in Dir, NEW l \in Leaf PROVE memos'[d][l] <= numbered
      OBVIOUS
    <3>1. numbered \in Nat /\ memos[d][l] <= numbered /\ memos'[d][l] \in {memos[d][l], 0}
      BY DEF MemosInv, Numbered, Fewer, MemosTypeOK
    <3> QED BY <3>1
  <2> QED BY <2>1, <1>1, <1>2 DEF MemosInv, Numbered, Writing, StoringAt
<1>6. SeenIsDropped'
  BY <1>1, <1>2, SeenStays
<1>7. \A d \in Dir, l \in Leaf : memos'[d][l] # 0 /\ Untold(d, l) => Untold(d, l)'
  BY DEF Untold, Fewer
<1>8. LeaseComes'
  BY <1>7, LeaseStays DEF Ends
<1>9. ReplacedAll'
  <2> SUFFICES ASSUME NEW v \in MemoWriter, NEW l \in Within[storing'[v].leaf]
               PROVE  Replaced(v, l)'
    BY DEF ReplacedAll
  <2>1. CASE v = w
    BY <2>1 DEF Replaced
  <2>2. CASE v # w
    <3>1. storing'[v] = storing[v] /\ storing[v].dir \in Dir /\ l \in Leaf
      BY <2>2, WorkIs DEF MemosInv
    <3>2. Replaced(v, l) /\ storing[v].at # "stored"
      BY <1>1, <2>2, <3>1 DEF MemosInv, ReplacedAll, Writing, StoringAt
    <3> QED BY <1>7, <3>1, <3>2, ReplacedStays DEF Fewer
  <2> QED BY <2>1, <2>2
<1> QED BY <1>3, <1>4, <1>5, <1>6, <1>8, <1>9 DEF MemosInv

LEMMA MemosInitInv == MemosInit => MemosInv
<1> SUFFICES ASSUME MemosInit PROVE MemosInv
  OBVIOUS
<1> USE MemosConstants DEF MemosInit
<1>1. PICK d0 \in Dir, l0 \in Leaf :
          memos = [e \in Dir |-> [k \in Leaf |-> IF <<e, k>> = <<d0, l0>> THEN numbered ELSE 0]]
  OBVIOUS
<1>2. /\ NoWork \in Work /\ NoWork.at = "idle" /\ NoWork.dir \in Dir /\ NoWork.leaf \in Leaf
      /\ NoDrop \in Drop /\ NoDrop.at = "idle" /\ NoDrop.seen = {}
  <2>1. NoWork.dir \in Dir /\ NoWork.leaf \in Leaf
    BY DEF NoWork
  <2>2. NoWork \in Work /\ NoWork.at = "idle"
    BY <2>1 DEF NoWork, Work
  <2> QED BY <2>1, <2>2 DEF NoDrop, Drop
<1>3. /\ numbered \in Number /\ memos \in [Dir -> [Leaf -> Number]]
      /\ \A d \in Dir, l \in Leaf : memos[d][l] \in 0..numbered
  BY <1>1
<1>4. MemosTypeOK
  BY <1>2, <1>3 DEF MemosTypeOK, Held
<1>5. ListingHeld
  BY <1>2 DEF ListingHeld, Writing, StoringAt
<1>6. HeldIsListed
  BY <1>2, <1>3 DEF HeldIsListed, Writing, StoringAt, Held
<1>7. Numbered /\ SeenIsDropped
  BY <1>2, <1>3 DEF Numbered, Writing, StoringAt, SeenIsDropped
<1>8. LeaseComes
  BY <1>2, <1>3 DEF LeaseComes, Leased
<1>9. ReplacedAll
  BY <1>2 DEF ReplacedAll, Replaced
<1> QED BY <1>4, <1>5, <1>6, <1>7, <1>8, <1>9 DEF MemosInv

\* The memo of a writer is numbered past all there are.
LEMMA ListMemoKeeps ==
    ASSUME MemosInv, NEW w \in MemoWriter, NEW d \in Dir, NEW l \in Leaf, ListMemo(w, d, l)
    PROVE  MemosInv'
<1> USE MemosConstants
<1>1. /\ storing[w].at = "idle" /\ listing = Nobody /\ numbered < MaxMemo
      /\ numbered' = numbered + 1 /\ listing' = w /\ listed' = listed \cup {d}
      /\ storing' = [storing EXCEPT ![w] = [at |-> "listed", dir |-> d, leaf |-> l,
                                            number |-> numbered', gone |-> {}]]
      /\ UNCHANGED <<memos, keys, hashed, messages, leases, ending, dropping, crossed>>
  BY DEF ListMemo
<1>2. /\ storing'[w] = [at |-> "listed", dir |-> d, leaf |-> l, number |-> numbered + 1, gone |-> {}]
      /\ \A v \in MemoWriter : v # w => storing'[v] = storing[v]
      /\ numbered \in 0..MaxMemo /\ numbered + 1 \in Number
  BY <1>1 DEF MemosInv, MemosTypeOK
<1>3. MemosTypeOK'
  <2>1. storing'[w] \in Work
    BY <1>1, <1>2 DEF MemosInv, MemosTypeOK, Work
  <2>2. storing' \in [MemoWriter -> Work]
    BY <1>1, <1>2, <2>1 DEF MemosInv, MemosTypeOK
  <2> QED BY <1>1, <1>2, <2>2 DEF MemosInv, MemosTypeOK
<1>4. \A v \in MemoWriter : ~Writing(v)
  BY <1>1 DEF MemosInv, ListingHeld
<1>5. ListingHeld'
  <2>1. listing # Tick /\ listing' # Tick
    BY <1>1
  <2>2. ending'.at \notin {"idle", "asked"} <=> listing' = Tick
    BY <1>1, <2>1 DEF MemosInv, ListingHeld
  <2>3. \A v \in MemoWriter : /\ Writing(v)' <=> listing' = v
                              /\ storing'[v].at \in StoringAt \cup {"idle", "done"}
    BY <1>1, <1>2, <1>4 DEF MemosInv, ListingHeld, Writing, StoringAt
  <2> QED BY <2>2, <2>3 DEF ListingHeld
<1>6. HeldIsListed'
  BY <1>1, <1>2, <1>4 DEF MemosInv, HeldIsListed, Held, Writing, StoringAt
<1>7. Numbered'
  <2>1. \A e \in Dir, k \in Leaf : memos[e][k] \in Number
    BY DEF MemosInv, MemosTypeOK
  <2> QED BY <1>1, <1>2, <1>4, <2>1 DEF MemosInv, Numbered, Writing, StoringAt
<1>8. SeenIsDropped'
  <2> SUFFICES ASSUME NEW m \in dropping.seen
               PROVE  /\ m[3] \in 1..numbered'
                      /\ \A v \in MemoWriter : Writing(v)' => storing'[v].number # m[3]
                      /\ MissedNow(m)' \/ StillDropped(m)'
    BY <1>1 DEF SeenIsDropped
  <2>1. m[3] \in 1..numbered /\ (MissedNow(m) \/ StillDropped(m))
    BY DEF MemosInv, SeenIsDropped
  <2>2. MissedNow(m)' \/ StillDropped(m)'
    BY <1>1, <2>1 DEF MissedNow, StillDropped
  <2> QED BY <1>1, <1>2, <1>4, <2>1, <2>2 DEF Writing
<1>9. \A e \in Dir, k \in Leaf : Untold(e, k) => Untold(e, k)'
  BY <1>1, <1>2 DEF Untold
<1>10. LeaseComes'
  BY <1>1, <1>9 DEF MemosInv, LeaseComes, Told, Leased, Overlaps, Ends
<1>11. ReplacedAll'
  <2> SUFFICES ASSUME NEW v \in MemoWriter, NEW k \in Within[storing'[v].leaf]
               PROVE  Replaced(v, k)'
    BY DEF ReplacedAll
  <2>1. CASE v = w
    BY <1>2, <2>1 DEF Replaced
  <2>2. CASE v # w
    <3>1. storing'[v] = storing[v] /\ storing[v].dir \in Dir /\ k \in Leaf
      BY <1>2, <2>2, WorkIs DEF MemosInv
    <3>2. Replaced(v, k)
      BY <3>1 DEF MemosInv, ReplacedAll
    <3> QED BY <1>1, <1>9, <3>1, <3>2, ReplacedStays
  <2> QED BY <2>1, <2>2
<1> QED BY <1>3, <1>5, <1>6, <1>7, <1>8, <1>10, <1>11 DEF MemosInv

LEMMA DropReplacedKeeps ==
    ASSUME MemosInv, NEW w \in MemoWriter, DropReplaced(w)
    PROVE  MemosInv'
<1> USE MemosConstants
<1> DEFINE d == storing[w].dir
           gone == Replaces(storing[w].dir, storing[w].leaf)
<1>1. /\ storing[w].at = "listed" /\ memos' = Less(memos, d, gone)
      /\ storing' = [storing EXCEPT ![w].at = "dropped", ![w].gone = gone]
      /\ UNCHANGED <<listed, listing, keys, hashed, numbered, messages, leases,
                     ending, dropping, crossed>>
  BY DEF DropReplaced
<1>2. /\ MemosTypeOK /\ memos \in [Dir -> [Leaf -> Number]] /\ d \in Dir
      /\ storing[w] \in Work /\ storing[w].leaf \in Leaf
  BY WorkIs DEF MemosInv, MemosTypeOK
<1>3. gone \subseteq Leaf /\ \A l \in Within[storing[w].leaf] : memos[d][l] # 0 => l \in gone
  BY <1>2, HeldIs DEF Replaces
<1>4. /\ memos' \in [Dir -> [Leaf -> Number]] /\ Fewer(memos', memos)
      /\ \A l \in Within[storing[w].leaf] : memos'[d][l] = 0
  <2>1. /\ memos' \in [Dir -> [Leaf -> Number]]
        /\ \A e \in Dir, l \in Leaf :
               memos'[e][l] = IF e = d /\ l \in gone THEN 0 ELSE memos[e][l]
    <3> HIDE DEF d, gone
    <3>1. memos' = Less(memos, d, gone)
      BY <1>1
    <3>2. /\ Less(memos, d, gone) \in [Dir -> [Leaf -> Number]]
          /\ \A e \in Dir, l \in Leaf :
                 Less(memos, d, gone)[e][l] = IF e = d /\ l \in gone THEN 0 ELSE memos[e][l]
      <4>1. memos \in [Dir -> [Leaf -> Number]] /\ d \in Dir
        BY <1>2
      <4> HIDE MemosConstants
      <4> QED BY <4>1, LessIs, SMTT(30)
    <3> QED BY <3>1, <3>2
  <2>2. Within[storing[w].leaf] \subseteq Leaf
    BY <1>2
  <2>3. \A l \in Within[storing[w].leaf] : memos'[d][l] = 0
    BY <1>2, <1>3, <2>1, <2>2
  <2> QED BY <2>1, <2>3 DEF Fewer
<1>5. /\ storing'[w] = [storing[w] EXCEPT !.at = "dropped", !.gone = gone]
      /\ \A v \in MemoWriter : v # w => storing'[v] = storing[v]
  BY <1>1, <1>2 DEF MemosTypeOK
<1>6. MemosTypeOK'
  <2>1. storing'[w] \in Work
    BY <1>2, <1>3, <1>5 DEF Work
  <2>2. storing' \in [MemoWriter -> Work]
    BY <1>1, <1>2, <1>5, <2>1 DEF MemosTypeOK
  <2> HIDE DEF d, gone
  <2> QED BY <1>1, <1>2, <1>4, <2>2 DEF MemosTypeOK
<1>7. /\ storing'[w].at = "dropped" /\ storing'[w].dir = d
      /\ storing'[w].leaf = storing[w].leaf /\ storing'[w].number = storing[w].number
  BY <1>2, <1>5 DEF Work
<1>8. Fewer(keys', keys) /\ \A e \in Dir : hashed'[e] \subseteq hashed[e]
  BY <1>1 DEF Fewer
<1>9. Writing(w)
  BY <1>1 DEF Writing, StoringAt
<1> QED BY <1>1, <1>4, <1>5, <1>6, <1>7, <1>8, <1>9, StorerKeeps

LEMMA ClearReplacedKeeps ==
    ASSUME MemosInv, NEW w \in MemoWriter, ClearReplaced(w)
    PROVE  MemosInv'
<1> USE MemosConstants
<1> DEFINE d == storing[w].dir
           gone == storing[w].gone
<1>1. /\ storing[w].at = "dropped" /\ keys' = Less(keys, d, gone)
      /\ hashed' = [hashed EXCEPT ![d] = @ \ gone]
      /\ storing' = [storing EXCEPT ![w].at = "cleared"]
      /\ UNCHANGED <<listed, listing, memos, numbered, messages, leases,
                     ending, dropping, crossed>>
  BY DEF ClearReplaced
<1>2. /\ MemosTypeOK /\ keys \in [Dir -> [Leaf -> Number]] /\ d \in Dir
      /\ storing[w] \in Work /\ storing[w].leaf \in Leaf
  BY WorkIs DEF MemosInv, MemosTypeOK
<1>3. /\ keys' \in [Dir -> [Leaf -> Number]] /\ Fewer(keys', keys) /\ Fewer(memos', memos)
      /\ hashed' \in [Dir -> SUBSET Leaf] /\ \A e \in Dir : hashed'[e] \subseteq hashed[e]
  <2>1. keys' \in [Dir -> [Leaf -> Number]] /\ Fewer(keys', keys) /\ Fewer(memos', memos)
    BY <1>1, <1>2, LessIs DEF Fewer
  <2> QED BY <1>1, <1>2, <2>1 DEF MemosTypeOK
<1>4. /\ storing'[w] = [storing[w] EXCEPT !.at = "cleared"]
      /\ \A v \in MemoWriter : v # w => storing'[v] = storing[v]
  BY <1>1, <1>2 DEF MemosTypeOK
<1>5. MemosTypeOK'
  BY <1>1, <1>2, <1>3, <1>4 DEF MemosTypeOK, Work
<1>6. /\ storing'[w].at = "cleared" /\ storing'[w].dir = d
      /\ storing'[w].leaf = storing[w].leaf /\ storing'[w].number = storing[w].number
  BY <1>2, <1>4 DEF Work
<1>7. \A l \in Within[storing[w].leaf] : memos'[d][l] = 0
  BY <1>1 DEF MemosInv, ReplacedAll, Replaced
<1>8. Writing(w)
  BY <1>1 DEF Writing, StoringAt
<1> QED BY <1>1, <1>3, <1>4, <1>5, <1>6, <1>7, <1>8, StorerKeeps

LEMMA StoreMemoKeeps ==
    ASSUME MemosInv, NEW w \in MemoWriter, StoreMemo(w)
    PROVE  MemosInv'
<1> USE MemosConstants
<1> DEFINE d == storing[w].dir
           l == storing[w].leaf
           n == storing[w].number
<1>1. /\ storing[w].at = "cleared" /\ memos' = [memos EXCEPT ![d][l] = n]
      /\ storing' = [storing EXCEPT ![w].at = "stored"]
      /\ UNCHANGED <<listed, listing, keys, hashed, numbered, messages, leases,
                     ending, dropping, crossed>>
  BY DEF StoreMemo
<1>2. /\ MemosTypeOK /\ memos \in [Dir -> [Leaf -> Number]]
      /\ storing[w] \in Work /\ d \in Dir /\ l \in Leaf /\ n \in Number
  BY WorkIs DEF MemosInv, MemosTypeOK
<1>3. /\ memos' \in [Dir -> [Leaf -> Number]]
      /\ \A e \in Dir, k \in Leaf :
             memos'[e][k] = IF e = d /\ k = l THEN n ELSE memos[e][k]
  <2> HIDE DEF d, l, n
  <2> QED BY <1>1, <1>2, StoredIs
<1>4. /\ storing'[w] = [storing[w] EXCEPT !.at = "stored"]
      /\ \A v \in MemoWriter : v # w => storing'[v] = storing[v]
  BY <1>1, <1>2 DEF MemosTypeOK
<1>5. MemosTypeOK'
  BY <1>1, <1>2, <1>3, <1>4 DEF MemosTypeOK, Work
<1>6. /\ storing'[w].at = "stored" /\ storing'[w].dir = d
      /\ storing'[w].leaf = l /\ storing'[w].number = n
  BY <1>2, <1>4 DEF Work
<1>7. /\ listing = w /\ \A v \in MemoWriter : Writing(v) <=> v = w
      /\ \A v \in MemoWriter : Writing(v)' <=> v = w
  <2>1. Writing(w) /\ Writing(w)'
    BY <1>1, <1>6 DEF Writing, StoringAt
  <2>2. listing = w
    BY <2>1 DEF MemosInv, ListingHeld
  <2> QED BY <1>4, <2>1, <2>2 DEF MemosInv, ListingHeld, Writing
<1>8. ListingHeld'
  BY <1>1, <1>4, <1>6, <1>7 DEF MemosInv, ListingHeld, Writing, StoringAt
<1>9. HeldIsListed'
  <2>1. d \in listed /\ ending.at # "empty"
    BY <1>7 DEF MemosInv, HeldIsListed, ListingHeld
  <2>2. \A e \in Dir : e # d => Held(e)' = Held(e)
    BY <1>3 DEF Held
  <2> QED BY <1>1, <1>6, <1>7, <2>1, <2>2 DEF MemosInv, HeldIsListed
<1>10. n \in 1..numbered /\ numbered \in Nat
  BY <1>1, <1>2 DEF MemosInv, Numbered, MemosTypeOK
<1>11. Numbered'
  <2>1. \A e \in Dir, k \in Leaf : memos'[e][k] <= numbered
    BY <1>3, <1>10 DEF MemosInv, Numbered
  <2>2. \A v \in MemoWriter : storing'[v].at # "idle" => storing'[v].number \in 1..numbered
    BY <1>4, <1>6, <1>10 DEF MemosInv, Numbered
  <2>3. \A v \in MemoWriter : storing'[v].at = "done" => storing'[v].number < n
    BY <1>4, <1>6, <1>7 DEF MemosInv, Numbered
  <2> QED BY <1>1, <1>6, <1>7, <2>1, <2>2, <2>3 DEF Numbered
<1>12. SeenIsDropped'
  <2> SUFFICES ASSUME NEW m \in dropping.seen
               PROVE  /\ m[3] \in 1..numbered /\ n # m[3]
                      /\ MissedNow(m)' \/ StillDropped(m)'
    BY <1>1, <1>6, <1>7 DEF SeenIsDropped
  <2>1. m[3] \in 1..numbered /\ n # m[3] /\ (MissedNow(m) \/ StillDropped(m))
    BY <1>7 DEF MemosInv, SeenIsDropped
  <2>2. m[1] \in Dir /\ m[2] \in Leaf
    BY <1>2 DEF MemosTypeOK, Drop
  <2>3. MissedNow(m) => MissedNow(m)'
    BY <1>1, <1>3, <2>1, <2>2 DEF MissedNow
  <2>4. StillDropped(m) => StillDropped(m)'
    BY <1>1 DEF StillDropped
  <2> QED BY <2>1, <2>3, <2>4
<1>13. \A e \in Dir, k \in Leaf : e = d /\ k = l => Untold(e, k)'
  BY <1>2, <1>3, <1>6 DEF Untold
<1>14. \A e \in Dir, k \in Leaf : memos'[e][k] = memos[e][k] /\ Untold(e, k) => Untold(e, k)'
  BY <1>1, <1>4 DEF Untold
<1>15. LeaseComes'
  <2> SUFFICES ASSUME NEW e \in Dir \ crossed, NEW k \in Leaf, memos'[e][k] # 0, ~Untold(e, k)'
               PROVE  Told(e, k)' \/ Leased(e, k)' \/ Ends(e, k)'
    BY <1>1 DEF LeaseComes
  <2>1. memos'[e][k] = memos[e][k]
    BY <1>3, <1>13
  <2>2. Told(e, k) \/ Leased(e, k) \/ Ends(e, k)
    BY <1>14, <2>1 DEF MemosInv, LeaseComes
  <2> QED BY <1>1, <2>1, <2>2 DEF Told, Leased, Ends, Overlaps
<1>16. ReplacedAll'
  <2> SUFFICES ASSUME NEW v \in MemoWriter, NEW k \in Within[storing'[v].leaf]
               PROVE  Replaced(v, k)'
    BY DEF ReplacedAll
  <2>1. CASE v = w
    <3>1. memos[d][k] = 0 /\ k \in Leaf
      BY <1>1, <1>2, <1>6, <2>1 DEF MemosInv, ReplacedAll, Replaced
    <3> QED BY <1>2, <1>3, <1>6, <2>1, <3>1 DEF Replaced
  <2>2. CASE v # w
    <3>1. storing'[v] = storing[v] /\ storing[v].dir \in Dir /\ k \in Leaf
      BY <1>2, <1>4, <2>2, WorkIs
    <3>2. Replaced(v, k) /\ storing[v].at \notin StoringAt
      BY <1>7, <2>2, <3>1 DEF MemosInv, ReplacedAll, Writing
    <3>3. CASE storing[v].dir = d /\ k = l
      <4>1. memos'[d][l] = n /\ (storing[v].at = "done" => n > storing[v].number)
        BY <1>2, <1>3, <1>7, <3>2 DEF MemosInv, Numbered
      <4>2. Untold(storing[v].dir, k)'
        BY <1>4, <1>13, <2>2, <3>1, <3>3 DEF Untold
      <4> QED BY <3>1, <3>2, <3>3, <4>1, <4>2 DEF Replaced, StoringAt
    <3>4. CASE ~(storing[v].dir = d /\ k = l)
      <4>1. memos'[storing[v].dir][k] = memos[storing[v].dir][k]
        BY <1>3, <3>1, <3>4
      <4> QED BY <1>1, <1>14, <3>1, <3>2, <4>1, ReplacedStays
    <3> QED BY <3>3, <3>4
  <2> QED BY <2>1, <2>2
<1> QED BY <1>5, <1>8, <1>9, <1>11, <1>12, <1>15, <1>16 DEF MemosInv

LEMMA StoreKeysKeeps ==
    ASSUME MemosInv, NEW w \in MemoWriter, StoreKeys(w)
    PROVE  MemosInv'
<1> USE MemosConstants
<1> DEFINE d == storing[w].dir
           l == storing[w].leaf
           n == storing[w].number
<1>1. /\ storing[w].at = "stored" /\ keys' = [keys EXCEPT ![d][l] = n]
      /\ hashed' = [hashed EXCEPT ![d] = @ \cup {l}] /\ listing' = Nobody
      /\ storing' = [storing EXCEPT ![w].at = "done"]
      /\ UNCHANGED <<listed, memos, numbered, messages, leases, ending,
                     dropping, crossed>>
  BY DEF StoreKeys
<1>2. /\ MemosTypeOK /\ keys \in [Dir -> [Leaf -> Number]]
      /\ storing[w] \in Work /\ d \in Dir /\ l \in Leaf /\ n \in Number
  BY WorkIs DEF MemosInv, MemosTypeOK
<1>3. /\ keys' \in [Dir -> [Leaf -> Number]]
      /\ \A e \in Dir, k \in Leaf :
             keys'[e][k] = IF e = d /\ k = l THEN n ELSE keys[e][k]
  <2> HIDE DEF d, l, n
  <2> QED BY <1>1, <1>2, StoredIs
<1>4. /\ storing'[w] = [storing[w] EXCEPT !.at = "done"]
      /\ \A v \in MemoWriter : v # w => storing'[v] = storing[v]
  BY <1>1, <1>2 DEF MemosTypeOK
<1>5. /\ hashed' \in [Dir -> SUBSET Leaf]
      /\ \A e \in Dir, k \in Leaf : k \in hashed'[e] => k \in hashed[e] \/ (e = d /\ k = l)
  BY <1>1, <1>2 DEF MemosTypeOK
<1>6. MemosTypeOK'
  BY <1>1, <1>2, <1>3, <1>4, <1>5 DEF MemosTypeOK, Work
<1>7. /\ storing'[w].at = "done" /\ storing'[w].dir = d
      /\ storing'[w].leaf = l /\ storing'[w].number = n
  BY <1>2, <1>4 DEF Work
<1>8. Writing(w) /\ listing = w
  <2>1. Writing(w)
    BY <1>1 DEF Writing, StoringAt
  <2> QED BY <2>1 DEF MemosInv, ListingHeld
<1>9. \A v \in MemoWriter : ~Writing(v)'
  BY <1>4, <1>7, <1>8 DEF MemosInv, ListingHeld, Writing, StoringAt
<1>10. ListingHeld'
  BY <1>1, <1>4, <1>7, <1>8, <1>9 DEF MemosInv, ListingHeld
<1>11. HeldIsListed'
  BY <1>1, <1>9 DEF MemosInv, HeldIsListed, Held
<1>12. Numbered'
  <2>1. \A v \in MemoWriter : storing'[v].at # "idle" => storing'[v].number \in 1..numbered
    BY <1>1, <1>4, <1>7 DEF MemosInv, Numbered
  <2> QED BY <1>1, <1>9, <2>1 DEF MemosInv, Numbered
<1>13. SeenIsDropped'
  <2> SUFFICES ASSUME NEW m \in dropping.seen
               PROVE  m[3] \in 1..numbered /\ (MissedNow(m)' \/ StillDropped(m)')
    BY <1>1, <1>9 DEF SeenIsDropped
  <2>1. m[3] \in 1..numbered /\ n # m[3] /\ (MissedNow(m) \/ StillDropped(m))
    BY <1>8 DEF MemosInv, SeenIsDropped
  <2>2. m[1] \in Dir /\ m[2] \in Leaf
    BY <1>2 DEF MemosTypeOK, Drop
  <2>3. MissedNow(m) => MissedNow(m)'
    BY <1>1, <1>3, <1>5, <2>1, <2>2 DEF MissedNow
  <2>4. StillDropped(m) => StillDropped(m)'
    BY <1>1 DEF StillDropped
  <2> QED BY <2>1, <2>3, <2>4
<1>14. \A e \in Dir, k \in Leaf : Untold(e, k) => Untold(e, k)'
  BY <1>1, <1>4, <1>7 DEF Untold
<1>15. LeaseComes'
  BY <1>1, <1>14, LeaseStays DEF Ends, Fewer
<1>16. ReplacedAll'
  <2> SUFFICES ASSUME NEW v \in MemoWriter, NEW k \in Within[storing'[v].leaf]
               PROVE  Replaced(v, k)'
    BY DEF ReplacedAll
  <2>1. CASE v = w
    <3>1. memos[d][k] = IF k = l THEN n ELSE 0
      <4>1. k \in Within[storing[w].leaf] /\ storing[w].at = "stored"
        BY <1>1, <1>7, <2>1
      <4> QED BY <4>1 DEF MemosInv, ReplacedAll, Replaced
    <3>2. memos'[storing'[w].dir][k] = IF k = l THEN n ELSE 0
      BY <1>1, <1>7, <3>1
    <3> HIDE DEF d, l, n
    <3> QED BY <1>7, <2>1, <3>2 DEF Replaced
  <2>2. CASE v # w
    <3>1. storing'[v] = storing[v] /\ storing[v].dir \in Dir /\ k \in Leaf
      BY <1>2, <1>4, <2>2, WorkIs
    <3>2. Replaced(v, k)
      BY <3>1 DEF MemosInv, ReplacedAll
    <3> QED BY <1>1, <1>14, <3>1, <3>2, ReplacedStays
  <2> QED BY <2>1, <2>2
<1> QED BY <1>6, <1>10, <1>11, <1>12, <1>13, <1>15, <1>16 DEF MemosInv

\* What holds of the writers through a step of another that stores nothing.
LEMMA WritersStay ==
    ASSUME MemosInv, UNCHANGED <<storing, numbered, crossed>>, Fewer(memos', memos),
           memos' = memos \/ listing = Tick
    PROVE  /\ Numbered' /\ ReplacedAll'
           /\ \A d \in Dir, l \in Leaf : memos'[d][l] # 0 /\ Untold(d, l) => Untold(d, l)'
<1>1. \A d \in Dir, l \in Leaf : memos'[d][l] # 0 /\ Untold(d, l) => Untold(d, l)'
  BY DEF Untold, Fewer
<1>2. Numbered'
  <2>1. ASSUME NEW d \in Dir, NEW l \in Leaf
        PROVE  memos'[d][l] <= numbered
    <3>1. numbered \in Nat /\ memos[d][l] <= numbered /\ memos'[d][l] \in {memos[d][l], 0}
      BY MemosConstants DEF MemosInv, Numbered, Fewer, MemosTypeOK
    <3> QED BY <3>1
  <2> QED BY <2>1 DEF MemosInv, Numbered, Writing
<1>3. ReplacedAll'
  <2> SUFFICES ASSUME NEW v \in MemoWriter, NEW k \in Within[storing[v].leaf]
               PROVE  Replaced(v, k)'
    BY DEF ReplacedAll
  <2>1. /\ storing[v].dir \in Dir /\ storing[v].leaf \in Leaf /\ k \in Leaf
        /\ Replaced(v, k)
    BY WorkIs, MemosConstants DEF MemosInv, ReplacedAll
  <2>2. storing[v].at = "stored" => memos' = memos
    BY MemosConstants DEF MemosInv, ListingHeld, Writing, StoringAt
  <2> QED BY <1>1, <2>1, <2>2, ReplacedStays DEF Fewer
<1> QED BY <1>1, <1>2, <1>3

\* The writer's message is the last, and none that it overlaps is of a memo that
\* is there, but of directories where two have crossed.
LEMMA SendMemoWrittenKeeps ==
    ASSUME MemosInv, NEW w \in MemoWriter, SendMemoWritten(w)
    PROVE  MemosInv'
<1> USE MemosConstants
<1> DEFINE d == storing[w].dir
           l == storing[w].leaf
           n == storing[w].number
           new == [dir |-> d, leaf |-> l, number |-> n]
<1>1. /\ storing[w].at = "done" /\ messages' = Append(messages, new)
      /\ crossed' = IF Overtakes(w) THEN crossed \cup {d} ELSE crossed
      /\ storing' = [storing EXCEPT ![w] = NoWork]
      /\ UNCHANGED <<listed, listing, memos, keys, hashed, numbered, leases, ending,
                     dropping>>
  BY DEF SendMemoWritten, memoParts
<1>2. /\ MemosTypeOK /\ d \in Dir /\ l \in Leaf /\ n \in Number
  BY WorkIs DEF MemosInv
<1>3. NoWork \in Work /\ NoWork.at = "idle"
  BY <1>2 DEF NoWork, Work
<1>4. /\ storing'[w] = NoWork
      /\ \A v \in MemoWriter : v # w => storing'[v] = storing[v]
  BY <1>1, <1>2 DEF MemosTypeOK
<1>5. /\ messages' \in Seq([dir : Dir, leaf : Leaf, number : Number])
      /\ Len(messages) \in Nat /\ Len(messages') = Len(messages) + 1
      /\ messages'[Len(messages) + 1] = new
      /\ \A i \in 1..Len(messages) : messages'[i] = messages[i]
  <2>1. new \in [dir : Dir, leaf : Leaf, number : Number]
    BY <1>2
  <2> HIDE DEF new
  <2> DEFINE Message == [dir : Dir, leaf : Leaf, number : Number]
  <2>2. messages \in Seq(Message)
    BY <1>2 DEF MemosTypeOK
  <2>3. new \in Message
    BY <2>1 DEF new
  <2> HIDE DEF Message
  <2>4. /\ messages' \in Seq(Message)
        /\ Len(messages) \in Nat /\ Len(messages') = Len(messages) + 1
        /\ messages'[Len(messages) + 1] = new
        /\ \A i \in 1..Len(messages) : messages'[i] = messages[i]
    BY <1>1, <2>2, <2>3, OneMore
  <2> QED BY <2>4 DEF Message
<1>6. MemosTypeOK'
  BY <1>1, <1>2, <1>3, <1>4, <1>5 DEF MemosTypeOK
<1>7. \A v \in MemoWriter : Writing(v)' <=> Writing(v)
  BY <1>1, <1>3, <1>4 DEF Writing, StoringAt
<1>8. ListingHeld'
  BY <1>1, <1>3, <1>4, <1>7 DEF MemosInv, ListingHeld
<1>9. HeldIsListed'
  <2>1. \A v \in MemoWriter : Writing(v)' => Writing(v) /\ storing'[v].dir = storing[v].dir
    BY <1>1, <1>4, <1>7 DEF Writing, StoringAt
  <2> QED BY <1>1, <2>1 DEF MemosInv, HeldIsListed, Held
<1>10. Numbered'
  <2>1. \A v \in MemoWriter : storing'[v].at # "idle" => storing'[v] = storing[v]
    BY <1>3, <1>4
  <2> QED BY <1>1, <1>3, <1>4, <1>7, <2>1 DEF MemosInv, Numbered, Writing, StoringAt
<1>11. SeenIsDropped'
  <2>1. \A v \in MemoWriter :
            Writing(v)' => Writing(v) /\ storing'[v].number = storing[v].number
    BY <1>1, <1>4, <1>7 DEF Writing, StoringAt
  <2> QED BY <1>1, <2>1, SeenStays DEF Fewer
<1>12. \A e \in Dir, k \in Leaf :
           Untold(e, k) => Untold(e, k)' \/ (e = d /\ k = l /\ memos[e][k] = n)
  BY <1>1, <1>4 DEF Untold
<1>13. LeaseComes'
  <2> SUFFICES ASSUME NEW e \in Dir \ crossed', NEW k \in Leaf, memos[e][k] # 0, ~Untold(e, k)'
               PROVE  Told(e, k)' \/ Leased(e, k)' \/ Ends(e, k)'
    BY <1>1 DEF LeaseComes
  <2>1. Untold(e, k) \/ Told(e, k) \/ Leased(e, k) \/ Ends(e, k)
    BY <1>1 DEF MemosInv, LeaseComes
  <2>2. CASE Untold(e, k)
    <3>1. messages'[Len(messages) + 1] = [dir |-> e, leaf |-> k, number |-> memos'[e][k]]
      BY <1>1, <1>5, <1>12, <2>2
    <3> QED BY <1>5, <3>1 DEF Told
  <2>3. CASE Ends(e, k)
    BY <1>1, <2>3 DEF Ends
  <2>4. CASE ~Untold(e, k) /\ (Told(e, k) \/ Leased(e, k))
    <3>1. ~(e = d /\ l \in Within[k])
      <4> SUFFICES ASSUME e = d, l \in Within[k] PROVE FALSE
        OBVIOUS
      <4>1. k \in Within[l] /\ Replaced(w, k)
        BY <1>2 DEF MemosInv, ReplacedAll
      <4>2. \/ k = l /\ memos[d][k] = n
            \/ Untold(d, k) \/ d \in crossed
        BY <1>1, <4>1 DEF Replaced
      <4>3. Untold(d, k)
        <5>1. d \notin crossed
          BY <1>1
        <5>2. CASE k = l /\ memos[d][k] = n
          BY <1>1, <5>2 DEF Untold
        <5> QED BY <4>2, <5>1, <5>2
      <4> QED BY <2>4, <4>3
    <3>2. \A j \in 1..Len(messages') :
              Overlaps(j, e, k)' => j \in 1..Len(messages) /\ Overlaps(j, e, k)
      <4> SUFFICES ASSUME NEW j \in 1..Len(messages'), Overlaps(j, e, k)'
                   PROVE  j \in 1..Len(messages) /\ Overlaps(j, e, k)
        OBVIOUS
      <4>1. j # Len(messages) + 1
        BY <1>5, <3>1 DEF Overlaps
      <4>2. j \in 1..Len(messages) /\ messages'[j] = messages[j]
        BY <1>5, <4>1
      <4> QED BY <4>2 DEF Overlaps
    <3>5. CASE Told(e, k)
      <4>1. PICK i \in 1..Len(messages) :
                /\ messages[i] = [dir |-> e, leaf |-> k, number |-> memos[e][k]]
                /\ \A j \in 1..Len(messages) : j > i => ~Overlaps(j, e, k)
        BY <3>5 DEF Told
      <4>2. i \in 1..Len(messages') /\ messages'[i] = messages[i]
        BY <1>5
      <4>3. \A j \in 1..Len(messages') : j > i => ~Overlaps(j, e, k)'
        BY <3>2, <4>1
      <4> QED BY <1>1, <4>1, <4>2, <4>3 DEF Told
    <3>6. CASE Leased(e, k)
      <4>1. \A j \in 1..Len(messages') : ~Overlaps(j, e, k)'
        BY <3>2, <3>6 DEF Leased
      <4> QED BY <1>1, <3>6, <4>1 DEF Leased
    <3> QED BY <2>4, <3>5, <3>6
  <2> QED BY <2>1, <2>2, <2>3, <2>4
<1>14. ReplacedAll'
  <2> SUFFICES ASSUME NEW v \in MemoWriter, v # w, NEW k \in Within[storing[v].leaf]
               PROVE  Replaced(v, k)'
    BY <1>3, <1>4 DEF ReplacedAll, Replaced
  <2>1. /\ storing'[v] = storing[v] /\ storing[v].dir \in Dir
        /\ storing[v].leaf \in Leaf /\ k \in Leaf
    BY <1>2, <1>4, WorkIs
  <2>2. Replaced(v, k)
    BY DEF MemosInv, ReplacedAll
  <2>3. CASE /\ storing[v].at = "done" /\ memos[storing[v].dir][k] > storing[v].number
             /\ storing[v].dir = d /\ k = l /\ memos[storing[v].dir][k] = n
    <3>1. Overtakes(w)
      BY <2>1, <2>3 DEF Overtakes
    <3> QED BY <1>1, <2>1, <2>2, <2>3, <3>1 DEF Replaced
  <2>4. CASE ~(/\ storing[v].at = "done" /\ memos[storing[v].dir][k] > storing[v].number
               /\ storing[v].dir = d /\ k = l /\ memos[storing[v].dir][k] = n)
    <3>1. Untold(storing[v].dir, k) =>
              \/ \E x \in MemoWriter :
                     /\ storing'[x].at \in {"stored", "done"} /\ storing'[x].dir = storing[v].dir
                     /\ storing'[x].leaf = k /\ storing'[x].number = memos[storing[v].dir][k]
              \/ storing[v].dir = d /\ k = l /\ memos[storing[v].dir][k] = n
      BY <1>1, <1>4 DEF Untold
    <3>2. Untold(storing[v].dir, k) =>
              Untold(storing[v].dir, k)' \/ (storing[v].dir = d /\ k = l /\ memos[storing[v].dir][k] = n)
      BY <1>1, <2>1, <3>1 DEF Untold
    <3> QED BY <1>1, <2>1, <2>2, <2>4, <3>2 DEF Replaced
  <2> QED BY <2>3, <2>4
<1> QED BY <1>6, <1>8, <1>9, <1>10, <1>11, <1>13, <1>14 DEF MemosInv

\* A lease is that of the last message of those that overlap.
LEMMA TakeWrittenKeeps ==
    ASSUME MemosInv, TakeWritten
    PROVE  MemosInv'
<1> USE MemosConstants
<1> DEFINE new == Head(messages)
<1>1. /\ ending.at = "idle" /\ messages # <<>> /\ messages' = Tail(messages)
      /\ leases' = [Less(leases, new.dir, Within[new.leaf])
                        EXCEPT ![new.dir][new.leaf] = new.number]
      /\ UNCHANGED <<listed, listing, memos, keys, hashed, numbered, storing, ending,
                     dropping, crossed>>
  BY DEF TakeWritten, memoParts
<1>2. MemosTypeOK
  BY DEF MemosInv
<1>3. /\ new \in [dir : Dir, leaf : Leaf, number : Number] /\ new = messages[1]
      /\ messages' \in Seq([dir : Dir, leaf : Leaf, number : Number])
      /\ Len(messages) \in Nat \ {0} /\ Len(messages') = Len(messages) - 1
      /\ \A i \in 1..Len(messages') : messages'[i] = messages[i + 1] /\ i + 1 \in 1..Len(messages)
  <2>1. messages \in Seq([dir : Dir, leaf : Leaf, number : Number])
    BY <1>2 DEF MemosTypeOK
  <2> QED BY <1>1, <2>1, RestOf
<1>4. new.dir \in Dir /\ new.leaf \in Leaf /\ new.number \in Number
  BY <1>3
<1>5. /\ leases' \in [Dir -> [Leaf -> Number]]
      /\ \A e \in Dir, k \in Leaf :
             leases'[e][k] = IF e = new.dir /\ k = new.leaf THEN new.number
                             ELSE IF e = new.dir /\ k \in Within[new.leaf] THEN 0
                             ELSE leases[e][k]
  <2> DEFINE less == Less(leases, new.dir, Within[new.leaf])
  <2>1. leases \in [Dir -> [Leaf -> Number]]
    BY <1>2 DEF MemosTypeOK
  <2>2. /\ less \in [Dir -> [Leaf -> Number]]
        /\ \A e \in Dir, k \in Leaf :
               less[e][k] = IF e = new.dir /\ k \in Within[new.leaf] THEN 0 ELSE leases[e][k]
    <3> HIDE DEF new
    <3> QED BY <1>4, <2>1, LessIs
  <2>3. leases' = [less EXCEPT ![new.dir][new.leaf] = new.number]
    BY <1>1
  <2>4. /\ leases' \in [Dir -> [Leaf -> Number]]
        /\ \A e \in Dir, k \in Leaf :
               leases'[e][k] = IF e = new.dir /\ k = new.leaf THEN new.number ELSE less[e][k]
    <3> HIDE DEF new, less
    <3> QED BY <1>4, <2>2, <2>3, StoredIs
  <2> HIDE DEF new, less
  <2> QED BY <1>4, <2>2, <2>4
<1>6. MemosTypeOK'
  BY <1>1, <1>2, <1>3, <1>5 DEF MemosTypeOK
<1>7. ListingHeld' /\ HeldIsListed'
  BY <1>1 DEF MemosInv, ListingHeld, HeldIsListed, Held, Writing
<1>8. /\ Numbered' /\ ReplacedAll'
      /\ \A d \in Dir, l \in Leaf : memos'[d][l] # 0 /\ Untold(d, l) => Untold(d, l)'
  BY <1>1, WritersStay DEF Fewer
<1>9. SeenIsDropped'
  BY <1>1, SeenStays DEF Fewer, Writing
<1>10. LeaseComes'
  <2> SUFFICES ASSUME NEW e \in Dir \ crossed, NEW k \in Leaf, memos[e][k] # 0, ~Untold(e, k)'
               PROVE  Told(e, k)' \/ Leased(e, k)'
    BY <1>1 DEF LeaseComes
  <2>1. Told(e, k) \/ Leased(e, k)
    BY <1>1, <1>8 DEF MemosInv, LeaseComes, Ends
  <2>2. \A j \in 1..Len(messages') : Overlaps(j, e, k)' => Overlaps(j + 1, e, k)
    BY <1>3 DEF Overlaps
  <2>3. CASE Told(e, k)
    <3>1. PICK i \in 1..Len(messages) :
              /\ messages[i] = [dir |-> e, leaf |-> k, number |-> memos[e][k]]
              /\ \A j \in 1..Len(messages) : j > i => ~Overlaps(j, e, k)
      BY <2>3 DEF Told
    <3>2. CASE i = 1
      <4>1. \A j \in 1..Len(messages') : ~Overlaps(j, e, k)'
        <5> SUFFICES ASSUME NEW j \in 1..Len(messages') PROVE ~Overlaps(j, e, k)'
          OBVIOUS
        <5>1. j + 1 \in 1..Len(messages) /\ j + 1 > 1
          BY <1>3
        <5> QED BY <2>2, <3>1, <3>2, <5>1
      <4>2. leases'[e][k] = memos[e][k]
        <5>1. new.dir = e /\ new.leaf = k /\ new.number = memos[e][k]
          BY <1>3, <3>1, <3>2
        <5> HIDE DEF new
        <5> QED BY <1>5, <5>1
      <4> QED BY <1>1, <4>1, <4>2 DEF Leased
    <3>3. CASE i # 1
      <4>1. i - 1 \in 1..Len(messages') /\ messages'[i - 1] = messages[i]
        BY <1>3, <3>3
      <4>2. \A j \in 1..Len(messages') : j > i - 1 => ~Overlaps(j, e, k)'
        <5> SUFFICES ASSUME NEW j \in 1..Len(messages'), j > i - 1 PROVE ~Overlaps(j, e, k)'
          OBVIOUS
        <5>1. j + 1 \in 1..Len(messages) /\ j + 1 > i
          BY <1>3
        <5> QED BY <2>2, <3>1, <5>1
      <4> QED BY <1>1, <3>1, <4>1, <4>2 DEF Told
    <3> QED BY <3>2, <3>3
  <2>4. CASE Leased(e, k)
    <3>1. ~Overlaps(1, e, k) /\ \A j \in 1..Len(messages') : ~Overlaps(j, e, k)'
      <4>1. 1 \in 1..Len(messages) /\ \A j \in 1..Len(messages') : j + 1 \in 1..Len(messages)
        BY <1>3
      <4> QED BY <2>2, <2>4, <4>1 DEF Leased
    <3>2. ~(e = new.dir /\ k \in Within[new.leaf])
      BY <1>3, <1>4, <3>1 DEF Overlaps
    <3>3. leases'[e][k] = leases[e][k]
      BY <1>4, <1>5, <3>2
    <3> QED BY <1>1, <2>4, <3>1, <3>3 DEF Leased
  <2> QED BY <2>1, <2>3, <2>4
<1> QED BY <1>6, <1>7, <1>8, <1>9, <1>10 DEF MemosInv

LEMMA FireMemoKeeps ==
    ASSUME MemosInv, NEW d \in Dir, NEW l \in Leaf, FireMemo(d, l)
    PROVE  MemosInv'
<1>1. /\ hashed' = [hashed EXCEPT ![d] = @ \ {l}]
      /\ UNCHANGED <<listed, listing, memos, keys, numbered, storing, messages,
                     leases, ending, dropping, crossed>>
  BY DEF FireMemo
<1>2. hashed' \in [Dir -> SUBSET Leaf] /\ \A e \in Dir : hashed'[e] \subseteq hashed[e]
  BY <1>1 DEF MemosInv, MemosTypeOK
<1>3. MemosTypeOK'
  BY <1>1, <1>2 DEF MemosInv, MemosTypeOK
<1>4. ListingHeld' /\ HeldIsListed'
  BY <1>1 DEF MemosInv, ListingHeld, HeldIsListed, Held, Writing
<1>5. /\ Numbered' /\ ReplacedAll'
      /\ \A e \in Dir, k \in Leaf : memos'[e][k] # 0 /\ Untold(e, k) => Untold(e, k)'
  BY <1>1, WritersStay DEF Fewer
<1>6. SeenIsDropped'
  BY <1>1, <1>2, SeenStays DEF Fewer, Writing
<1>7. LeaseComes'
  BY <1>1, <1>5, LeaseStays DEF Fewer, Ends
<1> QED BY <1>3, <1>4, <1>5, <1>6, <1>7 DEF MemosInv

LEMMA EndLeaseKeeps ==
    ASSUME MemosInv, NEW d \in Dir, NEW l \in Leaf, EndLease(d, l)
    PROVE  MemosInv'
<1> USE MemosConstants
<1>1. /\ ending.at = "idle" /\ leases' = [leases EXCEPT ![d][l] = 0]
      /\ ending' = [NoWork EXCEPT !.at = "asked", !.dir = d, !.leaf = l]
      /\ UNCHANGED <<listed, listing, memos, keys, hashed, numbered, storing, messages,
                     dropping, crossed>>
  BY DEF EndLease, memoParts
<1>2. /\ leases' \in [Dir -> [Leaf -> Number]]
      /\ \A e \in Dir, k \in Leaf :
             leases'[e][k] = IF e = d /\ k = l THEN 0 ELSE leases[e][k]
  <2>1. leases \in [Dir -> [Leaf -> Number]]
    BY DEF MemosInv, MemosTypeOK
  <2> QED BY <1>1, <2>1, StoredIs
<1>3. ending' \in Work /\ ending'.at = "asked" /\ ending'.dir = d /\ ending'.leaf = l
  BY <1>1 DEF NoWork, Work
<1>4. MemosTypeOK'
  BY <1>1, <1>2, <1>3 DEF MemosInv, MemosTypeOK
<1>5. ListingHeld' /\ HeldIsListed'
  BY <1>1, <1>3 DEF MemosInv, ListingHeld, HeldIsListed, Held, Writing
<1>6. /\ Numbered' /\ ReplacedAll'
      /\ \A e \in Dir, k \in Leaf : memos'[e][k] # 0 /\ Untold(e, k) => Untold(e, k)'
  BY <1>1, WritersStay DEF Fewer
<1>7. SeenIsDropped'
  BY <1>1, SeenStays DEF Fewer, Writing
<1>8. LeaseComes'
  <2> SUFFICES ASSUME NEW e \in Dir \ crossed, NEW k \in Leaf, memos[e][k] # 0, ~Ends(e, k)'
               PROVE  Untold(e, k)' \/ Told(e, k)' \/ Leased(e, k)'
    BY <1>1 DEF LeaseComes
  <2>1. Untold(e, k) \/ Told(e, k) \/ Leased(e, k)
    BY <1>1 DEF MemosInv, LeaseComes, Ends
  <2>2. leases'[e][k] = leases[e][k]
    BY <1>2, <1>3 DEF Ends
  <2> QED BY <1>1, <1>6, <2>1, <2>2 DEF Told, Leased, Overlaps
<1> QED BY <1>4, <1>5, <1>6, <1>7, <1>8 DEF MemosInv

\* The tick that evicts has the listing, so nobody stores while it looks.
LEMMA EvictMemoKeeps ==
    ASSUME MemosInv, EvictMemo
    PROVE  MemosInv'
<1> USE MemosConstants
<1> DEFINE d == ending.dir
<1>1. /\ UNCHANGED <<numbered, storing, messages, leases, dropping, crossed>>
      /\ MemosTypeOK /\ ending \in Work /\ d \in Dir /\ ending.leaf \in Leaf
      /\ ending.gone \in SUBSET Leaf
  BY DEF EvictMemo, MemosInv, MemosTypeOK, Work
<1>2. NoWork \in Work /\ NoWork.at = "idle"
  BY <1>1 DEF NoWork, Work
<1>3. /\ Fewer(memos', memos) /\ Fewer(keys', keys)
      /\ memos' \in [Dir -> [Leaf -> Number]] /\ keys' \in [Dir -> [Leaf -> Number]]
      /\ hashed' \in [Dir -> SUBSET Leaf]
      /\ \A e \in Dir : hashed'[e] \subseteq hashed[e]
      /\ memos' = memos \/ listing = Tick
      /\ ending.at = "listed" => memos'[d][ending.leaf] = 0
  <2>1. /\ memos \in [Dir -> [Leaf -> Number]] /\ keys \in [Dir -> [Leaf -> Number]]
        /\ hashed \in [Dir -> SUBSET Leaf]
    BY <1>1 DEF MemosTypeOK
  <2>2. CASE ending.at = "listed"
    <3> DEFINE gone == Held(ending.dir) \cap {ending.leaf}
    <3>1. memos' = Less(memos, d, gone) /\ keys' = keys /\ hashed' = hashed
      BY <2>2 DEF EvictMemo
    <3>2. memos[d][ending.leaf] # 0 => ending.leaf \in gone
      BY <1>1 DEF Held
    <3>3. /\ memos' \in [Dir -> [Leaf -> Number]]
          /\ \A e \in Dir, k \in Leaf :
                 memos'[e][k] = IF e = d /\ k \in gone THEN 0 ELSE memos[e][k]
      <4>1. memos \in [Dir -> [Leaf -> Number]] /\ d \in Dir /\ memos' = Less(memos, d, gone)
        BY <1>1, <2>1, <3>1
      <4> HIDE DEF d, gone
      <4> QED BY <4>1, LessIs
    <3>4. listing = Tick
      BY <2>2 DEF MemosInv, ListingHeld
    <3> HIDE DEF d, gone
    <3> QED BY <1>1, <2>1, <3>1, <3>2, <3>3, <3>4 DEF Fewer
  <2>3. CASE ending.at = "dropped"
    <3>1. /\ memos' = memos /\ keys' = Less(keys, d, ending.gone)
          /\ hashed' = [hashed EXCEPT ![d] = @ \ ending.gone]
      BY <2>3 DEF EvictMemo
    <3>2. /\ keys' \in [Dir -> [Leaf -> Number]]
          /\ \A e \in Dir, k \in Leaf :
                 keys'[e][k] = IF e = d /\ k \in ending.gone THEN 0 ELSE keys[e][k]
      <4>1. keys \in [Dir -> [Leaf -> Number]] /\ d \in Dir /\ keys' = Less(keys, d, ending.gone)
        BY <1>1, <2>1, <3>1
      <4> HIDE DEF d
      <4> QED BY <4>1, LessIs
    <3> QED BY <1>1, <2>1, <2>3, <3>1, <3>2 DEF Fewer
  <2>4. CASE ending.at \notin {"listed", "dropped"}
    <3>1. UNCHANGED <<memos, keys, hashed>>
      BY <2>4 DEF EvictMemo, memoParts
    <3> QED BY <2>1, <2>4, <3>1 DEF Fewer
  <2> QED BY <2>2, <2>3, <2>4
<1>4. MemosTypeOK' /\ ListingHeld' /\ HeldIsListed'
  <2>1. \A e \in Dir : Held(e)' \subseteq Held(e)
    BY <1>3 DEF Held, Fewer
  <2>2. \A v \in MemoWriter : listing = Tick => ~Writing(v)
    BY DEF MemosInv, ListingHeld
  <2>3. CASE ending.at = "asked"
    <3>1. /\ listing = Nobody /\ listing' = Tick /\ listed' = listed
          /\ ending' = [ending EXCEPT !.at = "listed"]
      BY <2>3 DEF EvictMemo, HoldListing
    <3>2. ending' \in Work /\ ending'.at = "listed"
      BY <1>1, <3>1 DEF Work
    <3> QED BY <1>1, <1>3, <2>1, <3>1, <3>2 DEF MemosInv, MemosTypeOK, ListingHeld, HeldIsListed, Writing
  <2>4. CASE ending.at \in {"listed", "dropped", "cleared"}
    <3>1. /\ listing' = listing /\ listed' = listed /\ listing = Tick
          /\ \/ \E gone \in SUBSET Leaf : ending' = [ending EXCEPT !.at = "dropped", !.gone = gone]
             \/ ending' = [ending EXCEPT !.at = "cleared"]
             \/ /\ ending' = [ending EXCEPT !.at = IF Held(ending.dir) = {}
                                                     THEN "empty" ELSE "keeps"]
                /\ memos' = memos
      BY <1>1, <2>4, HeldIs DEF EvictMemo, memoParts, MemosInv, ListingHeld
    <3>2. ending' \in Work /\ ending'.at \in {"dropped", "cleared", "empty", "keeps"}
      BY <1>1, <3>1 DEF Work
    <3>3. ending'.at = "empty" => Held(ending.dir) = {} /\ ending'.dir = ending.dir /\ memos' = memos
      BY <1>1, <3>1 DEF Work
    <3>4. ending'.at = "empty" => Held(ending.dir)' = {}
      BY <3>3 DEF Held
    <3>5. MemosTypeOK'
      BY <1>1, <1>3, <3>1, <3>2 DEF MemosTypeOK
    <3>6. ListingHeld'
      BY <1>1, <2>2, <3>1, <3>2 DEF MemosInv, ListingHeld, Writing
    <3>7. HeldIsListed'
      BY <1>1, <2>1, <2>2, <3>1, <3>4 DEF MemosInv, HeldIsListed, Writing
    <3> QED BY <3>5, <3>6, <3>7
  <2>5. CASE ending.at \in {"empty", "keeps"}
    <3>1. /\ listing = Tick /\ listing' = Nobody /\ ending' = NoWork /\ memos' = memos
          /\ listed' = IF ending.at = "empty" THEN listed \ {d} ELSE listed
      BY <2>5 DEF EvictMemo, MemosInv, ListingHeld
    <3>2. MemosTypeOK'
      BY <1>1, <1>2, <1>3, <3>1 DEF MemosTypeOK
    <3>3. ListingHeld'
      BY <1>1, <1>2, <2>2, <3>1 DEF MemosInv, ListingHeld, Writing
    <3>4. HeldIsListed'
      BY <1>1, <1>2, <2>2, <3>1 DEF MemosInv, HeldIsListed, Writing, Held
    <3> QED BY <3>2, <3>3, <3>4
  <2> QED BY <2>3, <2>4, <2>5 DEF EvictMemo
<1>5. /\ Numbered' /\ ReplacedAll'
      /\ \A e \in Dir, k \in Leaf : memos'[e][k] # 0 /\ Untold(e, k) => Untold(e, k)'
  BY <1>1, <1>3, WritersStay
<1>6. SeenIsDropped'
  BY <1>1, <1>3, SeenStays DEF Writing
<1>7. LeaseComes'
  <2>1. ASSUME NEW e \in Dir, NEW k \in Leaf, memos'[e][k] # 0, Ends(e, k)
        PROVE  Ends(e, k)'
    <3>1. ending.at = "asked"
      BY <1>3, <2>1 DEF Ends
    <3>2. ending' = [ending EXCEPT !.at = "listed"]
      BY <3>1 DEF EvictMemo
    <3> QED BY <1>1, <2>1, <3>2 DEF Ends, Work
  <2> QED BY <1>1, <1>3, <1>5, <2>1, LeaseStays
<1> QED BY <1>4, <1>5, <1>6, <1>7 DEF MemosInv

\* What a step of an invalidation keeps, but for what it has still to do.
LEMMA DropKeeps ==
    ASSUME MemosInv, dropping' \in Drop, hashed' \in [Dir -> SUBSET Leaf],
           \A d \in Dir : hashed'[d] \subseteq hashed[d],
           UNCHANGED <<listed, listing, memos, keys, numbered, storing, messages,
                       leases, ending, crossed>>,
           SeenIsDropped'
    PROVE  MemosInv'
<1>1. MemosTypeOK'
  BY DEF MemosInv, MemosTypeOK
<1>2. ListingHeld' /\ HeldIsListed'
  BY DEF MemosInv, ListingHeld, HeldIsListed, Held, Writing
<1>3. /\ Numbered' /\ ReplacedAll'
      /\ \A e \in Dir, k \in Leaf : memos'[e][k] # 0 /\ Untold(e, k) => Untold(e, k)'
  BY WritersStay DEF Fewer
<1>4. LeaseComes'
  BY <1>3, LeaseStays DEF Fewer, Ends
<1> QED BY <1>1, <1>2, <1>3, <1>4 DEF MemosInv

\* What is there with its hash is of a listed directory, and no writer is under
\* way whose memo it is.
LEMMA BeginDropKeeps ==
    ASSUME MemosInv, NEW node \in Leaf, BeginDrop(node)
    PROVE  MemosInv'
<1> USE MemosConstants
<1> DEFINE noted == {m \in Dir \X Within[node] \X (Number \ {0}) :
                        memos[m[1]][m[2]] = m[3] /\ m[2] \in hashed[m[1]]}
<1>1. /\ listing = Nobody
      /\ dropping' = [NoDrop EXCEPT !.at = "drops", !.node = node, !.dirs = listed,
                                    !.seen = noted]
      /\ UNCHANGED <<listed, listing, memos, keys, hashed, numbered, storing, messages,
                     leases, ending, crossed>>
  BY DEF BeginDrop, memoParts
<1>2. /\ noted \subseteq Dir \X Leaf \X Number
      /\ listed \subseteq Dir /\ hashed \in [Dir -> SUBSET Leaf]
      /\ memos \in [Dir -> [Leaf -> Number]]
  BY DEF MemosInv, MemosTypeOK
<1>3. /\ dropping' \in Drop /\ dropping'.at = "drops" /\ dropping'.node = node
      /\ dropping'.dirs = listed /\ dropping'.seen = noted
  <2>1. NoWork.dir \in Dir /\ NoWork.leaf \in Leaf
    <3>1. dropping.dir \in Dir
      BY DEF MemosInv, MemosTypeOK, Drop
    <3> QED BY <3>1 DEF NoWork
  <2> HIDE DEF noted
  <2>2. dropping' = [at |-> "drops", dirs |-> listed, dir |-> NoWork.dir, node |-> node,
                     leaves |-> {}, seen |-> noted]
    BY <1>1 DEF NoDrop
  <2> QED BY <1>2, <2>1, <2>2 DEF Drop
<1>4. \A v \in MemoWriter : ~Writing(v)
  BY <1>1 DEF MemosInv, ListingHeld
<1>5. SeenIsDropped'
  <2> SUFFICES ASSUME NEW m \in noted
               PROVE  m[3] \in 1..numbered /\ StillDropped(m)'
    BY <1>1, <1>3, <1>4 DEF SeenIsDropped, Writing
  <2>1. /\ m[1] \in Dir /\ m[2] \in Within[node] /\ m[2] \in Leaf
        /\ m[3] \in Number /\ m[3] # 0 /\ memos[m[1]][m[2]] = m[3]
    OBVIOUS
  <2>2. m[3] \in 1..numbered
    <3>1. memos[m[1]][m[2]] <= numbered /\ numbered \in Nat
      BY <2>1 DEF MemosInv, Numbered, MemosTypeOK
    <3> QED BY <2>1, <3>1
  <2>3. m[1] \in listed
    BY <2>1 DEF MemosInv, HeldIsListed, Held
  <2> HIDE DEF noted
  <2> QED BY <1>3, <2>1, <2>2, <2>3 DEF StillDropped
<1> HIDE DEF noted
<1> QED BY <1>1, <1>3, <1>5, DropKeeps DEF MemosInv, MemosTypeOK

\* What an invalidation saw, through a step of it.
LEMMA SeenOf ==
    ASSUME MemosInv, NEW m \in dropping.seen
    PROVE  /\ m[1] \in Dir /\ m[2] \in Leaf /\ m[3] \in 1..numbered /\ m[3] # 0
           /\ MissedNow(m) \/ StillDropped(m)
           /\ \A w \in MemoWriter : Writing(w) => storing[w].number # m[3]
<1>1. m[3] \in 1..numbered /\ numbered \in Nat
  BY MemosConstants DEF MemosInv, SeenIsDropped, MemosTypeOK
<1> QED BY <1>1 DEF MemosInv, SeenIsDropped, MemosTypeOK, Drop

LEMMA LookInDirKeeps ==
    ASSUME MemosInv, NEW d \in Dir, LookInDir(d)
    PROVE  MemosInv'
<1> USE MemosConstants
<1> DEFINE there == Held(d) \cap Within[dropping.node]
<1>1. /\ dropping.at = "drops" /\ dropping.leaves = {} /\ d \in dropping.dirs
      /\ dropping' = [dropping EXCEPT !.dirs = @ \ {d}, !.dir = d, !.leaves = there]
      /\ UNCHANGED <<listed, listing, memos, keys, hashed, numbered, storing, messages,
                     leases, ending, crossed>>
  BY DEF LookInDir, memoParts
<1>2. dropping \in Drop /\ there \in SUBSET Leaf
  BY HeldIs DEF MemosInv, MemosTypeOK
<1>3. /\ dropping' \in Drop /\ dropping'.at = "drops" /\ dropping'.node = dropping.node
      /\ dropping'.dirs = dropping.dirs \ {d} /\ dropping'.dir = d
      /\ dropping'.leaves = there /\ dropping'.seen = dropping.seen
  <2> HIDE DEF there
  <2> QED BY <1>1, <1>2 DEF Drop
<1>4. SeenIsDropped'
  <2> SUFFICES ASSUME NEW m \in dropping.seen
               PROVE  MissedNow(m) \/ StillDropped(m)'
    <3>1. \A m : MissedNow(m)' <=> MissedNow(m)
      BY <1>1 DEF MissedNow
    <3> QED BY <1>1, <1>3, <3>1, SeenOf DEF SeenIsDropped, Writing
  <2>1. SUFFICES ASSUME ~MissedNow(m) PROVE StillDropped(m)'
    OBVIOUS
  <2>2. /\ m[2] \in Within[dropping.node] /\ m[1] \in dropping.dirs /\ m[2] \in Leaf
        /\ memos[m[1]][m[2]] # 0
    BY <1>1, <2>1, SeenOf DEF StillDropped, MissedNow
  <2>3. m[1] = d => m[2] \in there
    BY <2>2 DEF Held
  <2> HIDE DEF there
  <2> QED BY <1>3, <2>2, <2>3 DEF StillDropped
<1> HIDE DEF there
<1> QED BY <1>1, <1>3, <1>4, DropKeeps DEF MemosInv, MemosTypeOK

LEMMA DropHashKeeps ==
    ASSUME MemosInv, NEW l \in Leaf, DropHash(l)
    PROVE  MemosInv'
<1> USE MemosConstants
<1>1. /\ l \in dropping.leaves
      /\ hashed' = [hashed EXCEPT ![dropping.dir] = @ \ {l}]
      /\ dropping' = [dropping EXCEPT !.leaves = @ \ {l}]
      /\ UNCHANGED <<listed, listing, memos, keys, numbered, storing, messages,
                     leases, ending, crossed>>
  BY DEF DropHash
<1>2. dropping \in Drop /\ dropping.dir \in Dir /\ hashed \in [Dir -> SUBSET Leaf]
  BY DEF MemosInv, MemosTypeOK, Drop
<1>3. /\ dropping' \in Drop /\ dropping'.at = dropping.at /\ dropping'.node = dropping.node
      /\ dropping'.dirs = dropping.dirs /\ dropping'.dir = dropping.dir
      /\ dropping'.leaves = dropping.leaves \ {l} /\ dropping'.seen = dropping.seen
  BY <1>1, <1>2 DEF Drop
<1>4. /\ hashed' \in [Dir -> SUBSET Leaf] /\ l \notin hashed'[dropping.dir]
      /\ \A e \in Dir : hashed'[e] \subseteq hashed[e]
  BY <1>1, <1>2
<1>5. SeenIsDropped'
  <2> SUFFICES ASSUME NEW m \in dropping.seen
               PROVE  MissedNow(m)' \/ StillDropped(m)'
    BY <1>1, <1>3, SeenOf DEF SeenIsDropped, Writing
  <2>1. MissedNow(m) => MissedNow(m)'
    BY <1>1, <1>4, SeenOf DEF MissedNow
  <2>2. StillDropped(m) => MissedNow(m)' \/ StillDropped(m)'
    <3>1. CASE m[1] = dropping.dir /\ m[2] = l
      BY <1>3, <1>4, <3>1 DEF MissedNow
    <3>2. CASE ~(m[1] = dropping.dir /\ m[2] = l)
      BY <1>3, <3>2 DEF StillDropped
    <3> QED BY <3>1, <3>2
  <2> QED BY <2>1, <2>2, SeenOf
<1> QED BY <1>1, <1>3, <1>4, <1>5, DropKeeps

LEMMA EndDropKeeps ==
    ASSUME MemosInv, EndDrop
    PROVE  MemosInv'
<1>1. /\ dropping.leaves = {} /\ dropping.dirs = {}
      /\ dropping' = [dropping EXCEPT !.at = "idle"]
      /\ UNCHANGED <<listed, listing, memos, keys, hashed, numbered, storing, messages,
                     leases, ending, crossed>>
  BY DEF EndDrop, memoParts
<1>2. dropping \in Drop /\ dropping' \in Drop /\ dropping'.seen = dropping.seen
  BY <1>1 DEF MemosInv, MemosTypeOK, Drop
<1>3. SeenIsDropped'
  <2> SUFFICES ASSUME NEW m \in dropping.seen
               PROVE  MissedNow(m)'
    BY <1>1, <1>2, SeenOf DEF SeenIsDropped, Writing
  <2>1. ~StillDropped(m)
    BY <1>1 DEF StillDropped
  <2>2. MissedNow(m)
    BY <2>1, SeenOf
  <2> QED BY <1>1, <2>2 DEF MissedNow
<1> QED BY <1>1, <1>2, <1>3, DropKeeps DEF MemosInv, MemosTypeOK

LEMMA MemosStepInv == MemosInv /\ [MemosNext]_memosVars => MemosInv'
<1> SUFFICES ASSUME MemosInv, [MemosNext]_memosVars PROVE MemosInv'
  OBVIOUS
<1>1. ASSUME NEW w \in MemoWriter, NEW d \in Dir, NEW l \in Leaf, ListMemo(w, d, l)
      PROVE  MemosInv'
  BY <1>1, ListMemoKeeps
<1>2. ASSUME NEW w \in MemoWriter,
             DropReplaced(w) \/ ClearReplaced(w) \/ StoreMemo(w) \/ StoreKeys(w)
             \/ SendMemoWritten(w)
      PROVE  MemosInv'
  BY <1>2, DropReplacedKeeps, ClearReplacedKeeps, StoreMemoKeeps, StoreKeysKeeps,
     SendMemoWrittenKeeps
<1>3. CASE TakeWritten \/ EvictMemo \/ EndDrop
  BY <1>3, TakeWrittenKeeps, EvictMemoKeeps, EndDropKeeps
<1>4. ASSUME NEW d \in Dir, LookInDir(d) \/ \E l \in Leaf : FireMemo(d, l) \/ EndLease(d, l)
      PROVE  MemosInv'
  BY <1>4, LookInDirKeeps, FireMemoKeeps, EndLeaseKeeps
<1>5. ASSUME NEW l \in Leaf, BeginDrop(l) \/ DropHash(l)
      PROVE  MemosInv'
  BY <1>5, BeginDropKeeps, DropHashKeeps
<1>6. CASE UNCHANGED memosVars
  BY <1>6 DEF memosVars, memoParts, MemosInv, MemosTypeOK, ListingHeld, HeldIsListed,
              Numbered, SeenIsDropped, LeaseComes, ReplacedAll, Replaced, Writing, Held,
              MissedNow, StillDropped, Untold, Told, Leased, Ends, Overlaps
<1> QED BY <1>1, <1>2, <1>3, <1>4, <1>5, <1>6 DEF MemosNext

LEMMA MemosEver == MemosSpec => []MemosInv
BY MemosInitInv, MemosStepInv, PTL DEF MemosSpec

\* What an invalidation saw with its hash is missed once it is done, and ever
\* after, for any number of directories, leaves, writers and evictions: a hash
\* comes back only with a memo of a number given since.
THEOREM DroppedIsMissedEver == MemosSpec => []DroppedIsMissed
<1>1. MemosInv => DroppedIsMissed
  BY DEF MemosInv, SeenIsDropped, StillDropped, MissedNow, DroppedIsMissed
<1> QED BY <1>1, MemosEver, PTL

\* A memo that was told of has its own lease once the scheduler has taken its
\* messages, except where two writes of overlapping leaves were told of in the
\* other order: the last message of those that overlap is of the memo there is.
THEOREM MemosEndEver == MemosSpec => []MemosEnd
<1>1. MemosInv => MemosEnd
  <2> SUFFICES ASSUME MemosInv, messages = <<>>, ending.at = "idle",
                      NEW d \in Dir \ crossed, NEW l \in Leaf
               PROVE  \/ memos[d][l] \in {0, leases[d][l]}
                      \/ \E w \in MemoWriter : storing[w].number = memos[d][l]
    BY DEF MemosEnd
  <2> QED BY DEF MemosInv, LeaseComes, Untold, Told, Leased, Ends
<1> QED BY <1>1, MemosEver, PTL

-----------------------------------------------------------------------------
(* Singleton: the invariant. *)

\* From the flock to its end a process owns the file it has open.
Owning == {"clear", "write", "arm", "look", "unlink", "bind", "serve", "unpid", "close"}

\* Its record is written.
Recorded == {"arm", "look", "unlink", "bind", "serve", "unpid", "close", "dead"}

\* A process has a file open from its open to its end, or until it is refused.
FilesOpen ==
    \A p \in Proc : fd[p] # NoInode <=> stage[p] \in Owning \cup {"lock"}

\* The flock of a file is its owner's.
LocksOwned ==
    /\ \A p \in Proc : stage[p] \in Owning => lockOf[fd[p]] = p
    /\ \A i \in Inode : lockOf[i] # NoProc =>
           stage[lockOf[i]] \in Owning /\ fd[lockOf[i]] = i

\* A record, and what was read of one, names a process that got as far.
RecordsNamed ==
    /\ \A i \in Inode : pidIn[i] # NoProc => stage[pidIn[i]] \in Recorded
    /\ \A p \in Proc :
           /\ target[p] # NoProc => stage[target[p]] \in Recorded
           /\ stage[p] \in {"probe", "kill", "await"} => target[p] # NoProc

SingletonInv ==
    /\ SingletonTypeOK /\ FilesOpen /\ LocksOwned /\ RecordsNamed

-----------------------------------------------------------------------------
(* Singleton: steps, and the theorem. *)

\* There is an inode nobody has open, so that a file can always be made.
LEMMA FreeInodeIs ==
    ASSUME SingletonTypeOK, pidFile = NoInode
    PROVE  FreeInode \in Inode /\ \A p \in Proc : fd[p] # FreeInode
<1> DEFINE InUse == {fd[p] : p \in Proc}
           N == Cardinality(Proc)
<1>1. N \in Nat /\ IsFiniteSet(Proc)
  BY ProcAssumption, FS_CardinalityType
<1>2. IsFiniteSet(InUse) /\ Cardinality(InUse) <= N
  <2>1. fd \in [Proc -> InUse] /\ \A i \in InUse : \E p \in Proc : fd[p] = i
    BY DEF SingletonTypeOK
  <2>2. fd \in Surjection(Proc, InUse)
    <3> HIDE DEF InUse
    <3> QED BY <2>1 DEF Surjection
  <2> HIDE DEF InUse
  <2> QED BY <1>1, <2>2, FS_Surjection
<1>3. Inode = 1..(N + 1) /\ Cardinality(Inode) = N + 1
  <2>1. Inode = 1..(N + 1)
    BY DEF Inode
  <2>2. Cardinality(1..(N + 1)) = IF 1 > N + 1 THEN 0 ELSE (N + 1) - 1 + 1
    BY <1>1, FS_Interval
  <2> QED BY <1>1, <2>1, <2>2
<1>4. ~(Inode \subseteq InUse)
  <2> SUFFICES ASSUME Inode \subseteq InUse PROVE FALSE
    OBVIOUS
  <2>1. Cardinality(Inode) <= Cardinality(InUse)
    BY <1>2, FS_Subset
  <2>2. Cardinality(InUse) \in Nat
    BY <1>2, FS_CardinalityType
  <2> HIDE DEF InUse, N
  <2> QED BY <1>1, <1>2, <1>3, <2>1, <2>2
<1>5. PICK i \in Inode : i \notin InUse
  BY <1>4
<1>6. i # pidFile /\ \A p \in Proc : fd[p] # i
  BY <1>1, <1>3, <1>5 DEF NoInode
<1>7. \E j \in Inode : j # pidFile /\ \A p \in Proc : fd[p] # j
  BY <1>6
<1> QED BY <1>7 DEF FreeInode

\* A step that is only one process's, within what it owns or without.
LEMMA MoveKeeps ==
    ASSUME SingletonInv, SingletonTypeOK', NEW p \in Proc, NEW s,
           stage' = [stage EXCEPT ![p] = s], UNCHANGED <<fd, lockOf, target>>,
           s \in Owning <=> stage[p] \in Owning,
           s = "lock" <=> stage[p] = "lock",
           stage[p] \in Recorded => s \in Recorded,
           s \in {"probe", "kill", "await"} => target[p] # NoProc,
           \A i \in Inode : pidIn'[i] \in {pidIn[i], NoProc}
                            \/ (pidIn'[i] = p /\ s \in Recorded)
    PROVE  SingletonInv'
<1>1. /\ stage'[p] = s /\ \A q \in Proc : q # p => stage'[q] = stage[q]
      /\ \A q \in Proc : stage[q] \in Recorded => stage'[q] \in Recorded
  BY DEF SingletonInv, SingletonTypeOK
<1>2. FilesOpen'
  BY <1>1 DEF SingletonInv, FilesOpen
<1>3. LocksOwned'
  BY <1>1 DEF SingletonInv, LocksOwned, SingletonTypeOK
<1>4. RecordsNamed'
  <2>1. \A i \in Inode : pidIn'[i] # NoProc => stage'[pidIn'[i]] \in Recorded
    BY <1>1 DEF SingletonInv, RecordsNamed, SingletonTypeOK
  <2>2. \A q \in Proc : target[q] # NoProc => stage'[target[q]] \in Recorded
    BY <1>1 DEF SingletonInv, RecordsNamed, SingletonTypeOK
  <2>3. \A q \in Proc : stage'[q] \in {"probe", "kill", "await"} => target[q] # NoProc
    BY <1>1 DEF SingletonInv, RecordsNamed
  <2> QED BY <2>1, <2>2, <2>3 DEF RecordsNamed
<1> QED BY <1>2, <1>3, <1>4 DEF SingletonInv

\* A process dies: of what it had open nothing is left, and its record stays.
LEMMA DeathKeeps ==
    ASSUME SingletonInv, SingletonTypeOK', NEW t \in Proc, Dies(t), target' = target,
           stage'[t] = "dead",
           \A q \in Proc : q # t =>
               \/ stage'[q] = stage[q]
               \/ stage[q] \in {"kill", "await"} /\ stage'[q] \in {"open", "await"}
    PROVE  SingletonInv'
<1>1. /\ fd' = [fd EXCEPT ![t] = NoInode] /\ UNCHANGED pidIn
      /\ lockOf' = [i \in Inode |-> IF lockOf[i] = t THEN NoProc ELSE lockOf[i]]
  BY DEF Dies
<1>2. /\ fd'[t] = NoInode /\ \A q \in Proc : q # t => fd'[q] = fd[q]
      /\ \A i \in Inode : lockOf'[i] = IF lockOf[i] = t THEN NoProc ELSE lockOf[i]
      /\ NoInode \notin Inode
  <2>1. NoInode \notin Inode
    BY DEF NoInode, Inode
  <2> QED BY <1>1, <2>1 DEF SingletonInv, SingletonTypeOK
<1>3. \A q \in Proc : /\ stage[q] \in Recorded => stage'[q] \in Recorded
                      /\ stage'[q] \in Owning => q # t /\ stage[q] = stage'[q]
                      /\ stage'[q] = "lock" => q # t /\ stage[q] = "lock"
                      /\ q # t /\ stage[q] \in Owning \cup {"lock"} => stage'[q] = stage[q]
  BY DEF Recorded, Owning
<1>4. FilesOpen'
  BY <1>2, <1>3 DEF SingletonInv, FilesOpen, Owning
<1>5. LocksOwned'
  <2>1. ASSUME NEW q \in Proc, stage'[q] \in Owning
        PROVE  lockOf'[fd'[q]] = q
    <3>1. q # t /\ lockOf[fd[q]] = q /\ fd'[q] = fd[q] /\ fd[q] \in Inode
      BY <1>2, <1>3, <2>1 DEF SingletonInv, LocksOwned, FilesOpen, SingletonTypeOK
    <3> QED BY <1>2, <3>1
  <2>2. ASSUME NEW i \in Inode, lockOf'[i] # NoProc
        PROVE  stage'[lockOf'[i]] \in Owning /\ fd'[lockOf'[i]] = i
    <3>1. lockOf'[i] = lockOf[i] /\ lockOf[i] # t /\ lockOf[i] \in Proc
      BY <1>2, <2>2 DEF SingletonInv, SingletonTypeOK
    <3>2. stage[lockOf[i]] \in Owning /\ fd[lockOf[i]] = i
      BY <2>2, <3>1 DEF SingletonInv, LocksOwned
    <3> QED BY <1>2, <1>3, <3>1, <3>2
  <2> QED BY <2>1, <2>2 DEF LocksOwned
<1>6. RecordsNamed'
  <2>1. \A q \in Proc : stage'[q] \in {"probe", "kill", "await"} =>
                            stage[q] \in {"probe", "kill", "await"}
    OBVIOUS
  <2> QED BY <1>1, <1>3, <2>1 DEF SingletonInv, RecordsNamed, SingletonTypeOK
<1> QED BY <1>4, <1>5, <1>6 DEF SingletonInv

LEMMA SingletonInitInv ==
    ASSUME SingletonInit PROVE SingletonInv
<1>1. /\ 1 \in Build /\ 0 \in 0..MaxCrash /\ NoInode \notin Inode
  BY NumbersAssumption DEF Build, NoInode, Inode
<1>2. SingletonTypeOK
  BY <1>1 DEF SingletonInit, SingletonTypeOK, Stage
<1>3. FilesOpen /\ LocksOwned /\ RecordsNamed
  BY DEF SingletonInit, FilesOpen, LocksOwned, RecordsNamed, Owning
<1> QED BY <1>2, <1>3 DEF SingletonInv

\* What a process leaves behind is well typed.
LEMMA DiesTypes ==
    ASSUME SingletonTypeOK, NEW t, Dies(t)
    PROVE  /\ fd' \in [Proc -> Inode \cup {NoInode}]
           /\ pidFile' \in Inode \cup {NoInode}
           /\ pidIn' \in [Inode -> Proc \cup {NoProc}]
           /\ lockOf' \in [Inode -> Proc \cup {NoProc}]
           /\ listens' \subseteq Proc
           /\ sock' \in Proc \cup {NoProc}
  BY DEF Dies, SingletonTypeOK

\* Every step of the acquisition keeps the types.
LEMMA AcquireTypes ==
    ASSUME SingletonInv, NEW p \in Proc,
           \/ Start(p) \/ Open(p) \/ Lock(p) \/ Contended(p) \/ GiveUp(p)
           \/ Read(p) \/ Probe(p) \/ Kill(p) \/ Await(p) \/ Clear(p) \/ Write(p)
    PROVE  SingletonTypeOK'
<1>0. SingletonTypeOK
  BY DEF SingletonInv
<1> USE <1>0 DEF SingletonTypeOK, GoesTo, procVars, fileVars, sockVars
<1>1. CASE Start(p)
  BY <1>1 DEF Start, Stage
<1>2. CASE Open(p)
  <2>1. CASE pidFile = NoInode
    BY <1>2, <2>1, FreeInodeIs DEF Open, Stage
  <2>2. CASE pidFile # NoInode
    BY <1>2, <2>2 DEF Open, Stage
  <2> QED BY <2>1, <2>2
<1>3. CASE Lock(p)
  BY <1>3 DEF Lock, Stage
<1>4. CASE Contended(p)
  BY <1>4 DEF Contended, Stage
<1>5. CASE GiveUp(p)
  BY <1>5 DEF GiveUp, Fails, Stage
<1>6. CASE Read(p)
  <2>1. CASE pidFile = NoInode \/ pidIn[pidFile] = NoProc
    BY <1>6, <2>1 DEF Read, Fails, Stage
  <2>2. CASE ~(pidFile = NoInode \/ pidIn[pidFile] = NoProc)
    BY <1>6, <2>2 DEF Read, Stage
  <2> QED BY <2>1, <2>2
<1>7. CASE Probe(p)
  BY <1>7 DEF Probe, Stage
<1>8. CASE Kill(p)
  <2>1. CASE ~Alive(target[p])
    BY <1>8, <2>1 DEF Kill, Stage
  <2>2. CASE Alive(target[p]) /\ Armed(target[p])
    <3>1. target[p] \in Proc
      BY <1>8 DEF Kill, SingletonInv, RecordsNamed
    <3> QED BY <1>8, <2>2, <3>1 DEF Kill, Stage
  <2>3. CASE Alive(target[p]) /\ ~Armed(target[p])
    <3>1. /\ stage' = [stage EXCEPT ![p] = "await", ![target[p]] = "dead"]
          /\ Dies(target[p]) /\ owed' = OwedAfter(target[p])
          /\ UNCHANGED <<again, told, build, since, target, disk, crashes>>
      BY <1>8, <2>3 DEF Kill
    <3>2. owed' \subseteq Proc
      BY <3>1 DEF OwedAfter
    <3> QED BY <3>1, <3>2, DiesTypes DEF Stage
  <2> QED BY <2>1, <2>2, <2>3
<1>9. CASE Await(p)
  <2>1. CASE GoesTo(p, "open") /\ UNCHANGED <<fileVars, sockVars, owed>>
    BY <1>9, <2>1 DEF Await, Stage
  <2>2. CASE /\ stage' = [stage EXCEPT ![p] = "open", ![target[p]] = "dead"]
             /\ Dies(target[p]) /\ owed' = OwedAfter(target[p])
    <3>1. /\ again' = again \cup {p}
          /\ UNCHANGED <<build, since, target, told, disk, crashes>>
      BY <1>9 DEF Await
    <3>2. owed' \subseteq Proc
      BY <2>2 DEF OwedAfter
    <3> QED BY <2>2, <3>1, <3>2, DiesTypes DEF Stage
  <2> QED BY <1>9, <2>1, <2>2 DEF Await
<1>10. CASE Clear(p)
  BY <1>10 DEF Clear, Stage
<1>11. CASE Write(p)
  BY <1>11 DEF Write, Stage
<1> QED BY <1>1, <1>2, <1>3, <1>4, <1>5, <1>6, <1>7, <1>8, <1>9, <1>10, <1>11

\* And every step of serving and leaving, and of the outside.
LEMMA ServeTypes ==
    ASSUME SingletonTypeOK, NEW p \in Proc,
           \/ Arm(p) \/ Look(p) \/ Unlink(p) \/ Bind(p) \/ Notice(p) \/ Leave(p)
           \/ Unpid(p) \/ Close(p) \/ Stop(p) \/ Crash(p) \/ Replace
    PROVE  SingletonTypeOK'
<1> USE DEF SingletonTypeOK, GoesTo, procVars, fileVars, sockVars
<1>1. CASE Arm(p)
  BY <1>1 DEF Arm, WatchedFrom, Stage
<1>2. CASE Look(p)
  BY <1>2 DEF Look, Stage
<1>3. CASE Unlink(p)
  BY <1>3 DEF Unlink, Stage
<1>4. CASE Bind(p)
  BY <1>4 DEF Bind, Stage
<1>5. CASE Notice(p)
  BY <1>5 DEF Notice
<1>6. CASE Leave(p)
  BY <1>6 DEF Leave, OwedAfter, Stage
<1>7. CASE Unpid(p)
  BY <1>7 DEF Unpid, Stage
<1>8. CASE Close(p)
  <2>1. /\ Dies(p) /\ stage' = [stage EXCEPT ![p] = "dead"]
        /\ UNCHANGED <<build, since, again, target, told, disk, crashes, owed>>
    BY <1>8 DEF Close
  <2> QED BY <2>1, DiesTypes DEF Stage
<1>9. CASE Stop(p)
  BY <1>9 DEF Stop
<1>10. CASE Crash(p)
  <2>1. /\ Dies(p) /\ stage' = [stage EXCEPT ![p] = "dead"]
        /\ owed' = (owed \cap Fresh) \ {p} /\ crashes < MaxCrash /\ crashes' = crashes + 1
        /\ UNCHANGED <<build, since, again, target, told, disk>>
    BY <1>10 DEF Crash
  <2>2. crashes' \in 0..MaxCrash
    BY <2>1, NumbersAssumption
  <2> QED BY <2>1, <2>2, DiesTypes DEF Stage
<1>11. CASE Replace
  BY <1>11, NumbersAssumption DEF Replace, Build
<1> QED BY <1>1, <1>2, <1>3, <1>4, <1>5, <1>6, <1>7, <1>8, <1>9, <1>10, <1>11

\* A start opens the file: nobody else's record or lock is touched.
LEMMA OpenKeeps ==
    ASSUME SingletonInv, SingletonTypeOK', NEW p \in Proc, Open(p)
    PROVE  SingletonInv'
<1> USE DEF Owning, Recorded
<1>1. /\ stage' = [stage EXCEPT ![p] = "lock"] /\ stage[p] = "open"
      /\ UNCHANGED <<lockOf, target>>
  BY DEF Open, GoesTo
<1>2. PICK i \in Inode : /\ fd' = [fd EXCEPT ![p] = i]
                         /\ \A j \in Inode : pidIn'[j] \in {pidIn[j], NoProc}
  <2>1. CASE pidFile = NoInode
    BY <2>1, FreeInodeIs DEF Open, SingletonInv, SingletonTypeOK
  <2>2. CASE pidFile # NoInode
    BY <2>2 DEF Open, SingletonInv, SingletonTypeOK
  <2> QED BY <2>1, <2>2
<1>3. /\ stage'[p] = "lock" /\ fd'[p] = i /\ i # NoInode
      /\ \A q \in Proc : q # p => stage'[q] = stage[q] /\ fd'[q] = fd[q]
  BY <1>1, <1>2 DEF SingletonInv, SingletonTypeOK, Inode, NoInode
<1>4. FilesOpen'
  BY <1>3 DEF SingletonInv, FilesOpen
<1>5. LocksOwned'
  BY <1>1, <1>3 DEF SingletonInv, LocksOwned, SingletonTypeOK
<1>6. RecordsNamed'
  <2>1. \A q \in Proc : stage[q] \in Recorded => stage'[q] \in Recorded
    BY <1>1, <1>3
  <2>2. \A q \in Proc : stage'[q] \in {"probe", "kill", "await"} =>
                            stage[q] \in {"probe", "kill", "await"}
    BY <1>1, <1>3
  <2> QED BY <1>1, <1>2, <2>1, <2>2 DEF SingletonInv, RecordsNamed, SingletonTypeOK
<1> QED BY <1>4, <1>5, <1>6 DEF SingletonInv

\* A start takes the flock, which was nobody's.
LEMMA LockKeeps ==
    ASSUME SingletonInv, SingletonTypeOK', NEW p \in Proc, Lock(p)
    PROVE  SingletonInv'
<1> USE DEF Owning, Recorded
<1>1. /\ stage' = [stage EXCEPT ![p] = "clear"] /\ stage[p] = "lock"
      /\ lockOf[fd[p]] = NoProc /\ lockOf' = [lockOf EXCEPT ![fd[p]] = p]
      /\ UNCHANGED <<fd, pidIn, target>>
  BY DEF Lock, GoesTo
<1>2. fd[p] \in Inode
  BY <1>1 DEF SingletonInv, SingletonTypeOK, FilesOpen
<1>3. /\ stage'[p] = "clear" /\ lockOf'[fd[p]] = p
      /\ \A q \in Proc : q # p => stage'[q] = stage[q]
      /\ \A i \in Inode : i # fd[p] => lockOf'[i] = lockOf[i]
  BY <1>1, <1>2 DEF SingletonInv, SingletonTypeOK
<1>4. FilesOpen'
  BY <1>1, <1>3 DEF SingletonInv, FilesOpen
<1>5. LocksOwned'
  <2>1. ASSUME NEW q \in Proc, stage'[q] \in Owning
        PROVE  lockOf'[fd[q]] = q
    <3>1. CASE q = p
      BY <1>3, <3>1
    <3>2. CASE q # p
      <4>1. lockOf[fd[q]] = q /\ q # NoProc /\ fd[q] \in Inode
        BY <1>3, <2>1, <3>2, ProcAssumption
           DEF SingletonInv, LocksOwned, FilesOpen, SingletonTypeOK
      <4> QED BY <1>1, <1>3, <4>1
    <3> QED BY <3>1, <3>2
  <2>2. ASSUME NEW i \in Inode, lockOf'[i] # NoProc
        PROVE  stage'[lockOf'[i]] \in Owning /\ fd[lockOf'[i]] = i
    <3>1. CASE i = fd[p]
      BY <1>3, <3>1
    <3>2. CASE i # fd[p]
      BY <1>1, <1>3, <2>2, <3>2 DEF SingletonInv, LocksOwned, SingletonTypeOK
    <3> QED BY <3>1, <3>2
  <2> QED BY <1>1, <2>1, <2>2 DEF LocksOwned
<1>6. RecordsNamed'
  <2>1. \A q \in Proc : stage[q] \in Recorded => stage'[q] \in Recorded
    BY <1>1, <1>3
  <2>2. \A q \in Proc : stage'[q] \in {"probe", "kill", "await"} =>
                            stage[q] \in {"probe", "kill", "await"}
    BY <1>1, <1>3
  <2> QED BY <1>1, <2>1, <2>2 DEF SingletonInv, RecordsNamed, SingletonTypeOK
<1> QED BY <1>4, <1>5, <1>6 DEF SingletonInv

\* A start the flock is refused to closes the file: it owned nothing.
LEMMA RefusedKeeps ==
    ASSUME SingletonInv, SingletonTypeOK', NEW p \in Proc,
           Contended(p) \/ GiveUp(p)
    PROVE  SingletonInv'
<1> USE DEF Owning, Recorded
<1>1. /\ stage[p] = "lock" /\ fd' = [fd EXCEPT ![p] = NoInode]
      /\ UNCHANGED <<pidIn, lockOf, target>>
  BY DEF Contended, GiveUp
<1>2. PICK s \in {"open", "read", "dead"} : stage' = [stage EXCEPT ![p] = s]
  BY DEF Contended, GiveUp, Fails, GoesTo
<1>3. /\ stage'[p] = s /\ fd'[p] = NoInode
      /\ \A q \in Proc : q # p => stage'[q] = stage[q] /\ fd'[q] = fd[q]
  BY <1>1, <1>2 DEF SingletonInv, SingletonTypeOK
<1>4. FilesOpen'
  BY <1>3 DEF SingletonInv, FilesOpen
<1>5. LocksOwned'
  BY <1>1, <1>3 DEF SingletonInv, LocksOwned, SingletonTypeOK
<1>6. RecordsNamed'
  <2>1. \A q \in Proc : stage[q] \in Recorded => stage'[q] \in Recorded
    BY <1>1, <1>3
  <2>2. \A q \in Proc : stage'[q] \in {"probe", "kill", "await"} =>
                            stage[q] \in {"probe", "kill", "await"}
    BY <1>1, <1>3
  <2> QED BY <1>1, <2>1, <2>2 DEF SingletonInv, RecordsNamed, SingletonTypeOK
<1> QED BY <1>4, <1>5, <1>6 DEF SingletonInv

\* A start reads the record: whom it names, got as far as writing one.
LEMMA ReadKeeps ==
    ASSUME SingletonInv, SingletonTypeOK', NEW p \in Proc, Read(p)
    PROVE  SingletonInv'
<1>1. stage[p] = "read" /\ UNCHANGED <<fd, pidIn, lockOf>>
  BY DEF Read, fileVars
<1>2. CASE pidFile = NoInode \/ pidIn[pidFile] = NoProc
  <2>1. stage' = [stage EXCEPT ![p] = "dead"] /\ UNCHANGED target
    BY <1>2 DEF Read, Fails, GoesTo
  <2>2. \A i \in Inode : pidIn'[i] = pidIn[i]
    BY <1>1
  <2> QED BY <1>1, <2>1, <2>2, MoveKeeps DEF Owning, Recorded
<1>3. CASE ~(pidFile = NoInode \/ pidIn[pidFile] = NoProc)
  <2> USE DEF Owning, Recorded
  <2>1. PICK s \in {"probe", "kill"} :
          /\ stage' = [stage EXCEPT ![p] = s]
          /\ target' = [target EXCEPT ![p] = pidIn[pidFile]]
    BY <1>3 DEF Read, GoesTo
  <2>2. stage[pidIn[pidFile]] \in Recorded /\ pidIn[pidFile] # NoProc
    BY <1>3 DEF SingletonInv, SingletonTypeOK, RecordsNamed
  <2>3. /\ stage'[p] = s /\ target'[p] = pidIn[pidFile]
        /\ \A q \in Proc : q # p => stage'[q] = stage[q] /\ target'[q] = target[q]
    BY <2>1 DEF SingletonInv, SingletonTypeOK
  <2>4. FilesOpen'
    BY <1>1, <2>3 DEF SingletonInv, FilesOpen
  <2>5. LocksOwned'
    BY <1>1, <2>3 DEF SingletonInv, LocksOwned, SingletonTypeOK
  <2>6. RecordsNamed'
    <3>1. \A q \in Proc : stage[q] \in Recorded => stage'[q] \in Recorded
      BY <1>1, <2>3
    <3>2. \A i \in Inode : pidIn'[i] # NoProc => stage'[pidIn'[i]] \in Recorded
      BY <1>1, <3>1 DEF SingletonInv, RecordsNamed, SingletonTypeOK
    <3>3. ASSUME NEW q \in Proc
          PROVE  /\ target'[q] # NoProc => stage'[target'[q]] \in Recorded
                 /\ stage'[q] \in {"probe", "kill", "await"} => target'[q] # NoProc
      <4>1. CASE q = p
        <5>1. pidIn[pidFile] \in Proc
          BY <1>3 DEF SingletonInv, SingletonTypeOK
        <5> QED BY <2>2, <2>3, <3>1, <4>1, <5>1
      <4>2. CASE q # p
        BY <2>3, <3>1, <4>2 DEF SingletonInv, RecordsNamed, SingletonTypeOK
      <4> QED BY <4>1, <4>2
    <3> QED BY <3>2, <3>3 DEF RecordsNamed
  <2> QED BY <2>4, <2>5, <2>6 DEF SingletonInv
<1> QED BY <1>2, <1>3

\* A start supersedes an owner: the owner has gone, is told, or is ended.
LEMMA SupersedeKeeps ==
    ASSUME SingletonInv, SingletonTypeOK', NEW p \in Proc, Kill(p) \/ Await(p)
    PROVE  SingletonInv'
<1> DEFINE t == target[p]
<1>1. /\ stage[p] \in {"kill", "await"} /\ target' = target
      /\ t \in Proc /\ stage[t] \in Recorded /\ t # p
  <2>1. stage[p] \in {"kill", "await"} /\ target' = target
    BY DEF Kill, Await
  <2>2. t \in Proc /\ stage[t] \in Recorded
    BY <2>1 DEF SingletonInv, SingletonTypeOK, RecordsNamed
  <2> QED BY <2>1, <2>2 DEF Recorded
<1>2. ASSUME NEW s \in {"open", "await"}, stage' = [stage EXCEPT ![p] = s],
             UNCHANGED fileVars
      PROVE  SingletonInv'
  <2>1. UNCHANGED <<fd, lockOf, target>> /\ \A i \in Inode : pidIn'[i] = pidIn[i]
    BY <1>1, <1>2 DEF fileVars
  <2>2. target[p] # NoProc
    BY <1>1, ProcAssumption
  <2>3. /\ s \in Owning <=> stage[p] \in Owning
        /\ s = "lock" <=> stage[p] = "lock"
        /\ stage[p] \in Recorded => s \in Recorded
    BY <1>1, <1>2 DEF Owning, Recorded
  <2>4. \A i \in Inode : \/ pidIn'[i] \in {pidIn[i], NoProc}
                         \/ pidIn'[i] = p /\ s \in Recorded
    BY <2>1
  <2> QED BY <1>2, <2>1, <2>2, <2>3, <2>4, MoveKeeps
<1>3. ASSUME NEW s \in {"open", "await"}, Dies(t),
             stage' = [stage EXCEPT ![p] = s, ![t] = "dead"]
      PROVE  SingletonInv'
  <2>1. /\ stage'[t] = "dead" /\ stage'[p] = s
        /\ \A q \in Proc : q # t /\ q # p => stage'[q] = stage[q]
    BY <1>1, <1>3 DEF SingletonInv, SingletonTypeOK
  <2>2. \A q \in Proc : q # t =>
               \/ stage'[q] = stage[q]
               \/ stage[q] \in {"kill", "await"} /\ stage'[q] \in {"open", "await"}
    BY <1>1, <2>1
  <2> HIDE DEF t
  <2> QED BY <1>1, <1>3, <2>1, <2>2, DeathKeeps
<1>4. CASE Kill(p)
  <2>1. CASE ~Alive(t)
    BY <1>2, <1>4, <2>1 DEF Kill, GoesTo
  <2>2. CASE Alive(t) /\ Armed(t)
    BY <1>2, <1>4, <2>2 DEF Kill, GoesTo
  <2>3. CASE Alive(t) /\ ~Armed(t)
    BY <1>3, <1>4, <2>3 DEF Kill
  <2> QED BY <2>1, <2>2, <2>3
<1>5. CASE Await(p)
  BY <1>2, <1>3, <1>5 DEF Await, GoesTo
<1> QED BY <1>4, <1>5

\* A process dies that no other ends.
LEMMA EndKeeps ==
    ASSUME SingletonInv, SingletonTypeOK', NEW p \in Proc, Close(p) \/ Crash(p)
    PROVE  SingletonInv'
<1>1. stage' = [stage EXCEPT ![p] = "dead"] /\ Dies(p) /\ target' = target
  BY DEF Close, Crash, GoesTo
<1>2. stage'[p] = "dead" /\ \A q \in Proc : q # p => stage'[q] = stage[q]
  BY <1>1 DEF SingletonInv, SingletonTypeOK
<1> QED BY <1>1, <1>2, DeathKeeps

\* The owner writes in the file it has open, and nobody else's.
LEMMA RecordKeeps ==
    ASSUME SingletonInv, SingletonTypeOK', NEW p \in Proc, Clear(p) \/ Write(p)
    PROVE  SingletonInv'
<1>1. UNCHANGED <<fd, lockOf, target>>
  BY DEF Clear, Write
<1>2. CASE Clear(p)
  <2>1. /\ stage[p] = "clear" /\ stage' = [stage EXCEPT ![p] = "write"]
        /\ \A i \in Inode : pidIn'[i] \in {pidIn[i], NoProc}
    BY <1>2 DEF Clear, GoesTo, SingletonInv, SingletonTypeOK
  <2> QED BY <1>1, <2>1, MoveKeeps DEF Owning, Recorded
<1>3. CASE Write(p)
  <2>1. /\ stage[p] = "write" /\ stage' = [stage EXCEPT ![p] = "arm"]
        /\ \A i \in Inode : pidIn'[i] \in {pidIn[i], p}
    BY <1>3 DEF Write, GoesTo, SingletonInv, SingletonTypeOK
  <2> QED BY <1>1, <2>1, MoveKeeps DEF Owning, Recorded
<1> QED BY <1>2, <1>3

\* Within its ownership a process binds, serves and leaves.
LEMMA ServeKeeps ==
    ASSUME SingletonInv, SingletonTypeOK', NEW p \in Proc,
           \/ Start(p) \/ Probe(p) \/ Arm(p) \/ Look(p) \/ Unlink(p)
           \/ Bind(p) \/ Leave(p) \/ Unpid(p)
    PROVE  SingletonInv'
<1>1. UNCHANGED <<fd, lockOf, target>> /\ \A i \in Inode : pidIn'[i] = pidIn[i]
  BY DEF Start, Probe, Arm, Look, Unlink, Bind, Leave, Unpid, fileVars
<1>2. CASE Start(p)
  BY <1>1, <1>2, MoveKeeps DEF Start, GoesTo, Owning, Recorded
<1>3. CASE Probe(p)
  <2>1. target[p] # NoProc
    BY <1>3 DEF Probe, SingletonInv, RecordsNamed
  <2>2. PICK s \in {"dead", "kill"} : stage' = [stage EXCEPT ![p] = s]
    BY <1>3 DEF Probe, GoesTo
  <2>3. stage[p] = "probe"
    BY <1>3 DEF Probe
  <2> QED BY <1>1, <2>1, <2>2, <2>3, MoveKeeps DEF Owning, Recorded
<1>4. ASSUME NEW s, stage' = [stage EXCEPT ![p] = s],
             stage[p] \in Recorded \ {"dead"}, s \in Recorded \ {"dead"}
      PROVE  SingletonInv'
  BY <1>1, <1>4, MoveKeeps DEF Owning, Recorded
<1>5. CASE Arm(p)
  BY <1>4, <1>5 DEF Arm, GoesTo, Recorded
<1>6. CASE Look(p)
  BY <1>4, <1>6 DEF Look, GoesTo, Recorded
<1>7. CASE Unlink(p)
  BY <1>4, <1>7 DEF Unlink, GoesTo, Recorded
<1>8. CASE Bind(p)
  BY <1>4, <1>8 DEF Bind, GoesTo, Recorded
<1>9. CASE Leave(p)
  BY <1>4, <1>9 DEF Leave, GoesTo, Recorded
<1>10. CASE Unpid(p)
  BY <1>4, <1>10 DEF Unpid, GoesTo, Recorded
<1> QED BY <1>2, <1>3, <1>5, <1>6, <1>7, <1>8, <1>9, <1>10

\* Nobody's stage and no file changes.
LEMMA AsideKeeps ==
    ASSUME SingletonInv, SingletonTypeOK', UNCHANGED <<stage, target, fileVars>>
    PROVE  SingletonInv'
<1>1. UNCHANGED <<stage, target, fd, pidFile, pidIn, lockOf>>
  BY DEF fileVars
<1>2. FilesOpen'
  BY <1>1 DEF SingletonInv, FilesOpen
<1>3. LocksOwned'
  BY <1>1 DEF SingletonInv, LocksOwned
<1>4. RecordsNamed'
  BY <1>1 DEF SingletonInv, RecordsNamed
<1> QED BY <1>2, <1>3, <1>4 DEF SingletonInv

LEMMA SingletonStepInv ==
    ASSUME SingletonInv, [SingletonNext]_singletonVars PROVE SingletonInv'
<1>0. SingletonTypeOK
  BY DEF SingletonInv
<1>1. ASSUME NEW p \in Proc, Start(p) \/ Probe(p)
      PROVE  SingletonInv'
  BY <1>1, AcquireTypes, ServeKeeps
<1>2. ASSUME NEW p \in Proc, Open(p) PROVE SingletonInv'
  BY <1>2, AcquireTypes, OpenKeeps
<1>3. ASSUME NEW p \in Proc, Lock(p) PROVE SingletonInv'
  BY <1>3, AcquireTypes, LockKeeps
<1>4. ASSUME NEW p \in Proc, Contended(p) \/ GiveUp(p) PROVE SingletonInv'
  BY <1>4, AcquireTypes, RefusedKeeps
<1>5. ASSUME NEW p \in Proc, Read(p) PROVE SingletonInv'
  BY <1>5, AcquireTypes, ReadKeeps
<1>6. ASSUME NEW p \in Proc, Kill(p) \/ Await(p) PROVE SingletonInv'
  BY <1>6, AcquireTypes, SupersedeKeeps
<1>7. ASSUME NEW p \in Proc, Clear(p) \/ Write(p) PROVE SingletonInv'
  BY <1>7, AcquireTypes, RecordKeeps
<1>8. ASSUME NEW p \in Proc,
             \/ Arm(p) \/ Look(p) \/ Unlink(p) \/ Bind(p) \/ Leave(p) \/ Unpid(p)
      PROVE  SingletonInv'
  BY <1>0, <1>8, ServeTypes, ServeKeeps
<1>9. ASSUME NEW p \in Proc, Close(p) \/ Crash(p) PROVE SingletonInv'
  BY <1>0, <1>9, ServeTypes, EndKeeps
<1>10. ASSUME NEW p \in Proc, Notice(p) \/ Stop(p) PROVE SingletonInv'
  <2>1. SingletonTypeOK'
    BY <1>0, <1>10, ServeTypes
  <2>2. UNCHANGED <<stage, target, fileVars>>
    BY <1>10 DEF Notice, Stop
  <2> QED BY <2>1, <2>2, AsideKeeps
<1>11. CASE Replace
  <2>1. SingletonTypeOK'
    BY <1>0, <1>11, NumbersAssumption
       DEF SingletonTypeOK, Replace, Build, procVars, fileVars, sockVars
  <2>2. UNCHANGED <<stage, target, fileVars>>
    BY <1>11 DEF Replace, procVars
  <2> QED BY <2>1, <2>2, AsideKeeps
<1>12. CASE UNCHANGED singletonVars
  <2>1. SingletonTypeOK'
    BY <1>0, <1>12 DEF SingletonTypeOK, singletonVars, procVars, fileVars, sockVars
  <2>2. UNCHANGED <<stage, target, fileVars>>
    BY <1>12 DEF singletonVars, procVars
  <2> QED BY <2>1, <2>2, AsideKeeps
<1> QED
  BY <1>1, <1>2, <1>3, <1>4, <1>5, <1>6, <1>7, <1>8, <1>9, <1>10, <1>11, <1>12
     DEF SingletonNext, DaemonStep

LEMMA SingletonEver == SingletonSpec => []SingletonInv
<1>1. SingletonInit => SingletonInv
  BY SingletonInitInv
<1>2. SingletonInv /\ [SingletonNext]_singletonVars => SingletonInv'
  BY SingletonStepInv
<1> QED BY <1>1, <1>2, PTL DEF SingletonSpec

\* Whoever a superseding process signals owns the flock of a pid file for as
\* long as it lives: supersede_existing ends owners, and never a process that
\* has yet to take a lock or has let go of its own.
THEOREM OnlyOwnersSignalledEver == SingletonSpec => []OnlyOwnersSignalled
<1>1. SingletonInv => OnlyOwnersSignalled
  <2> SUFFICES ASSUME SingletonInv, NEW p \in Proc, stage[p] \in {"kill", "await"},
                      Alive(target[p])
               PROVE  \E i \in Inode : lockOf[i] = target[p]
    BY DEF OnlyOwnersSignalled
  <2>1. target[p] \in Proc /\ stage[target[p]] \in Recorded
    BY DEF SingletonInv, SingletonTypeOK, RecordsNamed
  <2>2. stage[target[p]] \in Owning
    BY <2>1 DEF Alive, Recorded, Owning
  <2>3. fd[target[p]] \in Inode /\ lockOf[fd[target[p]]] = target[p]
    BY <2>1, <2>2 DEF SingletonInv, SingletonTypeOK, FilesOpen, LocksOwned
  <2> QED BY <2>3
<1> QED BY <1>1, SingletonEver, PTL

-----------------------------------------------------------------------------
(* Singleton: the socket is left to nobody by nobody. *)

\* Process p has the lock, and will serve or find another serving.
Placed(p) ==
    \/ stage[p] \in {"clear", "write", "arm", "look", "unlink"}
    \/ stage[p] = "bind" /\ sock = NoProc

\* Process k supersedes, and nobody but the one it ends holds the flock of what
\* it will open, or has.
MayLock(k) ==
    \/ /\ stage[k] \in {"kill", "await"}
       /\ pidFile # NoInode => lockOf[pidFile] \in {NoProc, target[k]}
    \/ /\ stage[k] = "open" /\ k \in again
       /\ pidFile # NoInode => lockOf[pidFile] = NoProc
    \/ stage[k] = "lock" /\ k \in again /\ lockOf[fd[k]] = NoProc

\* The starts that are past their tries, or have ended, and trust that somebody serves.
Relying ==
    {q \in owed : stage[q] \notin {"open", "lock", "read", "probe", "kill", "await"}}

\* While a start relies on it, somebody serves, will, or may take the lock.
ReliedOn == Relying # {} => Serving \/ \E p \in Proc : Placed(p) \/ MayLock(p)

\* Who is cancelled was there to hear it.
ToldArmed == \A q \in told : Armed(q) \/ stage[q] = "dead"

\* A start that only another's supersession cancelled has that one wait for its end.
TellerWaits ==
    \A q \in owed \cap told :
        Alive(q) => \E k \in Proc : stage[k] = "await" /\ target[k] = q

ListensServes == \A q \in Proc : q \in listens => stage[q] = "serve"

ServedInv ==
    SingletonInv /\ ListensServes /\ ToldArmed /\ TellerWaits /\ ReliedOn

LEMMA ServedInitInv == ASSUME SingletonInit PROVE ServedInv
BY SingletonInitInv
   DEF SingletonInit, ServedInv, ListensServes, ToldArmed, TellerWaits, ReliedOn, Relying

\* What a step that only frees locks, and only makes files that are free, leaves to
\* a process it does not move.
LEMMA MayLockStays ==
    ASSUME SingletonInv, NEW k \in Proc, MayLock(k),
           stage'[k] = stage[k], fd'[k] = fd[k], target'[k] = target[k],
           k \in again => k \in again',
           \A i \in Inode : lockOf'[i] \in {lockOf[i], NoProc},
           pidFile \in Inode \cup {NoInode},
           \/ pidFile' \in {pidFile, NoInode}
           \/ lockOf'[pidFile'] = NoProc
    PROVE  MayLock(k)'
<1>1. stage[k] = "lock" => fd[k] \in Inode
  BY DEF SingletonInv, FilesOpen, SingletonTypeOK
<1>2. CASE pidFile' \in {pidFile, NoInode}
  BY <1>1, <1>2 DEF MayLock
<1>3. CASE lockOf'[pidFile'] = NoProc
  BY <1>1, <1>3 DEF MayLock
<1> QED BY <1>2, <1>3

\* Where nobody new relies, and what serves, will serve or may lock is left as it
\* is but for one process, which was none of it.
LEMMA AsideOfIt ==
    ASSUME ReliedOn, SingletonInv, NEW S \in SUBSET Proc,
           Relying' \subseteq Relying, Serving => Serving',
           sock' = sock,
           \A q \in S : ~Placed(q) /\ ~MayLock(q),
           \A q \in Proc \ S : /\ stage'[q] = stage[q] /\ fd'[q] = fd[q]
                               /\ target'[q] = target[q]
                               /\ q \in again => q \in again',
           \A i \in Inode : lockOf'[i] \in {lockOf[i], NoProc},
           \/ pidFile' \in {pidFile, NoInode}
           \/ lockOf'[pidFile'] = NoProc
    PROVE  ReliedOn'
<1> SUFFICES ASSUME Relying' # {}, ~Serving
             PROVE  \E p \in Proc : Placed(p)' \/ MayLock(p)'
  BY DEF ReliedOn
<1>1. PICK p \in Proc : Placed(p) \/ MayLock(p)
  BY DEF ReliedOn
<1>2. p \in Proc \ S
  BY <1>1
<1>3. pidFile \in Inode \cup {NoInode}
  BY DEF SingletonInv, SingletonTypeOK
<1>4. MayLock(p) => MayLock(p)'
  BY <1>2, <1>3, MayLockStays
<1>5. Placed(p) => Placed(p)'
  BY <1>2 DEF Placed
<1> QED BY <1>1, <1>4, <1>5

LEMMA AsideOfOne ==
    ASSUME ReliedOn, SingletonInv, NEW p \in Proc,
           Relying' \subseteq Relying, Serving => Serving', sock' = sock,
           ~Placed(p), ~MayLock(p),
           \A q \in Proc \ {p} : /\ stage'[q] = stage[q] /\ fd'[q] = fd[q]
                                 /\ target'[q] = target[q]
                                 /\ q \in again => q \in again',
           \A i \in Inode : lockOf'[i] \in {lockOf[i], NoProc},
           \/ pidFile' \in {pidFile, NoInode}
           \/ lockOf'[pidFile'] = NoProc
    PROVE  ReliedOn'
<1> DEFINE S == {p}
<1>1. S \in SUBSET Proc /\ \A q \in S : ~Placed(q) /\ ~MayLock(q)
  OBVIOUS
<1>2. \A q \in Proc \ S : /\ stage'[q] = stage[q] /\ fd'[q] = fd[q]
                           /\ target'[q] = target[q]
                           /\ q \in again => q \in again'
  OBVIOUS
<1> HIDE DEF S
<1> QED BY <1>1, <1>2, AsideOfIt

\* What is undone leaves nobody that relies.
LEMMA UndoneRelyNot ==
    ASSUME owed' \subseteq owed \cap Fresh,
           \A q \in Fresh \cap owed' : stage'[q] = stage[q]
    PROVE  Relying' = {} /\ owed' \subseteq Fresh
BY DEF Relying, Fresh


\* A start as far as the record, and its own record.
LEMMA AcquireReliedOn ==
    ASSUME ServedInv, SingletonTypeOK', NEW p \in Proc,
           \/ Start(p) \/ Open(p) \/ Lock(p) \/ Contended(p) \/ GiveUp(p)
           \/ Read(p) \/ Probe(p) \/ Clear(p) \/ Write(p)
    PROVE  ReliedOn'
<1>0. SingletonInv /\ SingletonTypeOK /\ ReliedOn
  BY DEF ServedInv, SingletonInv
<1>1. CASE Start(p)
  <2>1. /\ stage[p] = "none" /\ stage' = [stage EXCEPT ![p] = "open"]
        /\ owed' = owed \cup {p}
        /\ UNCHANGED <<again, target, fd, pidFile, lockOf, listens, sock>>
    BY <1>1 DEF Start, GoesTo, fileVars, sockVars
  <2>2. /\ stage'[p] = "open"
        /\ \A q \in Proc \ {p} : stage'[q] = stage[q]
    BY <1>0, <2>1 DEF SingletonTypeOK
  <2>3. Relying' \subseteq Relying
    BY <1>0, <2>1, <2>2 DEF Relying, SingletonTypeOK
  <2>4. ~Placed(p) /\ ~MayLock(p) /\ (Serving => Serving')
    BY <2>1 DEF Placed, MayLock, Serving
  <2>5. \A i \in Inode : lockOf'[i] = lockOf[i]
    BY <2>1
  <2> QED BY <1>0, <2>1, <2>2, <2>3, <2>4, <2>5, AsideOfOne
<1>2. CASE Open(p)
  <2>1. /\ stage[p] = "open" /\ stage' = [stage EXCEPT ![p] = "lock"]
        /\ UNCHANGED <<again, target, lockOf, owed, listens, sock>>
    BY <1>2 DEF Open, GoesTo, sockVars
  <2>2. PICK i \in Inode :
          /\ fd' = [fd EXCEPT ![p] = i] /\ pidFile' = i
          /\ pidFile # i => pidFile = NoInode /\ lockOf[i] = NoProc
    <3>1. CASE pidFile = NoInode
      <4>1. FreeInode \in Inode /\ \A q \in Proc : fd[q] # FreeInode
        BY <1>0, <3>1, FreeInodeIs
      <4>2. lockOf[FreeInode] = NoProc
        BY <1>0, <4>1 DEF SingletonInv, LocksOwned, SingletonTypeOK
      <4> QED BY <1>2, <3>1, <4>1, <4>2 DEF Open
    <3>2. CASE pidFile # NoInode
      BY <1>0, <1>2, <3>2 DEF Open, SingletonTypeOK
    <3> QED BY <3>1, <3>2
  <2>3. /\ stage'[p] = "lock" /\ fd'[p] = i
        /\ \A q \in Proc \ {p} : stage'[q] = stage[q] /\ fd'[q] = fd[q]
    BY <1>0, <2>1, <2>2 DEF SingletonTypeOK
  <2>4. Relying' \subseteq Relying
    BY <1>0, <2>1, <2>3 DEF Relying, SingletonTypeOK
  <2>5. CASE MayLock(p)
    <3>1. MayLock(p)'
      BY <1>0, <2>1, <2>2, <2>3, <2>5 DEF MayLock, SingletonTypeOK, Inode, NoInode
    <3> QED BY <3>1 DEF ReliedOn
  <2>6. CASE ~MayLock(p)
    <3>1. ~Placed(p) /\ (Serving => Serving')
      BY <2>1 DEF Placed, Serving
    <3>2. pidFile' = pidFile \/ lockOf'[pidFile'] = NoProc
      BY <2>1, <2>2
    <3>3. \A j \in Inode : lockOf'[j] = lockOf[j]
      BY <2>1
    <3> QED BY <1>0, <2>1, <2>3, <2>4, <2>6, <3>1, <3>2, <3>3, AsideOfOne
  <2> QED BY <2>5, <2>6
<1>3. CASE Lock(p)
  <2>1. stage'[p] = "clear"
    BY <1>0, <1>3 DEF Lock, GoesTo, SingletonTypeOK
  <2>2. Placed(p)'
    BY <2>1 DEF Placed
  <2> QED BY <2>2 DEF ReliedOn
<1>4. CASE Contended(p) \/ GiveUp(p)
  <2>1. PICK s \in {"open", "read", "dead"} :
          /\ stage[p] = "lock" /\ stage' = [stage EXCEPT ![p] = s]
          /\ fd' = [fd EXCEPT ![p] = NoInode] /\ lockOf[fd[p]] # NoProc
          /\ UNCHANGED <<again, target, pidFile, lockOf, listens, sock>>
          /\ owed' = IF s = "dead" THEN owed \ {p} ELSE owed
    BY <1>4 DEF Contended, GiveUp, Fails, GoesTo, sockVars
  <2>2. /\ stage'[p] = s
        /\ \A q \in Proc \ {p} : stage'[q] = stage[q] /\ fd'[q] = fd[q]
    BY <1>0, <2>1 DEF SingletonTypeOK
  <2>3. Relying' \subseteq Relying
    BY <1>0, <2>1, <2>2 DEF Relying, SingletonTypeOK
  <2>4. ~Placed(p) /\ ~MayLock(p) /\ (Serving => Serving')
    BY <2>1 DEF Placed, MayLock, Serving
  <2>5. \A i \in Inode : lockOf'[i] = lockOf[i]
    BY <2>1
  <2> QED BY <1>0, <2>1, <2>2, <2>3, <2>4, <2>5, AsideOfOne
<1>5. CASE Read(p)
  <2>1. PICK s \in {"dead", "probe", "kill"} :
          /\ stage[p] = "read" /\ stage' = [stage EXCEPT ![p] = s]
          /\ UNCHANGED <<fd, again, pidFile, lockOf, listens, sock>>
          /\ owed' = IF s = "dead" THEN owed \ {p} ELSE owed
    BY <1>5 DEF Read, Fails, GoesTo, fileVars, sockVars
  <2>2. \A q \in Proc \ {p} : target'[q] = target[q]
    BY <1>0, <1>5 DEF Read, SingletonTypeOK
  <2>3. stage'[p] = s /\ \A q \in Proc \ {p} : stage'[q] = stage[q]
    BY <1>0, <2>1 DEF SingletonTypeOK
  <2>4. Relying' \subseteq Relying
    BY <1>0, <2>1, <2>3 DEF Relying, SingletonTypeOK
  <2>5. ~Placed(p) /\ ~MayLock(p) /\ (Serving => Serving')
    BY <2>1 DEF Placed, MayLock, Serving
  <2>6. \A i \in Inode : lockOf'[i] = lockOf[i]
    BY <2>1
  <2> QED BY <1>0, <2>1, <2>2, <2>3, <2>4, <2>5, <2>6, AsideOfOne
<1>6. CASE Probe(p)
  <2>1. /\ stage[p] = "probe"
        /\ stage' = [stage EXCEPT ![p] = IF Serving THEN "dead" ELSE "kill"]
        /\ UNCHANGED <<again, target, fd, pidFile, lockOf, listens, sock, owed>>
    BY <1>6 DEF Probe, GoesTo, fileVars, sockVars
  <2>2. CASE Serving
    BY <2>1, <2>2 DEF ReliedOn, Serving
  <2>3. CASE ~Serving
    <3>1. stage'[p] = "kill" /\ \A q \in Proc \ {p} : stage'[q] = stage[q]
      BY <1>0, <2>1, <2>3 DEF SingletonTypeOK
    <3>2. Relying' \subseteq Relying
      BY <1>0, <2>1, <3>1 DEF Relying, SingletonTypeOK
    <3>3. ~Placed(p) /\ ~MayLock(p)
      BY <2>1 DEF Placed, MayLock
    <3>4. \A i \in Inode : lockOf'[i] = lockOf[i]
      BY <2>1
    <3> QED BY <1>0, <2>1, <2>3, <3>1, <3>2, <3>3, <3>4, AsideOfOne
  <2> QED BY <2>2, <2>3
<1>7. CASE Clear(p) \/ Write(p)
  <2>1. stage'[p] \in {"write", "arm"}
    BY <1>0, <1>7 DEF Clear, Write, GoesTo, SingletonTypeOK
  <2>2. Placed(p)'
    BY <2>1 DEF Placed
  <2> QED BY <2>2 DEF ReliedOn
<1> QED BY <1>1, <1>2, <1>3, <1>4, <1>5, <1>6, <1>7

\* A start ends the one it supersedes: it may lock what that one had.
LEMMA SupersedeReliedOn ==
    ASSUME ServedInv, SingletonTypeOK', NEW p \in Proc, Kill(p) \/ Await(p)
    PROVE  ReliedOn'
<1> DEFINE t == target[p]
<1>0. SingletonInv /\ SingletonTypeOK /\ ReliedOn
  BY DEF ServedInv, SingletonInv
<1>1. /\ stage[p] \in {"kill", "await"} /\ target' = target
      /\ t \in Proc /\ stage[t] \in Recorded /\ t # p
  <2>1. stage[p] \in {"kill", "await"} /\ target' = target
    BY DEF Kill, Await
  <2>2. t \in Proc /\ stage[t] \in Recorded
    BY <2>1 DEF ServedInv, SingletonInv, SingletonTypeOK, RecordsNamed
  <2> QED BY <2>1, <2>2 DEF Recorded
<1>2. /\ Alive(t) => fd[t] \in Inode /\ lockOf[fd[t]] = t
      /\ ~Alive(t) => \A i \in Inode : lockOf[i] # t
  <2>1. Alive(t) => stage[t] \in Owning
    BY <1>1 DEF Alive, Recorded, Owning
  <2>2. ~Alive(t) => stage[t] \notin Owning
    BY DEF Alive, Owning
  <2> QED BY <1>0, <1>1, <2>1, <2>2, ProcAssumption
          DEF SingletonInv, FilesOpen, LocksOwned, SingletonTypeOK
\* The one it supersedes goes on for now, or has gone.
<1>3. ASSUME NEW s \in {"open", "await"}, stage' = [stage EXCEPT ![p] = s],
             s = "open" => p \in again' /\ ~Alive(t),
             again \subseteq again', UNCHANGED <<fileVars, sockVars, owed>>
      PROVE  ReliedOn'
  <2>1. UNCHANGED <<fd, pidFile, lockOf, listens, sock, owed>>
    BY <1>3 DEF fileVars, sockVars
  <2>2. stage'[p] = s /\ \A q \in Proc \ {p} : stage'[q] = stage[q]
    BY <1>0, <1>3 DEF SingletonTypeOK
  <2>3. Relying' \subseteq Relying
    BY <1>0, <2>1, <2>2 DEF Relying, SingletonTypeOK
  <2>4. CASE MayLock(p)
    <3>1. MayLock(p)'
      BY <1>0, <1>1, <1>2, <1>3, <2>1, <2>2, <2>4 DEF MayLock, SingletonTypeOK
    <3> QED BY <3>1 DEF ReliedOn
  <2>5. CASE ~MayLock(p)
    <3>1. ~Placed(p) /\ (Serving => Serving')
      BY <1>1, <2>1 DEF Placed, Serving
    <3>2. \A i \in Inode : lockOf'[i] = lockOf[i]
      BY <2>1
    <3>3. \A q \in Proc \ {p} : target'[q] = target[q] /\ fd'[q] = fd[q]
      BY <1>1, <2>1
    <3> QED BY <1>0, <1>3, <2>1, <2>2, <2>3, <2>5, <3>1, <3>2, <3>3, AsideOfOne
  <2> QED BY <2>4, <2>5
\* It is ended here.
<1>4. ASSUME NEW s \in {"open", "await"}, Alive(t), Dies(t), owed' = OwedAfter(t),
             stage' = [stage EXCEPT ![p] = s, ![t] = "dead"],
             s = "open" => p \in again', again \subseteq again'
      PROVE  ReliedOn'
  <2>1. /\ stage'[t] = "dead" /\ stage'[p] = s
        /\ \A q \in Proc \ {p, t} : stage'[q] = stage[q]
    BY <1>0, <1>1, <1>4 DEF SingletonTypeOK
  <2>2. /\ fd'[t] = NoInode /\ \A q \in Proc \ {t} : fd'[q] = fd[q]
        /\ \A i \in Inode : lockOf'[i] = IF lockOf[i] = t THEN NoProc ELSE lockOf[i]
        /\ listens' = listens \ {t} /\ UNCHANGED <<pidFile, sock>>
    BY <1>0, <1>4 DEF Dies, SingletonTypeOK
  <2>3. CASE Adrift(t)
    <3>1. owed' = owed \cap Fresh
      BY <1>4, <2>3 DEF OwedAfter
    <3>2. \A q \in Fresh \cap owed' : stage'[q] = stage[q]
      <4>1. p \notin Fresh /\ t \notin Fresh
        BY <1>1 DEF Fresh, Recorded
      <4> QED BY <1>0, <2>1, <3>1, <4>1 DEF SingletonTypeOK
    <3> QED BY <3>1, <3>2, UndoneRelyNot DEF ReliedOn
  <2>4. CASE ~Adrift(t) /\ stage[t] \in {"arm", "look", "unlink", "bind", "serve"}
    <3>1. fd[t] = pidFile
      BY <2>4 DEF Adrift
    <3>2. lockOf'[pidFile] = NoProc
      BY <1>2, <1>4, <2>2, <3>1
    <3>3. MayLock(p)'
      BY <1>4, <2>1, <2>2, <3>2 DEF MayLock
    <3> QED BY <3>3 DEF ReliedOn
  <2>5. CASE stage[t] \in {"unpid", "close"}
    <3>1. owed' = owed
      BY <1>4, <2>5 DEF OwedAfter, Adrift
    <3>2. Relying' \subseteq Relying
      BY <1>0, <2>1, <2>5, <3>1 DEF Relying, SingletonTypeOK
    <3>3. ~Placed(p) /\ ~Placed(t) /\ ~MayLock(t)
      BY <1>1, <2>5 DEF Placed, MayLock
    <3>4. Serving => Serving'
      BY <1>1, <2>2, <2>5 DEF Serving, ServedInv, ListensServes
    <3>5. \A i \in Inode : lockOf'[i] \in {lockOf[i], NoProc}
      BY <2>2
    <3>6. CASE MayLock(p)
      <4>1. pidFile # NoInode => lockOf'[pidFile] = NoProc
        BY <1>0, <1>1, <2>2, <3>6 DEF MayLock, SingletonTypeOK
      <4>2. MayLock(p)'
        BY <1>4, <2>1, <2>2, <4>1 DEF MayLock
      <4> QED BY <4>2 DEF ReliedOn
    <3>7. CASE ~MayLock(p)
      <4> DEFINE S == {p, t}
      <4>1. S \in SUBSET Proc /\ \A q \in S : ~Placed(q) /\ ~MayLock(q)
        BY <1>1, <3>3, <3>7
      <4>2. \A q \in Proc \ S : stage'[q] = stage[q] /\ fd'[q] = fd[q]
        BY <2>1, <2>2
      <4>3. \A q \in Proc \ S : target'[q] = target[q] /\ (q \in again => q \in again')
        BY <1>1, <1>4
      <4> HIDE DEF S
      <4> QED BY <1>0, <2>2, <3>2, <3>4, <3>5, <4>1, <4>2, <4>3, AsideOfIt
    <3> QED BY <3>6, <3>7
  <2>6. stage[t] # "dead"
    BY <1>4 DEF Alive
  <2> QED BY <1>1, <2>3, <2>4, <2>5, <2>6 DEF Recorded
<1>5. CASE Kill(p)
  <2>1. CASE ~Alive(t)
    BY <1>3, <1>5, <2>1 DEF Kill, GoesTo
  <2>2. CASE Alive(t) /\ Armed(t)
    BY <1>3, <1>5, <2>2 DEF Kill, GoesTo
  <2>3. CASE Alive(t) /\ ~Armed(t)
    BY <1>4, <1>5, <2>3 DEF Kill
  <2> QED BY <2>1, <2>2, <2>3
<1>6. CASE Await(p)
  BY <1>3, <1>4, <1>6 DEF Await, GoesTo
<1> QED BY <1>5, <1>6


\* The owner on its way to serve, and away.
LEMMA ServeReliedOn ==
    ASSUME ServedInv, SingletonTypeOK', NEW p \in Proc,
           \/ Arm(p) \/ Look(p) \/ Unlink(p) \/ Bind(p) \/ Leave(p) \/ Unpid(p)
    PROVE  ReliedOn'
<1>0. SingletonInv /\ SingletonTypeOK /\ ReliedOn
  BY DEF ServedInv, SingletonInv
<1>1. CASE Arm(p)
  <2>1. stage'[p] = "look"
    BY <1>0, <1>1 DEF Arm, GoesTo, SingletonTypeOK
  <2> QED BY <2>1 DEF ReliedOn, Placed
<1>2. CASE Look(p)
  <2>1. UNCHANGED <<listens, sock>> /\ (sock = NoProc => ~Serving)
    BY <1>0, <1>2, ProcAssumption DEF Look, sockVars, Serving, SingletonTypeOK
  <2>2. CASE Serving
    BY <2>1, <2>2 DEF ReliedOn, Serving
  <2>3. CASE ~Serving
    <3>1. stage'[p] = IF sock = NoProc THEN "bind" ELSE "unlink"
      BY <1>0, <1>2, <2>3 DEF Look, GoesTo, SingletonTypeOK
    <3> QED BY <2>1, <3>1 DEF ReliedOn, Placed
  <2> QED BY <2>2, <2>3
<1>3. CASE Unlink(p)
  <2>1. stage'[p] = "bind" /\ sock' = NoProc
    BY <1>0, <1>3 DEF Unlink, GoesTo, SingletonTypeOK
  <2> QED BY <2>1 DEF ReliedOn, Placed
<1>4. CASE Bind(p)
  <2>1. CASE sock = NoProc
    <3>1. Serving'
      BY <1>4, <2>1 DEF Bind, Serving
    <3> QED BY <3>1 DEF ReliedOn
  <2>2. CASE sock # NoProc
    <3>1. /\ stage[p] = "bind" /\ stage' = [stage EXCEPT ![p] = "unpid"]
          /\ owed' = owed \ {p}
          /\ UNCHANGED <<again, target, fd, pidFile, lockOf, listens, sock>>
      BY <1>4, <2>2 DEF Bind, GoesTo, fileVars, sockVars
    <3>2. stage'[p] = "unpid" /\ \A q \in Proc \ {p} : stage'[q] = stage[q]
      BY <1>0, <3>1 DEF SingletonTypeOK
    <3>3. Relying' \subseteq Relying
      BY <1>0, <3>1, <3>2 DEF Relying, SingletonTypeOK
    <3>4. ~Placed(p) /\ ~MayLock(p) /\ (Serving => Serving')
      BY <2>2, <3>1 DEF Placed, MayLock, Serving
    <3>5. \A i \in Inode : lockOf'[i] = lockOf[i]
      BY <3>1
    <3> QED BY <1>0, <3>1, <3>2, <3>3, <3>4, <3>5, AsideOfOne
  <2> QED BY <2>1, <2>2
<1>5. CASE Leave(p)
  <2>1. /\ stage[p] = "serve" /\ p \in told /\ stage' = [stage EXCEPT ![p] = "unpid"]
        /\ UNCHANGED <<again, target, fd, pidFile, lockOf>>
    BY <1>5 DEF Leave, GoesTo, fileVars
  <2>2. stage'[p] = "unpid" /\ \A q \in Proc \ {p} : stage'[q] = stage[q]
    BY <1>0, <2>1 DEF SingletonTypeOK
  <2>3. CASE p \in owed /\ ~Adrift(p)
    <3>1. PICK k \in Proc : stage[k] = "await" /\ target[k] = p
      BY <2>1, <2>3 DEF ServedInv, TellerWaits, Alive
    <3>2. fd[p] = pidFile /\ lockOf[fd[p]] = p
      BY <1>0, <2>1, <2>3 DEF Adrift, SingletonInv, LocksOwned, Owning
    <3>3. MayLock(k)'
      BY <2>1, <2>2, <3>1, <3>2 DEF MayLock
    <3> QED BY <3>3 DEF ReliedOn
  <2>4. CASE ~(p \in owed /\ ~Adrift(p))
    <3>1. owed' = owed \cap Fresh
      BY <1>5, <2>4 DEF Leave, OwedAfter
    <3>2. \A q \in Fresh \cap owed' : stage'[q] = stage[q]
      BY <1>0, <2>1, <2>2, <3>1 DEF Fresh, SingletonTypeOK
    <3> QED BY <3>1, <3>2, UndoneRelyNot DEF ReliedOn
  <2> QED BY <2>3, <2>4
<1>6. CASE Unpid(p)
  <2>1. /\ stage[p] = "unpid" /\ stage' = [stage EXCEPT ![p] = "close"]
        /\ pidFile' = NoInode
        /\ UNCHANGED <<again, target, fd, lockOf, listens, sock, owed>>
    BY <1>6 DEF Unpid, GoesTo, sockVars
  <2>2. stage'[p] = "close" /\ \A q \in Proc \ {p} : stage'[q] = stage[q]
    BY <1>0, <2>1 DEF SingletonTypeOK
  <2>3. Relying' \subseteq Relying
    BY <1>0, <2>1, <2>2 DEF Relying, SingletonTypeOK
  <2>4. ~Placed(p) /\ ~MayLock(p) /\ (Serving => Serving')
    BY <2>1 DEF Placed, MayLock, Serving
  <2>5. \A i \in Inode : lockOf'[i] = lockOf[i]
    BY <2>1
  <2> QED BY <1>0, <2>1, <2>2, <2>3, <2>4, <2>5, AsideOfOne
<1> QED BY <1>1, <1>2, <1>3, <1>4, <1>5, <1>6

\* An end, by its own or by the outside.
LEMMA EndReliedOn ==
    ASSUME ServedInv, SingletonTypeOK', NEW p \in Proc, Close(p) \/ Crash(p)
    PROVE  ReliedOn'
<1>0. SingletonInv /\ SingletonTypeOK /\ ReliedOn
  BY DEF ServedInv, SingletonInv
<1>1. /\ stage' = [stage EXCEPT ![p] = "dead"] /\ Dies(p)
      /\ UNCHANGED <<again, target>>
  BY DEF Close, Crash, GoesTo
<1>2. stage'[p] = "dead" /\ \A q \in Proc \ {p} : stage'[q] = stage[q]
  BY <1>0, <1>1 DEF SingletonTypeOK
<1>3. CASE Close(p)
  <2>1. stage[p] = "close" /\ owed' = owed
    BY <1>3 DEF Close
  <2>2. /\ \A q \in Proc \ {p} : fd'[q] = fd[q]
        /\ \A i \in Inode : lockOf'[i] \in {lockOf[i], NoProc}
        /\ listens' = listens \ {p} /\ UNCHANGED <<pidFile, sock>>
    BY <1>0, <1>1 DEF Dies, SingletonTypeOK
  <2>3. Relying' \subseteq Relying
    BY <1>0, <1>2, <2>1 DEF Relying, SingletonTypeOK
  <2>4. ~Placed(p) /\ ~MayLock(p)
    BY <2>1 DEF Placed, MayLock
  <2>5. Serving => Serving'
    BY <2>1, <2>2 DEF Serving, ServedInv, ListensServes
  <2> QED BY <1>0, <1>1, <1>2, <2>2, <2>3, <2>4, <2>5, AsideOfOne
<1>4. CASE Crash(p)
  <2>1. owed' = (owed \cap Fresh) \ {p}
    BY <1>4 DEF Crash
  <2>2. \A q \in Fresh \cap owed' : stage'[q] = stage[q]
    BY <1>0, <1>2, <2>1 DEF SingletonTypeOK
  <2> QED BY <2>1, <2>2, UndoneRelyNot DEF ReliedOn
<1> QED BY <1>3, <1>4

\* The outside, and a daemon told to stop: nobody is moved.
LEMMA ToldReliedOn ==
    ASSUME ServedInv, SingletonTypeOK',
           UNCHANGED <<stage, again, target, fileVars, sockVars>>, owed' \subseteq owed
    PROVE  ReliedOn'
<1>1. UNCHANGED <<stage, again, target, fd, pidFile, lockOf, listens, sock>>
  BY DEF fileVars, sockVars
<1>2. Relying' \subseteq Relying
  BY <1>1 DEF Relying
<1>3. \A q \in Proc : (Placed(q) => Placed(q)') /\ (MayLock(q) => MayLock(q)')
  BY <1>1 DEF Placed, MayLock
<1>4. Serving => Serving'
  BY <1>1 DEF Serving
<1> QED BY <1>2, <1>3, <1>4 DEF ServedInv, ReliedOn


\* A step of one process, which does not end a wait.
LEMMA MoveKeepsTold ==
    ASSUME ServedInv, SingletonTypeOK', NEW p \in Proc, NEW s,
           stage' = [stage EXCEPT ![p] = s], stage[p] \notin {"await", "dead"},
           Armed(p) => s \in {"dead", "look", "unlink", "bind", "serve", "unpid", "close"},
           told' = told, \A k \in Proc \ {p} : target'[k] = target[k],
           owed' \subseteq owed \cup {p}, Armed(p) => owed' \subseteq owed,
           listens' \subseteq listens \cup {p}, p \in listens' => s = "serve"
    PROVE  ListensServes' /\ ToldArmed' /\ TellerWaits'
<1>0. SingletonTypeOK /\ ListensServes /\ ToldArmed /\ TellerWaits
  BY DEF ServedInv, SingletonInv
<1>1. stage'[p] = s /\ \A q \in Proc \ {p} : stage'[q] = stage[q]
  BY <1>0 DEF SingletonTypeOK
<1>2. ListensServes'
  BY <1>0, <1>1 DEF ListensServes
<1>3. told \subseteq Proc
  BY <1>0 DEF SingletonTypeOK
<1>4. ASSUME NEW q \in told PROVE Armed(q)' \/ stage'[q] = "dead"
  <2>1. CASE q = p
    <3>1. Armed(p)
      BY <1>0, <2>1 DEF ToldArmed
    <3> QED BY <1>1, <2>1, <3>1 DEF Armed
  <2>2. CASE q # p
    BY <1>0, <1>1, <1>3, <2>2 DEF ToldArmed, Armed
  <2> QED BY <2>1, <2>2
<1>5. ToldArmed'
  BY <1>4 DEF ToldArmed
<1>6. ASSUME NEW q \in owed' \cap told', Alive(q)'
      PROVE  \E k \in Proc : stage'[k] = "await" /\ target'[k] = q
  <2>1. q \in told /\ q \in Proc
    BY <1>3
  <2>2. Armed(q) \/ stage[q] = "dead"
    BY <1>0, <2>1 DEF ToldArmed
  <2>3. Alive(q)
    BY <1>1, <1>6, <2>1, <2>2 DEF Alive, Armed
  <2>4. q \in owed
    BY <2>2, <2>3 DEF Alive, Armed
  <2>5. PICK k \in Proc : stage[k] = "await" /\ target[k] = q
    BY <1>0, <2>1, <2>3, <2>4 DEF TellerWaits
  <2>6. k # p
    BY <2>5
  <2> QED BY <1>1, <2>5, <2>6
<1>7. TellerWaits'
  BY <1>6 DEF TellerWaits
<1> QED BY <1>2, <1>5, <1>7

\* What is undone is nobody's who was told.
LEMMA UndoneToldNot ==
    ASSUME ServedInv, owed' \subseteq owed \cap Fresh, told' = told
    PROVE  TellerWaits'
BY DEF ServedInv, ToldArmed, TellerWaits, Fresh, Armed

\* A start that supersedes tells, or ends, whom it waits for.
LEMMA SupersedeKeepsTold ==
    ASSUME ServedInv, SingletonTypeOK', NEW p \in Proc, Kill(p) \/ Await(p)
    PROVE  ListensServes' /\ ToldArmed' /\ TellerWaits'
<1> DEFINE t == target[p]
<1>0. SingletonTypeOK /\ ListensServes /\ ToldArmed /\ TellerWaits
  BY DEF ServedInv, SingletonInv
<1>1. /\ stage[p] \in {"kill", "await"} /\ target' = target
      /\ t \in Proc /\ t # p /\ told \subseteq Proc
  <2>1. stage[p] \in {"kill", "await"} /\ target' = target
    BY DEF Kill, Await
  <2>2. t \in Proc /\ stage[t] \in Recorded
    BY <2>1 DEF ServedInv, SingletonInv, SingletonTypeOK, RecordsNamed
  <2> QED BY <1>0, <2>1, <2>2 DEF Recorded, SingletonTypeOK
\* The one it supersedes is left as it is, has heard, or has gone.
<1>2. ASSUME NEW s \in {"open", "await"}, stage' = [stage EXCEPT ![p] = s],
             told' = told \/ (told' = told \cup {t} /\ Armed(t) /\ s = "await"),
             s = "open" => ~Alive(t), UNCHANGED <<listens, owed>>
      PROVE  ListensServes' /\ ToldArmed' /\ TellerWaits'
  <2>1. stage'[p] = s /\ \A q \in Proc \ {p} : stage'[q] = stage[q]
    BY <1>0, <1>2 DEF SingletonTypeOK
  <2>2. ListensServes'
    BY <1>0, <1>1, <1>2, <2>1 DEF ListensServes
  <2>3. p \notin told
    BY <1>0, <1>1 DEF ToldArmed, Armed
  <2>4. ToldArmed'
    BY <1>0, <1>1, <1>2, <2>1, <2>3 DEF ToldArmed, Armed
  <2>5. ASSUME NEW q \in owed \cap told', Alive(q)'
        PROVE  \E k \in Proc : stage'[k] = "await" /\ target[k] = q
    <3>1. CASE q \notin told
      BY <1>1, <1>2, <2>1, <2>5, <3>1
    <3>2. CASE q \in told
      <4>1. q # p /\ Alive(q)
        BY <1>1, <2>1, <2>3, <2>5, <3>2 DEF Alive
      <4>2. PICK k \in Proc : stage[k] = "await" /\ target[k] = q
        BY <1>0, <2>5, <3>2, <4>1 DEF TellerWaits
      <4>3. k # p \/ s = "await"
        BY <1>2, <4>1, <4>2
      <4> QED BY <2>1, <4>2, <4>3
    <3> QED BY <3>1, <3>2
  <2>6. TellerWaits'
    BY <1>1, <1>2, <2>5 DEF TellerWaits
  <2> QED BY <2>2, <2>4, <2>6
\* It is ended here.
<1>3. ASSUME NEW s \in {"open", "await"}, Dies(t), owed' = OwedAfter(t),
             stage' = [stage EXCEPT ![p] = s, ![t] = "dead"], told' = told
      PROVE  ListensServes' /\ ToldArmed' /\ TellerWaits'
  <2>1. /\ stage'[t] = "dead" /\ stage'[p] = s
        /\ \A q \in Proc \ {p, t} : stage'[q] = stage[q]
    BY <1>0, <1>1, <1>3 DEF SingletonTypeOK
  <2>2. listens' = listens \ {t}
    BY <1>3 DEF Dies
  <2>3. ListensServes'
    BY <1>0, <1>1, <2>1, <2>2 DEF ListensServes
  <2>4. p \notin told
    BY <1>0, <1>1 DEF ToldArmed, Armed
  <2>5. ToldArmed'
    BY <1>0, <1>1, <1>3, <2>1, <2>4 DEF ToldArmed, Armed
  <2>6. ASSUME NEW q \in owed' \cap told, Alive(q)'
        PROVE  \E k \in Proc : stage'[k] = "await" /\ target[k] = q
    <3>1. q \in owed /\ q # p /\ q # t /\ q \in Proc
      BY <1>1, <1>3, <2>1, <2>4, <2>6 DEF OwedAfter, Alive
    <3>2. Alive(q)
      BY <2>1, <2>6, <3>1 DEF Alive
    <3>3. PICK k \in Proc : stage[k] = "await" /\ target[k] = q
      BY <1>0, <2>6, <3>1, <3>2 DEF TellerWaits
    <3>4. k # p
      BY <3>1, <3>3
    <3>5. CASE k = t
      <4>1. stage[t] \in Recorded
        BY <1>1 DEF ServedInv, SingletonInv, RecordsNamed, SingletonTypeOK
      <4> QED BY <3>3, <3>5, <4>1 DEF Recorded
    <3> QED BY <2>1, <3>3, <3>4, <3>5
  <2>7. TellerWaits'
    BY <1>1, <1>3, <2>6 DEF TellerWaits
  <2> QED BY <2>3, <2>5, <2>7
<1>4. CASE Kill(p)
  <2>1. CASE ~Alive(t)
    BY <1>2, <1>4, <2>1 DEF Kill, GoesTo, sockVars
  <2>2. CASE Alive(t) /\ Armed(t)
    BY <1>2, <1>4, <2>2 DEF Kill, GoesTo, sockVars
  <2>3. CASE Alive(t) /\ ~Armed(t)
    BY <1>3, <1>4, <2>3 DEF Kill
  <2> QED BY <2>1, <2>2, <2>3
<1>5. CASE Await(p)
  BY <1>2, <1>3, <1>5 DEF Await, GoesTo, sockVars
<1> QED BY <1>4, <1>5


\* Every other step: it moves one process, or cancels one, or it is the outside's.
LEMMA StepKeepsTold ==
    ASSUME ServedInv, SingletonTypeOK', NEW p \in Proc,
           Start(p) \/ (DaemonStep(p) /\ ~Kill(p) /\ ~Await(p)) \/ Stop(p)
    PROVE  ListensServes' /\ ToldArmed' /\ TellerWaits'
<1>0. SingletonTypeOK /\ ListensServes /\ ToldArmed /\ TellerWaits
  BY DEF ServedInv, SingletonInv
<1> USE DEF GoesTo, Armed, procVars, fileVars, sockVars
<1>1. CASE Start(p)
  BY <1>0, <1>1, MoveKeepsTold DEF Start, ListensServes
<1>2. CASE Open(p)
  BY <1>0, <1>2, MoveKeepsTold DEF Open, ListensServes
<1>3. CASE Lock(p) \/ Clear(p) \/ Write(p) \/ Arm(p)
  <2>1. p \notin listens
    BY <1>0, <1>3 DEF ListensServes, Lock, Clear, Write, Arm
  <2> QED BY <1>3, <2>1, MoveKeepsTold DEF Lock, Clear, Write, Arm
<1>4. CASE Contended(p) \/ GiveUp(p)
  <2>1. p \notin listens
    BY <1>0, <1>4 DEF ListensServes, Contended, GiveUp
  <2> QED BY <1>4, <2>1, MoveKeepsTold DEF Contended, GiveUp, Fails
<1>5. CASE Read(p)
  <2>1. PICK s \in {"dead", "probe", "kill"} :
          /\ stage[p] = "read" /\ stage' = [stage EXCEPT ![p] = s]
          /\ told' = told /\ listens' = listens /\ owed' \subseteq owed
    BY <1>5 DEF Read, Fails
  <2>2. \A k \in Proc \ {p} : target'[k] = target[k]
    BY <1>0, <1>5 DEF Read, SingletonTypeOK
  <2>3. p \notin listens
    BY <1>0, <2>1 DEF ListensServes
  <2> QED BY <2>1, <2>2, <2>3, MoveKeepsTold
<1>6. CASE Probe(p)
  BY <1>0, <1>6, MoveKeepsTold DEF Probe, ListensServes
<1>7. CASE Look(p) \/ Unlink(p)
  BY <1>0, <1>7, MoveKeepsTold DEF Look, Unlink, ListensServes
<1>8. CASE Bind(p)
  BY <1>0, <1>8, MoveKeepsTold DEF Bind, ListensServes
<1>9. CASE Leave(p)
  BY <1>9, MoveKeepsTold DEF Leave, OwedAfter
<1>10. CASE Unpid(p)
  BY <1>0, <1>10, MoveKeepsTold DEF Unpid, ListensServes
<1>11. CASE Close(p)
  BY <1>11, MoveKeepsTold DEF Close, Dies
<1>12. CASE Notice(p) \/ Stop(p)
  BY <1>0, <1>12 DEF Notice, Stop, ListensServes, ToldArmed, TellerWaits, Alive
<1> QED BY <1>1, <1>2, <1>3, <1>4, <1>5, <1>6, <1>7, <1>8, <1>9, <1>10, <1>11, <1>12
        DEF DaemonStep

LEMMA CrashKeepsTold ==
    ASSUME ServedInv, SingletonTypeOK', NEW p \in Proc, Crash(p)
    PROVE  ListensServes' /\ ToldArmed' /\ TellerWaits'
<1>0. SingletonTypeOK /\ ListensServes /\ ToldArmed
  BY DEF ServedInv, SingletonInv
<1>1. /\ stage' = [stage EXCEPT ![p] = "dead"] /\ listens' = listens \ {p}
      /\ told' = told /\ owed' \subseteq owed \cap Fresh
  BY DEF Crash, Dies, GoesTo
<1>2. stage'[p] = "dead" /\ \A q \in Proc \ {p} : stage'[q] = stage[q]
  BY <1>0, <1>1 DEF SingletonTypeOK
<1>3. ListensServes' /\ ToldArmed'
  BY <1>0, <1>1, <1>2 DEF ListensServes, ToldArmed, Armed, SingletonTypeOK
<1> QED BY <1>1, <1>3, UndoneToldNot

LEMMA ServedStepInv ==
    ASSUME ServedInv, [SingletonNext]_singletonVars PROVE ServedInv'
<1>1. SingletonInv' /\ SingletonTypeOK'
  BY SingletonStepInv DEF ServedInv, SingletonInv
<1>2. ASSUME NEW p \in Proc, Kill(p) \/ Await(p) PROVE ServedInv'
  BY <1>1, <1>2, SupersedeReliedOn, SupersedeKeepsTold DEF ServedInv
<1>3. ASSUME NEW p \in Proc,
             \/ Start(p) \/ Open(p) \/ Lock(p) \/ Contended(p) \/ GiveUp(p)
             \/ Read(p) \/ Probe(p) \/ Clear(p) \/ Write(p)
             \/ Arm(p) \/ Look(p) \/ Unlink(p) \/ Bind(p) \/ Leave(p) \/ Unpid(p)
             \/ Close(p) \/ Notice(p) \/ Stop(p),
             ~Kill(p), ~Await(p)
      PROVE  ServedInv'
  <2>1. ListensServes' /\ ToldArmed' /\ TellerWaits'
    BY <1>1, <1>3, StepKeepsTold DEF DaemonStep
  <2>2. ReliedOn'
    <3>1. CASE Notice(p) \/ Stop(p)
      <4>1. UNCHANGED <<stage, again, target, fileVars, sockVars>> /\ owed' \subseteq owed
        BY <3>1 DEF Notice, Stop
      <4> QED BY <1>1, <4>1, ToldReliedOn
    <3> QED BY <1>1, <1>3, <3>1, AcquireReliedOn, ServeReliedOn, EndReliedOn
  <2> QED BY <1>1, <2>1, <2>2 DEF ServedInv
<1>4. ASSUME NEW p \in Proc, Crash(p) PROVE ServedInv'
  BY <1>1, <1>4, EndReliedOn, CrashKeepsTold DEF ServedInv
<1>5. CASE Replace \/ UNCHANGED singletonVars
  <2>1. UNCHANGED <<stage, again, target, told, owed, fileVars, sockVars>>
    BY <1>5 DEF Replace, singletonVars, procVars
  <2>2. ReliedOn'
    BY <1>1, <2>1, ToldReliedOn
  <2>3. ListensServes' /\ ToldArmed' /\ TellerWaits'
    BY <2>1 DEF ServedInv, ListensServes, ToldArmed, TellerWaits, Armed, Alive, sockVars
  <2> QED BY <1>1, <2>2, <2>3 DEF ServedInv
<1> QED BY <1>2, <1>3, <1>4, <1>5 DEF SingletonNext, DaemonStep

\* A start that came to nothing without a word left a daemon that serves, however many
\* daemons of however many builds contend (acquire, probe_until_serving,
\* supersede_existing, Server::bind): once nothing is under way, somebody answers at
\* the socket unless the outside undid every start that nothing was heard of, or
\* one ended a daemon whose pid path another had unlinked.
THEOREM NoStartUnservedEver == SingletonSpec => []NoStartUnserved
<1>1. SingletonInit => ServedInv
  BY ServedInitInv
<1>2. ServedInv /\ [SingletonNext]_singletonVars => ServedInv'
  BY ServedStepInv
<1>3. ASSUME ServedInv, AtRest, NEW q \in owed PROVE Serving
  <2>1. owed \subseteq Proc
    BY <1>3 DEF ServedInv, SingletonInv, SingletonTypeOK
  <2>2. q \in Relying
    BY <1>3, <2>1 DEF AtRest, Relying
  <2>3. \A p \in Proc : ~Placed(p) /\ ~MayLock(p)
    BY <1>3 DEF AtRest, Placed, MayLock
  <2> QED BY <1>3, <2>2, <2>3 DEF ServedInv, ReliedOn
<1>4. ServedInv => NoStartUnserved
  BY <1>3 DEF NoStartUnserved
<1> QED BY <1>1, <1>2, <1>4, PTL DEF SingletonSpec
=============================================================================
