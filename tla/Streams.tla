------------------------------- MODULE Streams ------------------------------
(***************************************************************************)
(* Watch streams: clients that follow a key, subscribed to every entry its *)
(* read walks, beside writers and reloads (src/src/server.rs               *)
(* `handle_watch` and `watch_setup`, src/src/watcher_registry.rs).         *)
(*                                                                         *)
(* An entry is a link of the chain; its value is how often it was written. *)
(* A writer stores and then notifies.  A frame is what a read of the links *)
(* gave.  The demand a stream signals is a message to the scheduler, which *)
(* Lifecycle takes; a channel's queue is kept as whether there is anything *)
(* in it, since a receiver does the same for one, many, or too many.       *)
(***************************************************************************)
EXTENDS Naturals, Sequences, FiniteSets

CONSTANTS
    Stream,     \* the watches of clients
    Writer,     \* threads that write
    Link,       \* entries of the cache
    Chain,      \* [0..MaxReload -> Seq(Link)]: what the read walks under a
                \* registry, which says where the roots are
    NoLink,
    MaxWrite,   \* how many writes there are
    MaxReload

ASSUME StreamsAssumption ==
    /\ MaxWrite \in Nat /\ MaxReload \in Nat
    /\ Chain \in [0..MaxReload -> Seq(Link)]
    /\ NoLink \notin Link

Registry == 0..MaxReload

\* A stream makes one WatchSetup, and another for a reload it sees.
Setup == 1..(MaxReload + 1)

Sub == [of : Stream, setup : Setup, link : Link, gen : Nat]

VARIABLES
    value,      \* [Link -> Nat]
    writes,     \* how many there were
    writing,    \* [Writer -> [link : Link \cup {NoLink}, step]]
    inForce,    \* the registry in force
    chan,       \* [Link -> Nat]: WatcherRegistry.channels, or 0 for none
    subs,       \* the receivers there are
    heard,      \* those of them with something in their queue
    collecting, \* the receivers dropped whose key is yet to be collected
    phase,      \* [Stream -> Phase]
    seen,       \* [Stream -> Registry]: the one its setup is made under
    setup,      \* [Stream -> Setup]: the one made last
    todo,       \* [Stream -> Seq(Link)]: yet to be subscribed to, or read
    permit,     \* streams with a permit in the Notify of the setup made last
    view,       \* [Stream -> [links read so far -> Nat]]
    last        \* [Stream -> [Link -> Nat]], on its links: the frame sent last

cacheSide  == <<value, writes, writing, inForce>>
channels   == <<chan, subs, heard, collecting>>
streamSide == <<phase, seen, setup, todo, permit, view, last>>
streamVars == <<cacheSide, channels, streamSide>>

Phase == {"plan", "subscribe", "read", "wait", "closed"}

Nothing == [l \in {} |-> 0]

StreamsInit ==
    /\ value = [l \in Link |-> 0] /\ writes = 0 /\ inForce = 0
    /\ writing = [w \in Writer |-> [link |-> NoLink, step |-> "idle"]]
    /\ chan = [l \in Link |-> 0]
    /\ subs = {} /\ heard = {} /\ collecting = {}
    /\ phase = [s \in Stream |-> "plan"]
    /\ seen = [s \in Stream |-> 0]
    /\ setup = [s \in Stream |-> 1]
    /\ todo = [s \in Stream |-> <<>>]
    /\ permit = {}
    /\ view = [s \in Stream |-> Nothing]
    /\ last = [s \in Stream |-> Nothing]

Receivers(l) == {r \in subs : r.link = l /\ r.gen = chan[l]}

\* remove_if, under the lock of the key.
Unused(l) == chan[l] # 0 /\ Receivers(l) = {}

\* Mutant: it is not looked at again under the lock.
RemoveAnyway(l) == chan' = [chan EXCEPT ![l] = 0]

RemoveIfUnused(l) ==
    chan' = IF Unused(l) THEN [chan EXCEPT ![l] = 0] ELSE chan

-----------------------------------------------------------------------------
(* Writers, and reloads. *)

StoreValue(w, l) ==
    /\ writing[w].step = "idle" /\ writes < MaxWrite
    /\ writes' = writes + 1
    /\ value' = [value EXCEPT ![l] = @ + 1]
    /\ writing' = [writing EXCEPT ![w] = [link |-> l, step |-> "notify"]]
    /\ UNCHANGED <<inForce, channels, streamSide>>

Idle(w) ==
    writing' = [writing EXCEPT ![w] = [link |-> NoLink, step |-> "idle"]]

\* A send to a channel nobody receives from fails, and the key is looked at
\* again.
Notify(w) ==
    /\ writing[w].step = "notify"
    /\ LET l == writing[w].link
       IN  IF Unused(l)
             THEN writing' = [writing EXCEPT ![w].step = "sweep"]
                  /\ UNCHANGED heard
             ELSE Idle(w) /\ heard' = heard \cup Receivers(l)
    /\ UNCHANGED <<value, writes, inForce, chan, subs, collecting,
                   streamSide>>

Sweep(w) ==
    /\ writing[w].step = "sweep"
    /\ RemoveIfUnused(writing[w].link)
    /\ Idle(w)
    /\ UNCHANGED <<value, writes, inForce, subs, heard, collecting,
                   streamSide>>

Reloads ==
    /\ inForce < MaxReload
    /\ inForce' = inForce + 1
    /\ UNCHANGED <<value, writes, writing, channels, streamSide>>

-----------------------------------------------------------------------------
(* A stream. *)

\* borrow_and_update, and the plan: at first, and for a registry not seen.
PlanSetup(s) ==
    /\ \/ phase[s] = "plan" /\ UNCHANGED setup
       \/ /\ phase[s] = "wait" /\ seen[s] # inForce
          /\ setup' = [setup EXCEPT ![s] = @ + 1]
    /\ seen' = [seen EXCEPT ![s] = inForce]
    /\ todo' = [todo EXCEPT ![s] = Chain[inForce]]
    /\ permit' = permit \ {s}
    /\ phase' = [phase EXCEPT ![s] = "subscribe"]
    /\ UNCHANGED <<cacheSide, channels, view, last>>

\* A new channel: not one that somebody still receives from.
NewGen(l) ==
    CHOOSE g \in 1..(Cardinality(subs) + 1) :
        \A r \in subs : r.link = l => r.gen # g

SubscribeLink(s) ==
    /\ phase[s] = "subscribe" /\ todo[s] # <<>>
    /\ LET l   == Head(todo[s])
           gen == IF chan[l] = 0 THEN NewGen(l) ELSE chan[l]
       IN  /\ chan' = [chan EXCEPT ![l] = gen]
           /\ subs' = subs \cup {[of |-> s, setup |-> setup[s], link |-> l,
                                  gen |-> gen]}
    /\ todo' = [todo EXCEPT ![s] = Tail(@)]
    /\ UNCHANGED <<cacheSide, heard, collecting, phase, seen, setup, permit,
                   view, last>>

\* The setup is made, and the loop reads.
BeginRead(s) ==
    /\ phase[s] = "subscribe" /\ todo[s] = <<>>
    /\ todo' = [todo EXCEPT ![s] = Chain[seen[s]]]
    /\ phase' = [phase EXCEPT ![s] = "read"]
    /\ UNCHANGED <<cacheSide, channels, seen, setup, permit, view, last>>

ReadLink(s) ==
    /\ phase[s] = "read" /\ todo[s] # <<>>
    /\ LET l == Head(todo[s])
       IN  view' = [view EXCEPT ![s] =
                        [m \in DOMAIN @ \cup {l} |->
                            IF m = l THEN value[l] ELSE @[m]]]
    /\ todo' = [todo EXCEPT ![s] = Tail(@)]
    /\ UNCHANGED <<cacheSide, channels, phase, seen, setup, permit, last>>

\* Mutant: what was notified meanwhile is taken to be in the frame.
SendFrameForgets(s) ==
    /\ phase[s] = "read" /\ todo[s] = <<>>
    /\ last' = [last EXCEPT ![s] = view[s]]
    /\ view' = [view EXCEPT ![s] = Nothing]
    /\ permit' = permit \ {s}
    /\ phase' = [phase EXCEPT ![s] = "wait"]
    /\ UNCHANGED <<cacheSide, channels, seen, setup, todo>>

\* A frame like the last is not sent.
SendFrame(s) ==
    /\ phase[s] = "read" /\ todo[s] = <<>>
    /\ last' = [last EXCEPT ![s] = view[s]]
    /\ view' = [view EXCEPT ![s] = Nothing]
    /\ phase' = [phase EXCEPT ![s] = "wait"]
    /\ UNCHANGED <<cacheSide, channels, seen, setup, todo, permit>>

\* changed.notified(): the permit is taken, and then the links are read.
Woken(s) ==
    /\ phase[s] = "wait" /\ s \in permit
    /\ permit' = permit \ {s}
    /\ todo' = [todo EXCEPT ![s] = Chain[seen[s]]]
    /\ phase' = [phase EXCEPT ![s] = "read"]
    /\ UNCHANGED <<cacheSide, channels, seen, setup, view, last>>

\* The client closes its connection: the stream looks only as it waits.
CloseWatch(s) ==
    /\ phase[s] = "wait"
    /\ phase' = [phase EXCEPT ![s] = "closed"]
    /\ permit' = permit \ {s}
    /\ last' = [last EXCEPT ![s] = Nothing]
    /\ UNCHANGED <<cacheSide, channels, seen, setup, todo, view>>

\* A ChainWatch is dropped as the next setup takes its place, or the stream
\* ends.
Over(r) == \/ phase[r.of] = "closed"
           \/ r.setup < setup[r.of] /\ phase[r.of] # "subscribe"

\* A forwarder hands what its receiver hears to the setup's Notify; nobody
\* waits on that of a setup whose place is taken.
Forward(r) ==
    /\ r \in heard
    /\ heard' = heard \ {r}
    /\ permit' = IF r.setup = setup[r.of] /\ phase[r.of] # "closed"
                   THEN permit \cup {r.of} ELSE permit
    /\ UNCHANGED <<cacheSide, chan, subs, collecting, phase, seen, setup,
                   todo, view, last>>

\* Mutant: a forwarder goes on with what a dropped receiver heard.
DropSubHeard(r) ==
    /\ r \in subs /\ Over(r)
    /\ subs' = subs \ {r}
    /\ collecting' = collecting \cup {r}
    /\ UNCHANGED <<cacheSide, chan, heard, streamSide>>

\* Mutant: the key of a dropped receiver is left as it is.
DropSubOnly(r) ==
    /\ r \in subs /\ Over(r)
    /\ subs' = subs \ {r} /\ heard' = heard \ {r}
    /\ UNCHANGED <<cacheSide, chan, collecting, streamSide>>

\* An aborted forwarder drops its receiver, and then its key is collected.
DropSub(r) ==
    /\ r \in subs /\ Over(r)
    /\ subs' = subs \ {r} /\ heard' = heard \ {r}
    /\ collecting' = collecting \cup {r}
    /\ UNCHANGED <<cacheSide, chan, streamSide>>

GcKey(r) ==
    /\ r \in collecting
    /\ RemoveIfUnused(r.link)
    /\ collecting' = collecting \ {r}
    /\ UNCHANGED <<cacheSide, subs, heard, streamSide>>

\* The loop's gc_tick looks at every key.
GcTick(l) ==
    /\ Unused(l)
    /\ RemoveIfUnused(l)
    /\ UNCHANGED <<cacheSide, subs, heard, collecting, streamSide>>

StreamsNext ==
    \/ \E w \in Writer :
           (\E l \in Link : StoreValue(w, l)) \/ Notify(w) \/ Sweep(w)
    \/ Reloads
    \/ \E l \in Link : GcTick(l)
    \/ \E s \in Stream :
           \/ PlanSetup(s) \/ BeginRead(s) \/ SendFrame(s) \/ Woken(s)
           \/ SubscribeLink(s) \/ ReadLink(s) \/ CloseWatch(s)
    \/ \E r \in subs : Forward(r) \/ DropSub(r)
    \/ \E r \in collecting : GcKey(r)

StreamsSpec == StreamsInit /\ [][StreamsNext]_streamVars

-----------------------------------------------------------------------------
(* Properties. *)

StreamsTypeOK ==
    /\ value \in [Link -> 0..MaxWrite] /\ writes \in 0..MaxWrite
    /\ writing \in [Writer -> [link : Link \cup {NoLink},
                               step : {"idle", "notify", "sweep"}]]
    /\ inForce \in Registry
    /\ chan \in [Link -> Nat]
    /\ subs \subseteq Sub /\ heard \subseteq subs /\ collecting \subseteq Sub
    /\ phase \in [Stream -> Phase]
    /\ seen \in [Stream -> Registry] /\ setup \in [Stream -> Setup]
    /\ todo \in [Stream -> Seq(Link)]
    /\ permit \subseteq Stream
    /\ \A s \in Stream : /\ DOMAIN view[s] \subseteq Link
                         /\ DOMAIN last[s] \subseteq Link

Walked(g) == {Chain[g][i] : i \in DOMAIN Chain[g]}

\* Nothing is on its way to the stream.
Quiet(s) ==
    /\ phase[s] = "wait" /\ seen[s] = inForce /\ s \notin permit
    /\ \A r \in heard : r.of # s
    /\ \A w \in Writer : writing[w].step = "idle"

\* The last change is seen: a stream at rest has sent what its links hold, all
\* those the registry in force has it read, whatever was written while it
\* subscribed, read, or changed its setup for a reload.
StreamCaughtUp ==
    \A s \in Stream :
        Quiet(s) => last[s] = [l \in Walked(inForce) |-> value[l]]

\* Nobody is left on a channel that writers no longer find.
SubscribedIsHeard == \A r \in subs : chan[r.link] = r.gen

\* Channels go with the last to receive from them.
ChannelsCollected ==
    \A l \in Link :
        chan[l] # 0 =>
            \/ Receivers(l) # {}
            \/ \E r \in collecting : r.link = l
=============================================================================
