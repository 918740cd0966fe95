-------------------------------- MODULE FanIn -------------------------------
(***************************************************************************)
(* The watch of a resolved value: a client that follows every address its  *)
(* resolution read, each over a daemon watch of its own                    *)
(* (src/libbeachcomber/src/watch.rs `ResolvedWatch`, over resolve.rs).     *)
(*                                                                         *)
(* A node is what the daemon holds at an address, which decides what other *)
(* addresses a render of it reads; beside it lies the memo of what a       *)
(* cached leaf rendered.  A read that finds a Source's record due runs it, *)
(* and a resolution writes back the memos its cached leaves missed, so the *)
(* watch itself changes what it reads.                                     *)
(*                                                                         *)
(* The daemon's side of a watch is the loop of Streams from its first read *)
(* on: it is woken by a change, and leaves out a frame like the one it     *)
(* sent last.  A render that is not memoised is made of what it reads and  *)
(* of nothing else.  Left out: the facet keys' kind of watch, which hands  *)
(* frames on as they come; the cancel; and a caller that goes on after a   *)
(* subscription could not be sent.                                         *)
(***************************************************************************)
EXTENDS Naturals, Sequences, FiniteSets

CONSTANTS
    Address,
    Root,       \* the address the watch is of
    Shown,      \* what a node may be
    Reads,      \* [Address -> [Shown -> SUBSET Address]]: whom a render of it
                \* reads
    Executes,   \* addresses whose record is a Source's, which may come due
    Cached,     \* template leaves piped through cache()
    Output,     \* what a leaf may have rendered, nothing among it
    Inputs,     \* [Cached -> SUBSET Address]: whose data its hash is of
    Refused,    \* the daemon refuses the address
    NoHash,     \* the hash of a memo that was dropped, and of none
    MaxChangeAt   \* bound: changes made by others

\* What a hash is of: the data of each input, and nothing of the others.
Hash == [Address -> Shown \cup {Refused}]

LeafMemo == [hash : Hash \cup {NoHash}, out : Output \cup {NoHash}]

NoMemo == [hash |-> NoHash, out |-> NoHash]

NodeFrame == [is : Shown, memo : LeafMemo]

\* What a read answers and a frame carries: the data, and the memo half.
Frame == NodeFrame \cup {Refused}

ASSUME FanInAssumption ==
    /\ Root \in Address /\ Executes \subseteq Address
    /\ Cached \subseteq Address /\ Inputs \in [Cached -> SUBSET Address]
    /\ Refused \notin Shown \cup NodeFrame /\ NoHash \notin Hash
    /\ Reads \in [Address -> [Shown -> SUBSET Address]]
    /\ MaxChangeAt \in Nat

\* A daemon watch: not there, asked for, open, or ended by a refusal; what it
\* sent last, whether it was woken since, the frames the client has yet to
\* take, and whether it has taken the first.
Watch == [at : {"none", "asked", "open", "ended"}, sent : Frame,
          woken : BOOLEAN, frames : Seq(Frame), opened : BOOLEAN]

NoWatch == [at |-> "none", sent |-> Refused, woken |-> FALSE,
            frames |-> <<>>, opened |-> FALSE]

VARIABLES
    node,      \* [Address -> Shown and Refused]
    memo,      \* [Address -> LeafMemo]: a hash that is there is of a live memo
    due,       \* records past their lifetime, or whose inputs changed
    going,     \* runs begun for the watch's reads and not over
    changes,   \* changes made by others; a run of a record that came due, and
               \* one the opening read forced; a write or a resolution lost
    serving,   \* the daemon is up
    fanned,    \* [Address -> Watch]: ResolvedWatch.streams
    does,      \* "open", "resolve", "write", "wait", "ended"
    forced,    \* Inputs.force
    readNow,   \* what the resolution in progress read: [addresses -> Frame]
    missed,    \* leaves it has yet to write the memos of
    read,      \* what the last one read; its domain is deps
    rounds,    \* re-resolutions begun
    wentBack,  \* history: addresses whose node had gone and come back when
               \* the daemon's side of their watch looked last
    refusedAt, \* history: addresses the daemon refused as it was asked to
               \* watch them
    failed     \* history: the last resolution failed, its notices taken

heldVars   == <<node, memo, due, going>>
clientVars == <<does, forced, readNow, missed, read, rounds, refusedAt, failed>>
fanInVars  == <<heldVars, changes, serving, fanned, clientVars, wentBack>>

NothingRead == [a \in {} |-> Refused]

\* The data of what was read.
Data(f) == IF f = Refused THEN Refused ELSE f.is

\* memo_hash, of the inputs of a leaf as a resolution read them.
HashOf(a, f) == [b \in Address |-> IF b \in Inputs[a] \cap DOMAIN f
                                     THEN Data(f[b]) ELSE Refused]

\* The hash it has by what there is.
HashNow(a) == [b \in Address |-> IF b \in Inputs[a] THEN node[b] ELSE Refused]

\* What a read of the address answers now.
There(a) == IF node[a] = Refused THEN Refused
            ELSE [is |-> node[a], memo |-> memo[a]]

FanInInit ==
    /\ node \in [Address -> Shown \cup {Refused}] /\ node[Root] # Refused
    /\ \E live \in SUBSET Cached, v \in Output :
           memo = [a \in Address |-> IF a \in live
                                       THEN [hash |-> HashNow(a), out |-> v]
                                       ELSE NoMemo]
    /\ due \in SUBSET Executes /\ going = {}
    /\ changes = 0 /\ serving = TRUE
    /\ fanned = [a \in Address |-> NoWatch]
    /\ does = "open" /\ forced \in BOOLEAN
    /\ readNow = NothingRead /\ missed = {} /\ read = NothingRead
    /\ rounds = 0 /\ wentBack = {} /\ refusedAt = {} /\ failed = FALSE

-----------------------------------------------------------------------------
(* The daemon. *)

Wakes(a) == [fanned EXCEPT ![a].woken = @ \/ fanned[a].at = "open"]

\* A write to the address, which a put may make the first.
ChangeNode(a, v) ==
    /\ changes < MaxChangeAt /\ serving /\ v # node[a]
    /\ node' = [node EXCEPT ![a] = v]
    /\ changes' = changes + 1
    /\ fanned' = Wakes(a)
    /\ UNCHANGED <<memo, due, going, serving, clientVars, wentBack>>

\* What others make of a memo: it is evicted, its hash is dropped (a write its
\* inputs are of, a file it watches, its lifetime), or another reader stores its
\* own, of what it read or of inputs that are not this reader's.
MemosOf(a) == {NoMemo, [memo[a] EXCEPT !.hash = NoHash]}
                  \cup {[hash |-> h, out |-> v] : h \in {HashNow(a), NoHash},
                                                  v \in Output}

ChangeMemo(a) ==
    /\ changes < MaxChangeAt /\ serving
    /\ \E m \in MemosOf(a) \ {memo[a]} : memo' = [memo EXCEPT ![a] = m]
    /\ changes' = changes + 1
    /\ fanned' = Wakes(a)
    /\ UNCHANGED <<node, due, going, serving, clientVars, wentBack>>

\* A record's lifetime is over, or an input of it changed: nobody is told.
ComesDue(a) ==
    /\ changes + Cardinality(due) + Cardinality(going) < MaxChangeAt
    /\ serving /\ a \in Executes \ due
    /\ due' = due \cup {a}
    /\ UNCHANGED <<node, memo, going, changes, serving, fanned, clientVars,
                   wentBack>>

\* A run that outlasted the wait of the read that began it stores what it made;
\* one queued behind it, for a record come due again, takes over.
RunEnds(a) ==
    /\ serving /\ a \in going
    /\ \E v \in Shown : node' = [node EXCEPT ![a] = v]
    /\ due' = due \ {a}
    /\ going' = IF a \in due THEN going ELSE going \ {a}
    /\ changes' = changes + 1
    /\ fanned' = IF node' = node THEN fanned ELSE Wakes(a)
    /\ UNCHANGED <<memo, serving, clientVars, wentBack>>

\* handle_watch: the opening frame, or the refusal, which ends the connection.
AnswerWatch(a) ==
    /\ serving /\ fanned[a].at = "asked"
    /\ fanned' = [fanned EXCEPT ![a].at = IF node[a] = Refused
                                            THEN "ended" ELSE "open",
                                ![a].sent = There(a),
                                ![a].frames = <<There(a)>>]
    /\ UNCHANGED <<heldVars, changes, serving, clientVars, wentBack>>

\* The loop reads again: a frame like the last is not sent.
ServeWatch(a) ==
    /\ serving /\ fanned[a].at = "open" /\ fanned[a].woken
    /\ IF There(a) = fanned[a].sent
         THEN /\ fanned' = [fanned EXCEPT ![a].woken = FALSE]
              /\ wentBack' = wentBack \cup {a}
         ELSE /\ fanned' = [fanned EXCEPT ![a].woken = FALSE,
                                          ![a].sent = There(a),
                                          ![a].frames = Append(@, There(a))]
              /\ wentBack' = wentBack \ {a}
    /\ UNCHANGED <<heldVars, changes, serving, clientVars>>

DaemonEnds ==
    /\ serving /\ serving' = FALSE
    /\ UNCHANGED <<heldVars, changes, fanned, clientVars, wentBack>>

-----------------------------------------------------------------------------
(* The client. *)

Resolving == does \in {"open", "resolve"}

Named(f) == {Root} \cup UNION {Reads[a][f[a].is] :
                                   a \in {b \in DOMAIN f : f[b] # Refused}}

Unfetched == Named(readNow) \ DOMAIN readNow

\* Mutant: a re-resolution is made as the opening one was.
ForcesAlways == forced

\* as_reresolve_inputs: only the opening resolution forces.
Forces == forced /\ does = "open"

With(f, a, v) == [b \in DOMAIN f \cup {a} |-> IF b = a THEN v ELSE f[b]]

\* start_for_read: the read needs a run of the instance at the address.
Runs(a) == node[a] # Refused /\ a \in IF Forces THEN Executes ELSE due

\* The run is over within the read's wait.
RunsAtOnce(a) ==
    /\ Runs(a) /\ a \notin going
    /\ \E v \in Shown :
           /\ node' = [node EXCEPT ![a] = v]
           /\ readNow' = With(readNow, a, [is |-> v, memo |-> memo[a]])
    /\ fanned' = IF node' = node THEN fanned ELSE Wakes(a)
    /\ due' = due \ {a}
    /\ changes' = IF a \in due \/ does = "open" THEN changes + 1 ELSE changes
    /\ UNCHANGED going

\* It goes on, or waits behind the one under way, and the read answers with
\* what there is.
RunGoesOn(a) ==
    /\ Runs(a)
    /\ going' = going \cup {a}
    /\ due' = IF a \in going THEN due ELSE due \ {a}
    /\ readNow' = With(readNow, a, There(a))
    /\ UNCHANGED <<node, changes, fanned>>

\* Fetch::get, of the next address the render names, each once.
FetchNode(a) ==
    /\ Resolving /\ serving /\ a \in Unfetched
    /\ \/ RunsAtOnce(a)
       \/ RunGoesOn(a)
       \/ /\ ~Runs(a) /\ readNow' = With(readNow, a, There(a))
          /\ UNCHANGED <<node, due, going, changes, fanned>>
    /\ UNCHANGED <<memo, serving, does, forced, missed, read, rounds,
                   refusedAt, failed, wentBack>>

\* Leaf::takes: the leaves whose memo does not answer for what was read.
Misses == {a \in Cached \cap DOMAIN readNow :
               /\ readNow[a] # Refused
               /\ Forces \/ readNow[a].memo.hash # HashOf(a, readNow)}

\* A leaf above one that was rendered anew may hash another output of it.
MayMiss == Misses \cup {a \in Cached \cap DOMAIN readNow :
                            readNow[a] # Refused /\ Inputs[a] \cap Misses # {}}

\* The value is there.  What is left is to write back what missed.
ResolutionEnds ==
    /\ Resolving /\ serving /\ Unfetched = {}
    /\ \E more \in SUBSET MayMiss : missed' = Misses \cup more
    /\ does' = "write"
    /\ UNCHANGED <<heldVars, changes, serving, fanned, forced, readNow, read,
                   rounds, wentBack, refusedAt, failed>>

\* write_back, of one memo: it is stored, and who watches the leaf is told; or
\* the daemon refuses it, which is let pass.
WriteBack(a) ==
    /\ does = "write" /\ serving /\ a \in missed
    /\ missed' = missed \ {a}
    /\ \/ /\ \E v \in Output :
                 memo' = [memo EXCEPT ![a] = [hash |-> HashOf(a, readNow),
                                              out |-> v]]
          /\ fanned' = Wakes(a)
          /\ UNCHANGED changes
       \/ /\ changes < MaxChangeAt /\ changes' = changes + 1
          /\ UNCHANGED <<memo, fanned>>
    /\ UNCHANGED <<node, due, going, serving, does, forced, readNow, read,
                   rounds, refusedAt, failed, wentBack>>

Followed(a) ==
    IF a \notin DOMAIN readNow THEN NoWatch
    ELSE IF fanned[a].at # "none" THEN fanned[a]
    ELSE [NoWatch EXCEPT !.at = "asked"]

\* follow: what is no longer read is dropped, what is read now is asked for,
\* and waited for by nobody.
Follow ==
    /\ does = "write" /\ serving /\ missed = {}
    /\ read' = readNow /\ readNow' = NothingRead
    /\ fanned' = [a \in Address |-> Followed(a)]
    /\ wentBack' = {a \in wentBack \cap DOMAIN readNow :
                        fanned[a].at # "none" /\ readNow[a] # There(a)}
    /\ refusedAt' = {a \in refusedAt : Followed(a).at # "asked"}
    /\ does' = "wait" /\ failed' = FALSE
    /\ UNCHANGED <<heldVars, changes, serving, forced, missed, rounds>>

\* The daemon cannot be asked, or the resolution comes to an error: the watch
\* is not opened, or its caller ends it.
ResolutionFails ==
    /\ Resolving \/ (does = "write" /\ ~serving)
    /\ does' = "ended"
    /\ UNCHANGED <<heldVars, changes, serving, fanned, forced, readNow, missed,
                   read, rounds, refusedAt, failed, wentBack>>

\* Or the caller of next goes on: what was read before stands, and the notices
\* are taken.
ResolutionLost ==
    /\ does = "resolve" /\ serving /\ changes < MaxChangeAt
    /\ does' = "wait" /\ readNow' = NothingRead
    /\ changes' = changes + 1 /\ failed' = TRUE
    /\ UNCHANGED <<heldVars, serving, fanned, forced, missed, read, rounds,
                   refusedAt, wentBack>>

\* Mutant: the opening frame is no more than the answer to the subscription.
AlreadyReadOpening(a, i) ==
    (i = 1 /\ ~fanned[a].opened) \/ fanned[a].frames[i] = read[a]

\* already_read: the node the latest resolution read there, if it read one.
AlreadyRead(a, i) == fanned[a].frames[i] = read[a]

RefusedOpening(a) ==
    /\ ~fanned[a].opened /\ fanned[a].frames # <<>>
    /\ Head(fanned[a].frames) = Refused

IsNotice(a) ==
    /\ ~RefusedOpening(a)
    /\ \E i \in 1..Len(fanned[a].frames) : ~AlreadyRead(a, i)

Taken(a) ==
    IF fanned[a].frames = <<>> THEN fanned[a]
    ELSE IF RefusedOpening(a) THEN NoWatch
    ELSE [fanned[a] EXCEPT !.frames = <<>>, !.opened = TRUE]

\* take_buffered: the frames of all streams, and then one re-resolution for all
\* the notices among them.
TakeFrames ==
    /\ does = "wait" /\ serving
    /\ \E a \in Address : fanned[a].frames # <<>>
    /\ fanned' = [a \in Address |-> Taken(a)]
    /\ refusedAt' = refusedAt \cup {a \in Address : RefusedOpening(a)}
    /\ IF \E a \in Address : IsNotice(a)
         THEN does' = "resolve" /\ rounds' = rounds + 1
         ELSE UNCHANGED <<does, rounds>>
    /\ UNCHANGED <<heldVars, changes, serving, forced, readNow, missed, read,
                   failed, wentBack>>

\* A stream the daemon has closed ends the watch, and so does having none.
WatchEnds ==
    /\ does = "wait"
    /\ ~serving \/ \A a \in Address : fanned[a].at = "none"
    /\ does' = "ended"
    /\ UNCHANGED <<heldVars, changes, serving, fanned, forced, readNow, missed,
                   read, rounds, refusedAt, failed, wentBack>>

FanInNext ==
    \/ \E a \in Address :
           \/ \E v \in Shown : ChangeNode(a, v)
           \/ ComesDue(a) \/ RunEnds(a)
           \/ AnswerWatch(a) \/ ServeWatch(a) \/ FetchNode(a) \/ WriteBack(a)
    \/ \E a \in Cached : ChangeMemo(a)
    \/ DaemonEnds \/ ResolutionEnds \/ Follow
    \/ ResolutionFails \/ ResolutionLost \/ TakeFrames \/ WatchEnds

FanInSpec == FanInInit /\ [][FanInNext]_fanInVars

-----------------------------------------------------------------------------
(* Properties. *)

FanInTypeOK ==
    /\ node \in [Address -> Shown \cup {Refused}]
    /\ memo \in [Address -> LeafMemo]
    /\ due \subseteq Executes /\ going \subseteq Executes
    /\ changes \in Nat /\ serving \in BOOLEAN
    /\ fanned \in [Address -> Watch]
    /\ does \in {"open", "resolve", "write", "wait", "ended"}
    /\ forced \in BOOLEAN /\ failed \in BOOLEAN
    /\ \A f \in {read, readNow} : /\ DOMAIN f \subseteq Address
                                  /\ \A a \in DOMAIN f : f[a] \in Frame
    /\ missed \subseteq Cached /\ rounds \in Nat
    /\ wentBack \subseteq Address /\ refusedAt \subseteq Address

\* Nothing is on its way to the client.
FanInRests ==
    /\ does = "wait" /\ serving
    /\ \A a \in Address : /\ fanned[a].frames = <<>> /\ ~fanned[a].woken
                          /\ fanned[a].at # "asked"

\* A change of anything the value was made of is seen, whatever the order of
\* reads, subscriptions, changes, write-backs and frames: at rest the client has
\* read what the daemon holds.  Three things escape it: a node that came back to
\* what its stream had sent, an address refused as it was asked to be watched,
\* and what was changed before a resolution that failed.
FanInCaughtUp ==
    FanInRests /\ ~failed =>
        \A a \in DOMAIN read :
            read[a] = There(a) \/ a \in wentBack \cup refusedAt

\* The watch dies down: what it changes itself, by the runs its reads begin and
\* the memos it writes back, makes it resolve again only so often.  Each change
\* of others', each record come due, costs at most one round for what changed
\* and one for the memos that made stale; the opening's own memos cost one.
NoStorm == rounds <= 2 * changes + 1
=============================================================================
