-------------------------------- MODULE Puts --------------------------------
(***************************************************************************)
(* What clients put: in the cache, in the file of persisted puts, and in   *)
(* the lifecycle registry that expires them; with the daemon dying and     *)
(* replaying the file as it starts (src/src/server.rs `put`,               *)
(* src/src/cache.rs, src/src/persist.rs, src/src/daemon/mod.rs and the     *)
(* scheduler's arms for them).                                             *)
(*                                                                         *)
(* A put is a step in the cache, one in the store and one message to the   *)
(* scheduler; several connections do them beside one another, beside the   *)
(* scheduler's loop, which evicts in two steps.  A put is its number; what *)
(* it put is not kept.  Wall clocks are not kept either: a ttl may have    *)
(* run out at any time.                                                    *)
(***************************************************************************)
EXTENDS Naturals, SequencesExt

CONSTANTS
    Node,       \* the addresses that are put to, of one namespace and path
    Below,      \* [Node -> SUBSET Node]: the addresses at a node or below it
    Kind,       \* the puts a client makes: [node, ttl, persist, null]
    Conn,       \* connections
    Boot,       \* the daemon's start, as a maker of puts
    NoNode,
    MaxPut,     \* how many puts are made
    MaxRestart  \* how often the daemon dies

ASSUME PutsAssumption ==
    /\ MaxPut \in Nat /\ MaxRestart \in Nat
    /\ Boot \notin Conn /\ NoNode \notin Node
    /\ Below \in [Node -> SUBSET Node]
    /\ \A n \in Node : n \in Below[n]
    /\ Kind \subseteq [node : Node, ttl : BOOLEAN, persist : BOOLEAN,
                       null : BOOLEAN]
    /\ \A k \in Kind : k.null => ~k.ttl /\ ~k.persist

Put == 1..MaxPut

NoPut == 0

Putter == Conn \cup {Boot}

VARIABLES
    puts,     \* the puts made, in the order they were begun: Seq(Kind)
    step,     \* [Putter -> {"idle", "cache", "store", "send"}]
    doing,    \* [Putter -> Put \cup {NoPut}]
    stored,   \* [Node -> Put \cup {NoPut}]: the cache's put addresses
    entries,  \* PutStore.entries: Seq(Put)
    file,     \* puts.json
    inbox,    \* the PutWritten the scheduler has yet to take: Seq(Put)
    leased,   \* nodes with a lifecycle key of label `put`
    evicting, \* the node the loop is evicting, its cache part done, or NoNode
    replay,   \* the puts of the file the start has yet to make again
    restarts,
    over,     \* persisted puts whose `expires` was found to have passed
    \* For the properties only:
    life,     \* [Put -> Nat]: how often the daemon had died when it was acked
    ended,    \* puts acked, or cut off by the daemon's death
    before,   \* [Put -> SUBSET Put]: those that had ended when it began
    cut       \* puts lost from the file by a death in the middle of a replay

memoryVars  == <<step, doing, stored, entries, inbox, leased, evicting,
                 replay>>
historyVars == <<life, ended, before, cut>>
putsVars    == <<puts, memoryVars, file, restarts, over, historyVars>>

Unacked == MaxRestart + 1

PutsInit ==
    /\ puts = <<>>
    /\ step = [c \in Putter |-> "idle"]
    /\ doing = [c \in Putter |-> NoPut]
    /\ stored = [n \in Node |-> NoPut]
    /\ entries = <<>> /\ file = <<>> /\ inbox = <<>> /\ replay = <<>>
    /\ leased = {}
    /\ evicting = NoNode
    /\ restarts = 0
    /\ life = [p \in Put |-> Unacked]
    /\ ended = {} /\ cut = {} /\ over = {}
    /\ before = [p \in Put |-> {}]

NodeOf(p) == puts[p].node

Made == 1..Len(puts)

\* Vec::retain, as a function so that it can be reasoned about.
Retained(q, S) ==
    LET kept[i \in 0..Len(q)] ==
            IF i = 0 THEN <<>>
            ELSE IF q[i] \in S THEN Append(kept[i - 1], q[i])
                               ELSE kept[i - 1]
    IN  kept[Len(q)]

-----------------------------------------------------------------------------
(* The cache. *)

\* The nodes above n lose what they hold with the last of it, which the put
\* may have been: what a put held beside its subtrees is not kept.
Emptied(n) ==
    {m \in Node : /\ n \in Below[m] /\ m # n
                  /\ \A d \in Below[m] \ Below[n] : d = m \/ stored[d] = NoPut}

\* drop_put_subtree: everything at and below n, and maybe what that emptied.
DropSubtree(n, alsoEmptied) ==
    [m \in Node |->
        IF m \in Below[n] \/ (alsoEmptied /\ m \in Emptied(n))
          THEN NoPut
          ELSE stored[m]]

\* drop_put_address: what deeper put addresses own stays.  It is put back when
\* what lay above the node has gone, as if nothing were there.
DropAddress(n, alsoEmptied) ==
    [m \in Node |->
        IF m = n \/ (alsoEmptied /\ m \in Emptied(n)) THEN NoPut ELSE stored[m]]

\* The file is only ever written whole, and in one step: it is renamed there.
Save(es) == entries' = es /\ file' = es

-----------------------------------------------------------------------------
(* A put. *)

\* The socket is bound when the replay is over.
Bound == replay = <<>> /\ step[Boot] = "idle"

Begin(c, k) ==
    /\ Bound
    /\ c \in Conn /\ step[c] = "idle"
    /\ Len(puts) < MaxPut
    /\ puts' = Append(puts, k)
    /\ step' = [step EXCEPT ![c] = "cache"]
    /\ doing' = [doing EXCEPT ![c] = Len(puts) + 1]
    /\ before' = [before EXCEPT ![Len(puts) + 1] = ended]
    /\ UNCHANGED <<stored, entries, inbox, leased, evicting, replay, file,
                   restarts, over, life, ended, cut>>

\* Those the start is making again, or has yet to.
Replayed == (ToSet(replay) \cup {doing[Boot]}) \ {NoPut}

\* replay_persisted_puts takes the next.
Again ==
    /\ step[Boot] = "idle" /\ replay # <<>>
    /\ doing' = [doing EXCEPT ![Boot] = Head(replay)]
    /\ replay' = Tail(replay)
    /\ step' = [step EXCEPT ![Boot] = "cache"]
    /\ UNCHANGED <<puts, stored, entries, inbox, leased, evicting, file,
                   restarts, over, historyVars>>

\* write_static, or remove_put.
InCache(c) ==
    /\ step[c] = "cache"
    /\ LET p == doing[c]
       IN  \E also \in BOOLEAN :
               LET dropped == DropSubtree(NodeOf(p), also)
               IN  stored' = IF puts[p].null THEN dropped
                             ELSE [dropped EXCEPT ![NodeOf(p)] = p]
    /\ step' = [step EXCEPT ![c] = "store"]
    /\ UNCHANGED <<puts, doing, entries, inbox, leased, evicting, replay,
                   file, restarts, over, historyVars>>

\* PutStore::record: entries at the address and below it go.
Without(n) == Retained(entries, {e \in Made : NodeOf(e) \notin Below[n]})

\* Mutant: only what is kept over a restart is recorded.
RecordPersisted(p) ==
    IF puts[p].persist THEN Save(Append(Without(NodeOf(p)), p))
                       ELSE UNCHANGED <<entries, file>>

Record(p) ==
    LET kept == Without(NodeOf(p))
    IN  IF puts[p].persist THEN Save(Append(kept, p))
        ELSE IF kept # entries THEN Save(kept)
                               ELSE UNCHANGED <<entries, file>>

InStore(c) ==
    /\ step[c] = "store"
    /\ Record(doing[c])
    /\ step' = [step EXCEPT ![c] = "send"]
    /\ UNCHANGED <<puts, doing, stored, inbox, leased, evicting, replay,
                   restarts, over, historyVars>>

\* PutWritten is sent, and the client has its answer.
SendWritten(c) ==
    /\ step[c] = "send"
    /\ inbox' = Append(inbox, doing[c])
    /\ step' = [step EXCEPT ![c] = "idle"]
    /\ doing' = [doing EXCEPT ![c] = NoPut]
    /\ IF c = Boot THEN UNCHANGED <<life, ended>>
       ELSE /\ life' = [life EXCEPT ![doing[c]] = restarts]
            /\ ended' = ended \cup {doing[c]}
    /\ UNCHANGED <<puts, stored, entries, leased, evicting, replay, file,
                   restarts, over, before, cut>>

-----------------------------------------------------------------------------
(* The scheduler's loop. *)

\* Mutant: the lease is made, and then those at the node and below it go.
LeasedBefore(p) ==
    (leased \cup (IF puts[p].ttl THEN {NodeOf(p)} ELSE {})) \ Below[NodeOf(p)]

\* Mutant: the put is leased where its node should be.
LeasedPut(p) ==
    (leased \ Below[NodeOf(p)]) \cup (IF puts[p].ttl THEN {p} ELSE {})

\* apply_put_written: a lease for a ttl in place of all at the node and below.
LeasedAfter(p) ==
    (leased \ Below[NodeOf(p)])
    \cup (IF puts[p].ttl THEN {NodeOf(p)} ELSE {})

\* apply_put_written, in its turn.
HearWritten ==
    /\ evicting = NoNode
    /\ inbox # <<>>
    /\ leased' = LeasedAfter(Head(inbox))
    /\ inbox' = Tail(inbox)
    /\ UNCHANGED <<puts, step, doing, stored, entries, evicting, replay, file,
                   restarts, over, historyVars>>

\* The tick finds a lease at its end and evicts: from the cache first.
EvictPut(n) ==
    /\ evicting = NoNode
    /\ n \in leased
    /\ leased' = leased \ {n}
    /\ \E also \in BOOLEAN : stored' = DropAddress(n, also)
    /\ evicting' = n
    /\ UNCHANGED <<puts, step, doing, entries, inbox, replay, file, restarts,
                   over, historyVars>>

\* Mutant: the entries below the node go with it.
ExpireBelow ==
    /\ evicting # NoNode
    /\ LET kept == Without(evicting)
       IN  IF kept # entries THEN Save(kept) ELSE UNCHANGED <<entries, file>>
    /\ evicting' = NoNode
    /\ UNCHANGED <<puts, step, doing, stored, inbox, leased, replay,
                   restarts, over, historyVars>>

\* PutStore::expire: the entry of the node goes, and no other.
ExpireEntry ==
    /\ evicting # NoNode
    /\ LET kept == Retained(entries, {e \in Made : NodeOf(e) # evicting})
       IN  IF kept # entries THEN Save(kept) ELSE UNCHANGED <<entries, file>>
    /\ evicting' = NoNode
    /\ UNCHANGED <<puts, step, doing, stored, inbox, leased, replay,
                   restarts, over, historyVars>>

-----------------------------------------------------------------------------
(* The daemon dies, and another starts with what the file holds.  Entries    *)
(* whose ttl is over by then are left out.  The store starts empty.          *)
Restart ==
    /\ restarts < MaxRestart
    /\ restarts' = restarts + 1
    /\ step' = [c \in Putter |-> "idle"]
    /\ doing' = [c \in Putter |-> NoPut]
    /\ stored' = [n \in Node |-> NoPut]
    /\ entries' = <<>> /\ inbox' = <<>> /\ leased' = {}
    /\ evicting' = NoNode
    /\ \E now \in SUBSET {p \in ToSet(file) \ over : puts[p].ttl} :
           /\ over' = over \cup now
           /\ replay' = Retained(file, Made \ (over \cup now))
    /\ ended' = 1..Len(puts)
    /\ cut' = cut \cup (Replayed \ ToSet(file))
    /\ UNCHANGED <<puts, file, life, before>>

PutsNext ==
    \/ \E c \in Conn, k \in Kind : Begin(c, k)
    \/ Again
    \/ \E c \in Putter : InCache(c) \/ InStore(c) \/ SendWritten(c)
    \/ HearWritten
    \/ \E n \in Node : EvictPut(n)
    \/ ExpireEntry
    \/ Restart

PutsSpec == PutsInit /\ [][PutsNext]_putsVars

-----------------------------------------------------------------------------
(* Properties. *)

PutsTypeOK ==
    /\ puts \in Seq(Kind) /\ Len(puts) <= MaxPut
    /\ step \in [Putter -> {"idle", "cache", "store", "send"}]
    /\ doing \in [Putter -> Put \cup {NoPut}]
    /\ stored \in [Node -> Put \cup {NoPut}]
    /\ entries \in Seq(Put) /\ file \in Seq(Put)
    /\ inbox \in Seq(Put) /\ replay \in Seq(Put)
    /\ leased \subseteq Node
    /\ evicting \in Node \cup {NoNode}
    /\ restarts \in 0..MaxRestart /\ over \subseteq Put
    /\ life \in [Put -> 0..Unacked]
    /\ ended \subseteq Put /\ cut \subseteq Put
    /\ before \in [Put -> SUBSET Put]

Acked(p) == life[p] # Unacked

\* Puts that may do away with p, and do not come before it: they began after
\* it, or while it was under way.
Rivals(p) ==
    {q \in Made \ {p} : /\ NodeOf(p) \in Below[NodeOf(q)]
                        /\ q \notin before[p]}

\* Puts below it that may take the last of its value.
Takers(p) ==
    {q \in Made \ {p} : /\ NodeOf(q) \in Below[NodeOf(p)]
                        /\ q \notin before[p]}

\* Puts that did away with p: they began after it had ended, and were acked.
Replaced(p) == \E q \in Rivals(p) : p \in before[q] /\ Acked(q)

\* What a client has put in the place of a put stays: neither an expiry, nor
\* a restart, nor a replay brings back what it replaced.
NoOldPutComesBack ==
    \A p \in Made : Replaced(p) =>
        /\ p \notin ToSet(file) \ over
        /\ \A n \in Node : stored[n] # p

\* The puts that ought to be there: nothing was put in their place, and the
\* daemon has not died since, or they are persisted and were not lost to a
\* start that was cut short.
AtStake ==
    {p \in Made : /\ Acked(p) /\ ~puts[p].null
                  /\ Rivals(p) \cup Takers(p) = {}
                  /\ \/ life[p] = restarts
                     \/ puts[p].persist /\ p \notin cut}

NeverLeased(n) == \A p \in Made : NodeOf(p) \in Below[n] => ~puts[p].ttl

Stands(p) ==
    /\ Bound => stored[NodeOf(p)] = p
    /\ puts[p].persist => p \in ToSet(file) \cup Replayed

\* Where nothing was ever put with a ttl, a put stands: neither what expires
\* above it or beside it, nor a restart and its replay takes it away.
PutStands == \A p \in AtStake : NeverLeased(NodeOf(p)) => Stands(p)

\* A put with a ttl expires: where it is in the cache the scheduler has a lease
\* for it, or will have, unless it raced another put to its node or above it.
PutExpires ==
    \A n \in Node :
        LET p == stored[n]
        IN  p # NoPut /\ puts[p].ttl /\ Rivals(p) = {} =>
                \/ n \in leased
                \/ p \in ToSet(inbox)
                \/ \E c \in Putter : doing[c] = p

\* A put without a ttl stands, whatever was put there before.
PutWithoutTtlStands ==
    \A p \in AtStake : ~puts[p].ttl => Stands(p)
=============================================================================
