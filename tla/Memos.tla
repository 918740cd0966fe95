--------------------------------- MODULE Memos --------------------------------
(***************************************************************************)
(* The memos of one provider: what `| cache()` stored for its template     *)
(* leaves, by directory (src/src/cache.rs `write_memo`, `evict_memo`,      *)
(* `drop_memo_hashes_under`; scheduler/mod.rs `apply_memo_written`).       *)
(*                                                                         *)
(* A memo is in two entries, its value in <p>:memo, and its hash with the  *)
(* rest of what is stored of it in <p>:cache, each held on its own; the    *)
(* provider's listing names the directories that hold any.  Each write of  *)
(* a memo has a number.  Renders, and the hashes compared, are left out.   *)
(***************************************************************************)
EXTENDS Naturals, Sequences

CONSTANTS
    Dir,
    Leaf,        \* the addresses a template's leaf may be at
    Within,      \* [Leaf -> SUBSET Leaf]: those that overlap it, itself one
    MemoWriter,  \* connections whose clients store memos
    Tick,        \* the scheduler's tick
    Nobody,
    MaxMemo      \* bound: memos written

ASSUME MemosAssumption ==
    /\ Within \in [Leaf -> SUBSET Leaf] /\ MaxMemo \in Nat \ {0}
    /\ \A l \in Leaf : l \in Within[l] /\ \A k \in Within[l] : l \in Within[k]
    /\ Tick \notin MemoWriter /\ Nobody \notin MemoWriter \cup {Tick}

Number == 0..MaxMemo       \* 0 where there is none

VARIABLES
    listed,      \* memo_paths: SUBSET Dir
    listing,     \* who holds the provider's listing
    memos,       \* <p>:memo: [Dir -> [Leaf -> Number]]
    keys,        \* <p>:cache: [Dir -> [Leaf -> Number]]
    hashed,      \* those of the keys that have their hash: [Dir -> SUBSET Leaf]
    numbered,    \* memos written so far
    storing,     \* [MemoWriter -> Work]
    messages,    \* MemoWritten, sent and not yet handled
    leases,      \* the memos' lifecycle entries: [Dir -> [Leaf -> Number]]
    ending,      \* Work of the tick
    dropping,    \* the invalidation in progress, or the last one
    crossed      \* history: directories where two writes of overlapping leaves
                 \* were told of in another order than they were made in

memoParts == <<listed, listing, memos, keys, hashed>>
memosVars == <<memoParts, numbered, storing, messages, leases, ending, dropping,
               crossed>>

Work == [at : {"idle", "asked", "listed", "dropped", "cleared", "stored",
               "done", "keeps", "empty"},
         dir : Dir, leaf : Leaf, number : Number, gone : SUBSET Leaf]

NoWork == [at |-> "idle", dir |-> CHOOSE d \in Dir : TRUE,
         leaf |-> CHOOSE l \in Leaf : TRUE, number |-> 0, gone |-> {}]

Drop == [at : {"idle", "drops"}, dirs : SUBSET Dir, dir : Dir, node : Leaf,
         leaves : SUBSET Leaf, seen : SUBSET (Dir \X Leaf \X Number)]

NoDrop == [at |-> "idle", dirs |-> {}, dir |-> NoWork.dir, node |-> NoWork.leaf,
           leaves |-> {}, seen |-> {}]

\* No memo, or one whose write was told of.
MemosInit ==
    /\ numbered \in {0, 1}
    /\ \E d \in Dir, l \in Leaf :
           memos = [e \in Dir |-> [k \in Leaf |->
                        IF <<e, k>> = <<d, l>> THEN numbered ELSE 0]]
    /\ keys = memos /\ leases = memos
    /\ hashed = [d \in Dir |-> {l \in Leaf : memos[d][l] # 0}]
    /\ listed = {d \in Dir : hashed[d] # {}} /\ listing = Nobody
    /\ storing = [w \in MemoWriter |-> NoWork] /\ messages = <<>>
    /\ ending = NoWork /\ dropping = NoDrop /\ crossed = {}

Held(d) == {l \in Leaf : memos[d][l] # 0}

Less(f, d, gone) ==
    [f EXCEPT ![d] = [l \in Leaf |-> IF l \in gone THEN 0 ELSE @[l]]]

-----------------------------------------------------------------------------
(* A memo is written: write_memo, and then its message. *)

\* The listing is held until the memo is stored.
ListMemo(w, d, l) ==
    /\ storing[w].at = "idle" /\ listing = Nobody
    /\ numbered < MaxMemo /\ numbered' = numbered + 1
    /\ listing' = w /\ listed' = listed \cup {d}
    /\ storing' = [storing EXCEPT ![w] = [at |-> "listed", dir |-> d, leaf |-> l,
                                        number |-> numbered', gone |-> {}]]
    /\ UNCHANGED <<memos, keys, hashed, messages, leases, ending, dropping,
                   crossed>>

\* Mutant: only the memo at the address itself is replaced.
ReplacesIts(d, l) == Held(d) \cap {l}

\* drop_memos: one leaf's address never holds another's.
Replaces(d, l) == Held(d) \cap Within[l]

DropReplaced(w) ==
    /\ storing[w].at = "listed"
    /\ LET gone == Replaces(storing[w].dir, storing[w].leaf)
       IN  /\ memos' = Less(memos, storing[w].dir, gone)
           /\ storing' = [storing EXCEPT ![w].at = "dropped", ![w].gone = gone]
    /\ UNCHANGED <<listed, listing, keys, hashed, numbered, messages, leases,
                   ending, dropping, crossed>>

ClearReplaced(w) ==
    /\ storing[w].at = "dropped"
    /\ keys' = Less(keys, storing[w].dir, storing[w].gone)
    /\ hashed' = [hashed EXCEPT ![storing[w].dir] = @ \ storing[w].gone]
    /\ storing' = [storing EXCEPT ![w].at = "cleared"]
    /\ UNCHANGED <<listed, listing, memos, numbered, messages, leases,
                   ending, dropping, crossed>>

StoreMemo(w) ==
    /\ storing[w].at = "cleared"
    /\ memos' = [memos EXCEPT ![storing[w].dir][storing[w].leaf] =
                     storing[w].number]
    /\ storing' = [storing EXCEPT ![w].at = "stored"]
    /\ UNCHANGED <<listed, listing, keys, hashed, numbered, messages, leases,
                   ending, dropping, crossed>>

StoreKeys(w) ==
    /\ storing[w].at = "stored"
    /\ keys' = [keys EXCEPT ![storing[w].dir][storing[w].leaf] =
                    storing[w].number]
    /\ hashed' = [hashed EXCEPT ![storing[w].dir] = @ \cup {storing[w].leaf}]
    /\ listing' = Nobody
    /\ storing' = [storing EXCEPT ![w].at = "done"]
    /\ UNCHANGED <<listed, memos, numbered, messages, leases, ending,
                   dropping, crossed>>

\* Another write of an overlapping leaf that was made before, and is told of
\* after.
Overtakes(w) ==
    \E v \in MemoWriter : /\ storing[v].at # "idle"
                          /\ storing[v].number < storing[w].number
                          /\ storing[v].dir = storing[w].dir
                          /\ storing[v].leaf \in Within[storing[w].leaf]

SendMemoWritten(w) ==
    /\ storing[w].at = "done"
    /\ messages' = Append(messages, [dir |-> storing[w].dir,
                                     leaf |-> storing[w].leaf,
                                     number |-> storing[w].number])
    /\ crossed' = IF Overtakes(w) THEN crossed \cup {storing[w].dir} ELSE crossed
    /\ storing' = [storing EXCEPT ![w] = NoWork]
    /\ UNCHANGED <<memoParts, numbered, leases, ending, dropping>>

-----------------------------------------------------------------------------
(* The scheduler. *)

\* apply_memo_written, a message at a time and not during a tick: the lifecycle
\* entries go as the memos did.
TakeWritten ==
    /\ ending.at = "idle" /\ messages # <<>>
    /\ LET new == Head(messages)
       IN  leases' = [Less(leases, new.dir, Within[new.leaf])
                          EXCEPT ![new.dir][new.leaf] = new.number]
    /\ messages' = Tail(messages)
    /\ UNCHANGED <<memoParts, numbered, storing, ending, dropping, crossed>>

\* Its ttl ran out, or a file it watches changed.
FireMemo(d, l) ==
    /\ ending.at = "idle" /\ leases[d][l] # 0
    /\ hashed' = [hashed EXCEPT ![d] = @ \ {l}]
    /\ UNCHANGED <<listed, listing, memos, keys, numbered, storing, messages,
                   leases, ending, dropping, crossed>>

EndLease(d, l) ==
    /\ ending.at = "idle" /\ leases[d][l] # 0
    /\ leases' = [leases EXCEPT ![d][l] = 0]
    /\ ending' = [NoWork EXCEPT !.at = "asked", !.dir = d, !.leaf = l]
    /\ UNCHANGED <<memoParts, numbered, storing, messages, dropping, crossed>>

\* Mutant: the listing is not held while the directory is looked at.
HoldNothing == UNCHANGED listing

\* evict_memo goes about it under the listing, as write_memo stores under it.
HoldListing == listing = Nobody /\ listing' = Tick

EvictMemo ==
    /\ \/ /\ ending.at = "asked" /\ HoldListing
          /\ ending' = [ending EXCEPT !.at = "listed"]
          /\ UNCHANGED <<listed, memos, keys, hashed>>
       \/ /\ ending.at = "listed"
          /\ LET gone == Held(ending.dir) \cap {ending.leaf}
             IN  /\ memos' = Less(memos, ending.dir, gone)
                 /\ ending' = [ending EXCEPT !.at = "dropped",
                                                 !.gone = gone]
          /\ UNCHANGED <<listed, listing, keys, hashed>>
       \/ /\ ending.at = "dropped"
          /\ keys' = Less(keys, ending.dir, ending.gone)
          /\ hashed' = [hashed EXCEPT ![ending.dir] = @ \ ending.gone]
          /\ ending' = [ending EXCEPT !.at = "cleared"]
          /\ UNCHANGED <<listed, listing, memos>>
       \/ /\ ending.at = "cleared"
          /\ ending' = [ending EXCEPT !.at = IF Held(ending.dir) = {}
                                                   THEN "empty" ELSE "keeps"]
          /\ UNCHANGED memoParts
       \/ /\ ending.at \in {"empty", "keeps"}
          /\ listed' = IF ending.at = "empty" THEN listed \ {ending.dir}
                                                ELSE listed
          /\ listing' = IF listing = Tick THEN Nobody ELSE listing
          /\ ending' = NoWork
          /\ UNCHANGED <<memos, keys, hashed>>
    /\ UNCHANGED <<numbered, storing, messages, leases, dropping, crossed>>

-----------------------------------------------------------------------------
(* drop_memo_hashes_under: after a write at a node, or a refresh of it. *)

\* The directories, once nobody holds the listing.
BeginDrop(node) ==
    /\ dropping.at = "idle" /\ listing = Nobody
    /\ dropping' =
           [NoDrop EXCEPT !.at = "drops", !.node = node, !.dirs = listed,
                !.seen = {m \in Dir \X Within[node] \X (Number \ {0}) :
                              /\ memos[m[1]][m[2]] = m[3]
                              /\ m[2] \in hashed[m[1]]}]
    /\ UNCHANGED <<memoParts, numbered, storing, messages, leases, ending,
                   crossed>>

LookInDir(d) ==
    /\ dropping.at = "drops" /\ dropping.leaves = {} /\ d \in dropping.dirs
    /\ dropping' = [dropping EXCEPT !.dirs = @ \ {d}, !.dir = d,
                        !.leaves = Held(d) \cap Within[dropping.node]]
    /\ UNCHANGED <<memoParts, numbered, storing, messages, leases, ending,
                   crossed>>

\* drop_memo_hash.
DropHash(l) ==
    /\ l \in dropping.leaves
    /\ hashed' = [hashed EXCEPT ![dropping.dir] = @ \ {l}]
    /\ dropping' = [dropping EXCEPT !.leaves = @ \ {l}]
    /\ UNCHANGED <<listed, listing, memos, keys, numbered, storing, messages,
                   leases, ending, crossed>>

EndDrop ==
    /\ dropping.at = "drops" /\ dropping.leaves = {} /\ dropping.dirs = {}
    /\ dropping' = [dropping EXCEPT !.at = "idle"]
    /\ UNCHANGED <<memoParts, numbered, storing, messages, leases, ending,
                   crossed>>

MemosNext ==
    \/ \E w \in MemoWriter :
           \/ \E d \in Dir, l \in Leaf : ListMemo(w, d, l)
           \/ DropReplaced(w) \/ ClearReplaced(w) \/ StoreMemo(w)
           \/ StoreKeys(w) \/ SendMemoWritten(w)
    \/ TakeWritten \/ EvictMemo \/ EndDrop
    \/ \E d \in Dir : LookInDir(d) \/ \E l \in Leaf : FireMemo(d, l)
                                                      \/ EndLease(d, l)
    \/ \E l \in Leaf : BeginDrop(l) \/ DropHash(l)

MemosSpec == MemosInit /\ [][MemosNext]_memosVars

-----------------------------------------------------------------------------
(* Properties. *)

MemosTypeOK ==
    /\ listed \subseteq Dir /\ listing \in MemoWriter \cup {Tick, Nobody}
    /\ memos \in [Dir -> [Leaf -> Number]] /\ keys \in [Dir -> [Leaf -> Number]]
    /\ hashed \in [Dir -> SUBSET Leaf]
    /\ numbered \in Number /\ storing \in [MemoWriter -> Work]
    /\ messages \in Seq([dir : Dir, leaf : Leaf, number : Number])
    /\ leases \in [Dir -> [Leaf -> Number]]
    /\ ending \in Work
    /\ dropping \in Drop
    /\ crossed \subseteq Dir

\* No reader takes a memo a write has invalidated: one that was there with its
\* hash when the invalidation looked is gone or without it when that is done,
\* and ever after, though its directory was emptied, unlisted and listed again
\* under way.
DroppedIsMissed ==
    dropping.at = "idle" =>
        \A m \in dropping.seen :
            ~(/\ memos[m[1]][m[2]] = m[3] /\ keys[m[1]][m[2]] = m[3]
              /\ m[2] \in hashed[m[1]])

\* A memo that is there has, once its write was told of, a lifecycle that
\* watches its files and ends it.  Not so where two writes of overlapping
\* leaves were told of in the other order.
MemosEnd ==
    (messages = <<>> /\ ending.at = "idle") =>
        \A d \in Dir \ crossed, l \in Leaf :
            \/ memos[d][l] \in {0, leases[d][l]}
            \/ \E w \in MemoWriter : storing[w].number = memos[d][l]
=============================================================================
