--------------------------------- MODULE Layers --------------------------------
(***************************************************************************)
(* The layers of one namespace and the read that stacks them               *)
(* (src/src/cache.rs `read_merged`, `apply_static_write`).                  *)
(*                                                                         *)
(* An entry, at each link of a read's chain, holds what a Source stored,   *)
(* at the last link the seeds of each configuration file in the order they *)
(* compose, and over them what was put, with the addresses the puts were   *)
(* made at.  A tree is the function of its leaves: an object is there      *)
(* where a leaf is below it, and an empty one is a leaf itself.  Times,    *)
(* arrays, `result` lines of one's own and the entries of other facets are *)
(* left out.                                                               *)
(***************************************************************************)
EXTENDS Naturals, Sequences, FiniteSets, Functions

CONSTANTS
    Place,         \* addresses below the namespace
    Whole,         \* its root
    Under,         \* [Place -> SUBSET Place]: those at or below each
    Levels,         \* the chain is 1, the nearest, to Levels, the global entry
    Seeds,         \* configuration files
    Given,         \* trees the Sources and the files may give
    Stated,        \* trees that may be put, each at any tail it lies below
    MaxPutAt         \* bound: puts made, removed and expired

ASSUME LayersAssumption ==
    /\ Whole \in Place /\ Under \in [Place -> SUBSET Place] /\ Under[Whole] = Place
    /\ \A t \in Place : t \in Under[t] /\ \A u \in Under[t] :
                           Under[u] \subseteq Under[t]
    /\ Levels \in Nat \ {0} /\ Seeds \in Nat /\ MaxPutAt \in Nat

\* Addresses are paths: what one lies at or below is finitely many, one above
\* the other.
ASSUME PathsAssumption ==
    \A t \in Place :
        /\ IsFiniteSet({u \in Place : t \in Under[u]})
        /\ \A u, v \in Place :
               t \in Under[u] \cap Under[v] => u \in Under[v] \/ v \in Under[u]
        /\ \A u \in Under[t] : t \in Under[u] => u = t

Level == 1..Levels

Inside(t) == Under[t] \ {t}

Tree ==
    UNION {[leaves -> {"value", "empty"}] :
               leaves \in {s \in SUBSET (Place \ {Whole}) :
                               \A l \in s : Inside(l) \cap s = {}}}

NoTree == [t \in {} |-> "value"]

ASSUME TreesAssumption == Given \subseteq Tree /\ Stated \subseteq Tree

VARIABLES
    sources,       \* [Level -> Tree]
    seeds,         \* [1..Seeds -> Tree]
    putTrees,          \* [Level -> Tree]
    addresses,     \* [Level -> SUBSET Place]
    putsMade

layersVars == <<sources, seeds, putTrees, addresses, putsMade>>

LayersInit ==
    /\ sources \in [Level -> Given] /\ seeds \in [1..Seeds -> Given]
    /\ putTrees = [l \in Level |-> NoTree] /\ addresses = [l \in Level |-> {}]
    /\ putsMade = 0

-----------------------------------------------------------------------------
(* Trees. *)

Holds(tree, t) == DOMAIN tree \cap Under[t] # {}

IsObject(tree, t) ==
    \/ t = Whole \/ DOMAIN tree \cap Inside(t) # {}
    \/ t \in DOMAIN tree /\ tree[t] = "empty"

Minus(f, gone) == Restrict(f, DOMAIN f \ gone)

Overlaid(new, old) ==
    [l \in DOMAIN new \cup DOMAIN old |-> IF l \in DOMAIN new THEN new[l] ELSE old[l]]

\* remove_path: the objects it empties go too.
Cut(tree, t) == Minus(tree, Under[t])

\* insert_path: what is in the way goes.
Insert(tree, new) ==
    LET stays == {l \in DOMAIN tree : DOMAIN new \cap Under[l] = {}}
    IN  Overlaid(new, Restrict(tree, stays))

\* The nodes of the overlay that land whole: elsewhere object meets object.
Landing(base, overlay) ==
    {t \in Place : /\ Holds(overlay, t)
                  /\ ~(IsObject(base, t) /\ IsObject(overlay, t))
                  /\ \A u \in Place : t \in Inside(u) => IsObject(base, u)}

\* merge_layer, merge_read: leaves meet one by one.
Merge(base, overlay) ==
    LET landing == Landing(base.fields, overlay.fields)
        landed  == {l \in DOMAIN overlay.fields :
                        \E t \in landing : l \in Under[t]}
        filled  == {t \in Place : /\ IsObject(base.fields, t)
                                 /\ Inside(t) \cap DOMAIN overlay.fields # {}}
        gone    == filled \cup UNION {Under[t] : t \in landing}
    IN  [fields  |-> Insert(Minus(base.fields, gone),
                            Restrict(overlay.fields, landed)),
         records |-> Overlaid(Restrict(overlay.records,
                                  landed \cap DOMAIN overlay.records),
                         Minus(base.records, gone))]

Read0 == [fields |-> NoTree, records |-> NoTree]

\* A layer's records are its own, all of them.
Layer(tree, name) ==
    [fields |-> tree, records |-> [l \in DOMAIN tree |-> name]]

-----------------------------------------------------------------------------
(* The read. *)

SeedLayer(link, i) == Layer(seeds[i], <<link, "seed", i>>)

MergeSeeds(link, out) ==
    LET merged[i \in 0..Seeds] ==
            IF i = 0 THEN out ELSE Merge(merged[i - 1], SeedLayer(link, i))
    IN  IF link = Levels THEN merged[Seeds] ELSE out

\* A put replaces the node it was written at.
MergePuts(link, out) ==
    LET cut    == UNION {Under[a] : a \in addresses[link]}
        put    == Layer(putTrees[link], <<link, "put">>)
        merged == Merge([fields  |-> Minus(out.fields, cut),
                         records |-> Minus(out.records, cut)], put)
    IN  [merged EXCEPT !.records = Overlaid(put.records, @)]

\* Mutant: a put cuts what the farther links gave as well.
CutsAll(link) == FALSE

\* A link with puts is read on its own.
CutsOwn(link) == addresses[link] # {}

ReadLevel(out, link) ==
    LET target == IF CutsOwn(link) THEN Read0 ELSE out
        own == MergePuts(link, MergeSeeds(link,
                   Merge(target, Layer(sources[link], <<link, "source">>))))
    IN  IF CutsOwn(link) THEN Merge(out, own) ELSE own

\* Of every layer, at each link a Source's instance: the farthest link first.
ReadMerged ==
    LET read[i \in 0..Levels] ==
            IF i = 0 THEN Read0 ELSE ReadLevel(read[i - 1], Levels + 1 - i)
    IN  read[Levels]

-----------------------------------------------------------------------------
(* Writes. *)

\* drop_put_subtree: an address that is left holding nothing goes.
Addressed(tree, as, t) == {a \in as \ Under[t] : Holds(tree, a)}

PutTree(link, t, new) ==
    /\ putsMade < MaxPutAt /\ putsMade' = putsMade + 1
    /\ LET tree  == Cut(putTrees[link], t)
           kept  == Addressed(tree, addresses[link], t)
           inWay == {a \in DOMAIN tree : t \in Inside(a) /\ tree[a] = "value"}
       IN  /\ putTrees' = [putTrees EXCEPT ![link] = Insert(tree, new)]
           /\ addresses' = [addresses EXCEPT ![link] =
                  IF new = NoTree THEN kept ELSE (kept \ inWay) \cup {t}]
    /\ UNCHANGED <<sources, seeds>>

RemovePut(link, t) ==
    /\ putsMade < MaxPutAt /\ putsMade' = putsMade + 1
    /\ LET tree == Cut(putTrees[link], t)
       IN  /\ putTrees' = [putTrees EXCEPT ![link] = tree]
           /\ addresses' = [addresses EXCEPT ![link] = Addressed(tree, @, t)]
    /\ UNCHANGED <<sources, seeds>>

\* drop_put_address: what a deeper address owns stays.
EvictAddress(link, t) ==
    /\ t \in addresses[link]
    /\ putsMade < MaxPutAt /\ putsMade' = putsMade + 1
    /\ LET tree   == Cut(putTrees[link], t)
           deeper == addresses[link] \cap Inside(t)
           kept   == DOMAIN putTrees[link] \cap UNION {Under[a] : a \in deeper}
       IN  /\ putTrees' = [putTrees EXCEPT ![link] = Insert(tree, Restrict(@, kept))]
           /\ addresses' = [addresses EXCEPT ![link] =
                                Addressed(tree, @, t) \cup deeper]
    /\ UNCHANGED <<sources, seeds>>

\* put_source: a run's record replaces the one before.
PutSource(link, tree) ==
    /\ sources' = [sources EXCEPT ![link] = tree]
    /\ UNCHANGED <<seeds, putTrees, addresses, putsMade>>

\* reseed_static.
ReseedStatic(trees) ==
    /\ seeds' = trees
    /\ UNCHANGED <<sources, putTrees, addresses, putsMade>>

LayersNext ==
    \/ \E link \in Level :
           \/ \E tree \in Given : PutSource(link, tree)
           \/ \E t \in Place :
                  \/ \E new \in Stated \cup {NoTree} :
                         /\ DOMAIN new \subseteq Under[t]
                         /\ new = NoTree => t = Whole
                         /\ PutTree(link, t, new)
                  \/ RemovePut(link, t) \/ EvictAddress(link, t)
    \/ \E trees \in [1..Seeds -> Given] : ReseedStatic(trees)

LayersSpec == LayersInit /\ [][LayersNext]_layersVars

-----------------------------------------------------------------------------
(* Properties. *)

\* Every tree is one; each put address holds something, and each put leaf has
\* an address that says when it was put.
LayersTypeOK ==
    /\ sources \in [Level -> Tree] /\ seeds \in [1..Seeds -> Tree]
    /\ putTrees \in [Level -> Tree] /\ addresses \in [Level -> SUBSET Place]
    /\ \A l \in Level : /\ \A a \in addresses[l] : Holds(putTrees[l], a)
                       /\ \A t \in DOMAIN putTrees[l] :
                              \E a \in addresses[l] : t \in Under[a]

\* What shows of layers, the first in front: a leaf of one where none before it
\* has a leaf below it, or a value at or above it, and an empty object where
\* nothing shows below it.  A claim is a leaf, what it is and whose it is.
Showing(layers) ==
    LET hides(j, m) ==
            \E n \in layers[j] :
                \/ n.at \in Inside(m.at)
                \/ m.at \in Inside(n.at) /\ n.is = "value"
                \/ m.at = n.at /\ "value" \in {m.is, n.is}
        unhidden == UNION {{m \in layers[i] : ~\E j \in 1..(i - 1) : hides(j, m)}
                               : i \in 1..Len(layers)}
    IN  {m \in unhidden : ~\E n \in unhidden : n.at \in Inside(m.at)}

Claims(tree, name) == {[at |-> t, is |-> tree[t], of |-> name] : t \in DOMAIN tree}

\* The layers of one link, what its puts replace left out.
ShowingAt(link) ==
    LET uncut(tree) == Minus(tree, UNION {Under[a] : a \in addresses[link]})
        files == [i \in 1..Seeds |->
                      Claims(uncut(seeds[Seeds + 1 - i]),
                             <<link, "seed", Seeds + 1 - i>>)]
    IN  Showing(<<Claims(putTrees[link], <<link, "put">>)>>
                  \o (IF link = Levels THEN files ELSE <<>>)
                  \o <<Claims(uncut(sources[link]), <<link, "source">>)>>)

AnyHeld ==
    \/ \E l \in Level : sources[l] # NoTree \/ putTrees[l] # NoTree
    \/ \E f \in 1..Seeds : seeds[f] # NoTree

\* A read gives what shows of the links, the nearest in front, and of each what
\* shows of its layers: the puts, which replace the nodes they were made at
\* there and no farther, the files, the last first, and the Source.  Its
\* records are those of the leaves it gives, each of a layer that holds it.
\* (Where no layer holds anything there is no answer to look at.)
ReadsAsStacked ==
    AnyHeld =>
    LET shown == Showing([l \in Level |-> ShowingAt(l)])
        read  == ReadMerged
    IN  /\ DOMAIN read.fields = {m.at : m \in shown}
        /\ DOMAIN read.records = DOMAIN read.fields
        /\ \A t \in DOMAIN read.fields :
               [at |-> t, is |-> read.fields[t], of |-> read.records[t]]
                   \in shown
=============================================================================
