------------------------------- MODULE MCParts -------------------------------
(***************************************************************************)
(* Small instances for TLC of the parts that share no state with one       *)
(* another here: a behaviour is one of one part, and leaves the variables  *)
(* of the others as they were.                                             *)
(***************************************************************************)
EXTENDS Singleton, Puts, Streams, Watching, FanIn, ConfigWatch, Memos,
        Layers, Climb, TLC

CONSTANTS
    Checked,           \* the parts a run checks
    p1, p2, p3,
    above, one, two,   \* nodes, the first above the others
    c1, c2,
    near, far,         \* links
    s1, s2,
    w1,
    i1,
    r1,
    root, x, text,     \* addresses, and what a leaf renders
    leafAbove, leafBelow,
    m1, m2,            \* writers of memos
    whole, top, left, right,
    k1                 \* an instance the lines call

VARIABLE part

partsVars == <<part, singletonVars, putsVars, streamVars, watchVars,
               fanInVars, configVars, memosVars, layersVars, climbVars>>

PutBelow == [n \in Node |-> IF n = above THEN Node ELSE {n}]

PutTo(n, ttl, persist, null) ==
    [node |-> n, ttl |-> ttl, persist |-> persist, null |-> null]

Kinds ==
    {PutTo(above, TRUE, TRUE, FALSE), PutTo(above, FALSE, FALSE, FALSE),
     PutTo(one, TRUE, TRUE, FALSE),
     PutTo(one, FALSE, FALSE, TRUE),
     PutTo(two, FALSE, TRUE, FALSE)}

\* A reload gives the read one more link to walk.
ChainOf == [g \in 0..1 |-> IF g = 0 THEN <<near>> ELSE <<near, far>>]

\* What a render reads: x only where the root says so.
ReadsOf == [a \in Address |-> [v \in Shown |->
               IF a = root /\ v = 1 THEN {x} ELSE {}]]

\* The root's cache() is given all that its render reads.
InputsOf == [a \in Cached |-> {x}]

\* The one lies above the other: a memo at either replaces the other's.
WithinOf == [l \in Leaf |-> Leaf]

UnderOf == (whole :> Place) @@ (top :> {top, left, right})
               @@ [t \in {left, right} |-> {t}]

GivenTrees ==
    {NoTree, top :> "value", (left :> "empty") @@ (right :> "value")}

StatedTrees ==
    {top :> "value", top :> "empty", left :> "value", left :> "empty",
     right :> "value"}

EditOf(f, kind, skewed) == [file |-> f, kind |-> kind, skewed |-> skewed]

Edits ==
    {EditOf(1, "providers", FALSE), EditOf(1, "providers", TRUE),
     EditOf(1, "settings", FALSE), EditOf(2, "providers", FALSE),
     EditOf(2, "broken", FALSE), EditOf(2, "gone", FALSE)}

\* A root at each of these depths, found from there and from below.
RootAt(depths) ==
    [d \in Directory |->
        IF \E m \in depths : m <= d THEN Max({m \in depths : m <= d}) ELSE 0]

\* Two roots, one inside the other; one; none; the one that is $HOME in some of
\* the reads; and one below the directory it is found from.
Rules ==
    {RootAt({3, 4}), RootAt({1}), RootAt({}), RootAt({2}),
     [d \in Directory |-> 3]}

\* What NearestAnswersEver of module ReadsProofs asks of the rules.
ASSUME RulesSettle == RootsSettle

Field(home, place) ==
    [from |-> Deep, home |-> home, force |-> FALSE, wait |-> "budget",
     put |-> place, takes |-> "field"]

ReadsMade ==
    {Field(2, Tilde), Field(2, 3), Field(2, NoDepth), Field(0, NoDepth),
     [Field(2, NoDepth) EXCEPT !.from = Tilde],
     [Field(2, NoDepth) EXCEPT !.takes = "whole", !.force = TRUE,
                               !.wait = "for"],
     [Field(0, NoDepth) EXCEPT !.takes = "whole", !.wait = "forever"],
     [Field(2, NoDepth) EXCEPT !.takes = "lines"]}

\* A part that is not the one of the behaviour starts in one state.
PartsInit ==
    /\ part \in Checked
    /\ SingletonInit /\ PutsInit /\ StreamsInit /\ ConfigWatchInit
    /\ WatchingInit
    /\ part # "watching" => barrier.heard = 0
    /\ FanInInit
    /\ part # "fan-in" => /\ ~forced /\ due = {}
                           /\ \A a \in Address : node[a] = 0 /\ memo[a] = NoMemo
    /\ MemosInit
    /\ part # "memos" => numbered = 0
    /\ LayersInit
    /\ part # "layers" => /\ \A l \in Level : sources[l] = NoTree
                          /\ \A f \in 1..Seeds : seeds[f] = NoTree
    /\ ClimbInit
    /\ part # "climb" => /\ plan = Field(2, NoDepth) /\ nearest = {}
                         /\ \A s \in Demanded : rule[s] = RootAt({})

\* Bounds taken together: a new build or a process killed outright; three puts, or
\* two and a restart; two writes, or one and a reload; two asks for a watch or two
\* barriers, with one of the other.
Narrow ==
    /\ disk + crashes <= 2
    /\ Len(puts) + restarts <= 3
    /\ writes + inForce <= 2
    /\ table.asks + barrier.passes <= 3

PartsNext ==
    /\ UNCHANGED part
    /\ \/ /\ part = "singleton" /\ SingletonNext
          /\ UNCHANGED <<putsVars, streamVars, watchVars, fanInVars,
                        configVars, memosVars, layersVars, climbVars>>
       \/ /\ part = "puts" /\ PutsNext
          /\ UNCHANGED <<singletonVars, streamVars, watchVars, fanInVars,
                        configVars, memosVars, layersVars, climbVars>>
       \/ /\ part = "streams" /\ StreamsNext
          /\ UNCHANGED <<singletonVars, putsVars, watchVars, fanInVars,
                        configVars, memosVars, layersVars, climbVars>>
       \/ /\ part = "watching" /\ WatchingNext
          /\ UNCHANGED <<singletonVars, putsVars, streamVars, fanInVars,
                        configVars, memosVars, layersVars, climbVars>>
       \/ /\ part = "fan-in" /\ FanInNext
          /\ UNCHANGED <<singletonVars, putsVars, streamVars, watchVars,
                        configVars, memosVars, layersVars, climbVars>>
       \/ /\ part = "config" /\ ConfigWatchNext
          /\ UNCHANGED <<singletonVars, putsVars, streamVars, watchVars,
                        fanInVars, memosVars, layersVars, climbVars>>
       \/ /\ part = "memos" /\ MemosNext
          /\ UNCHANGED <<singletonVars, putsVars, streamVars, watchVars,
                        fanInVars, configVars, layersVars, climbVars>>
       \/ /\ part = "layers" /\ LayersNext
          /\ UNCHANGED <<singletonVars, putsVars, streamVars, watchVars,
                        fanInVars, configVars, memosVars, climbVars>>
       \/ /\ part = "climb" /\ ClimbNext
          /\ UNCHANGED <<singletonVars, putsVars, streamVars, watchVars,
                        fanInVars, configVars, memosVars, layersVars>>
    /\ Narrow'

\* What a process knew is nothing to anyone once it has ended.
SingletonView ==
    <<stage, build, fileVars, sockVars, disk, crashes, owed,
      [p \in {q \in Proc : Alive(q)} |->
           <<since[p], p \in again, p \in told,
             IF stage[p] \in {"kill", "await"} THEN target[p] ELSE NoProc>>]>>

\* Once the watch has ended, or the daemon, nothing of it is to be seen again.
FanInView ==
    IF does = "ended" \/ ~serving THEN <<does, serving, rounds, changes>>
    ELSE fanInVars

\* The variables of the other parts never change.
PartView ==
    CASE part = "singleton" -> <<part, SingletonView>>
      [] part = "puts"      -> <<part, putsVars>>
      [] part = "streams"   -> <<part, streamVars>>
      [] part = "watching"  -> <<part, watchVars>>
      [] part = "fan-in"    -> <<part, FanInView>>
      [] part = "config"    -> <<part, configVars>>
      [] part = "memos"     -> <<part, memosVars>>
      [] part = "layers"    -> <<part, layersVars>>
      [] part = "climb"     -> <<part, climbVars>>

PartsSpec == PartsInit /\ [][PartsNext]_partsVars

-----------------------------------------------------------------------------
(* Every variable of every part keeps its type.                             *)
PartsTypeOK ==
    /\ part = "singleton" => SingletonTypeOK
    /\ part = "puts"      => PutsTypeOK
    /\ part = "streams"   => StreamsTypeOK
    /\ part = "watching"  => WatchingTypeOK
    /\ part = "fan-in"    => FanInTypeOK
    /\ part = "config"    => ConfigWatchTypeOK
    /\ part = "memos"     => MemosTypeOK
    /\ part = "layers"    => LayersTypeOK
    /\ part = "climb"     => ClimbTypeOK
=============================================================================
