------------------------------- MODULE Climb --------------------------------
(***************************************************************************)
(* One read of the daemon: the instances of the Sources its key demands,   *)
(* climbed together from the directory read, each brought up to date as it *)
(* is reached; and then the Sources that the provider's lines call         *)
(* (src/src/server.rs Request::Get, `climb` and `warm_called`, over        *)
(* src/src/query.rs `InstanceWalk` and Cache::read_merged).                *)
(*                                                                         *)
(* The directories above the one read are named by their depth, so that a  *)
(* deeper one is nearer, and `~`, the farthest of all, is depth 0.  A run  *)
(* is one the read started or joined; how it ends is known when the read   *)
(* has waited for it, and where the read has not, it is one of another's.  *)
(* What the field holds is not modelled: a record has it or has not.       *)
(* A node that is an object, and the parts a merge is made of, are left to *)
(* Layers; the runs to Runs; the wait for file events to Watching.         *)
(***************************************************************************)
EXTENDS Naturals, SequencesExt, FiniteSetsExt

CONSTANTS
    Sources,   \* the demanded Sources are 1..Sources, as they are declared
    Deep,      \* the depth of the directory read
    Rule,      \* SUBSET [1..Deep -> 0..Deep]: a Source's `root`, 0 for nothing
    Callee,    \* instances of other providers' Sources that the lines call
    ClimbReads, \* the reads a client makes: SUBSET Plan
    MaxElse    \* bound: changes made by others while the read is under way

Tilde == 0

Directory == 1..Deep

Depth == {Tilde} \cup Directory

NoDepth == Deep + 1

Demanded == 1..Sources

Instance == Demanded \X Depth

\* home is the depth of $HOME, 0 where the directory is not under it; put is
\* the place of a put that states the field.  Only a read of a field, under
\* the shipped lines, may stop early; others take every level, and of those
\* some have lines that call.
Plan == [from : {Tilde, Deep}, home : 0..Deep, force : BOOLEAN,
         wait : {"budget", "for", "forever"}, put : Depth \cup {NoDepth},
         takes : {"field", "whole", "lines"}]

ASSUME ClimbAssumption ==
    /\ Sources \in Nat \ {0} /\ Deep \in Nat \ {0} /\ MaxElse \in Nat
    /\ Rule \subseteq [Directory -> 0..Deep]
    /\ ClimbReads \subseteq Plan
    /\ Callee \cap Instance = {}

VARIABLES
    plan,      \* the read
    rule,      \* [Demanded -> Rule]
    nearest,   \* the Sources whose nearest instance answers alone
    progress,  \* where the read is
    walks,     \* [Demanded -> Seq(Depth)]: InstanceWalk.seen
    next,      \* [Demanded -> Depth \cup {NoDepth}]: Walking.next
    level,     \* the Sources yet to be visited at this level
    visited,   \* Seq(Instance)
    reached,   \* those of them that no put answers
    pending,   \* Seq([of, until]): the runs to wait for, and how
    held,      \* [visited -> BOOLEAN]: whether the record has the field
    merged,    \* the answer of the last merged read: where from, or Miss
    anyEnded,  \* settle: a run ended in time
    resolved,  \* warm_called: a root was rendered
    keptWarm,  \* what the scheduler was sent for: QueryActivity
    elsewhere, \* changes made by others
    unread     \* for the properties: instances whose run the read has seen
               \* end since it last read what is stored

walkVars  == <<walks, next, level, visited, reached>>
waitVars  == <<pending, anyEnded>>
readVars  == <<merged, resolved, keptWarm, unread>>
planVars  == <<plan, rule, nearest>>
climbVars == <<planVars, progress, walkVars, waitVars, held, readVars,
               elsewhere>>

\* A record that is valid, or is to be run for again; and whether it has the
\* field.
Met == [is : {"cold", "due", "valid"}, has : BOOLEAN]

\* A read of a whole namespace asks for no field.
MayHave == IF plan.takes = "field" THEN BOOLEAN ELSE {FALSE}

Stored == {r \in Met : r.has \in MayHave /\ (r.is = "cold" => ~r.has)}

Miss == [at |-> NoDepth, of |-> "nothing"]

ClimbInit ==
    /\ plan \in ClimbReads
    /\ rule \in [Demanded -> Rule]
    /\ nearest \in SUBSET Demanded
    /\ progress = "reach"
    /\ walks = [s \in Demanded |-> <<>>]
    /\ next = [s \in Demanded |-> NoDepth]
    /\ level = {} /\ visited = <<>> /\ reached = {}
    /\ pending = <<>> /\ held = <<>> /\ anyEnded = FALSE
    /\ merged = Miss /\ resolved = FALSE /\ keptWarm = {} /\ unread = {}
    /\ elsewhere = 0

StopsEarly == plan.takes = "field"

-----------------------------------------------------------------------------
(* A Source's walk up its instances. *)

\* InstanceWalk::ask: the directory whose root is next, Tilde where none is
\* asked for, or NoDepth where the walk is over.
Ask(s, walked) ==
    CASE walked = <<>> ->
             IF plan.from = Tilde /\ s \in nearest THEN plan.home
                                                    ELSE plan.from
      [] walked # <<>> /\ (s \in nearest \/ Last(walked) = Tilde) -> NoDepth
      [] OTHER -> IF Last(walked) - 1 \in {0, plan.home} THEN Tilde
                                                         ELSE Last(walked) - 1

\* InstanceWalk::step.  To find nothing is no instance to a nearest Source and
\* the one at `~` to another, as is to find $HOME, or a root once more.
Found(s, walked, dir) ==
    LET at == rule[s][dir]
    IN  IF at = 0 THEN (IF s \in nearest THEN NoDepth ELSE Tilde)
        ELSE IF at = plan.home \/ at \in ToSet(walked) THEN Tilde
        ELSE at

NextOf(s, walked) ==
    IF Ask(s, walked) \in Directory THEN Found(s, walked, Ask(s, walked))
                                    ELSE Ask(s, walked)

\* The walk to its end (a place comes twice at most where walks repeat none).
WholeWalk(s) ==
    LET walk[n \in 0..(Deep + 1)] ==
            IF n = 0 THEN <<>>
            ELSE IF NextOf(s, walk[n - 1]) = NoDepth THEN walk[n - 1]
            ELSE Append(walk[n - 1], NextOf(s, walk[n - 1]))
    IN  walk[Deep + 1]

-----------------------------------------------------------------------------
(* The climb. *)

\* Mutant: every Source visits the instance it found.
EveryLevel(found) == {s \in Demanded : found[s] # NoDepth}

\* The Sources whose next root is the nearest of all.
NearestOf(found) ==
    {s \in Demanded :
        /\ found[s] # NoDepth
        /\ \A t \in Demanded : found[t] # NoDepth => found[t] <= found[s]}

\* Every Source is asked for its next root before any instance is visited.
Reach ==
    /\ progress = "reach"
    /\ LET found == [s \in Demanded |-> IF next[s] # NoDepth THEN next[s]
                                        ELSE NextOf(s, walks[s])]
       IN  /\ walks' = [s \in Demanded |->
                           IF next[s] # NoDepth \/ found[s] = NoDepth
                             THEN walks[s] ELSE Append(walks[s], found[s])]
           /\ next' = found
           /\ level' = NearestOf(found)
           /\ progress' = IF NearestOf(found) # {} THEN "visit" ELSE "top"
    /\ UNCHANGED <<planVars, visited, reached, waitVars, held, readVars,
                   elsewhere>>

\* A root that cannot be worked out is the read's error.
RootFails ==
    /\ progress = "reach"
    /\ \E s \in Demanded : next[s] = NoDepth /\ Ask(s, walks[s]) \in Directory
    /\ progress' = "failed"
    /\ UNCHANGED <<planVars, walkVars, waitVars, held, readVars, elsewhere>>

\* put_answers, where a put's shortcut is honoured.
PutAnswers(place) == StopsEarly /\ ~plan.force /\ plan.put = place

\* Read::until, of a record the read has (budgeted) or of none.
HasDeadline(budgeted) ==
    \/ plan.wait = "for"
    \/ plan.wait = "budget" /\ budgeted

\* start_for_read: a run for what is not valid, unless failback holds it back.
StartForRead(i, record) ==
    LET until == HasDeadline(record.is = "due" /\ ~plan.force)
        start == pending' = Append(pending, [of |-> i, until |-> until])
    IN  IF plan.force               THEN start
        ELSE IF record.is = "valid" THEN UNCHANGED pending
        ELSE start \/ UNCHANGED pending

\* The next instance of the level, as its record is found to be.
Visit ==
    /\ progress = "visit" /\ level # {}
    /\ LET s == Min(level)
           i == <<s, next[s]>>
       IN  /\ visited' = Append(visited, i)
           /\ next' = [next EXCEPT ![s] = NoDepth]
           /\ level' = level \ {s}
           /\ \E record \in Stored :
                  /\ held' = (i :> record.has) @@ held
                  /\ IF PutAnswers(next[s])
                       THEN UNCHANGED <<reached, pending>>
                       ELSE /\ reached' = reached \cup {i}
                            /\ StartForRead(i, record)
    /\ UNCHANGED <<planVars, progress, walks, anyEnded, readVars, elsewhere>>

\* A read that may stop early waits for the runs of a level together; another
\* goes on, and waits at the top.
LevelDone ==
    /\ progress = "visit" /\ level = {}
    /\ progress' = IF StopsEarly THEN "settle" ELSE "reach"
    /\ UNCHANGED <<planVars, walkVars, waitVars, held, readVars, elsewhere>>

\* Every chain is over.  A read that found something as it looked last, and
\* has nothing to wait for since, does not look again.
Top ==
    /\ progress = "top"
    /\ \/ progress' = "settle last"
       \/ StopsEarly /\ visited # <<>> /\ progress' = "answered"
    /\ keptWarm' = IF progress' = "answered" THEN reached ELSE keptWarm
    /\ UNCHANGED <<planVars, walkVars, waitVars, held, merged, resolved, unread,
                   elsewhere>>

-----------------------------------------------------------------------------
(* Waiting, and reading what is stored. *)

Settling == progress \in {"settle", "settle last", "settle called"}

\* A run stores its record, or fails.
Ends(i) ==
    IF i \in DOMAIN held
      THEN \E has \in MayHave : held' = [held EXCEPT ![i] = has]
      ELSE UNCHANGED held

\* settle: the runs, one after the other.  A fault is the read's error; any
\* other end counts, and a deadline only lets the read go on.
Settle ==
    /\ Settling /\ pending # <<>>
    /\ LET i == Head(pending).of
       IN  \/ /\ Ends(i)
              /\ anyEnded' = TRUE /\ unread' = unread \cup {i}
              /\ pending' = Tail(pending)
              /\ UNCHANGED progress
           \/ /\ progress' = "failed"
              /\ UNCHANGED <<anyEnded, unread, pending, held>>
           \/ /\ Head(pending).until
              /\ pending' = Tail(pending)
              /\ UNCHANGED <<progress, anyEnded, unread, held>>
    /\ UNCHANGED <<planVars, walkVars, merged, resolved, keptWarm, elsewhere>>

\* path_chain: from the directory read to below $HOME, and then `~`.
PathChain ==
    IF plan.from = Tilde THEN <<Tilde>>
    ELSE [k \in 1..(Deep - plan.home) |-> Deep + 1 - k] \o <<Tilde>>

Roots == [k \in DOMAIN visited |-> visited[k][2]]

OnChain(place) == place \in ToSet(PathChain)

AnswersAt(place) ==
    \/ plan.put = place
    \/ \E i \in ToSet(visited) : i[2] = place /\ held[i]

Answer(place) ==
    [at |-> place, of |-> IF plan.put = place THEN "put" ELSE "source"]

\* read_merged over read_chain, in which the instances that are not on the path
\* chain come first: the nearest link that has the field gives it, and there a
\* put before a Source.
ClimbMerged ==
    LET extra == SelectInSeq(Roots, LAMBDA r : ~OnChain(r) /\ AnswersAt(r))
        link  == SelectInSeq(PathChain, AnswersAt)
    IN  CASE extra # 0                 -> Answer(Roots[extra])
          [] extra = 0 /\ link # 0     -> Answer(PathChain[link])
          [] OTHER                     -> Miss

\* Mutant: only a root that is new to the read makes it read again.
RenderedResolved == resolved

\* What warm_called brought up to date the lines have yet to render over.
RendersAgain == resolved \/ anyEnded

\* The read reads; or the lines it has read with stand.
LookAgain ==
    /\ Settling /\ pending = <<>>
    /\ anyEnded' = FALSE
    /\ IF progress = "settle called" /\ ~RendersAgain
         THEN UNCHANGED <<merged, unread>>
         ELSE merged' = ClimbMerged /\ unread' = {}
    /\ \/ progress = "settle called" /\ progress' = "answered"
       \/ /\ progress = "settle"
          /\ progress' = IF ClimbMerged # Miss THEN "answered" ELSE "reach"
       \/ /\ progress = "settle last"
          /\ progress' = IF plan.takes = "lines" THEN "call" ELSE "answered"
    /\ keptWarm' = IF progress' # "answered" THEN {}
                   ELSE {i \in reached \cup Callee :
                             i \in Callee => progress = "settle called"}
    /\ UNCHANGED <<planVars, walkVars, pending, held, resolved, elsewhere>>

\* warm_called: the instances the lines call are found, which may render a
\* root, and those that need a run have one started.
WarmCalled ==
    /\ progress = "call"
    /\ progress' = "settle called"
    /\ resolved' \in BOOLEAN
    /\ \E started \in SUBSET Callee :
           /\ plan.force => started = Callee
           /\ \E due \in SUBSET started :
                  pending' = SetToSeq({
                      [of |-> i,
                       until |-> HasDeadline(i \in due /\ ~plan.force)] :
                           i \in started})
    /\ UNCHANGED <<planVars, walkVars, anyEnded, held, merged, keptWarm,
                   unread, elsewhere>>

-----------------------------------------------------------------------------
(* Others. *)

\* A run the read does not wait for stores its record, what a record was of
\* changes, or the instance is evicted.
Others(i) ==
    /\ elsewhere < MaxElse /\ elsewhere' = elsewhere + 1
    /\ \E has \in MayHave \ {held[i]} : held' = [held EXCEPT ![i] = has]
    /\ UNCHANGED <<planVars, progress, walkVars, waitVars, readVars>>

UnderWay == progress \notin {"answered", "failed"}

ClimbNext ==
    \/ Reach \/ RootFails \/ Visit \/ LevelDone \/ Top
    \/ Settle \/ LookAgain \/ WarmCalled
    \/ UnderWay /\ \E i \in DOMAIN held : Others(i)

ClimbSpec == ClimbInit /\ [][ClimbNext]_climbVars

-----------------------------------------------------------------------------
(* Properties. *)

ClimbTypeOK ==
    /\ plan \in ClimbReads /\ rule \in [Demanded -> Rule]
    /\ nearest \subseteq Demanded
    /\ progress \in {"reach", "visit", "settle", "top", "settle last", "call",
                  "settle called", "answered", "failed"}
    /\ \A s \in Demanded : walks[s] \in Seq(Depth) /\ IsInjective(walks[s])
    /\ next \in [Demanded -> Depth \cup {NoDepth}]
    /\ level \subseteq Demanded
    /\ ToSet(visited) \subseteq Instance /\ reached \subseteq Instance
    /\ \A k \in DOMAIN pending : /\ pending[k].of \in Instance \cup Callee
                                 /\ pending[k].until \in BOOLEAN
    /\ DOMAIN held = ToSet(visited)
    /\ \A i \in DOMAIN held : held[i] \in BOOLEAN
    /\ merged \in [at : Depth \cup {NoDepth},
                   of : {"put", "source", "nothing"}]
    /\ anyEnded \in BOOLEAN /\ resolved \in BOOLEAN
    /\ keptWarm \subseteq Instance \cup Callee
    /\ unread \subseteq Instance \cup Callee
    /\ elsewhere \in 0..MaxElse

\* No root is found farther up that is deeper: `lup` finds the nearest marker
\* at or above the directory it is asked for.
RootsSettle ==
    \A r \in Rule : \A d, e \in Directory : d <= e => r[d] <= r[e]

\* A field that a Source answers is answered from the nearest place there is:
\* no put had one nearer, and no Source has an instance nearer that the read left
\* out.  (That none it visited had an answer nearer is what ClimbMerged takes.  An
\* instance above $HOME is merged in front of what is below it: see the README.)
NearestAnswers ==
    progress = "answered" /\ merged.of = "source" /\ OnChain(merged.at) =>
        /\ ~(OnChain(plan.put) /\ plan.put >= merged.at)
        /\ \A s \in Demanded : \A place \in ToSet(WholeWalk(s)) :
               place > merged.at => <<s, place>> \in ToSet(visited)

\* What the read waited for is in its answer: a run that it saw end, of its
\* own Sources or of one the lines call, had ended before it looked last.
WaitedIsShown == progress = "answered" => unread = {}

\* As website/docs/concepts/cascade.md:50 has it, a global value never
\* overrides a directory's own: a put answers only where no instance is
\* nearer that the read left out.
GlobalsAreDefaults ==
    progress = "answered" /\ merged.of = "put" =>
        \A s \in Demanded : \A place \in ToSet(WholeWalk(s)) :
            place > merged.at => <<s, place>> \in ToSet(visited)
=============================================================================
