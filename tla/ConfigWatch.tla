----------------------------- MODULE ConfigWatch ----------------------------
(***************************************************************************)
(* The daemon's watch of its own configuration: the files are read at the  *)
(* start, then stamped, and then a change of any of them is put through    *)
(* the load that startup is, and reloads in place or restarts              *)
(* (src/src/daemon/config_watch.rs, seed.rs `spawn_config_seeding`).       *)
(*                                                                         *)
(* A file is how its last edit left it: its bare settings, whether it      *)
(* loads, its modification time.  No two edits of a file give it the same  *)
(* time, but the clocks that stamp them may differ.  File events may be    *)
(* lost, or not be there at all; the poll always comes.                    *)
(***************************************************************************)
EXTENDS Naturals, Sequences, FiniteSetsExt

CONSTANTS
    Files,      \* how many there are, numbered as they are composed
    Edit,       \* the edits there may be: [file, kind, skewed]
    MaxEdit     \* bound: how many there are

ASSUME ConfigWatchAssumption ==
    /\ Files \in Nat \ {0} /\ MaxEdit \in Nat
    /\ Edit \subseteq [file : 1..Files, skewed : BOOLEAN,
                       kind : {"providers", "settings", "broken", "gone"}]

File == 1..Files

Content == [bare : 0..1, loads : BOOLEAN, gone : BOOLEAN,
            mtime : 0..(2 * MaxEdit + 1)]

NoTime == 2 * MaxEdit + 2

Told == {"down", "start", "look", "watch", "check", "settle", "load"}

VARIABLES
    onDisk,     \* [File -> Content]
    edits,      \* how many there were
    current,    \* [File -> Content]: the configuration in force
    reloads,    \* those sent to the scheduler and not yet in force
    bare,       \* settings: the bare keys that were in force last
    duty,       \* what the daemon, or its watch's thread, is doing
    loaded,     \* the files a load has read so far
    looked,     \* the times a look has taken so far
    snapshot,   \* [File -> time]
    notified,   \* an event the thread has yet to take
    armed,      \* last_event: the debounce runs
    early,      \* history: files edited as the daemon started, after it read
                \* them and before it stamped them
    ghosts      \* history: files the last load read and the look before it
                \* had found gone

configFiles == <<onDisk, edits>>
inForceNow  == <<current, reloads, bare>>
reading     == <<loaded, looked>>
configVars  == <<configFiles, inForceNow, duty, reading, snapshot, notified,
                 armed, early, ghosts>>

Written == [bare |-> 0, loads |-> TRUE, gone |-> FALSE, mtime |-> 0]

ConfigWatchInit ==
    /\ onDisk = [f \in File |-> Written] /\ edits = 0
    /\ current = onDisk /\ reloads = <<>> /\ bare = [f \in File |-> 0]
    /\ duty = "down" /\ loaded = <<>> /\ looked = <<>>
    /\ snapshot = [f \in File |-> NoTime]
    /\ notified = FALSE /\ armed = FALSE /\ early = {} /\ ghosts = {}

TimeOf(f) == IF onDisk[f].gone THEN NoTime ELSE onDisk[f].mtime

Settings(set) == [f \in File |-> set[f].bare]

Loads(set) == \A f \in File : set[f].loads

-----------------------------------------------------------------------------
(* The files. *)

Edited(content, kind, time) ==
    IF kind = "gone" THEN [Written EXCEPT !.gone = TRUE]
    ELSE [bare  |-> IF kind = "settings" THEN 1 - content.bare
                                         ELSE content.bare,
          loads |-> kind # "broken", gone |-> FALSE, mtime |-> time]

ReadNotStamped(f) ==
    \/ duty = "start" /\ f <= Len(loaded)
    \/ duty = "look"  /\ f > Len(looked)

EditFile(e) ==
    /\ edits < MaxEdit /\ edits' = edits + 1
    /\ e.kind = "gone" => ~onDisk[e.file].gone
    /\ LET time == edits' + (IF e.skewed THEN MaxEdit + 1 ELSE 0)
       IN  onDisk' = [onDisk EXCEPT ![e.file] = Edited(@, e.kind, time)]
    /\ early' = IF ReadNotStamped(e.file) THEN early \cup {e.file} ELSE early
    /\ \/ UNCHANGED notified
       \/ duty \notin {"down", "start", "look"} /\ notified' = TRUE
    /\ UNCHANGED <<inForceNow, duty, reading, snapshot, armed, ghosts>>

-----------------------------------------------------------------------------
(* The start, and the load it shares with the watch: file by file. *)

StartDaemon ==
    /\ duty = "down"
    /\ duty' = "start" /\ loaded' = <<>> /\ early' = {} /\ ghosts' = {}
    /\ UNCHANGED <<configFiles, inForceNow, looked, snapshot, notified, armed>>

ReadFile ==
    /\ duty \in {"start", "load"} /\ Len(loaded) < Files
    /\ LET f == Len(loaded) + 1
       IN  /\ loaded' = Append(loaded, onDisk[f]) /\ early' = early \ {f}
           /\ ghosts' = IF duty = "load" /\ snapshot[f] = NoTime
                            /\ ~onDisk[f].gone
                          THEN ghosts \cup {f} ELSE ghosts \ {f}
    /\ UNCHANGED <<configFiles, inForceNow, duty, looked, snapshot, notified,
                   armed>>

\* Mutant: the first change is judged against what is on disk by now.
JudgedOnDisk(set) == Settings(onDisk)

\* What the first change is judged against.
Judged(set) == Settings(set)

\* Startup refuses what does not load.
StartGate ==
    /\ duty = "start" /\ Len(loaded) = Files
    /\ IF Loads(loaded)
         THEN /\ current' = loaded /\ bare' = Judged(loaded)
              /\ reloads' = <<>> /\ looked' = <<>>
              /\ duty' = "look"
         ELSE duty' = "down" /\ UNCHANGED <<inForceNow, looked>>
    /\ UNCHANGED <<configFiles, loaded, snapshot, notified, armed, early,
                   ghosts>>

EndsDaemon == duty' = "down" /\ notified' = FALSE /\ armed' = FALSE

\* reload_providers: the scheduler is sent the registry that was loaded.
SendReload == reloads' = Append(reloads, loaded)

\* try_fire: what does not load changes nothing; a change of a bare key ends
\* the daemon, for another to start; any other is a reload.
TryFire ==
    /\ duty = "load" /\ Len(loaded) = Files
    /\ \/ /\ ~Loads(loaded)
          /\ duty' = "watch" /\ UNCHANGED <<inForceNow, notified, armed>>
       \/ /\ Loads(loaded) /\ Settings(loaded) = bare
          /\ SendReload
          /\ duty' = "watch" /\ UNCHANGED <<current, bare, notified, armed>>
       \/ /\ Loads(loaded) /\ Settings(loaded) # bare
          /\ bare' = Settings(loaded)
          /\ EndsDaemon /\ UNCHANGED <<current, reloads>>
    /\ UNCHANGED <<configFiles, reading, snapshot, early, ghosts>>

\* The scheduler puts what it was sent in force.
PutInForce ==
    /\ reloads # <<>> /\ duty # "down"
    /\ current' = Head(reloads) /\ reloads' = Tail(reloads)
    /\ UNCHANGED <<configFiles, bare, duty, reading, snapshot, notified, armed,
                   early, ghosts>>

-----------------------------------------------------------------------------
(* The watch's thread. *)

LookAtFile ==
    /\ duty \in {"look", "check", "settle"} /\ Len(looked) < Files
    /\ looked' = Append(looked, TimeOf(Len(looked) + 1))
    /\ UNCHANGED <<configFiles, inForceNow, duty, loaded, snapshot, notified,
                   armed, early, ghosts>>

Newest(times) == Max({0} \cup {times[f] : f \in {g \in File : times[g] # NoTime}})

\* Mutant: the newest time, and how many files there are.
MovedNewest(times) ==
    \/ Newest(times) > Newest(snapshot)
    \/ {f \in File : times[f] = NoTime} # {f \in File : snapshot[f] = NoTime}

\* Any file whose time moved, either way, or that came or went.
Moved(times) == times # snapshot

\* composed_snapshot is whole.  At the start it is where the watch begins;
\* after an event it is taken before the load, and so it is when the poll finds
\* that something moved.
Looked ==
    /\ Len(looked) = Files
    /\ \/ /\ duty = "look"
          /\ snapshot' = looked /\ duty' = "watch" /\ UNCHANGED loaded
       \/ /\ duty = "settle" \/ (duty = "check" /\ Moved(looked))
          /\ snapshot' = looked /\ duty' = "load" /\ loaded' = <<>>
       \/ /\ duty = "check" /\ ~Moved(looked)
          /\ duty' = "watch" /\ UNCHANGED <<snapshot, loaded>>
    /\ looked' = <<>>
    /\ UNCHANGED <<configFiles, inForceNow, notified, armed, early, ghosts>>

HearChange ==
    /\ duty = "watch" /\ notified
    /\ notified' = FALSE /\ armed' = TRUE
    /\ UNCHANGED <<configFiles, inForceNow, duty, reading, snapshot, early,
                   ghosts>>

\* The debounce ends with no event since.
Debounced ==
    /\ duty = "watch" /\ armed
    /\ armed' = FALSE /\ duty' = "settle" /\ looked' = <<>>
    /\ UNCHANGED <<configFiles, inForceNow, loaded, snapshot, notified, early,
                   ghosts>>

PollFiles ==
    /\ duty = "watch"
    /\ duty' = "check" /\ looked' = <<>>
    /\ UNCHANGED <<configFiles, inForceNow, loaded, snapshot, notified, armed,
                   early, ghosts>>

ConfigWatchNext ==
    \/ \E e \in Edit : EditFile(e)
    \/ StartDaemon \/ ReadFile \/ StartGate \/ TryFire \/ PutInForce
    \/ LookAtFile \/ Looked \/ HearChange \/ Debounced \/ PollFiles

ConfigWatchSpec == ConfigWatchInit /\ [][ConfigWatchNext]_configVars

-----------------------------------------------------------------------------
(* Properties. *)

ConfigWatchTypeOK ==
    /\ onDisk \in [File -> Content] /\ edits \in 0..MaxEdit
    /\ current \in [File -> Content]
    /\ reloads \in Seq([File -> Content])
    /\ bare \in [File -> 0..1] /\ duty \in Told
    /\ loaded \in Seq(Content) /\ looked \in Seq(0..NoTime)
    /\ snapshot \in [File -> 0..NoTime]
    /\ notified \in BOOLEAN /\ armed \in BOOLEAN
    /\ early \subseteq File /\ ghosts \subseteq File

\* The poll would find nothing, and nothing is on its way.
WatchRests ==
    /\ duty = "watch" /\ ~notified /\ ~armed /\ reloads = <<>>
    /\ ~Moved([f \in File |-> TimeOf(f)])

\* An edit is in force once the watch has come to rest, whichever file it was
\* made to, whatever the clocks say, and whatever was being read or stamped
\* then; a set that does not load waits for the edit that mends it.  Only an
\* edit made as the daemon started, between its load and its first look, may
\* go unnoticed, and a file that is gone for the look, there for the load, and
\* gone again.
EditsReach ==
    WatchRests =>
        \/ ~Loads(onDisk)
        \/ ghosts # {}
        \/ \A f \in File : current[f] = onDisk[f] \/ f \in early

\* What the next change is judged against is what is in force: no bare key
\* changes by a reload, and none waits for a restart that does not come.
BareKeysInForce ==
    duty \notin {"down", "start"} =>
        \A set \in {current} \cup {reloads[i] : i \in 1..Len(reloads)} :
            Settings(set) = bare
=============================================================================
