---------------------------- MODULE WatchesProofs ----------------------------
(***************************************************************************)
(* Proofs about watches: the daemon's, of its own configuration (module    *)
(* ConfigWatch) and of the trees its records are of (Watching), and a      *)
(* client's, of every address a value was resolved from (FanIn).  In each, *)
(* what was read is what there is, or there is somebody to tell of it.     *)
(***************************************************************************)
EXTENDS ConfigWatch, Watching, FanIn, TLAPS

-----------------------------------------------------------------------------
(* A queue, and what is left of it. *)

LEMMA QueueTail ==
    ASSUME NEW S, NEW q \in Seq(S), q # <<>>
    PROVE  /\ Head(q) = q[1] /\ Head(q) \in S /\ Tail(q) \in Seq(S)
           /\ Len(q) \in Nat \ {0} /\ Len(Tail(q)) = Len(q) - 1
           /\ \A i \in 1..Len(Tail(q)) : Tail(q)[i] = q[i + 1] /\ i + 1 \in 1..Len(q)
OBVIOUS

-----------------------------------------------------------------------------
(* The watch of the configuration. *)

\* The times there were so far: edits are numbered, and so are those of a
\* clock that is ahead.
Past(t) == t \in 0..edits \/ t \in (MaxEdit + 1)..(MaxEdit + 1 + edits) \/ t = NoTime

AllGone == [Written EXCEPT !.gone = TRUE]

ReadSoFar ==
    /\ Len(loaded) <= Files /\ Len(looked) <= Files
    /\ duty \in {"look", "watch", "check", "settle"} => Len(loaded) = Files

TimesPast ==
    /\ \A f \in File : Past(snapshot[f]) /\ Past(TimeOf(f))
    /\ \A i \in 1..Len(looked) : Past(looked[i])

GoneAlike ==
    /\ \A f \in File : onDisk[f].gone => onDisk[f] = AllGone
    /\ \A i \in 1..Len(loaded) : loaded[i].gone => loaded[i] = AllGone

\* A file that has the time it was looked at with was read as it is.
LoadAsLooked(f, time) ==
    /\ time = TimeOf(f) => loaded[f] = onDisk[f]
    /\ time = NoTime => loaded[f].gone

Stamped ==
    \A f \in File : (f <= Len(loaded) /\ f \notin early \cup ghosts) =>
        /\ duty = "start" => loaded[f] = onDisk[f]
        /\ duty = "look" => IF f <= Len(looked) THEN LoadAsLooked(f, looked[f])
                                                ELSE loaded[f] = onDisk[f]
        /\ duty \in {"watch", "check", "settle", "load"} => LoadAsLooked(f, snapshot[f])

\* What was loaded last, if it loads, is what will be in force.
LastSent == IF reloads = <<>> THEN current ELSE reloads[Len(reloads)]
SentOn ==
    duty \in {"look", "watch", "check", "settle"} /\ Loads(loaded) => LastSent = loaded

\* A file edited as the daemon started is so until it is read again.
EarlyRead ==
    /\ duty = "load" => \A f \in early : f > Len(loaded)
    /\ duty = "look" => Loads(loaded)
    /\ duty \in {"watch", "check", "settle"} /\ early # {} => Loads(loaded)

ConfigInv ==
    /\ ConfigWatchTypeOK /\ ReadSoFar /\ TimesPast /\ GoneAlike
    /\ Stamped /\ SentOn /\ EarlyRead /\ BareKeysInForce

LEMMA ConfigInitInv == ConfigWatchInit => ConfigInv
<1> SUFFICES ASSUME ConfigWatchInit PROVE ConfigInv
  OBVIOUS
<1> USE ConfigWatchAssumption DEF ConfigWatchInit
<1>1. Written \in Content /\ NoTime \in Nat /\ ~Written.gone /\ Written.mtime = 0
  BY DEF Written, Content, NoTime
<1>2. ConfigWatchTypeOK
  <2>1. onDisk \in [File -> Content] /\ current \in [File -> Content]
    BY <1>1
  <2>2. snapshot \in [File -> 0..NoTime] /\ edits \in 0..MaxEdit /\ bare \in [File -> 0..1]
    BY <1>1
  <2>3. reloads \in Seq([File -> Content]) /\ loaded \in Seq(Content) /\ looked \in Seq(0..NoTime)
    OBVIOUS
  <2> QED BY <2>1, <2>2, <2>3 DEF ConfigWatchTypeOK, Told
<1>3. TimesPast /\ GoneAlike
  BY <1>1 DEF TimesPast, GoneAlike, Past, TimeOf
<1> QED BY <1>2, <1>3 DEF ConfigInv, ReadSoFar, Stamped, SentOn, EarlyRead, BareKeysInForce

\* What every file of a whole load, or a whole look, gave.
LEMMA WholeSequence ==
    ASSUME NEW S, NEW q \in Seq(S), Len(q) = Files
    PROVE  q \in [File -> S]
BY DEF File

\* An edit's time is one there was not, and is past from now on.
LEMMA EditTime ==
    ASSUME ConfigInv, NEW e \in Edit, EditFile(e),
           NEW time, time = edits' + (IF e.skewed THEN MaxEdit + 1 ELSE 0)
    PROVE  /\ \A t : Past(t) => t # time /\ Past(t)'
           /\ Past(time)' /\ time \in 0..(2 * MaxEdit + 1) /\ time # NoTime
<1>1. edits \in Nat /\ edits < MaxEdit /\ edits' = edits + 1 /\ MaxEdit \in Nat
      /\ time \in {edits + 1, edits + 1 + MaxEdit + 1}
  BY ConfigWatchAssumption DEF ConfigInv, ConfigWatchTypeOK, EditFile
<1>2. ASSUME NEW t, Past(t)
      PROVE  t # time /\ Past(t)'
  BY <1>1, <1>2 DEF Past, NoTime
<1>3. Past(time)' /\ time \in 0..(2 * MaxEdit + 1) /\ time # NoTime
  BY <1>1 DEF Past, NoTime
<1> QED BY <1>2, <1>3

LEMMA EditKeeps ==
    ASSUME ConfigInv, NEW e \in Edit, EditFile(e)
    PROVE  ConfigInv'
<1>1. PICK g, time :
          /\ g \in File /\ g = e.file
          /\ time = edits' + (IF e.skewed THEN MaxEdit + 1 ELSE 0)
  BY ConfigWatchAssumption DEF File
<1>0. g \in File
  BY <1>1
<1> USE <1>0
<1>2. /\ \A t : Past(t) => t # time /\ Past(t)'
      /\ Past(time)' /\ time \in 0..(2 * MaxEdit + 1) /\ time # NoTime
  BY <1>1, EditTime
<1>3. /\ onDisk' = [onDisk EXCEPT ![g] = Edited(onDisk[g], e.kind, time)]
      /\ early' = IF ReadNotStamped(g) THEN early \cup {g} ELSE early
      /\ UNCHANGED <<current, reloads, bare, duty, loaded, looked, snapshot, armed, ghosts>>
      /\ edits' = edits + 1 /\ edits < MaxEdit
      /\ notified' \in BOOLEAN
  BY <1>1 DEF EditFile, inForceNow, reading, ConfigInv, ConfigWatchTypeOK
<1>4. PICK now : now = Edited(onDisk[g], e.kind, time)
  OBVIOUS
<1>5. /\ now \in Content
      /\ now.gone => now = AllGone
      /\ ~now.gone => now.mtime = time
  <2>1. onDisk[g] \in Content
    BY DEF ConfigInv, ConfigWatchTypeOK
  <2>2. onDisk[g].bare \in 0..1 /\ 1 - onDisk[g].bare \in 0..1
    BY <2>1 DEF Content
  <2>3. CASE e.kind = "gone"
    <3>1. now = AllGone
      BY <1>4, <2>3 DEF Edited, AllGone
    <3>2. Written \in Content
      BY ConfigWatchAssumption DEF Content, Written
    <3>3. AllGone \in Content /\ AllGone.gone
      BY <3>2 DEF AllGone, Content
    <3> QED BY <3>1, <3>3
  <2>4. CASE e.kind # "gone"
    <3>1. now = [bare |-> IF e.kind = "settings" THEN 1 - onDisk[g].bare ELSE onDisk[g].bare,
                 loads |-> e.kind # "broken", gone |-> FALSE, mtime |-> time]
      BY <1>4, <2>4 DEF Edited
    <3>2. now \in Content
      BY <1>2, <2>2, <3>1 DEF Content
    <3> QED BY <3>1, <3>2
  <2> QED BY <2>3, <2>4
<1>6. /\ onDisk' \in [File -> Content] /\ onDisk'[g] = now
      /\ \A f \in File : f # g => onDisk'[f] = onDisk[f]
  BY <1>3, <1>4, <1>5 DEF ConfigInv, ConfigWatchTypeOK
<1>7. ConfigWatchTypeOK'
  <2>1. edits' \in 0..MaxEdit
    BY <1>3, ConfigWatchAssumption DEF ConfigInv, ConfigWatchTypeOK
  <2>2. early' \subseteq File
    BY <1>3 DEF ConfigInv, ConfigWatchTypeOK
  <2> QED BY <1>3, <1>6, <2>1, <2>2 DEF ConfigInv, ConfigWatchTypeOK
<1>8. ReadSoFar'
  BY <1>3 DEF ConfigInv, ReadSoFar
<1>9. TimesPast'
  <2>1. \A f \in File : Past(TimeOf(f))'
    <3> TAKE f \in File
    <3>1. TimeOf(f)' = IF onDisk'[f].gone THEN NoTime ELSE onDisk'[f].mtime
      BY DEF TimeOf
    <3>2. CASE f = g
      BY <1>2, <1>5, <1>6, <3>1, <3>2 DEF Past
    <3>3. CASE f # g
      <4>1. TimeOf(f)' = TimeOf(f)
        BY <1>6, <3>3 DEF TimeOf
      <4> QED BY <1>2, <4>1 DEF ConfigInv, TimesPast, Past
    <3> QED BY <3>2, <3>3
  <2>2. \A f \in File : Past(snapshot[f])'
    BY <1>2, <1>3 DEF ConfigInv, TimesPast, Past
  <2>3. \A i \in 1..Len(looked) : Past(looked[i])'
    BY <1>2, <1>3 DEF ConfigInv, TimesPast, Past
  <2> QED BY <1>3, <2>1, <2>2, <2>3 DEF TimesPast
<1>10. GoneAlike'
  BY <1>3, <1>5, <1>6 DEF ConfigInv, GoneAlike
<1>11. ASSUME NEW t, NEW f \in File, f <= Len(loaded), Past(t), LoadAsLooked(f, t)
       PROVE  LoadAsLooked(f, t)'
  <2>1. t = NoTime => loaded[f].gone
    BY <1>11 DEF LoadAsLooked
  <2>2. ASSUME t = TimeOf(f)'
        PROVE  loaded[f] = onDisk'[f]
    <3>1. CASE f = g
      <4>1. now.gone /\ t = NoTime
        BY <1>2, <1>5, <1>6, <1>11, <2>2, <3>1 DEF TimeOf
      <4>2. loaded[f] = AllGone
        <5>1. f \in 1..Len(loaded)
          BY <1>11 DEF File, ConfigInv, ConfigWatchTypeOK
        <5> QED BY <2>1, <4>1, <5>1 DEF ConfigInv, GoneAlike
      <4> QED BY <1>5, <1>6, <3>1, <4>1, <4>2
    <3>2. CASE f # g
      BY <1>6, <1>11, <2>2, <3>2 DEF LoadAsLooked, TimeOf
    <3> QED BY <3>1, <3>2
  <2> QED BY <1>3, <2>1, <2>2 DEF LoadAsLooked
<1>12. Stamped'
  <2> SUFFICES ASSUME NEW f \in File, f <= Len(loaded), f \notin early' \cup ghosts
               PROVE  /\ duty = "start" => loaded[f] = onDisk'[f]
                      /\ duty = "look" => IF f <= Len(looked) THEN LoadAsLooked(f, looked[f])'
                                                              ELSE loaded[f] = onDisk'[f]
                      /\ duty \in {"watch", "check", "settle", "load"}
                            => LoadAsLooked(f, snapshot[f])'
    BY <1>3 DEF Stamped
  <2>1. f \notin early \cup ghosts /\ (f = g => ~ReadNotStamped(g))
    BY <1>3
  <2>2. duty = "start" => loaded[f] = onDisk'[f]
    BY <1>6, <2>1 DEF ConfigInv, Stamped, ReadNotStamped
  <2>3. duty = "look" /\ f > Len(looked) => loaded[f] = onDisk'[f]
    <3>1. ~(f <= Len(looked)) <=> f > Len(looked)
      BY DEF File, ConfigInv, ConfigWatchTypeOK
    <3> QED BY <1>6, <2>1, <3>1 DEF ConfigInv, Stamped, ReadNotStamped
  <2>4. duty = "look" /\ f <= Len(looked) => LoadAsLooked(f, looked[f])'
    <3> SUFFICES ASSUME duty = "look", f <= Len(looked)
                 PROVE  LoadAsLooked(f, looked[f])'
      OBVIOUS
    <3>1. PICK t : t = looked[f]
      OBVIOUS
    <3>2. f \in 1..Len(looked)
      BY DEF File, ConfigInv, ConfigWatchTypeOK
    <3>3. Past(t) /\ LoadAsLooked(f, t)
      BY <2>1, <3>1, <3>2 DEF ConfigInv, TimesPast, Stamped
    <3>4. LoadAsLooked(f, t)'
      BY <1>11, <3>3
    <3> QED BY <1>3, <3>1, <3>4
  <2>5. duty \in {"watch", "check", "settle", "load"} => LoadAsLooked(f, snapshot[f])'
    <3> SUFFICES ASSUME duty \in {"watch", "check", "settle", "load"}
                 PROVE  LoadAsLooked(f, snapshot[f])'
      OBVIOUS
    <3>1. PICK t : t = snapshot[f]
      OBVIOUS
    <3>2. Past(t) /\ LoadAsLooked(f, t)
      BY <2>1, <3>1 DEF ConfigInv, TimesPast, Stamped
    <3>3. LoadAsLooked(f, t)'
      BY <1>11, <3>2
    <3> QED BY <1>3, <3>1, <3>3
  <2>6. f <= Len(looked) \/ f > Len(looked)
    BY DEF File, ConfigInv, ConfigWatchTypeOK
  <2> QED BY <2>2, <2>3, <2>4, <2>5, <2>6
<1>13. SentOn' /\ BareKeysInForce'
  BY <1>3 DEF ConfigInv, SentOn, LastSent, BareKeysInForce, Loads, Settings
<1>14. EarlyRead'
  <2>1. Loads(loaded)' <=> Loads(loaded)
    BY <1>3 DEF Loads
  <2>2. duty \notin {"start", "look"} => early' = early
    BY <1>3 DEF ReadNotStamped
  <2> QED BY <1>3, <2>1, <2>2 DEF ConfigInv, EarlyRead
<1> QED BY <1>7, <1>8, <1>9, <1>10, <1>12, <1>13, <1>14 DEF ConfigInv

\* What no edit touched has the times it had.
LEMMA TimesStay ==
    ASSUME UNCHANGED configFiles
    PROVE  \A f : /\ TimeOf(f)' = TimeOf(f) /\ onDisk'[f] = onDisk[f]
                  /\ \A t : Past(t)' <=> Past(t)
BY DEF configFiles, TimeOf, Past

LEMMA StartDaemonKeeps == ASSUME ConfigInv, StartDaemon PROVE ConfigInv'
<1> USE DEF StartDaemon, ConfigInv
<1>1. Len(loaded') = 0 /\ loaded' \in Seq(Content) /\ duty' = "start"
  OBVIOUS
<1>2. ConfigWatchTypeOK' /\ ReadSoFar'
  BY <1>1, ConfigWatchAssumption DEF ConfigWatchTypeOK, ReadSoFar, Told, configFiles, inForceNow
<1>3. TimesPast' /\ GoneAlike'
  <2>1. \A f \in File : Past(snapshot[f])' /\ Past(TimeOf(f))'
    BY TimesStay DEF TimesPast, Past, configFiles
  <2>2. \A i \in 1..Len(looked) : Past(looked[i])'
    BY TimesStay DEF TimesPast, Past, configFiles
  <2> QED BY <1>1, <2>1, <2>2 DEF TimesPast, GoneAlike, configFiles
<1>4. Stamped'
  <2>1. \A f \in File : ~(f <= 0)
    BY DEF File
  <2> QED BY <1>1, <2>1 DEF Stamped
<1> QED BY <1>1, <1>2, <1>3, <1>4 DEF SentOn, EarlyRead, BareKeysInForce

LEMMA ReadFileKeeps == ASSUME ConfigInv, ReadFile PROVE ConfigInv'
<1>1. PICK n : n = Len(loaded) + 1
  OBVIOUS
<1>2. /\ duty \in {"start", "load"} /\ n <= Files /\ loaded' = Append(loaded, onDisk[n])
      /\ early' = early \ {n}
      /\ ghosts' = IF duty = "load" /\ snapshot[n] = NoTime /\ ~onDisk[n].gone
                     THEN ghosts \cup {n} ELSE ghosts \ {n}
      /\ UNCHANGED <<configFiles, inForceNow, duty, looked, snapshot, notified, armed>>
  BY <1>1, ConfigWatchAssumption DEF ReadFile, ConfigInv, ConfigWatchTypeOK
<1>3. n \in File /\ onDisk[n] \in Content /\ loaded \in Seq(Content)
  BY <1>1, <1>2 DEF File, ConfigInv, ConfigWatchTypeOK
<1>4. /\ loaded' \in Seq(Content) /\ Len(loaded') = n /\ loaded'[n] = onDisk[n]
      /\ \A i \in 1..Len(loaded) : loaded'[i] = loaded[i]
  BY <1>1, <1>2, <1>3
<1>5. ConfigWatchTypeOK' /\ ReadSoFar'
  BY <1>2, <1>3, <1>4 DEF ConfigInv, ConfigWatchTypeOK, ReadSoFar, configFiles, inForceNow
<1>6. TimesPast'
  <2>1. \A f \in File : Past(snapshot[f])' /\ Past(TimeOf(f))'
    BY <1>2, TimesStay DEF ConfigInv, TimesPast, Past, configFiles
  <2>2. \A i \in 1..Len(looked) : Past(looked[i])'
    BY <1>2, TimesStay DEF ConfigInv, TimesPast, Past, configFiles
  <2> QED BY <1>2, <2>1, <2>2 DEF TimesPast
<1>7. GoneAlike'
  <2>1. \A i \in 1..n : i = n \/ i \in 1..Len(loaded)
    BY <1>1, <1>3
  <2> QED BY <1>2, <1>3, <1>4, <2>1 DEF ConfigInv, GoneAlike, configFiles
<1>8. Stamped'
  <2> SUFFICES ASSUME NEW f \in File, f <= n, f \notin early' \cup ghosts'
               PROVE  /\ duty = "start" => loaded'[f] = onDisk[f]
                      /\ duty = "load" => LoadAsLooked(f, snapshot[f])'
    BY <1>2, <1>4 DEF Stamped, configFiles
  <2>1. CASE f = n
    BY <1>2, <1>4, <2>1 DEF LoadAsLooked, configFiles
  <2>2. CASE f # n
    <3>1. f <= Len(loaded) /\ f \notin early \cup ghosts /\ f \in 1..Len(loaded)
      BY <1>1, <1>2, <1>3, <2>2 DEF File
    <3>2. loaded'[f] = loaded[f] /\ TimeOf(f)' = TimeOf(f) /\ onDisk' = onDisk
      BY <1>2, <1>4, <3>1, TimesStay DEF configFiles
    <3>3. /\ duty = "start" => loaded[f] = onDisk[f]
          /\ duty = "load" => LoadAsLooked(f, snapshot[f])
      BY <3>1 DEF ConfigInv, Stamped
    <3> QED BY <1>2, <3>2, <3>3 DEF LoadAsLooked
  <2> QED BY <2>1, <2>2
<1>9. EarlyRead'
  <2>1. \A f \in early' : f > Len(loaded) /\ f # n /\ f \in Nat => f > n
    BY <1>1, <1>3
  <2>2. \A f \in early : f \in Nat
    BY DEF ConfigInv, ConfigWatchTypeOK, File
  <2> QED BY <1>2, <1>4, <2>1, <2>2 DEF ConfigInv, EarlyRead
<1>10. SentOn' /\ BareKeysInForce'
  BY <1>2 DEF ConfigInv, SentOn, BareKeysInForce, inForceNow
<1> QED BY <1>5, <1>6, <1>7, <1>8, <1>9, <1>10 DEF ConfigInv

\* A whole load is a configuration, with its settings.
LEMMA WholeLoad ==
    ASSUME ConfigInv, Len(loaded) = Files
    PROVE  loaded \in [File -> Content] /\ Settings(loaded) \in [File -> 0..1]
<1>1. loaded \in [File -> Content]
  BY WholeSequence DEF ConfigInv, ConfigWatchTypeOK
<1>2. \A f \in File : loaded[f].bare \in 0..1
  BY <1>1 DEF Content
<1> QED BY <1>1, <1>2 DEF Settings

LEMMA StartGateKeeps == ASSUME ConfigInv, StartGate PROVE ConfigInv'
<1>1. /\ duty = "start" /\ Len(loaded) = Files
      /\ UNCHANGED <<configFiles, loaded, snapshot, notified, armed, early, ghosts>>
  BY DEF StartGate
<1>2. \A f \in File : Past(snapshot[f])' /\ Past(TimeOf(f))'
  BY <1>1, TimesStay DEF ConfigInv, TimesPast, Past, configFiles
<1>3. GoneAlike'
  BY <1>1 DEF ConfigInv, GoneAlike, configFiles
<1>4. CASE Loads(loaded)
  <2>1. /\ current' = loaded /\ bare' = Settings(loaded) /\ reloads' = <<>>
        /\ looked' = <<>> /\ duty' = "look"
    BY <1>4 DEF StartGate, Judged
  <2>2. ConfigWatchTypeOK' /\ ReadSoFar'
    BY <1>1, <2>1, WholeLoad, ConfigWatchAssumption
       DEF ConfigInv, ConfigWatchTypeOK, ReadSoFar, Told, configFiles
  <2>3. TimesPast'
    BY <1>2, <2>1 DEF TimesPast
  <2>4. Stamped'
    <3>1. \A f \in File : ~(f <= 0)
      BY DEF File
    <3> QED BY <1>1, <2>1, <3>1 DEF ConfigInv, Stamped, configFiles
  <2>5. SentOn' /\ EarlyRead'
    BY <1>1, <1>4, <2>1 DEF SentOn, LastSent, EarlyRead, Loads
  <2>6. BareKeysInForce'
    BY <1>1, <2>1 DEF BareKeysInForce, Settings
  <2> QED BY <1>3, <2>2, <2>3, <2>4, <2>5, <2>6 DEF ConfigInv
<1>5. CASE ~Loads(loaded)
  <2>1. duty' = "down" /\ UNCHANGED <<inForceNow, looked>>
    BY <1>5 DEF StartGate
  <2>2. ConfigWatchTypeOK' /\ ReadSoFar'
    BY <1>1, <2>1 DEF ConfigInv, ConfigWatchTypeOK, ReadSoFar, Told, configFiles, inForceNow
  <2>3. TimesPast'
    <3>1. \A i \in 1..Len(looked) : Past(looked[i])'
      BY <1>1, <2>1, TimesStay DEF ConfigInv, TimesPast, Past, configFiles
    <3> QED BY <1>2, <2>1, <3>1 DEF TimesPast
  <2>4. Stamped' /\ SentOn' /\ EarlyRead' /\ BareKeysInForce'
    BY <2>1 DEF Stamped, SentOn, EarlyRead, BareKeysInForce
  <2> QED BY <1>3, <2>2, <2>3, <2>4 DEF ConfigInv
<1> QED BY <1>4, <1>5

LEMMA TimesStillPast ==
    ASSUME ConfigInv, UNCHANGED <<configFiles, snapshot>>, looked' = looked \/ looked' = <<>>
    PROVE  TimesPast'
<1>1. \A f \in File : Past(snapshot[f])' /\ Past(TimeOf(f))'
  BY TimesStay DEF ConfigInv, TimesPast, Past, configFiles
<1>2. \A t : Past(t) => Past(t)'
  BY TimesStay DEF Past, configFiles
<1>3. \A i \in 1..Len(looked') : Past(looked'[i])
  BY DEF ConfigInv, TimesPast
<1>4. \A i \in 1..Len(looked') : Past(looked[i])'
  BY <1>2, <1>3 DEF Past
<1> QED BY <1>1, <1>4 DEF TimesPast

\* With nothing edited, read or stamped, what is known of the files stays.
LEMMA StampsStay ==
    ASSUME ConfigInv, UNCHANGED <<configFiles, loaded, snapshot, early, ghosts>>,
           \/ duty' = "down"
           \/ duty' = duty /\ looked' = looked
           \/ duty' \in {"watch", "check", "settle", "load"}
              /\ duty \in {"watch", "check", "settle", "load"}
    PROVE  Stamped'
BY TimesStay DEF ConfigInv, Stamped, LoadAsLooked

LEMMA TryFireKeeps == ASSUME ConfigInv, TryFire PROVE ConfigInv'
<1>1. /\ duty = "load" /\ Len(loaded) = Files
      /\ UNCHANGED <<configFiles, loaded, looked, snapshot, early, ghosts>>
      /\ duty' \in {"watch", "down"} /\ notified' \in BOOLEAN /\ armed' \in BOOLEAN
  BY DEF TryFire, EndsDaemon, reading, ConfigInv, ConfigWatchTypeOK
<1>2. TimesPast' /\ GoneAlike' /\ Stamped' /\ ReadSoFar'
  BY <1>1, TimesStillPast, StampsStay DEF ConfigInv, GoneAlike, ReadSoFar, configFiles
<1>3. EarlyRead'
  <2>1. early = {}
    BY <1>1, ConfigWatchAssumption DEF ConfigInv, EarlyRead, ConfigWatchTypeOK, File
  <2> QED BY <1>1, <2>1 DEF EarlyRead
<1>4. CASE /\ ~Loads(loaded) /\ duty' = "watch" /\ UNCHANGED inForceNow
  <2>1. ConfigWatchTypeOK'
    BY <1>1, <1>4 DEF ConfigInv, ConfigWatchTypeOK, Told, configFiles, inForceNow
  <2>2. SentOn' /\ BareKeysInForce'
    BY <1>1, <1>4 DEF ConfigInv, SentOn, BareKeysInForce, Loads, inForceNow
  <2> QED BY <1>2, <1>3, <2>1, <2>2 DEF ConfigInv
<1>5. CASE /\ Settings(loaded) = bare /\ reloads' = Append(reloads, loaded)
           /\ duty' = "watch" /\ UNCHANGED <<current, bare>>
  <2>1. loaded \in [File -> Content] /\ reloads \in Seq([File -> Content])
    BY <1>1, WholeLoad DEF ConfigInv, ConfigWatchTypeOK
  <2>2. /\ reloads' \in Seq([File -> Content]) /\ Len(reloads') = Len(reloads) + 1
        /\ reloads'[Len(reloads) + 1] = loaded /\ reloads' # <<>>
        /\ \A i \in 1..Len(reloads) : reloads'[i] = reloads[i]
    BY <1>5, <2>1
  <2>3. ConfigWatchTypeOK'
    BY <1>1, <1>5, <2>2 DEF ConfigInv, ConfigWatchTypeOK, Told, configFiles
  <2>4. SentOn'
    BY <1>1, <2>2 DEF SentOn, LastSent
  <2>5. BareKeysInForce'
    <3>1. \A i \in 1..Len(reloads') : i \in 1..Len(reloads) \/ i = Len(reloads) + 1
      BY <2>1, <2>2
    <3>2. \A i \in 1..Len(reloads') : Settings(reloads'[i]) = bare
      BY <1>1, <1>5, <2>2, <3>1 DEF ConfigInv, BareKeysInForce
    <3>3. Settings(current) = bare
      BY <1>1 DEF ConfigInv, BareKeysInForce
    <3> QED BY <1>5, <3>2, <3>3 DEF BareKeysInForce, Settings
  <2> QED BY <1>2, <1>3, <2>3, <2>4, <2>5 DEF ConfigInv
<1>6. CASE /\ bare' = Settings(loaded) /\ duty' = "down"
           /\ UNCHANGED <<current, reloads>>
  <2>1. ConfigWatchTypeOK'
    BY <1>1, <1>6, WholeLoad DEF ConfigInv, ConfigWatchTypeOK, Told, configFiles
  <2> QED BY <1>2, <1>3, <1>6, <2>1 DEF ConfigInv, SentOn, BareKeysInForce
<1> QED BY <1>4, <1>5, <1>6 DEF TryFire, SendReload, EndsDaemon

LEMMA PutInForceKeeps == ASSUME ConfigInv, PutInForce PROVE ConfigInv'
<1>1. /\ reloads # <<>> /\ duty # "down"
      /\ current' = Head(reloads) /\ reloads' = Tail(reloads)
      /\ UNCHANGED <<configFiles, bare, duty, loaded, looked, snapshot, notified, armed,
                     early, ghosts>>
  BY DEF PutInForce, reading
<1>2. reloads \in Seq([File -> Content])
  BY DEF ConfigInv, ConfigWatchTypeOK
<1>3. /\ current' = reloads[1] /\ current' \in [File -> Content]
      /\ reloads' \in Seq([File -> Content]) /\ Len(reloads') = Len(reloads) - 1
      /\ Len(reloads) \in Nat \ {0}
      /\ \A i \in 1..Len(reloads') : reloads'[i] = reloads[i + 1]
  BY <1>1, <1>2, QueueTail
<1>4. TimesPast' /\ GoneAlike' /\ Stamped' /\ ReadSoFar' /\ EarlyRead'
  BY <1>1, TimesStillPast, StampsStay
     DEF ConfigInv, GoneAlike, ReadSoFar, EarlyRead, Loads, configFiles
<1>5. ConfigWatchTypeOK'
  BY <1>1, <1>3 DEF ConfigInv, ConfigWatchTypeOK, configFiles
<1>6. SentOn'
  <2>1. LastSent' = LastSent
    <3>1. CASE Len(reloads) = 1
      <4>1. reloads' = <<>>
        BY <1>3, <3>1
      <4> QED BY <1>1, <1>3, <3>1, <4>1 DEF LastSent
    <3>2. CASE Len(reloads) # 1
      <4>1. reloads' # <<>> /\ Len(reloads') \in 1..Len(reloads')
            /\ Len(reloads') + 1 = Len(reloads)
        BY <1>3, <3>2
      <4> QED BY <1>1, <1>3, <4>1 DEF LastSent
    <3> QED BY <3>1, <3>2
  <2> QED BY <1>1, <2>1 DEF ConfigInv, SentOn, Loads
<1>7. BareKeysInForce'
  <2>1. \A i \in 1..Len(reloads') : i + 1 \in 1..Len(reloads)
    BY <1>3
  <2>2. 1 \in 1..Len(reloads)
    BY <1>3
  <2> QED BY <1>1, <1>3, <2>1, <2>2 DEF ConfigInv, BareKeysInForce, Settings
<1> QED BY <1>4, <1>5, <1>6, <1>7 DEF ConfigInv

LEMMA LookAtFileKeeps == ASSUME ConfigInv, LookAtFile PROVE ConfigInv'
<1>1. PICK n : n = Len(looked) + 1
  OBVIOUS
<1>2. PICK t : t = TimeOf(n)
  OBVIOUS
<1>3. /\ duty \in {"look", "check", "settle"} /\ n <= Files /\ looked' = Append(looked, t)
      /\ UNCHANGED <<configFiles, inForceNow, duty, loaded, snapshot, notified, armed,
                     early, ghosts>>
  BY <1>1, <1>2, ConfigWatchAssumption DEF LookAtFile, ConfigInv, ConfigWatchTypeOK
<1>4. n \in File /\ looked \in Seq(0..NoTime)
  BY <1>1, <1>3 DEF File, ConfigInv, ConfigWatchTypeOK
<1>5. /\ t \in 0..NoTime /\ Past(t)
      /\ t = NoTime => onDisk[n].gone
  <2>1. onDisk[n] \in Content
    BY <1>4 DEF ConfigInv, ConfigWatchTypeOK
  <2>2. onDisk[n].mtime \in 0..NoTime /\ onDisk[n].mtime # NoTime /\ NoTime \in 0..NoTime
    BY <2>1, ConfigWatchAssumption DEF Content, NoTime
  <2> QED BY <1>2, <1>4, <2>2 DEF TimeOf, ConfigInv, TimesPast
<1>6. /\ looked' \in Seq(0..NoTime) /\ Len(looked') = n /\ looked'[n] = t
      /\ \A i \in 1..Len(looked) : looked'[i] = looked[i]
  BY <1>1, <1>3, <1>4, <1>5
<1>7. ConfigWatchTypeOK' /\ ReadSoFar'
  BY <1>3, <1>4, <1>6 DEF ConfigInv, ConfigWatchTypeOK, ReadSoFar, configFiles, inForceNow
<1>8. TimesPast'
  <2>1. \A f \in File : Past(snapshot[f])' /\ Past(TimeOf(f))'
    BY <1>3, TimesStay DEF ConfigInv, TimesPast, Past, configFiles
  <2>2. \A i \in 1..n : i = n \/ i \in 1..Len(looked)
    BY <1>1, <1>4
  <2>3. \A u : Past(u) => Past(u)'
    BY <1>3, TimesStay
  <2>4. \A i \in 1..n : Past(looked'[i])
    BY <1>5, <1>6, <2>2 DEF ConfigInv, TimesPast
  <2>5. \A i \in 1..n : Past(looked[i])'
    BY <2>3, <2>4 DEF Past
  <2> QED BY <1>6, <2>1, <2>5 DEF TimesPast
<1>9. GoneAlike' /\ SentOn' /\ EarlyRead' /\ BareKeysInForce'
  BY <1>3 DEF ConfigInv, GoneAlike, SentOn, LastSent, EarlyRead, Loads, BareKeysInForce,
              configFiles, inForceNow
<1>10. Stamped'
  <2>1. CASE duty # "look"
    BY <1>3, <2>1, StampsStay DEF ConfigInv
  <2>2. CASE duty = "look"
    <3> SUFFICES ASSUME NEW f \in File, f <= Len(loaded), f \notin early \cup ghosts
                 PROVE  IF f <= n THEN LoadAsLooked(f, looked[f])' ELSE loaded[f] = onDisk[f]
      BY <1>3, <1>6, <2>2 DEF Stamped, configFiles
    <3>1. \A u : LoadAsLooked(f, u)' <=> LoadAsLooked(f, u)
      BY <1>3, TimesStay DEF LoadAsLooked
    <3>2. PICK u : u = looked'[f]
      OBVIOUS
    <3>3. CASE f = n
      <4>1. loaded[n] = onDisk[n]
        BY <1>1, <1>4, <2>2, <3>3 DEF ConfigInv, Stamped
      <4>2. u = t /\ LoadAsLooked(n, t)
        BY <1>2, <1>5, <1>6, <3>2, <3>3, <4>1 DEF LoadAsLooked
      <4>3. LoadAsLooked(f, u)'
        BY <3>1, <3>3, <4>2
      <4> QED BY <3>2, <3>3, <4>3, <1>4 DEF File, LoadAsLooked
    <3>4. CASE f < n
      <4>1. f <= Len(looked) /\ f \in 1..Len(looked)
        BY <1>1, <1>4, <3>4 DEF File
      <4>2. u = looked[f] /\ LoadAsLooked(f, u)
        BY <1>6, <2>2, <3>2, <4>1 DEF ConfigInv, Stamped
      <4>3. LoadAsLooked(f, u)'
        BY <3>1, <4>2
      <4> QED BY <3>2, <3>4, <4>3, <1>4 DEF File, LoadAsLooked
    <3>5. CASE f > n
      BY <1>1, <1>4, <2>2, <3>5 DEF File, ConfigInv, Stamped
    <3> QED BY <1>4, <3>3, <3>4, <3>5 DEF File
  <2> QED BY <2>1, <2>2
<1> QED BY <1>7, <1>8, <1>9, <1>10 DEF ConfigInv

LEMMA LookedKeeps == ASSUME ConfigInv, Looked PROVE ConfigInv'
<1>1. /\ Len(looked) = Files /\ looked' = <<>> /\ duty \in {"look", "check", "settle"}
      /\ UNCHANGED <<configFiles, inForceNow, notified, armed, early, ghosts>>
  BY DEF Looked
<1>2. looked \in [File -> 0..NoTime]
  BY <1>1, WholeSequence DEF ConfigInv, ConfigWatchTypeOK
<1>3. Len(loaded) = Files /\ \A f \in File : f \in 1..Len(looked)
  BY <1>1 DEF ConfigInv, ReadSoFar, File
<1>4. \A f \in File : Past(looked[f])
  BY <1>3 DEF ConfigInv, TimesPast
<1>5. CASE duty = "look" /\ snapshot' = looked /\ duty' = "watch" /\ UNCHANGED loaded
  <2>1. ConfigWatchTypeOK' /\ ReadSoFar'
    BY <1>1, <1>2, <1>5, ConfigWatchAssumption
       DEF ConfigInv, ConfigWatchTypeOK, ReadSoFar, Told, configFiles, inForceNow
  <2>2. TimesPast'
    BY <1>1, <1>4, <1>5, TimesStay DEF ConfigInv, TimesPast, Past, configFiles
  <2>3. Stamped'
    <3> SUFFICES ASSUME NEW f \in File, f \notin early \cup ghosts
                 PROVE  LoadAsLooked(f, snapshot[f])'
      BY <1>1, <1>5 DEF Stamped
    <3>1. f <= Len(loaded) /\ f <= Len(looked)
      BY <1>1, <1>3 DEF File
    <3>2. LoadAsLooked(f, looked[f])
      BY <1>5, <3>1 DEF ConfigInv, Stamped
    <3> QED BY <1>1, <1>5, <3>2, TimesStay DEF LoadAsLooked
  <2>4. GoneAlike' /\ SentOn' /\ EarlyRead' /\ BareKeysInForce'
    BY <1>1, <1>5 DEF ConfigInv, GoneAlike, SentOn, LastSent, EarlyRead, Loads,
                      BareKeysInForce, configFiles, inForceNow
  <2> QED BY <2>1, <2>2, <2>3, <2>4 DEF ConfigInv
<1>6. CASE /\ duty \in {"settle", "check"} /\ snapshot' = looked /\ duty' = "load"
           /\ loaded' = <<>>
  <2>1. ConfigWatchTypeOK' /\ ReadSoFar'
    BY <1>1, <1>2, <1>6, ConfigWatchAssumption
       DEF ConfigInv, ConfigWatchTypeOK, ReadSoFar, Told, configFiles, inForceNow
  <2>2. TimesPast'
    BY <1>1, <1>4, <1>6, TimesStay DEF ConfigInv, TimesPast, Past, configFiles
  <2>3. \A f \in File : f > 0 /\ ~(f <= 0)
    BY DEF File
  <2>4. Stamped' /\ EarlyRead'
    BY <1>1, <1>6, <2>3 DEF Stamped, EarlyRead, ConfigInv, ConfigWatchTypeOK
  <2>5. GoneAlike' /\ SentOn' /\ BareKeysInForce'
    BY <1>1, <1>6 DEF ConfigInv, GoneAlike, SentOn, BareKeysInForce, configFiles, inForceNow
  <2> QED BY <2>1, <2>2, <2>4, <2>5 DEF ConfigInv
<1>7. CASE duty = "check" /\ duty' = "watch" /\ UNCHANGED <<snapshot, loaded>>
  <2>1. ConfigWatchTypeOK' /\ ReadSoFar'
    BY <1>1, <1>7, ConfigWatchAssumption
       DEF ConfigInv, ConfigWatchTypeOK, ReadSoFar, Told, configFiles, inForceNow
  <2>2. TimesPast' /\ Stamped'
    BY <1>1, <1>7, TimesStillPast, StampsStay
  <2>3. GoneAlike' /\ SentOn' /\ EarlyRead' /\ BareKeysInForce'
    BY <1>1, <1>7 DEF ConfigInv, GoneAlike, SentOn, LastSent, EarlyRead, Loads,
                      BareKeysInForce, configFiles, inForceNow
  <2> QED BY <2>1, <2>2, <2>3 DEF ConfigInv
<1> QED BY <1>5, <1>6, <1>7 DEF Looked

\* The thread goes from its wait to a look, or takes an event.
LEMMA WaitingKeeps ==
    ASSUME ConfigInv, HearChange \/ Debounced \/ PollFiles
    PROVE  ConfigInv'
<1>1. /\ duty = "watch" /\ duty' \in {"watch", "check", "settle"}
      /\ looked' = looked \/ looked' = <<>>
      /\ notified' \in BOOLEAN /\ armed' \in BOOLEAN
      /\ UNCHANGED <<configFiles, inForceNow, loaded, snapshot, early, ghosts>>
  BY DEF HearChange, Debounced, PollFiles, reading, ConfigInv, ConfigWatchTypeOK
<1>2. ConfigWatchTypeOK' /\ ReadSoFar'
  <2>1. looked' \in Seq(0..NoTime) /\ Len(looked') <= Files
    <3>1. <<>> \in Seq(0..NoTime) /\ Len(<<>>) = 0 /\ 0 <= Files
      BY ConfigWatchAssumption
    <3>2. looked \in Seq(0..NoTime) /\ Len(looked) <= Files
      BY DEF ConfigInv, ConfigWatchTypeOK, ReadSoFar
    <3> QED BY <1>1, <3>1, <3>2
  <2> QED BY <1>1, <2>1 DEF ConfigInv, ConfigWatchTypeOK, ReadSoFar, Told, configFiles, inForceNow
<1>3. TimesPast' /\ Stamped'
  BY <1>1, TimesStillPast, StampsStay
<1>4. GoneAlike' /\ SentOn' /\ EarlyRead' /\ BareKeysInForce'
  BY <1>1 DEF ConfigInv, GoneAlike, SentOn, LastSent, EarlyRead, Loads, BareKeysInForce,
              configFiles, inForceNow
<1> QED BY <1>2, <1>3, <1>4 DEF ConfigInv

LEMMA ConfigStepInv == ConfigInv /\ [ConfigWatchNext]_configVars => ConfigInv'
<1> SUFFICES ASSUME ConfigInv, [ConfigWatchNext]_configVars PROVE ConfigInv'
  OBVIOUS
<1>1. CASE UNCHANGED configVars
  <2> USE <1>1 DEF configVars, inForceNow, reading
  <2>1. TimesPast' /\ Stamped'
    BY TimesStillPast, StampsStay
  <2>2. ConfigWatchTypeOK' /\ ReadSoFar' /\ GoneAlike'
    BY DEF ConfigInv, ConfigWatchTypeOK, ReadSoFar, GoneAlike, configFiles
  <2>3. SentOn' /\ EarlyRead' /\ BareKeysInForce'
    BY DEF ConfigInv, SentOn, LastSent, EarlyRead, Loads, BareKeysInForce
  <2> QED BY <2>1, <2>2, <2>3 DEF ConfigInv
<1>2. CASE ConfigWatchNext
  BY <1>2, EditKeeps, StartDaemonKeeps, ReadFileKeeps, StartGateKeeps, TryFireKeeps,
     PutInForceKeeps, LookAtFileKeeps, LookedKeeps, WaitingKeeps DEF ConfigWatchNext
<1> QED BY <1>1, <1>2

LEMMA ConfigEver == ConfigWatchSpec => []ConfigInv
<1> QED BY ConfigInitInv, ConfigStepInv, PTL DEF ConfigWatchSpec

\* What the next change is judged against is what is in force, for any number
\* of files and edits: no bare key changes by a reload.
THEOREM BareKeysInForceEver == ConfigWatchSpec => []BareKeysInForce
<1>1. ConfigInv => BareKeysInForce
  BY DEF ConfigInv
<1> QED BY <1>1, ConfigEver, PTL

\* An edit is in force once the watch rests, whatever was read or stamped as it
\* was made, and whatever the clocks say: what the load read is what a file
\* with the time of the look held, for a time is never given twice.
THEOREM EditsReachEver == ConfigWatchSpec => []EditsReach
<1>1. ConfigInv => EditsReach
  <2> SUFFICES ASSUME ConfigInv, WatchRests, Loads(onDisk), ghosts = {}
               PROVE  \A f \in File : current[f] = onDisk[f] \/ f \in early
    BY DEF EditsReach
  <2>1. /\ duty = "watch" /\ reloads = <<>> /\ snapshot = [f \in File |-> TimeOf(f)]
        /\ Len(loaded) = Files
    BY DEF WatchRests, Moved, ConfigInv, ReadSoFar
  <2>2. ASSUME NEW f \in File, f \notin early
        PROVE  loaded[f] = onDisk[f]
    <3>1. f <= Len(loaded) /\ snapshot[f] = TimeOf(f)
      BY <2>1 DEF File
    <3>2. LoadAsLooked(f, snapshot[f])
      BY <2>1, <2>2, <3>1 DEF ConfigInv, Stamped
    <3> QED BY <3>1, <3>2 DEF LoadAsLooked
  <2>3. Loads(loaded)
    <3>1. CASE early = {}
      BY <2>2, <3>1 DEF Loads
    <3>2. CASE early # {}
      BY <2>1, <3>2 DEF ConfigInv, EarlyRead
    <3> QED BY <3>1, <3>2
  <2>4. current = loaded
    BY <2>1, <2>3 DEF ConfigInv, SentOn, LastSent
  <2> QED BY <2>2, <2>4
<1> QED BY <1>1, ConfigEver, PTL

-----------------------------------------------------------------------------
(* The registrar's table and its worker. *)

\* Asks are numbered, and a path is unwatched by the ask 0: the last command
\* sent is the table's, and while it or its registration is under way nothing
\* is settled.
TableInv ==
    /\ \A k \in 1..Len(commands) : commands[k] <= table.asks
    /\ \A k \in 1..Len(commands) : commands[k] # 0 => commands[k] # worker
    /\ \A j, k \in 1..Len(commands) : j # k /\ commands[j] # 0 => commands[k] # commands[j]
    /\ worker <= table.asks
    /\ table.ask = 0 <=> table.state = "none"
    /\ commands # <<>> => commands[Len(commands)] = table.ask /\ table.state \in {"none", "pending"}
    /\ commands = <<>> /\ worker # 0 => worker = table.ask /\ table.state = "pending"
    /\ TableTellsTheTruth

WorkTypeOK ==
    /\ table \in [ask : Nat, asks : 0..MaxAsk, state : {"none", "pending", "active", "failed"}]
    /\ commands \in Seq(0..MaxAsk) /\ settled \in Nat
    /\ worker \in 0..MaxAsk /\ watched \in BOOLEAN

LEMMA AskForKeeps ==
    ASSUME WorkTypeOK, TableInv, table.asks < MaxAsk, AskFor, UNCHANGED <<worker, watched, settled>>
    PROVE  WorkTypeOK' /\ TableInv'
<1>1. PICK n : n = table.asks + 1
  OBVIOUS
<1>2. /\ table' = [ask |-> n, asks |-> n, state |-> "pending"]
      /\ commands' = Append(commands, n)
      /\ table.asks \in Nat /\ MaxAsk \in Nat /\ n \in 0..MaxAsk /\ n > 0 /\ n > table.asks
      /\ commands \in Seq(0..MaxAsk)
  BY <1>1, WatchingAssumption DEF AskFor, WorkTypeOK
<1>3. WorkTypeOK'
  BY <1>2 DEF WorkTypeOK
<1>4. /\ Len(commands') = Len(commands) + 1 /\ commands'[Len(commands) + 1] = n
      /\ \A k \in 1..Len(commands) : commands'[k] = commands[k] /\ commands[k] \in Nat
      /\ Len(commands) \in Nat /\ commands' # <<>>
  BY <1>2
<1>5. \A k \in 1..Len(commands') : k \in 1..Len(commands) \/ k = Len(commands) + 1
  BY <1>4
<1>6. table'.asks = n /\ table'.ask = n /\ table'.state = "pending"
  BY <1>2
<1>7. \A k \in 1..Len(commands) : commands[k] < n
  BY <1>2, <1>4 DEF TableInv
<1>8. worker' = worker /\ worker < n /\ worker \in Nat
  BY <1>2 DEF TableInv, WorkTypeOK
<1>9. /\ \A k \in 1..Len(commands') : commands'[k] <= n
      /\ \A k \in 1..Len(commands') : commands'[k] # 0 => commands'[k] # worker
  BY <1>2, <1>4, <1>5, <1>7, <1>8 DEF TableInv
<1>10. \A j, k \in 1..Len(commands') : j # k /\ commands'[j] # 0 => commands'[k] # commands'[j]
  <2> SUFFICES ASSUME NEW j \in 1..Len(commands'), NEW k \in 1..Len(commands'), j # k,
                      commands'[j] # 0, commands'[k] = commands'[j]
               PROVE  FALSE
    OBVIOUS
  <2>1. CASE j \in 1..Len(commands) /\ k \in 1..Len(commands)
    BY <1>4, <2>1 DEF TableInv
  <2>2. CASE j \in 1..Len(commands) /\ k = Len(commands) + 1
    BY <1>4, <1>7, <2>2
  <2>3. CASE k \in 1..Len(commands) /\ j = Len(commands) + 1
    BY <1>4, <1>7, <2>3
  <2> QED BY <1>5, <2>1, <2>2, <2>3
<1> QED BY <1>2, <1>3, <1>4, <1>6, <1>8, <1>9, <1>10 DEF TableInv, TableTellsTheTruth

LEMMA TakeCommandTable ==
    ASSUME WorkTypeOK, TableInv, TakeCommand
    PROVE  WorkTypeOK' /\ TableInv'
<1>1. PICK q : q = commands
  OBVIOUS
<1>2. /\ q # <<>> /\ worker = 0 /\ worker' = Head(q) /\ commands' = Tail(q)
      /\ watched' = FALSE /\ UNCHANGED <<table, settled>> /\ q \in Seq(0..MaxAsk)
  BY <1>1 DEF TakeCommand, WorkTypeOK
<1>3. /\ worker' = q[1] /\ worker' \in 0..MaxAsk /\ commands' \in Seq(0..MaxAsk)
      /\ Len(commands') = Len(q) - 1 /\ Len(q) \in Nat \ {0}
      /\ \A k \in 1..Len(commands') : commands'[k] = q[k + 1] /\ k + 1 \in 1..Len(q)
  BY <1>2, QueueTail
<1>4. WorkTypeOK'
  BY <1>2, <1>3 DEF WorkTypeOK
<1>5. 1 \in 1..Len(q) /\ \A k \in 1..Len(commands') : k + 1 # 1
  BY <1>3
<1>6. /\ \A k \in 1..Len(commands') : commands'[k] <= table.asks
      /\ \A k \in 1..Len(commands') : commands'[k] # 0 => commands'[k] # worker'
      /\ worker' <= table.asks
  BY <1>1, <1>3, <1>5 DEF TableInv
<1>7. \A j, k \in 1..Len(commands') : j # k /\ commands'[j] # 0 => commands'[k] # commands'[j]
  <2> SUFFICES ASSUME NEW j \in 1..Len(commands'), NEW k \in 1..Len(commands'), j # k,
                      commands'[j] # 0
               PROVE  commands'[k] # commands'[j]
    OBVIOUS
  <2>1. j + 1 \in 1..Len(q) /\ k + 1 \in 1..Len(q) /\ j + 1 # k + 1
    BY <1>3
  <2> QED BY <1>1, <1>3, <2>1 DEF TableInv
<1>8. commands' # <<>> => commands'[Len(commands')] = table.ask
  <2> SUFFICES ASSUME commands' # <<>> PROVE commands'[Len(commands')] = table.ask
    OBVIOUS
  <2>1. Len(commands') \in 1..Len(commands') /\ Len(commands') + 1 = Len(q)
    BY <1>3
  <2> QED BY <1>1, <1>2, <1>3, <2>1 DEF TableInv
<1>9. commands' = <<>> => worker' = table.ask
  <2> SUFFICES ASSUME commands' = <<>> PROVE worker' = table.ask
    OBVIOUS
  <2>1. Len(q) = 1
    BY <1>3
  <2> QED BY <1>1, <1>2, <1>3, <2>1 DEF TableInv
<1>10. table.state \in {"none", "pending"} /\ (table.ask = 0 <=> table.state = "none")
  BY <1>1, <1>2 DEF TableInv
<1> QED BY <1>2, <1>4, <1>6, <1>7, <1>8, <1>9, <1>10 DEF TableInv, TableTellsTheTruth

LEMMA RegisterTable ==
    ASSUME WorkTypeOK, TableInv, Register
    PROVE  /\ WorkTypeOK' /\ TableInv'
           /\ table'.state # table.state => table.state = "pending"
<1>1. PICK ok \in BOOLEAN :
          /\ worker # 0 /\ worker' = 0 /\ watched' = ok /\ UNCHANGED commands
          /\ IF Latest(worker)
               THEN /\ table' = [table EXCEPT !.state = IF ok THEN "active" ELSE "failed"]
                    /\ settled' = settled + 1
               ELSE UNCHANGED <<table, settled>>
  BY DEF Register
<1>2. table \in [ask : Nat, asks : 0..MaxAsk, state : {"none", "pending", "active", "failed"}]
  BY DEF WorkTypeOK
<1>3. CASE Latest(worker)
  <2>1. /\ table'.state = IF ok THEN "active" ELSE "failed"
        /\ table'.ask = table.ask /\ table'.asks = table.asks
        /\ table' \in [ask : Nat, asks : 0..MaxAsk,
                       state : {"none", "pending", "active", "failed"}]
    BY <1>1, <1>2, <1>3
  <2>2. table.ask = worker
    BY <1>3 DEF Latest
  <2>3. commands = <<>>
    <3> SUFFICES ASSUME commands # <<>> PROVE FALSE
      OBVIOUS
    <3>1. Len(commands) \in 1..Len(commands)
      BY DEF WorkTypeOK
    <3> QED BY <1>1, <2>2, <3>1 DEF TableInv
  <2>4. table.state = "pending"
    BY <1>1, <2>3 DEF TableInv
  <2>5. WorkTypeOK'
    BY <1>1, <1>3, <2>1, WatchingAssumption DEF WorkTypeOK
  <2>6. TableInv'
    <3>1. TableTellsTheTruth'
      BY <1>1, <2>1 DEF TableTellsTheTruth
    <3>2. Len(commands) = 0
      BY <2>3
    <3> QED BY <1>1, <1>2, <2>1, <2>2, <2>3, <3>1, <3>2, WatchingAssumption DEF TableInv
  <2> QED BY <2>4, <2>5, <2>6
<1>4. CASE ~Latest(worker)
  <2>1. UNCHANGED <<table, settled, commands>> /\ worker' = 0
    BY <1>1, <1>4
  <2>2. commands # <<>>
    BY <1>1, <1>4 DEF Latest, TableInv
  <2>3. WorkTypeOK'
    BY <1>1, <2>1, WatchingAssumption DEF WorkTypeOK
  <2>4. TableInv'
    <3>1. 0 <= table.asks
      BY <1>2
    <3> QED BY <2>1, <2>2, <3>1 DEF TableInv, TableTellsTheTruth
  <2> QED BY <2>1, <2>3, <2>4
<1> QED BY <1>3, <1>4

\* What DropWatch does to the table, as the last at the path goes.
LEMMA UnwatchTable ==
    ASSUME WorkTypeOK, TableInv, UNCHANGED <<worker, watched, settled>>,
           table' = [table EXCEPT !.ask = 0, !.state = "none"], commands' = Append(commands, 0)
    PROVE  WorkTypeOK' /\ TableInv'
<1>1. /\ commands \in Seq(0..MaxAsk) /\ 0 \in 0..MaxAsk
      /\ table \in [ask : Nat, asks : 0..MaxAsk, state : {"none", "pending", "active", "failed"}]
  BY WatchingAssumption DEF WorkTypeOK
<1>2. /\ table'.ask = 0 /\ table'.state = "none" /\ table'.asks = table.asks
      /\ table' \in [ask : Nat, asks : 0..MaxAsk, state : {"none", "pending", "active", "failed"}]
      /\ table.asks >= 0
  <2>1. table' = [ask |-> 0, asks |-> table.asks, state |-> "none"]
    BY <1>1
  <2>2. table.asks \in 0..MaxAsk
    BY <1>1
  <2> QED BY <2>1, <2>2
<1>3. /\ Len(commands') = Len(commands) + 1 /\ commands'[Len(commands) + 1] = 0
      /\ \A k \in 1..Len(commands) : commands'[k] = commands[k]
      /\ Len(commands) \in Nat /\ commands' # <<>> /\ commands' \in Seq(0..MaxAsk)
  BY <1>1
<1>4. \A k \in 1..Len(commands') : k \in 1..Len(commands) \/ k = Len(commands) + 1
  BY <1>3
<1>5. WorkTypeOK'
  BY <1>2, <1>3 DEF WorkTypeOK
<1>6. /\ \A k \in 1..Len(commands') : commands'[k] <= table.asks
      /\ \A k \in 1..Len(commands') : commands'[k] # 0 => commands'[k] # worker
  BY <1>2, <1>3, <1>4 DEF TableInv
<1>7. \A j, k \in 1..Len(commands') : j # k /\ commands'[j] # 0 => commands'[k] # commands'[j]
  BY <1>3, <1>4 DEF TableInv
<1> QED BY <1>2, <1>3, <1>5, <1>6, <1>7 DEF TableInv, TableTellsTheTruth

-----------------------------------------------------------------------------
(* The trees, what runs stamped of them, and the reads that wait.           *)
(*                                                                          *)
(* A stamp holds that would make a record valid, of an instance that is     *)
(* watched as it says.  While a stamp that is older than a change holds,    *)
(* the change's event is still to be heard: but between the end of a watch  *)
(* and the tree's own end, when no event is heard either.                   *)

Dropping(i) == loop.at = "unwatching" /\ loop.of = i

Stamps(i) == {running[i], kept[i]}

Holds(s, i) ==
    /\ i \notin mistaken /\ IsWatched(i)
    /\ s.gen = trees[i].gen /\ s.changes = trees[i].changes

\* The stamps that hold are of the version given, or later.
Up(i, v) == \A s \in Stamps(i) : Holds(s, i) => s.version >= v

\* They are, or are going to be once the events before the one given are heard.
ChangeBefore(p) == \E k \in 1..Len(events) : k < p /\ events[k] = TreeEvent
Reaches(i, v, p) ==
    \/ Dropping(i)
    \/ \A s \in Stamps(i) : Holds(s, i) => s.version >= v \/ ChangeBefore(p)
Coming(i, v) == Reaches(i, v, Len(events) + 1)

\* A tree is watched that has somebody watching, and what the table says of it
\* is so unless it was marked when the table said otherwise.
TableHolds ==
    \A i \in Inst : IsWatched(i) =>
        /\ i \in subscribed \/ Dropping(i)
        /\ i \in mistaken \/ Dropping(i) \/ table.state = "active"

StampsPast ==
    \A i \in Inst : \A s \in Stamps(i) :
        /\ s.gen <= trees[i].gen /\ s.version <= tree
        /\ s.gen = trees[i].gen => s.changes <= trees[i].changes

Fresh == \A i \in Inst : Coming(i, tree)

\* A read.
ClearFor(r) == Up(reads[r].inst, reads[r].arrived)

Passing == {"lock", "touch", "wait"}

ReadSound(r) ==
    /\ reads[r].at # "idle" => reads[r].inst \in Inst
    /\ reads[r].arrived <= tree
    /\ reads[r].at \in {"touch", "wait"} <=> barrier.holder = r
    /\ reads[r].at \in Passing => Coming(reads[r].inst, reads[r].arrived)
    /\ reads[r].at = "check" /\ ~reads[r].excused => ClearFor(r)
    /\ reads[r].at = "lock" /\ r \in barrier.covered /\ ~barrier.ranOut => ClearFor(r)
    /\ ~reads[r].misled => SeesChange(r)

\* A barrier under way: its sentinel is the only one there is, and those that
\* came before it began are clear once it is heard.
OnlySentinel(p) == \A k \in 1..Len(events) : k # p => events[k] = TreeEvent

AllClear == \A q \in barrier.began : ClearFor(q)

SentinelComes ==
    \E p \in 1..Len(events) :
        /\ events[p] = barrier.awaited /\ OnlySentinel(p)
        /\ \A q \in barrier.began : Reaches(reads[q].inst, reads[q].arrived, p)

PassSound(r) ==
    /\ reads[r].at \in {"touch", "wait"} =>
           r \in barrier.began /\ \A q \in barrier.began : reads[q].at \in Passing
    /\ reads[r].at = "touch" /\ ~reads[r].excused =>
           barrier.mark = barrier.heard /\ ~Late
    /\ reads[r].at = "wait" /\ ~reads[r].excused =>
           /\ barrier.mark <= barrier.heard
           /\ barrier.mark # barrier.heard => AllClear
           /\ barrier.mark = barrier.heard =>
                  IF loop.at = "hearing" THEN AllClear ELSE SentinelComes

WatchInv ==
    /\ WatchingTypeOK /\ TableInv /\ TableHolds /\ StampsPast /\ Fresh
    /\ \A r \in Reader : ReadSound(r) /\ PassSound(r)

\* A step beside the reads makes no stamp hold that is older than the step, and
\* ends no tree's dropping but with the tree.
NothingOlder(i) ==
    /\ \A s \in Stamps(i)' : Holds(s, i)' => s.version >= tree \/ (s \in Stamps(i) /\ Holds(s, i))
    /\ Dropping(i) => Dropping(i)' \/ \A s \in Stamps(i)' : ~Holds(s, i)'

LEMMA VersionsCount == \A v \in Version : v \in Nat
BY WatchingAssumption DEF Version

LEMMA StampTypes ==
    ASSUME WatchingTypeOK, NEW i \in Inst, NEW s \in Stamps(i)
    PROVE  s \in Stamp /\ s.gen \in Nat /\ s.changes \in Nat /\ s.version \in Nat
<1>1. s \in Stamp
  BY DEF WatchingTypeOK, Stamps
<1> QED BY <1>1, WatchingAssumption DEF Stamp, Version, Unread

\* What was so of the stamps of an instance is so after such a step, for a
\* version there was.
LEMMA ViewKept ==
    ASSUME WatchingTypeOK, WatchingTypeOK', NEW i \in Inst, NothingOlder(i), NEW e,
           events' = events \/ events' = Append(events, e),
           NEW v \in Nat, v <= tree
    PROVE  /\ Up(i, v) => Up(i, v)'
           /\ \A p \in 1..(Len(events) + 1) : Reaches(i, v, p) => Reaches(i, v, p)'
           /\ Coming(i, v) => Coming(i, v)'
<1>1. \A s \in Stamps(i)' : s.version \in Nat
  <2> SUFFICES ASSUME NEW s \in Stamps(i)' PROVE s.version \in Nat
    OBVIOUS
  <2>1. running' \in [Inst -> Stamp] /\ kept' \in [Inst -> Stamp]
    BY DEF WatchingTypeOK
  <2>2. s = running'[i] \/ s = kept'[i]
    BY DEF Stamps
  <2>3. s \in Stamp
    BY <2>1, <2>2
  <2> QED BY <2>3, WatchingAssumption DEF Stamp, Version, Unread
<1>2. tree \in Nat /\ events \in Seq(Event) /\ Len(events) \in Nat
  BY WatchingAssumption DEF WatchingTypeOK, Version
<1>3. Up(i, v) => Up(i, v)'
  BY <1>1, <1>2 DEF Up, NothingOlder
<1>4. Len(events') >= Len(events) /\ Len(events') \in Nat
      /\ \A k \in 1..Len(events) : events'[k] = events[k] /\ k \in 1..Len(events')
  BY <1>2
<1>5. ASSUME NEW p, ChangeBefore(p)
      PROVE  ChangeBefore(p)'
  BY <1>4, <1>5 DEF ChangeBefore
<1>6. ASSUME NEW p, Reaches(i, v, p)
      PROVE  Reaches(i, v, p)'
  <2>1. CASE Dropping(i)
    BY <2>1 DEF NothingOlder, Reaches
  <2>2. CASE ~Dropping(i)
    <3> SUFFICES ASSUME NEW s \in Stamps(i)', Holds(s, i)', ~(s.version >= v)
                 PROVE  ChangeBefore(p)'
      BY <1>1 DEF Reaches
    <3>1. s \in Stamps(i) /\ Holds(s, i)
      BY <1>1, <1>2 DEF NothingOlder
    <3>2. ChangeBefore(p)
      BY <1>6, <2>2, <3>1 DEF Reaches
    <3> QED BY <1>5, <3>2
  <2> QED BY <2>1, <2>2
<1>7. Coming(i, v) => Coming(i, v)'
  <2> SUFFICES ASSUME Coming(i, v) PROVE Coming(i, v)'
    OBVIOUS
  <2>1. PICK p : p = Len(events) + 1
    OBVIOUS
  <2>2. PICK n : n = Len(events') + 1
    OBVIOUS
  <2>3. Reaches(i, v, p)'
    BY <1>6, <2>1 DEF Coming
  <2>4. Reaches(i, v, n)'
    <3>1. ChangeBefore(p)' => ChangeBefore(n)'
      BY <1>2, <1>4, <2>1, <2>2 DEF ChangeBefore
    <3> QED BY <2>3, <3>1 DEF Reaches
  <2> QED BY <2>2, <2>4 DEF Coming
<1> QED BY <1>3, <1>6, <1>7

LEMMA ReadKept ==
    ASSUME WatchInv, WatchingTypeOK', \A i \in Inst : NothingOlder(i), NEW e,
           events' = events \/ events' = Append(events, e),
           NEW r \in Reader, reads[r].inst \in Inst,
           reads'[r].inst = reads[r].inst, reads'[r].arrived = reads[r].arrived
    PROVE  /\ ClearFor(r) => ClearFor(r)'
           /\ Coming(reads[r].inst, reads[r].arrived) => Coming(reads[r].inst, reads[r].arrived)'
           /\ \A p \in 1..(Len(events) + 1) :
                  Reaches(reads[r].inst, reads[r].arrived, p)
                      => Reaches(reads[r].inst, reads[r].arrived, p)'
<1>1. PICK i, v : i = reads[r].inst /\ v = reads[r].arrived
  OBVIOUS
<1>2. i \in Inst /\ v \in Nat /\ v <= tree
  <2>1. reads[r].arrived \in Version
    BY DEF WatchInv, WatchingTypeOK
  <2> QED BY <1>1, <2>1 DEF WatchInv, ReadSound, Version
<1>3. /\ Up(i, v) => Up(i, v)'
      /\ \A p \in 1..(Len(events) + 1) : Reaches(i, v, p) => Reaches(i, v, p)'
      /\ Coming(i, v) => Coming(i, v)'
  <2>1. WatchingTypeOK /\ NothingOlder(i)
    BY <1>2 DEF WatchInv
  <2> QED BY <1>2, <2>1, ViewKept
<1>4. reads'[r].inst = i /\ reads'[r].arrived = v
  BY <1>1
<1>5. (ClearFor(r) <=> Up(i, v)) /\ (ClearFor(r)' <=> Up(i, v)')
  BY <1>1, <1>4 DEF ClearFor
<1>6. \A p : Reaches(reads[r].inst, reads[r].arrived, p)' <=> Reaches(i, v, p)'
  BY <1>4 DEF Reaches
<1>7. Coming(reads[r].inst, reads[r].arrived)' <=> Coming(i, v)'
  BY <1>4 DEF Coming, Reaches
<1> QED BY <1>1, <1>3, <1>5, <1>6, <1>7

\* What goes on beside the reads and the barrier leaves what is so of them.
LEMMA BesideReads ==
    ASSUME WatchInv, WatchingTypeOK', \A i \in Inst : NothingOlder(i), tree' >= tree,
           UNCHANGED <<reads, barrier>>,
           events' = events \/ events' = Append(events, TreeEvent),
           loop'.at = "hearing" <=> loop.at = "hearing"
    PROVE  \A r \in Reader : ReadSound(r)' /\ PassSound(r)'
<1>1. \A r \in Reader : ReadSound(r) /\ PassSound(r)
  BY DEF WatchInv
<1>2. ASSUME NEW r \in Reader, reads[r].inst \in Inst
      PROVE  /\ ClearFor(r) => ClearFor(r)'
             /\ Coming(reads[r].inst, reads[r].arrived) => Coming(reads[r].inst, reads[r].arrived)'
             /\ \A p \in 1..(Len(events) + 1) :
                    Reaches(reads[r].inst, reads[r].arrived, p)
                        => Reaches(reads[r].inst, reads[r].arrived, p)'
  BY <1>2, ReadKept
<1>3. tree \in Nat /\ tree' \in Nat /\ \A r \in Reader : reads[r].arrived \in Nat
  <2>1. tree \in Version /\ tree' \in Version
    BY DEF WatchInv, WatchingTypeOK
  <2>2. \A r \in Reader : reads[r].arrived \in Version
    BY DEF WatchInv, WatchingTypeOK
  <2> QED BY <2>1, <2>2, VersionsCount
<1>4. ASSUME NEW r \in Reader
      PROVE  ReadSound(r)'
  <2>1. ReadSound(r) /\ (SeesChange(r) <=> SeesChange(r)')
    BY <1>1 DEF SeesChange
  <2>2. reads[r].arrived <= tree'
    BY <1>3, <2>1 DEF ReadSound
  <2>3. reads[r].at \in Passing \cup {"check"} => reads[r].inst \in Inst
    BY <2>1 DEF ReadSound, Passing
  <2>4. reads[r].at \in Passing => Coming(reads[r].inst, reads[r].arrived)'
    BY <1>2, <2>1, <2>3 DEF ReadSound
  <2>5. /\ reads[r].at = "check" /\ ~reads[r].excused => ClearFor(r)'
        /\ reads[r].at = "lock" /\ r \in barrier.covered /\ ~barrier.ranOut => ClearFor(r)'
    BY <1>2, <2>1, <2>3 DEF ReadSound, Passing
  <2> QED BY <2>1, <2>2, <2>4, <2>5 DEF ReadSound
<1>5. ASSUME NEW r \in Reader
      PROVE  PassSound(r)'
  <2>1. PassSound(r)
    BY <1>1
  <2>2. events \in Seq(Event)
    BY DEF WatchInv, WatchingTypeOK
  <2>3. \A k \in 1..Len(events') : k \notin 1..Len(events) => events'[k] = TreeEvent
    BY <2>2
  <2>4. \A k \in 1..Len(events) : k \in 1..Len(events') /\ events'[k] = events[k]
    BY <2>2
  <2>5. Late' => Late
    BY <2>3, <2>4 DEF Late
  <2>6. CASE reads[r].at = "touch"
    BY <2>1, <2>5, <2>6 DEF PassSound
  <2>7. CASE reads[r].at = "wait" /\ ~reads[r].excused
    <3>1. \A q \in barrier.began : q \in Reader /\ reads[q].inst \in Inst
      <4>1. barrier.began \subseteq Reader
        BY DEF WatchInv, WatchingTypeOK
      <4> QED BY <1>1, <2>1, <2>7, <4>1 DEF PassSound, ReadSound, Passing
    <3>2. AllClear => AllClear'
      BY <1>2, <3>1 DEF AllClear
    <3>3. SentinelComes => SentinelComes'
      <4> SUFFICES ASSUME NEW p \in 1..Len(events), events[p] = barrier.awaited, OnlySentinel(p),
                          \A q \in barrier.began : Reaches(reads[q].inst, reads[q].arrived, p)
                   PROVE  SentinelComes'
        BY DEF SentinelComes
      <4>1. p \in 1..Len(events') /\ events'[p] = barrier.awaited /\ p \in 1..(Len(events) + 1)
        BY <2>2, <2>4
      <4>2. OnlySentinel(p)'
        BY <2>3, <2>4 DEF OnlySentinel
      <4>3. \A q \in barrier.began : Reaches(reads[q].inst, reads[q].arrived, p)'
        BY <1>2, <3>1, <4>1
      <4> QED BY <4>1, <4>2, <4>3 DEF SentinelComes
    <3> QED BY <2>1, <2>7, <3>2, <3>3 DEF PassSound
  <2>8. CASE reads[r].at \notin {"touch", "wait"} \/ (reads[r].at = "wait" /\ reads[r].excused)
    BY <2>1, <2>8 DEF PassSound
  <2> QED BY <2>6, <2>7, <2>8
<1> QED BY <1>4, <1>5

LEMMA SameTrees ==
    ASSUME UNCHANGED <<loop, trees, mistaken, running, kept>>
    PROVE  \A i \in Inst : NothingOlder(i)
BY DEF NothingOlder, Stamps, Holds, IsWatched, Dropping

LEMMA TableStillHolds ==
    ASSUME WatchInv, UNCHANGED <<loop, trees, mistaken, subscribed>>,
           table.state = "active" => table'.state = "active"
    PROVE  TableHolds'
BY DEF WatchInv, TableHolds, IsWatched, Dropping

LEMMA StampsStillPast ==
    ASSUME WatchInv, WatchingTypeOK', UNCHANGED <<trees, running, kept>>, tree' >= tree
    PROVE  StampsPast'
<1>1. tree \in Nat /\ tree' \in Nat
  BY VersionsCount DEF WatchInv, WatchingTypeOK
<1>2. ASSUME NEW i \in Inst, NEW s \in Stamps(i)
      PROVE  s.gen <= trees[i].gen /\ s.version <= tree'
             /\ (s.gen = trees[i].gen => s.changes <= trees[i].changes)
  <2>1. s.version \in Nat
    BY StampTypes DEF WatchInv
  <2> QED BY <1>1, <2>1 DEF WatchInv, StampsPast
<1> QED BY <1>2 DEF StampsPast, Stamps

LEMMA StillFresh ==
    ASSUME WatchInv, WatchingTypeOK', \A i \in Inst : NothingOlder(i), tree' = tree, NEW e,
           events' = events \/ events' = Append(events, e)
    PROVE  Fresh'
<1>1. PICK v : v = tree
  OBVIOUS
<1>2. v \in Nat /\ v <= tree
  BY <1>1, WatchingAssumption DEF WatchInv, WatchingTypeOK, Version
<1>3. ASSUME NEW i \in Inst
      PROVE  Coming(i, v)'
  <2>1. Coming(i, v) /\ WatchingTypeOK /\ NothingOlder(i)
    BY <1>1 DEF WatchInv, Fresh
  <2> QED BY <1>2, <2>1, ViewKept
<1> QED BY <1>1, <1>3 DEF Fresh, Coming, Reaches

\* A tree the table says is watched has its changes heard.
LEMMA WatchedIsHeard ==
    ASSUME WatchInv, NEW i \in Inst, IsWatched(i), i \notin mistaken, ~Dropping(i)
    PROVE  watched /\ i \in subscribed /\ table.state = "active"
<1>1. i \in subscribed /\ table.state = "active"
  BY DEF WatchInv, TableHolds
<1>2. commands = <<>> /\ worker = 0
  BY <1>1 DEF WatchInv, TableInv
<1> QED BY <1>1, <1>2 DEF WatchInv, TableInv, TableTellsTheTruth

LEMMA ChangeTreeKeeps == ASSUME WatchInv, ChangeTree PROVE WatchInv'
<1>1. /\ tree' = tree + 1 /\ tree <= MaxChange
      /\ events' = IF watched THEN Append(events, TreeEvent) ELSE events
      /\ UNCHANGED <<loop, subscribed, trees, mistaken, table, commands, worker, watched,
                     settled, running, ran, kept, barrier, reads>>
  BY DEF ChangeTree, loopVars, workVars, runVars
<1>2. tree \in Nat /\ tree \in Version /\ tree' \in Version /\ tree' >= tree
      /\ events \in Seq(Event) /\ TreeEvent \in Event
  <2>1. tree \in Version /\ events \in Seq(Event)
    BY DEF WatchInv, WatchingTypeOK
  <2>2. TreeEvent \in Event
    BY WatchingAssumption DEF Event, TreeEvent
  <2>3. tree' \in Version /\ tree' >= tree
    BY <1>1, <2>1, WatchingAssumption DEF Version
  <2> QED BY <2>1, <2>2, <2>3, VersionsCount
<1>3. WatchingTypeOK'
  <2>1. events' \in Seq(Event)
    BY <1>1, <1>2
  <2> QED BY <1>1, <1>2, <2>1 DEF WatchInv, WatchingTypeOK
<1>4. \A i \in Inst : NothingOlder(i)
  BY <1>1, SameTrees
<1>5. \A r \in Reader : ReadSound(r)' /\ PassSound(r)'
  BY <1>1, <1>2, <1>3, <1>4, BesideReads
<1>6. TableHolds' /\ StampsPast' /\ TableInv'
  <2>1. TableInv'
    BY <1>1 DEF WatchInv, TableInv, TableTellsTheTruth
  <2> QED BY <1>1, <1>2, <1>3, <2>1, TableStillHolds, StampsStillPast
<1>7. Fresh'
  <2>1. PICK v : v = tree'
    OBVIOUS
  <2>2. ASSUME NEW i \in Inst
        PROVE  Coming(i, v)'
    <3>1. CASE Dropping(i)
      BY <1>1, <3>1 DEF Coming, Reaches, Dropping
    <3>2. CASE ~Dropping(i)
      <4> SUFFICES ASSUME NEW s \in Stamps(i), Holds(s, i)
                   PROVE  \E k \in 1..Len(events') : k < Len(events') + 1 /\ events'[k] = TreeEvent
        BY <1>1 DEF Coming, Reaches, ChangeBefore, Stamps, Holds, IsWatched
      <4>1. watched
        BY <3>2, WatchedIsHeard DEF Holds
      <4> QED BY <1>1, <1>2, <4>1
    <3> QED BY <3>1, <3>2
  <2> QED BY <2>1, <2>2 DEF Fresh, Coming, Reaches
<1> QED BY <1>3, <1>5, <1>6, <1>7 DEF WatchInv

LEMMA StampRunKeeps == ASSUME WatchInv, NEW i \in Inst, StampRun(i) PROVE WatchInv'
<1>1. PICK now : now = [gen |-> IF IsWatched(i) THEN trees[i].gen ELSE 0,
                        changes |-> trees[i].changes, version |-> tree]
  OBVIOUS
<1>2. /\ running' = [running EXCEPT ![i] = now] /\ ran' = [ran EXCEPT ![i] = @ + 1]
      /\ ran[i] < MaxRunOf
      /\ UNCHANGED <<tree, events, loop, subscribed, trees, mistaken, table, commands, worker,
                     watched, settled, kept, barrier, reads>>
  BY <1>1 DEF StampRun, loopVars, workVars
<1>3. /\ trees[i] \in [gen : Nat, gone : BOOLEAN, changes : Nat] /\ tree \in Version /\ tree \in Nat
      /\ running \in [Inst -> Stamp] /\ kept \in [Inst -> Stamp]
  BY VersionsCount DEF WatchInv, WatchingTypeOK
<1>4. /\ now \in Stamp /\ now.version = tree /\ now.changes = trees[i].changes
      /\ now.gen <= trees[i].gen
  BY <1>1, <1>3 DEF Stamp
<1>5. WatchingTypeOK'
  <2>1. ran' \in [Inst -> 0..MaxRunOf]
    <3>1. ran \in [Inst -> 0..MaxRunOf]
      BY DEF WatchInv, WatchingTypeOK
    <3>2. ran[i] + 1 \in 0..MaxRunOf
      BY <1>2, <3>1, WatchingAssumption
    <3> QED BY <1>2, <3>1, <3>2
  <2> QED BY <1>2, <1>3, <1>4, <2>1 DEF WatchInv, WatchingTypeOK
<1>6. \A j \in Inst : \A s \in Stamps(j)' : s \in Stamps(j) \/ (j = i /\ s = now)
  BY <1>2, <1>3 DEF Stamps
<1>7. \A j \in Inst : NothingOlder(j)
  BY <1>2, <1>3, <1>4, <1>6 DEF NothingOlder, Holds, IsWatched, Dropping
<1>8. StampsPast'
  <2>1. \A j \in Inst : \A s \in Stamps(j)' :
            /\ s.gen <= trees[j].gen /\ s.version <= tree
            /\ s.gen = trees[j].gen => s.changes <= trees[j].changes
    BY <1>3, <1>4, <1>6 DEF WatchInv, StampsPast
  <2> QED BY <1>2, <2>1 DEF StampsPast
<1>9. TableInv' /\ TableHolds'
  BY <1>2, TableStillHolds DEF WatchInv, TableInv, TableTellsTheTruth
<1>10. Fresh' /\ \A r \in Reader : ReadSound(r)' /\ PassSound(r)'
  BY <1>2, <1>3, <1>5, <1>7, StillFresh, BesideReads
<1> QED BY <1>5, <1>8, <1>9, <1>10 DEF WatchInv

\* A run is stored, or the record is forgotten.
LEMMA KeepKeeps == ASSUME WatchInv, NEW i \in Inst, StoreRun(i) \/ ForgetTree(i) PROVE WatchInv'
<1>1. /\ \/ kept' = [kept EXCEPT ![i] = running[i]] /\ running' = [running EXCEPT ![i] = None]
         \/ kept' = [kept EXCEPT ![i] = None] /\ running' = running
      /\ UNCHANGED <<tree, events, loop, subscribed, trees, mistaken, table, commands, worker,
                     watched, settled, ran, barrier, reads>>
  BY DEF StoreRun, ForgetTree, loopVars, workVars
<1>2. /\ trees \in [Inst -> [gen : Nat, gone : BOOLEAN, changes : Nat]] /\ tree \in Nat
      /\ running \in [Inst -> Stamp] /\ kept \in [Inst -> Stamp] /\ None \in Stamp
      /\ None.gen = 0 /\ None.version = 0 /\ None.changes = 0
  <2>1. None \in Stamp
    BY DEF Stamp, None
  <2>2. tree \in Nat
    BY VersionsCount DEF WatchInv, WatchingTypeOK
  <2> QED BY <2>1, <2>2 DEF WatchInv, WatchingTypeOK, None, Unread
<1>3. WatchingTypeOK'
  <2>1. running' \in [Inst -> Stamp] /\ kept' \in [Inst -> Stamp]
    BY <1>1, <1>2
  <2> QED BY <1>1, <2>1 DEF WatchInv, WatchingTypeOK
<1>4. \A j \in Inst : \A s \in Stamps(j)' : s \in Stamps(j) \/ s = None
  BY <1>1, <1>2 DEF Stamps
<1>5. \A j \in Inst : NothingOlder(j)
  BY <1>1, <1>2, <1>4 DEF NothingOlder, Holds, IsWatched, Dropping
<1>6. StampsPast'
  <2>1. \A j \in Inst : \A s \in Stamps(j)' :
            /\ s.gen <= trees[j].gen /\ s.version <= tree
            /\ s.gen = trees[j].gen => s.changes <= trees[j].changes
    BY <1>2, <1>4 DEF WatchInv, StampsPast
  <2> QED BY <1>1, <2>1 DEF StampsPast
<1>7. TableInv' /\ TableHolds'
  BY <1>1, TableStillHolds DEF WatchInv, TableInv, TableTellsTheTruth
<1>8. Fresh' /\ \A r \in Reader : ReadSound(r)' /\ PassSound(r)'
  BY <1>1, <1>2, <1>3, <1>5, StillFresh, BesideReads
<1> QED BY <1>3, <1>6, <1>7, <1>8 DEF WatchInv

\* The worker takes a command, or registers; or a failed watch is asked for.
LEMMA WorkerKeeps ==
    ASSUME WatchInv, TakeCommand \/ Register \/ \E i \in Inst : Retry(i)
    PROVE  WatchInv'
<1>1. WorkTypeOK /\ TableInv
  BY DEF WatchInv, WatchingTypeOK, WorkTypeOK
<1>2. /\ WorkTypeOK' /\ TableInv' /\ (table.state = "active" => table'.state = "active")
      /\ UNCHANGED <<tree, events, loop, subscribed, trees, mistaken, running, ran, kept, barrier,
                     reads>>
  <2>1. CASE TakeCommand
    BY <1>1, <2>1, TakeCommandTable DEF TakeCommand, loopVars, runVars
  <2>2. CASE Register
    BY <1>1, <2>2, RegisterTable DEF Register, loopVars, runVars
  <2>3. CASE \E i \in Inst : Retry(i)
    <3>1. /\ AskFor /\ table.asks < MaxAsk /\ table.state = "failed"
          /\ UNCHANGED <<worker, watched, settled>>
          /\ UNCHANGED <<tree, events, loop, subscribed, trees, mistaken, running, ran, kept,
                         barrier, reads>>
      BY <2>3 DEF Retry, loopVars, runVars
    <3> QED BY <1>1, <3>1, AskForKeeps
  <2> QED BY <2>1, <2>2, <2>3
<1>3. WatchingTypeOK'
  BY <1>2 DEF WatchInv, WatchingTypeOK, WorkTypeOK
<1>4. \A i \in Inst : NothingOlder(i)
  BY <1>2, SameTrees
<1>5. tree \in Nat
  BY VersionsCount DEF WatchInv, WatchingTypeOK
<1>6. TableHolds' /\ StampsPast'
  BY <1>2, <1>3, <1>5, TableStillHolds, StampsStillPast
<1>7. Fresh' /\ \A r \in Reader : ReadSound(r)' /\ PassSound(r)'
  BY <1>2, <1>3, <1>4, <1>5, StillFresh, BesideReads
<1> QED BY <1>2, <1>3, <1>6, <1>7 DEF WatchInv

\* A tree watched anew has no stamp: those there are, are of a watch before.
LEMMA AnewKeeps ==
    ASSUME WatchInv, NEW new \in SUBSET Inst, \A i \in new : ~IsWatched(i),
           trees' = [i \in Inst |-> IF i \in new THEN Anew(i) ELSE trees[i]],
           mistaken \subseteq mistaken', UNCHANGED <<tree, events, loop, running, kept>>
    PROVE  /\ trees' \in [Inst -> [gen : Nat, gone : BOOLEAN, changes : Nat]]
           /\ \A i \in Inst : NothingOlder(i)
           /\ StampsPast'
           /\ \A i \in Inst : IsWatched(i)' => i \in new \/ IsWatched(i)
<1>1. trees \in [Inst -> [gen : Nat, gone : BOOLEAN, changes : Nat]]
  BY DEF WatchInv, WatchingTypeOK
<1>2. trees' \in [Inst -> [gen : Nat, gone : BOOLEAN, changes : Nat]]
  BY <1>1 DEF Anew
<1>3. \A i \in Inst : /\ i \in new => trees'[i].gen = trees[i].gen + 1
                      /\ i \notin new => trees'[i] = trees[i]
  BY DEF Anew
<1>4. ASSUME NEW i \in Inst, NEW s \in Stamps(i)
      PROVE  /\ s.gen <= trees'[i].gen /\ s.version <= tree
             /\ s.gen = trees'[i].gen => i \notin new /\ s.changes <= trees'[i].changes
  <2>1. s.gen \in Nat /\ trees[i].gen \in Nat
    BY <1>1, StampTypes DEF WatchInv
  <2>2. /\ s.gen <= trees[i].gen /\ s.version <= tree
        /\ s.gen = trees[i].gen => s.changes <= trees[i].changes
    BY DEF WatchInv, StampsPast
  <2> QED BY <1>3, <2>1, <2>2
<1>5. \A i \in Inst : NothingOlder(i)
  BY <1>3, <1>4 DEF NothingOlder, Stamps, Holds, IsWatched, Dropping
<1>6. StampsPast'
  BY <1>4 DEF StampsPast, Stamps
<1> QED BY <1>2, <1>3, <1>5, <1>6 DEF IsWatched

LEMMA DemandWatchKeeps == ASSUME WatchInv, NEW i \in Inst, DemandWatch(i) PROVE WatchInv'
<1>1. /\ loop.at = "free" /\ i \notin subscribed /\ subscribed' = subscribed \cup {i}
      /\ UNCHANGED <<tree, events, loop, mistaken, worker, watched, settled, running, ran, kept,
                     barrier, reads>>
  BY DEF DemandWatch, LoopFree, runVars
<1>2. /\ WorkTypeOK /\ TableInv /\ tree \in Nat
      /\ trees \in [Inst -> [gen : Nat, gone : BOOLEAN, changes : Nat]]
  BY WatchingAssumption DEF WatchInv, WatchingTypeOK, WorkTypeOK, Version
<1>3. \A j \in Inst : ~Dropping(j)
  BY <1>1 DEF Dropping
<1>4. \A j \in Inst : IsWatched(j) => j \in subscribed /\ (j \in mistaken \/ table.state = "active")
  BY <1>3 DEF WatchInv, TableHolds
<1>5. CASE subscribed = {}
  <2>1. table.asks < MaxAsk /\ AskFor /\ UNCHANGED trees
    BY <1>5 DEF DemandWatch
  <2>2. WorkTypeOK' /\ TableInv'
    BY <1>1, <1>2, <2>1, AskForKeeps
  <2>3. WatchingTypeOK'
    BY <1>1, <2>1, <2>2 DEF WatchInv, WatchingTypeOK, WorkTypeOK
  <2>4. TableHolds'
    BY <1>1, <1>4, <1>5, <2>1 DEF TableHolds, IsWatched
  <2>5. \A j \in Inst : NothingOlder(j)
    BY <1>1, <2>1, SameTrees
  <2>6. StampsPast' /\ Fresh' /\ \A r \in Reader : ReadSound(r)' /\ PassSound(r)'
    BY <1>1, <1>2, <2>1, <2>3, <2>5, StampsStillPast, StillFresh, BesideReads
  <2> QED BY <2>2, <2>3, <2>4, <2>6 DEF WatchInv
<1>6. CASE subscribed # {}
  <2>0. PICK new : new = IF table.state = "active" THEN {i} ELSE {}
    OBVIOUS
  <2>1. /\ new \in SUBSET Inst
        /\ trees' = [j \in Inst |-> IF j \in new THEN Anew(j) ELSE trees[j]]
        /\ UNCHANGED <<table, commands>>
    <3>1. /\ trees' = IF table.state = "active" THEN [trees EXCEPT ![i] = Anew(i)] ELSE trees
          /\ UNCHANGED <<table, commands>>
      BY <1>6 DEF DemandWatch
    <3>2. trees' = [j \in Inst |-> IF j \in new THEN Anew(j) ELSE trees[j]]
      BY <1>2, <2>0, <3>1
    <3> QED BY <2>0, <3>1, <3>2
  <2>2. \A j \in new : ~IsWatched(j)
    BY <1>1, <1>4, <2>0
  <2>3. /\ trees' \in [Inst -> [gen : Nat, gone : BOOLEAN, changes : Nat]]
        /\ \A j \in Inst : NothingOlder(j)
        /\ StampsPast'
        /\ \A j \in Inst : IsWatched(j)' => j \in new \/ IsWatched(j)
    BY <1>1, <2>1, <2>2, AnewKeeps
  <2>4. WatchingTypeOK'
    BY <1>1, <2>1, <2>3 DEF WatchInv, WatchingTypeOK
  <2>5. TableInv' /\ TableHolds'
    BY <1>1, <1>2, <1>4, <2>0, <2>1, <2>3 DEF TableInv, TableTellsTheTruth, TableHolds
  <2>6. Fresh' /\ \A r \in Reader : ReadSound(r)' /\ PassSound(r)'
    BY <1>1, <1>2, <2>3, <2>4, StillFresh, BesideReads
  <2> QED BY <2>3, <2>4, <2>5, <2>6 DEF WatchInv
<1> QED BY <1>5, <1>6

LEMMA TakeSettledKeeps == ASSUME WatchInv, TakeSettled PROVE WatchInv'
<1>1. PICK new : new = {i \in subscribed : ~IsWatched(i)}
  OBVIOUS
<1>2. /\ loop.at = "free" /\ settled > 0 /\ settled' = settled - 1
      /\ trees' = [i \in Inst |-> IF i \in new THEN Anew(i) ELSE trees[i]]
      /\ mistaken' = IF table.state = "active" THEN mistaken ELSE mistaken \cup new
      /\ UNCHANGED <<tree, events, loop, subscribed, table, commands, worker, watched, running,
                     ran, kept, barrier, reads>>
  BY <1>1 DEF TakeSettled, LoopFree, runVars
<1>3. new \in SUBSET Inst /\ new \subseteq subscribed /\ \A i \in new : ~IsWatched(i)
  BY <1>1 DEF WatchInv, WatchingTypeOK
<1>4. /\ trees' \in [Inst -> [gen : Nat, gone : BOOLEAN, changes : Nat]]
      /\ \A j \in Inst : NothingOlder(j)
      /\ StampsPast'
      /\ \A j \in Inst : IsWatched(j)' => j \in new \/ IsWatched(j)
  <2>1. mistaken \subseteq mistaken'
    BY <1>2
  <2> QED BY <1>2, <1>3, <2>1, AnewKeeps
<1>5. WatchingTypeOK'
  <2>1. mistaken' \subseteq Inst /\ settled' \in Nat
    BY <1>2, <1>3 DEF WatchInv, WatchingTypeOK
  <2> QED BY <1>2, <1>4, <2>1 DEF WatchInv, WatchingTypeOK
<1>6. TableInv' /\ TableHolds'
  <2>1. TableInv'
    BY <1>2 DEF WatchInv, TableInv, TableTellsTheTruth
  <2>2. TableHolds'
    BY <1>2, <1>3, <1>4 DEF WatchInv, TableHolds, Dropping
  <2> QED BY <2>1, <2>2
<1>7. tree \in Nat
  BY VersionsCount DEF WatchInv, WatchingTypeOK
<1>8. Fresh' /\ \A r \in Reader : ReadSound(r)' /\ PassSound(r)'
  BY <1>2, <1>4, <1>5, <1>7, StillFresh, BesideReads
<1> QED BY <1>4, <1>5, <1>6, <1>8 DEF WatchInv

LEMMA DropWatchKeeps == ASSUME WatchInv, NEW i \in Inst, DropWatch(i) PROVE WatchInv'
<1>1. /\ loop.at = "free" /\ i \in subscribed /\ subscribed' = subscribed \ {i}
      /\ loop' = [at |-> "unwatching", of |-> i]
      /\ UNCHANGED <<tree, events, trees, mistaken, worker, watched, settled, running, ran, kept,
                     barrier, reads>>
  BY DEF DropWatch, LoopFree, runVars
<1>2. WorkTypeOK /\ TableInv /\ tree \in Nat
  BY WatchingAssumption DEF WatchInv, WatchingTypeOK, WorkTypeOK, Version
<1>3. WorkTypeOK' /\ TableInv' /\ (subscribed # {i} => UNCHANGED table)
  <2>1. CASE subscribed = {i}
    <3>1. table' = [table EXCEPT !.ask = 0, !.state = "none"] /\ commands' = Append(commands, 0)
      BY <2>1 DEF DropWatch
    <3> QED BY <1>1, <1>2, <2>1, <3>1, UnwatchTable
  <2>2. CASE subscribed # {i}
    <3>1. UNCHANGED <<table, commands>>
      BY <2>2 DEF DropWatch
    <3> QED BY <1>1, <1>2, <3>1 DEF WorkTypeOK, TableInv, TableTellsTheTruth
  <2> QED BY <2>1, <2>2
<1>4. WatchingTypeOK'
  BY <1>1, <1>3 DEF WatchInv, WatchingTypeOK, WorkTypeOK
<1>5. \A j \in Inst : ~Dropping(j) /\ (Dropping(j)' <=> j = i)
  BY <1>1 DEF Dropping
<1>6. \A j \in Inst : NothingOlder(j)
  BY <1>1, <1>5 DEF NothingOlder, Stamps, Holds, IsWatched
<1>7. TableHolds'
  <2> SUFFICES ASSUME NEW j \in Inst, IsWatched(j)', j # i
               PROVE  j \in subscribed' /\ (j \in mistaken \/ table'.state = "active")
    BY <1>1, <1>5 DEF TableHolds
  <2>1. j \in subscribed /\ (j \in mistaken \/ table.state = "active")
    BY <1>1, <1>5 DEF WatchInv, TableHolds, IsWatched
  <2> QED BY <1>1, <1>3, <2>1
<1>8. StampsPast' /\ Fresh' /\ \A r \in Reader : ReadSound(r)' /\ PassSound(r)'
  <2>1. tree' >= tree /\ events' = events /\ UNCHANGED <<trees, running, kept, reads, barrier>>
    BY <1>1, <1>2
  <2>2. loop'.at = "hearing" <=> loop.at = "hearing"
    BY <1>1
  <2> QED BY <1>1, <1>4, <1>6, <2>1, <2>2, StampsStillPast, StillFresh, BesideReads
<1> QED BY <1>3, <1>4, <1>7, <1>8 DEF WatchInv

LEMMA TreeUnwatchedKeeps == ASSUME WatchInv, TreeUnwatched PROVE WatchInv'
<1>1. PICK i : i = loop.of
  OBVIOUS
<1>2. /\ loop.at = "unwatching" /\ loop' = Free
      /\ trees' = [trees EXCEPT ![i].gone = TRUE] /\ mistaken' = mistaken \ {i}
      /\ UNCHANGED <<tree, events, subscribed, table, commands, worker, watched, settled, running,
                     ran, kept, barrier, reads>>
  BY <1>1 DEF TreeUnwatched, workVars, runVars
<1>3. /\ trees \in [Inst -> [gen : Nat, gone : BOOLEAN, changes : Nat]] /\ tree \in Nat
      /\ loop' \in [at : {"free", "unwatching", "hearing"}, of : Inst \cup {NoInst}]
      /\ loop'.at = "free"
  BY <1>2, VersionsCount DEF WatchInv, WatchingTypeOK, Free
<1>4. /\ trees' \in [Inst -> [gen : Nat, gone : BOOLEAN, changes : Nat]]
      /\ \A j \in Inst : trees'[j].gen = trees[j].gen /\ trees'[j].changes = trees[j].changes
      /\ \A j \in Inst : j # i => trees'[j] = trees[j]
      /\ i \in Inst => trees'[i].gone
  BY <1>2, <1>3
<1>5. WatchingTypeOK'
  BY <1>2, <1>3, <1>4 DEF WatchInv, WatchingTypeOK
<1>6. \A j \in Inst : IsWatched(j)' => j # i /\ IsWatched(j)
  BY <1>4 DEF IsWatched
<1>7. \A j \in Inst : (Dropping(j) <=> j = i) /\ ~Dropping(j)'
  BY <1>1, <1>2, <1>3 DEF Dropping
<1>8. \A j \in Inst : NothingOlder(j)
  BY <1>2, <1>4, <1>6, <1>7 DEF NothingOlder, Stamps, Holds
<1>9. TableInv' /\ TableHolds'
  <2>1. TableInv'
    BY <1>2 DEF WatchInv, TableInv, TableTellsTheTruth
  <2>2. TableHolds'
    BY <1>2, <1>6, <1>7 DEF WatchInv, TableHolds
  <2> QED BY <2>1, <2>2
<1>10. StampsPast'
  BY <1>2, <1>4 DEF WatchInv, StampsPast, Stamps
<1>11. Fresh' /\ \A r \in Reader : ReadSound(r)' /\ PassSound(r)'
  <2>1. loop'.at = "hearing" <=> loop.at = "hearing"
    BY <1>2, <1>3
  <2> QED BY <1>2, <1>3, <1>5, <1>8, <2>1, StillFresh, BesideReads
<1> QED BY <1>5, <1>9, <1>10, <1>11 DEF WatchInv

\* What is left of the events, once the first is heard.
LEMMA EventHeard ==
    ASSUME WatchInv, events # <<>>, events' = Tail(events)
    PROVE  /\ events' \in Seq(Event) /\ Len(events') = Len(events) - 1 /\ Len(events) \in Nat \ {0}
           /\ \A k \in 1..Len(events') : events'[k] = events[k + 1] /\ k + 1 \in 1..Len(events)
           /\ \A k \in 1..Len(events) : k # 1 => k - 1 \in 1..Len(events') /\ events'[k - 1] = events[k]
           /\ Head(events) = events[1] /\ 1 \in 1..Len(events)
<1>1. events \in Seq(Event)
  BY DEF WatchInv, WatchingTypeOK
<1> QED BY <1>1, QueueTail

\* An event of the tree: a stamp there was is older than it, and holds no more.
LEMMA HearChangeKeeps ==
    ASSUME WatchInv, HearEvent, Head(events) = TreeEvent
    PROVE  WatchInv'
<1>1. /\ loop.at = "free" /\ events # <<>> /\ events' = Tail(events)
      /\ trees' = [i \in Inst |-> IF i \in subscribed THEN [trees[i] EXCEPT !.changes = @ + 1]
                                                      ELSE trees[i]]
      /\ UNCHANGED <<tree, loop, subscribed, mistaken, table, commands, worker, watched, settled,
                     running, ran, kept, barrier, reads>>
  BY DEF HearEvent, LoopFree, workVars, runVars
<1>2. /\ trees \in [Inst -> [gen : Nat, gone : BOOLEAN, changes : Nat]] /\ tree \in Nat
      /\ barrier.awaited # TreeEvent
  <2>1. barrier.awaited \in 0..(Sentinels - 1)
    BY DEF WatchInv, WatchingTypeOK
  <2>2. barrier.awaited # TreeEvent
    BY <2>1, WatchingAssumption DEF TreeEvent
  <2>3. tree \in Nat
    BY VersionsCount DEF WatchInv, WatchingTypeOK
  <2> QED BY <2>2, <2>3 DEF WatchInv, WatchingTypeOK
<1>3. /\ trees' \in [Inst -> [gen : Nat, gone : BOOLEAN, changes : Nat]]
      /\ \A i \in Inst : trees'[i].gen = trees[i].gen /\ trees'[i].gone = trees[i].gone
      /\ \A i \in Inst : i \in subscribed => trees'[i].changes = trees[i].changes + 1
      /\ \A i \in Inst : trees'[i].changes >= trees[i].changes
  <2>1. ASSUME NEW i \in Inst
        PROVE  /\ trees'[i] \in [gen : Nat, gone : BOOLEAN, changes : Nat]
               /\ trees'[i].gen = trees[i].gen /\ trees'[i].gone = trees[i].gone
               /\ i \in subscribed => trees'[i].changes = trees[i].changes + 1
               /\ trees'[i].changes >= trees[i].changes
    <3>1. trees[i] \in [gen : Nat, gone : BOOLEAN, changes : Nat]
      BY <1>2
    <3>2. CASE i \in subscribed
      <4>1. trees'[i] = [trees[i] EXCEPT !.changes = trees[i].changes + 1]
        BY <1>1, <3>2
      <4>2. trees[i].changes + 1 \in Nat /\ trees[i].changes + 1 >= trees[i].changes
        BY <3>1
      <4> QED BY <3>1, <4>1, <4>2
    <3>3. CASE i \notin subscribed
      BY <1>1, <3>1, <3>3
    <3> QED BY <3>2, <3>3
  <2>2. trees' \in [Inst -> [gen : Nat, gone : BOOLEAN, changes : Nat]]
    BY <1>1, <2>1
  <2> QED BY <2>1, <2>2
<1>4. events' \in Seq(Event)
  BY <1>1, EventHeard
<1>5. WatchingTypeOK'
  BY <1>1, <1>3, <1>4 DEF WatchInv, WatchingTypeOK
<1>6. \A i \in Inst : (IsWatched(i)' <=> IsWatched(i)) /\ ~Dropping(i)
  BY <1>1, <1>3 DEF IsWatched, Dropping
<1>7. ASSUME NEW i \in Inst, NEW s \in Stamps(i)
      PROVE  /\ s.gen <= trees'[i].gen /\ s.version <= tree
             /\ s.gen = trees'[i].gen => s.changes <= trees'[i].changes
             /\ ~Holds(s, i)'
  <2>1. s.changes \in Nat /\ trees[i].changes \in Nat /\ trees'[i].changes \in Nat
    BY <1>2, <1>3, StampTypes DEF WatchInv
  <2>2. /\ s.gen <= trees[i].gen /\ s.version <= tree
        /\ s.gen = trees[i].gen => s.changes <= trees[i].changes
    BY DEF WatchInv, StampsPast
  <2>3. IsWatched(i) => i \in subscribed
    BY <1>6 DEF WatchInv, TableHolds
  <2> QED BY <1>3, <1>6, <2>1, <2>2, <2>3 DEF Holds
<1>8. \A i \in Inst : \A s \in Stamps(i)' : s \in Stamps(i) /\ ~Holds(s, i)'
  BY <1>1, <1>7 DEF Stamps
<1>9. /\ \A i \in Inst : \A v : Up(i, v)'
      /\ \A i \in Inst : \A v, p : Reaches(i, v, p)'
      /\ \A i \in Inst : \A v : Coming(i, v)'
  BY <1>8 DEF Up, Reaches, Coming
<1>10. StampsPast' /\ Fresh'
  <2>1. Fresh'
    BY <1>9 DEF Fresh, Coming, Reaches
  <2>2. StampsPast'
    BY <1>1, <1>7, <1>8 DEF StampsPast
  <2> QED BY <2>1, <2>2
<1>11. TableInv' /\ TableHolds'
  BY <1>1, <1>6 DEF WatchInv, TableInv, TableTellsTheTruth, TableHolds, Dropping
<1>12. ASSUME NEW r \in Reader, reads[r].inst \in Inst
       PROVE  /\ ClearFor(r)'
              /\ Coming(reads[r].inst, reads[r].arrived)'
              /\ \A p : Reaches(reads[r].inst, reads[r].arrived, p)'
  <2>1. PICK i, v : i = reads[r].inst /\ v = reads[r].arrived
    OBVIOUS
  <2>2. Up(i, v)' /\ Coming(i, v)' /\ \A p : Reaches(i, v, p)'
    BY <1>9, <1>12, <2>1
  <2>3. reads'[r].inst = i /\ reads'[r].arrived = v
    BY <1>1, <2>1
  <2> QED BY <2>2, <2>3 DEF ClearFor, Coming, Reaches, Up
<1>13. ASSUME NEW r \in Reader
       PROVE  ReadSound(r)'
  BY <1>1, <1>12 DEF WatchInv, ReadSound, Passing, SeesChange
<1>14. ASSUME NEW r \in Reader
       PROVE  PassSound(r)'
  <2>1. PassSound(r) /\ ~(loop.at = "hearing")
    BY <1>1 DEF WatchInv
  <2>2. Late' => Late
    BY <1>1, EventHeard DEF Late
  <2>3. \A q \in barrier.began : reads[r].at \in {"touch", "wait"} =>
            q \in Reader /\ reads[q].inst \in Inst
    <3>1. barrier.began \subseteq Reader
      BY DEF WatchInv, WatchingTypeOK
    <3> QED BY <2>1, <3>1 DEF WatchInv, PassSound, ReadSound, Passing
  <2>4. reads[r].at = "wait" => AllClear'
    BY <1>1, <1>12, <2>3 DEF AllClear
  <2>5. reads[r].at = "wait" /\ SentinelComes => SentinelComes'
    <3> SUFFICES ASSUME reads[r].at = "wait",
                        NEW p \in 1..Len(events), events[p] = barrier.awaited, OnlySentinel(p)
                 PROVE  SentinelComes'
      BY DEF SentinelComes
    <3>1. p # 1
      BY <1>1, <1>2, EventHeard
    <3>2. PICK m : m = p - 1
      OBVIOUS
    <3>3. m \in 1..Len(events') /\ events'[m] = barrier.awaited
      BY <1>1, <3>1, <3>2, EventHeard
    <3>4. OnlySentinel(m)'
      BY <1>1, <3>2, EventHeard DEF OnlySentinel
    <3>5. \A q \in barrier.began : Reaches(reads[q].inst, reads[q].arrived, m)'
      BY <1>12, <2>3
    <3> QED BY <1>1, <3>3, <3>4, <3>5 DEF SentinelComes
  <2> QED BY <1>1, <2>1, <2>2, <2>4, <2>5 DEF PassSound
<1> QED BY <1>5, <1>10, <1>11, <1>13, <1>14 DEF WatchInv

\* The event of a sentinel: of the one awaited, if a barrier is to be answered.
LEMMA HearSentinelKeeps ==
    ASSUME WatchInv, HearEvent, Head(events) # TreeEvent
    PROVE  WatchInv'
<1>1. /\ loop.at = "free" /\ events # <<>> /\ events' = Tail(events)
      /\ loop' = IF Head(events) = barrier.awaited THEN [at |-> "hearing", of |-> NoInst] ELSE loop
      /\ UNCHANGED <<tree, trees, subscribed, mistaken, table, commands, worker, watched, settled,
                     running, ran, kept, barrier, reads>>
  BY DEF HearEvent, LoopFree, workVars, runVars
<1>2. events[1] # TreeEvent /\ events' \in Seq(Event)
  BY <1>1, EventHeard
<1>3. WatchingTypeOK'
  <2>1. loop' \in [at : {"free", "unwatching", "hearing"}, of : Inst \cup {NoInst}]
    BY <1>1 DEF WatchInv, WatchingTypeOK
  <2> QED BY <1>1, <1>2, <2>1 DEF WatchInv, WatchingTypeOK
<1>4. \A i \in Inst : ~Dropping(i) /\ ~Dropping(i)'
  BY <1>1 DEF Dropping
<1>5. \A i, s : (Holds(s, i)' <=> Holds(s, i)) /\ Stamps(i)' = Stamps(i)
  BY <1>1 DEF Holds, IsWatched, Stamps
<1>6. \A p \in 2..(Len(events) + 1) : ChangeBefore(p) => ChangeBefore(p - 1)'
  <2> SUFFICES ASSUME NEW p \in 2..(Len(events) + 1),
                      NEW k \in 1..Len(events), k < p, events[k] = TreeEvent
               PROVE  \E m \in 1..Len(events') : m < p - 1 /\ events'[m] = TreeEvent
    BY <1>1 DEF ChangeBefore
  <2>1. k # 1
    BY <1>2
  <2>2. k - 1 \in 1..Len(events') /\ events'[k - 1] = TreeEvent /\ k - 1 < p - 1
    BY <1>1, <2>1, EventHeard
  <2> QED BY <2>2
<1>7. ASSUME NEW i \in Inst, NEW v
      PROVE  /\ Up(i, v) => Up(i, v)'
             /\ Coming(i, v) => Coming(i, v)'
             /\ Reaches(i, v, 1) => Up(i, v)
  <2>1. Up(i, v) => Up(i, v)'
    BY <1>5 DEF Up
  <2>2. Coming(i, v) => Coming(i, v)'
    <3>1. PICK p : p = Len(events) + 1
      OBVIOUS
    <3>2. p \in 2..(Len(events) + 1) /\ p - 1 = Len(events') + 1
      BY <1>1, <3>1, EventHeard
    <3>3. Reaches(i, v, p) => Reaches(i, v, p - 1)'
      BY <1>4, <1>5, <1>6, <3>2 DEF Reaches
    <3> QED BY <3>1, <3>2, <3>3 DEF Coming
  <2>3. Reaches(i, v, 1) => Up(i, v)
    <3>1. ~ChangeBefore(1)
      BY DEF ChangeBefore
    <3> QED BY <1>4, <3>1 DEF Reaches, Up
  <2> QED BY <2>1, <2>2, <2>3
<1>8. ASSUME NEW r \in Reader, reads[r].inst \in Inst
      PROVE  /\ ClearFor(r) => ClearFor(r)'
             /\ Coming(reads[r].inst, reads[r].arrived) => Coming(reads[r].inst, reads[r].arrived)'
             /\ Reaches(reads[r].inst, reads[r].arrived, 1) => ClearFor(r)
  <2>1. PICK i, v : i = reads[r].inst /\ v = reads[r].arrived
    OBVIOUS
  <2>2. reads'[r].inst = i /\ reads'[r].arrived = v
    BY <1>1, <2>1
  <2>3. /\ Up(i, v) => Up(i, v)'
        /\ Coming(i, v) => Coming(i, v)'
        /\ Reaches(i, v, 1) => Up(i, v)
    BY <1>7, <1>8, <2>1
  <2>4. (Up(i, v)' <=> ClearFor(r)')
        /\ (Coming(i, v)' <=> Coming(reads[r].inst, reads[r].arrived)')
    BY <2>2 DEF ClearFor, Up, Coming, Reaches
  <2> QED BY <2>1, <2>3, <2>4 DEF ClearFor
<1>9. Fresh'
  <2>1. PICK v : v = tree
    OBVIOUS
  <2>2. \A i \in Inst : Coming(i, v)'
    BY <1>7, <2>1 DEF WatchInv, Fresh
  <2> QED BY <1>1, <2>1, <2>2 DEF Fresh, Coming, Reaches
<1>10. TableInv' /\ TableHolds' /\ StampsPast'
  <2>1. TableInv'
    BY <1>1 DEF WatchInv, TableInv, TableTellsTheTruth
  <2>2. TableHolds'
    BY <1>1, <1>4 DEF WatchInv, TableHolds, IsWatched
  <2>3. StampsPast'
    BY <1>1 DEF WatchInv, StampsPast, Stamps
  <2> QED BY <2>1, <2>2, <2>3
<1>11. ASSUME NEW r \in Reader
       PROVE  ReadSound(r)'
  BY <1>1, <1>8 DEF WatchInv, ReadSound, Passing, SeesChange
<1>12. ASSUME NEW r \in Reader
       PROVE  PassSound(r)'
  <2>1. PassSound(r) /\ ~(loop.at = "hearing")
    BY <1>1 DEF WatchInv
  <2>2. Late
    BY <1>1, <1>2, EventHeard DEF Late
  <2>3. \A q \in barrier.began : reads[r].at \in {"touch", "wait"} =>
            q \in Reader /\ reads[q].inst \in Inst
    <3>1. barrier.began \subseteq Reader
      BY DEF WatchInv, WatchingTypeOK
    <3> QED BY <2>1, <3>1 DEF WatchInv, PassSound, ReadSound, Passing
  <2>4. reads[r].at = "wait" /\ AllClear => AllClear'
    BY <1>1, <1>8, <2>3 DEF AllClear
  <2>5. reads[r].at = "wait" /\ SentinelComes => AllClear' /\ loop'.at = "hearing"
    <3> SUFFICES ASSUME reads[r].at = "wait",
                        NEW p \in 1..Len(events), events[p] = barrier.awaited, OnlySentinel(p),
                        \A q \in barrier.began : Reaches(reads[q].inst, reads[q].arrived, p)
                 PROVE  AllClear' /\ loop'.at = "hearing"
      BY DEF SentinelComes
    <3>1. p = 1
      BY <1>1, <1>2, EventHeard DEF OnlySentinel
    <3>2. loop'.at = "hearing"
      BY <1>1, <3>1, EventHeard
    <3>3. AllClear
      BY <1>8, <2>3, <3>1 DEF AllClear
    <3> QED BY <2>4, <3>2, <3>3
  <2> QED BY <1>1, <2>1, <2>2, <2>4, <2>5 DEF PassSound
<1> QED BY <1>3, <1>9, <1>10, <1>11, <1>12 DEF WatchInv

\* What the reads and the barrier do, beside the trees.
LEMMA BesideTrees ==
    ASSUME WatchInv, WatchingTypeOK', NEW e, events' = events \/ events' = Append(events, e),
           UNCHANGED <<tree, loop, loopVars, workVars, runVars>>
    PROVE  /\ TableInv' /\ TableHolds' /\ StampsPast' /\ Fresh'
           /\ \A i \in Inst : NothingOlder(i)
<1> USE DEF loopVars, workVars, runVars
<1>1. \A i \in Inst : NothingOlder(i)
  BY SameTrees
<1>2. tree \in Nat
  BY VersionsCount DEF WatchInv, WatchingTypeOK
<1>3. TableInv'
  BY DEF WatchInv, TableInv, TableTellsTheTruth
<1> QED BY <1>1, <1>2, <1>3, TableStillHolds, StampsStillPast, StillFresh

LEMMA OtherRead ==
    ASSUME WatchInv, WatchingTypeOK', \A i \in Inst : NothingOlder(i), NEW e,
           events' = events \/ events' = Append(events, e), tree' = tree,
           NEW q \in Reader, reads'[q] = reads[q],
           barrier'.holder = q <=> barrier.holder = q,
           reads[q].at = "lock" /\ q \in barrier'.covered /\ ~barrier'.ranOut =>
               (q \in barrier.covered /\ ~barrier.ranOut) \/ ClearFor(q)
    PROVE  ReadSound(q)'
<1>1. ReadSound(q)
  BY DEF WatchInv
<1>2. reads[q].at # "idle" =>
          /\ ClearFor(q) => ClearFor(q)'
          /\ Coming(reads[q].inst, reads[q].arrived) => Coming(reads[q].inst, reads[q].arrived)'
  BY <1>1, ReadKept DEF ReadSound
<1>3. SeesChange(q)' <=> SeesChange(q)
  BY DEF SeesChange
<1> QED BY <1>1, <1>2, <1>3 DEF ReadSound, Passing

\* A barrier goes on beside the reads that it is not for.
LEMMA OtherPass ==
    ASSUME WatchInv, WatchingTypeOK', \A i \in Inst : NothingOlder(i),
           UNCHANGED <<events, loop>>,
           barrier'.heard = barrier.heard, barrier'.mark = barrier.mark,
           barrier'.awaited = barrier.awaited, barrier'.began \subseteq barrier.began,
           NEW q \in Reader, reads'[q] = reads[q], q \in barrier.began => q \in barrier'.began,
           reads[q].at \in {"touch", "wait"} =>
               \A x \in barrier'.began : reads'[x] = reads[x]
    PROVE  PassSound(q)'
<1>1. PassSound(q)
  BY DEF WatchInv
<1>2. CASE reads[q].at \notin {"touch", "wait"}
  BY <1>2 DEF PassSound
<1>3. CASE reads[q].at \in {"touch", "wait"}
  <2>1. \A x \in barrier'.began : reads'[x] = reads[x] /\ x \in barrier.began
    BY <1>3
  <2>2. \A x \in barrier.began : x \in Reader /\ reads[x].inst \in Inst
    <3>1. barrier.began \subseteq Reader
      BY DEF WatchInv, WatchingTypeOK
    <3> QED BY <1>1, <1>3, <3>1 DEF WatchInv, PassSound, ReadSound, Passing
  <2>3. ASSUME NEW x \in barrier'.began
        PROVE  /\ ClearFor(x) => ClearFor(x)'
               /\ \A p \in 1..(Len(events) + 1) :
                      Reaches(reads[x].inst, reads[x].arrived, p)
                          => Reaches(reads[x].inst, reads[x].arrived, p)'
    BY <2>1, <2>2, <2>3, ReadKept
  <2>4. AllClear => AllClear'
    BY <2>1, <2>3 DEF AllClear
  <2>5. SentinelComes => SentinelComes'
    <3> SUFFICES ASSUME NEW p \in 1..Len(events), events[p] = barrier.awaited, OnlySentinel(p),
                        \A x \in barrier.began : Reaches(reads[x].inst, reads[x].arrived, p)
                 PROVE  SentinelComes'
      BY DEF SentinelComes
    <3>1. p \in 1..(Len(events) + 1)
      BY DEF WatchInv, WatchingTypeOK
    <3>2. \A x \in barrier'.began : Reaches(reads[x].inst, reads[x].arrived, p)'
      BY <2>1, <2>3, <3>1
    <3>3. OnlySentinel(p)'
      BY DEF OnlySentinel
    <3> QED BY <3>2, <3>3 DEF SentinelComes
  <2>6. Late' <=> Late
    BY DEF Late
  <2> QED BY <1>1, <1>3, <2>1, <2>4, <2>5, <2>6 DEF PassSound
<1> QED BY <1>2, <1>3

BarrierType ==
    [awaited : 0..(Sentinels - 1), heard : Nat, mark : Nat, holder : Reader \cup {NoReader},
     ranOut : BOOLEAN, covered : SUBSET Reader, began : SUBSET Reader, passes : 0..MaxPass]

ReadType ==
    [at : {"idle", "lock", "touch", "wait", "check", "answered"}, inst : Inst \cup {NoInst},
     arrived : Version, got : Version \cup {Unread}, excused : BOOLEAN, misled : BOOLEAN]

LEMMA BarrierTypes ==
    ASSUME WatchInv
    PROVE  /\ barrier \in BarrierType /\ reads \in [Reader -> ReadType]
           /\ tree \in Version /\ tree \in Nat /\ events \in Seq(Event)
<1>1. barrier \in BarrierType
  BY DEF WatchInv, WatchingTypeOK, BarrierType
<1>2. reads \in [Reader -> ReadType]
  BY DEF WatchInv, WatchingTypeOK, ReadType
<1>3. tree \in Version /\ events \in Seq(Event)
  BY DEF WatchInv, WatchingTypeOK
<1> QED BY <1>1, <1>2, <1>3, VersionsCount

LEMMA ReadsTyped ==
    ASSUME WatchInv, barrier' \in BarrierType, reads' \in [Reader -> ReadType],
           events' \in Seq(Event), UNCHANGED <<tree, loop, loopVars, workVars, runVars>>
    PROVE  WatchingTypeOK'
BY DEF WatchInv, WatchingTypeOK, BarrierType, ReadType, loopVars, workVars, runVars

\* While nobody holds the barrier, there is none under way.
LEMMA NoPass ==
    ASSUME NEW r \in Reader, reads[r].at \notin {"touch", "wait"}
    PROVE  PassSound(r)
BY DEF PassSound

LEMMA HeardKeeps == ASSUME WatchInv, Heard PROVE WatchInv'
<1>1. /\ loop.at = "hearing" /\ barrier' = [barrier EXCEPT !.heard = @ + 1] /\ loop' = Free
      /\ UNCHANGED <<tree, events, subscribed, trees, mistaken, table, commands, worker, watched,
                     settled, running, ran, kept, reads>>
  BY DEF Heard, workVars, runVars
<1>2. /\ barrier' \in BarrierType /\ barrier'.heard = barrier.heard + 1
      /\ barrier'.holder = barrier.holder /\ barrier'.mark = barrier.mark
      /\ barrier'.covered = barrier.covered /\ barrier'.began = barrier.began
      /\ barrier'.ranOut = barrier.ranOut
      /\ barrier.heard \in Nat /\ barrier.mark \in Nat
  BY <1>1, BarrierTypes DEF BarrierType
<1>3. WatchingTypeOK'
  <2>1. loop' \in [at : {"free", "unwatching", "hearing"}, of : Inst \cup {NoInst}]
    BY <1>1 DEF Free
  <2> QED BY <1>1, <1>2, <2>1 DEF WatchInv, WatchingTypeOK, BarrierType
<1>4. \A i \in Inst : ~Dropping(i) /\ ~Dropping(i)'
  BY <1>1 DEF Dropping, Free
<1>5. \A i \in Inst : NothingOlder(i)
  BY <1>1, <1>4 DEF NothingOlder, Stamps, Holds, IsWatched
<1>6. TableInv' /\ TableHolds' /\ StampsPast' /\ Fresh'
  <2>1. TableInv'
    BY <1>1 DEF WatchInv, TableInv, TableTellsTheTruth
  <2>2. TableHolds'
    BY <1>1, <1>4 DEF WatchInv, TableHolds, IsWatched
  <2>3. tree \in Nat
    BY BarrierTypes
  <2> QED BY <1>1, <1>3, <1>5, <2>1, <2>2, <2>3, StampsStillPast, StillFresh
<1>7. \A r \in Reader : ReadSound(r)'
  BY <1>1, <1>2, <1>3, <1>5, OtherRead
<1>8. ASSUME NEW r \in Reader
      PROVE  PassSound(r)'
  <2>1. PassSound(r)
    BY DEF WatchInv
  <2>2. CASE reads[r].at = "wait" /\ ~reads[r].excused
    <3>1. AllClear
      BY <1>1, <2>1, <2>2 DEF PassSound
    <3>2. \A q \in barrier.began : q \in Reader /\ reads[q].inst \in Inst
      <4>1. barrier.began \subseteq Reader
        BY DEF WatchInv, WatchingTypeOK
      <4> QED BY <2>1, <2>2, <4>1 DEF WatchInv, PassSound, ReadSound, Passing
    <3>3. AllClear'
      BY <1>1, <1>2, <1>3, <1>5, <3>1, <3>2, ReadKept DEF AllClear
    <3>4. barrier'.mark <= barrier'.heard /\ barrier'.mark # barrier'.heard
      BY <1>2, <2>1, <2>2 DEF PassSound
    <3> QED BY <1>1, <1>2, <2>1, <2>2, <3>3, <3>4 DEF PassSound
  <2>3. CASE ~(reads[r].at = "wait" /\ ~reads[r].excused)
    BY <1>1, <1>2, <2>1, <2>3 DEF PassSound, Late
  <2> QED BY <2>2, <2>3
<1> QED BY <1>3, <1>6, <1>7, <1>8 DEF WatchInv

LEMMA ArriveKeeps ==
    ASSUME WatchInv, NEW r \in Reader, NEW i \in Inst, Arrive(r, i)
    PROVE  WatchInv'
<1>1. PICK now : now = [NotReading EXCEPT !.at = IF IsWatched(i) THEN "lock" ELSE "check",
                                          !.inst = i, !.arrived = tree]
  OBVIOUS
<1>2. /\ reads[r].at \in {"idle", "answered"} /\ reads' = [reads EXCEPT ![r] = now]
      /\ barrier' = [barrier EXCEPT !.covered = @ \ {r}, !.began = @ \ {r}]
      /\ UNCHANGED <<tree, events, loop, loopVars, workVars, runVars>>
  BY <1>1 DEF Arrive, loopVars
<1>3. /\ now.at = IF IsWatched(i) THEN "lock" ELSE "check"
      /\ now.inst = i /\ now.arrived = tree /\ ~now.excused /\ now \in ReadType
  BY <1>1, BarrierTypes DEF NotReading, ReadType, Unread
<1>4. reads' \in [Reader -> ReadType] /\ reads'[r] = now /\ \A q \in Reader : q # r => reads'[q] = reads[q]
  BY <1>2, <1>3, BarrierTypes
<1>5. /\ barrier' \in BarrierType /\ barrier'.heard = barrier.heard
      /\ barrier'.holder = barrier.holder /\ barrier'.mark = barrier.mark
      /\ barrier'.covered = barrier.covered \ {r} /\ barrier'.began = barrier.began \ {r}
      /\ barrier'.ranOut = barrier.ranOut /\ barrier'.awaited = barrier.awaited
  BY <1>2, BarrierTypes DEF BarrierType
<1>6. WatchingTypeOK'
  BY <1>2, <1>4, <1>5, BarrierTypes, ReadsTyped
<1>7. TableInv' /\ TableHolds' /\ StampsPast' /\ Fresh' /\ \A j \in Inst : NothingOlder(j)
  BY <1>2, <1>6, BesideTrees
<1>8. ReadSound(r)'
  <2>1. barrier.holder # r
    BY <1>2 DEF WatchInv, ReadSound
  <2>2. Coming(i, tree)'
    BY <1>7 DEF Fresh
  <2>3. ~IsWatched(i) => Up(i, tree)'
    BY <1>2 DEF Up, Holds, IsWatched, loopVars
  <2>4. reads'[r].inst = i /\ reads'[r].arrived = tree' /\ tree' <= tree'
    BY <1>2, <1>3, <1>4, BarrierTypes
  <2>5. Coming(reads[r].inst, reads[r].arrived)' /\ (~IsWatched(i) => ClearFor(r)')
    BY <2>2, <2>3, <2>4 DEF Coming, Reaches, ClearFor, Up
  <2>6. SeesChange(r)'
    BY <1>3, <1>4 DEF SeesChange
  <2> QED BY <1>3, <1>4, <1>5, <2>1, <2>4, <2>5, <2>6 DEF ReadSound
<1>9. ASSUME NEW q \in Reader, q # r
      PROVE  ReadSound(q)'
  BY <1>2, <1>4, <1>5, <1>6, <1>7, <1>9, OtherRead
<1>10. PassSound(r)'
  BY <1>3, <1>4 DEF PassSound
<1>11. ASSUME NEW q \in Reader, q # r
       PROVE  PassSound(q)'
  <2>1. \A x \in barrier'.began : reads'[x] = reads[x]
    <3>1. barrier.began \subseteq Reader
      BY BarrierTypes DEF BarrierType
    <3> QED BY <1>4, <1>5, <3>1
  <2> QED BY <1>2, <1>4, <1>5, <1>6, <1>7, <1>11, <2>1, OtherPass
<1> QED BY <1>6, <1>7, <1>8, <1>9, <1>10, <1>11 DEF WatchInv

\* A read takes its answer, or shares a barrier.
LEMMA ReadEnds ==
    ASSUME WatchInv, NEW r \in Reader, NEW now \in ReadType,
           reads' = [reads EXCEPT ![r] = now], reads[r].at \in {"lock", "check"},
           now.at \in {"check", "answered"}, now.inst = reads[r].inst,
           now.arrived = reads[r].arrived, reads[r].at = "lock" => barrier.holder = NoReader,
           UNCHANGED <<tree, events, loop, loopVars, workVars, runVars, barrier>>,
           now.at = "check" /\ ~now.excused => ClearFor(r),
           ~now.misled => SeesChange(r)'
    PROVE  WatchInv'
<1>1. reads' \in [Reader -> ReadType] /\ reads'[r] = now /\ \A q \in Reader : q # r => reads'[q] = reads[q]
  BY BarrierTypes
<1>2. WatchingTypeOK'
  BY <1>1, BarrierTypes, ReadsTyped
<1>3. TableInv' /\ TableHolds' /\ StampsPast' /\ Fresh' /\ \A j \in Inst : NothingOlder(j)
  BY <1>2, BesideTrees
<1>4. ReadSound(r) /\ reads[r].inst \in Inst
  BY DEF WatchInv, ReadSound
<1>5. ClearFor(r) => ClearFor(r)'
  BY <1>1, <1>2, <1>3, <1>4, ReadKept
<1>6. ReadSound(r)'
  BY <1>1, <1>4, <1>5 DEF ReadSound, Passing
<1>7. ASSUME NEW q \in Reader, q # r
      PROVE  ReadSound(q)'
  BY <1>1, <1>2, <1>3, <1>7, OtherRead
<1>8. PassSound(r)'
  BY <1>1 DEF PassSound
<1>9. ASSUME NEW q \in Reader, q # r
      PROVE  PassSound(q)'
  <2>1. reads[q].at \in {"touch", "wait"} => r \notin barrier.began
    <3> SUFFICES ASSUME reads[q].at \in {"touch", "wait"}, r \in barrier.began PROVE FALSE
      OBVIOUS
    <3>1. reads[r].at \in Passing /\ barrier.holder = q
      BY DEF WatchInv, PassSound, ReadSound
    <3> QED BY <3>1, WatchingAssumption DEF Passing
  <2>2. barrier.began \subseteq Reader
    BY BarrierTypes DEF BarrierType
  <2>3. reads[q].at \in {"touch", "wait"} => \A x \in barrier.began : reads'[x] = reads[x]
    BY <1>1, <2>1, <2>2
  <2> QED BY <1>1, <1>2, <1>3, <1>9, <2>3, OtherPass
<1> QED BY <1>2, <1>3, <1>6, <1>7, <1>8, <1>9 DEF WatchInv

LEMMA SharePassKeeps == ASSUME WatchInv, NEW r \in Reader, SharePass(r) PROVE WatchInv'
<1>1. PICK now : now = [reads[r] EXCEPT !.at = "check", !.excused = barrier.ranOut]
  OBVIOUS
<1>2. /\ reads[r].at = "lock" /\ barrier.holder = NoReader /\ r \in barrier.covered
      /\ UNCHANGED <<tree, events, loop, loopVars, workVars, runVars, barrier>>
  BY DEF SharePass, loopVars
<1>3. reads' = [reads EXCEPT ![r] = now]
  BY <1>1, BarrierTypes DEF SharePass
<1>4. /\ now \in ReadType /\ now.at = "check" /\ now.excused = barrier.ranOut
      /\ now.inst = reads[r].inst /\ now.arrived = reads[r].arrived
  <2>1. reads[r] \in ReadType /\ barrier.ranOut \in BOOLEAN
    BY BarrierTypes DEF BarrierType
  <2> QED BY <1>1, <2>1 DEF ReadType
<1>5. ~now.excused => ClearFor(r)
  BY <1>2, <1>4 DEF WatchInv, ReadSound
<1>6. SeesChange(r)'
  BY <1>3, <1>4, BarrierTypes DEF SeesChange
<1> QED BY <1>2, <1>3, <1>4, <1>5, <1>6, ReadEnds

LEMMA CheckRecordKeeps == ASSUME WatchInv, NEW r \in Reader, CheckRecord(r) PROVE WatchInv'
<1>1. PICK i : i = reads[r].inst
  OBVIOUS
<1>2. PICK misled, got : /\ misled = (i \in mistaken)
                         /\ got = IF IsValid(i) THEN kept[i].version ELSE Unread
  OBVIOUS
<1>0. PICK now : now = [reads[r] EXCEPT !.at = "answered", !.misled = misled, !.got = got]
  OBVIOUS
<1>3. /\ reads[r].at = "check"
      /\ UNCHANGED <<tree, events, loop, loopVars, workVars, runVars, barrier>>
  BY DEF CheckRecord, loopVars
<1>4. reads' = [reads EXCEPT ![r] = now]
  BY <1>1, <1>2, <1>0, BarrierTypes DEF CheckRecord
<1>5. i \in Inst /\ kept[i] \in Stamp
  BY <1>1, <1>3 DEF WatchInv, ReadSound, WatchingTypeOK
<1>6. /\ now \in ReadType /\ now.at = "answered" /\ now.misled = misled /\ now.got = got
      /\ now.inst = reads[r].inst /\ now.arrived = reads[r].arrived
      /\ now.excused = reads[r].excused
  <2>1. reads[r] \in ReadType /\ kept[i].version \in Version \cup {Unread}
    BY <1>5, BarrierTypes DEF Stamp
  <2>2. misled \in BOOLEAN /\ got \in Version \cup {Unread}
    BY <1>2, <2>1
  <2> QED BY <1>0, <2>1, <2>2 DEF ReadType
<1>7. ~now.misled => SeesChange(r)'
  <2> SUFFICES ASSUME i \notin mistaken, now.got # Unread, ~now.excused
               PROVE  now.got >= now.arrived
    BY <1>2, <1>4, <1>6, BarrierTypes DEF SeesChange
  <2>1. IsValid(i) /\ now.got = kept[i].version
    BY <1>2, <1>6
  <2>2. Holds(kept[i], i) /\ kept[i] \in Stamps(i)
    BY <2>1 DEF IsValid, Holds, Stamps
  <2>3. ClearFor(r)
    BY <1>3, <1>6 DEF WatchInv, ReadSound
  <2> QED BY <1>1, <1>6, <2>1, <2>2, <2>3 DEF ClearFor, Up
<1> QED BY <1>3, <1>4, <1>6, <1>7, ReadEnds

LEMMA BeginPassKeeps == ASSUME WatchInv, NEW r \in Reader, BeginPass(r) PROVE WatchInv'
<1>1. PICK now : now = [reads[r] EXCEPT !.at = "touch", !.excused = Late]
  OBVIOUS
<1>2. /\ reads[r].at = "lock" /\ barrier.holder = NoReader /\ barrier.passes < MaxPass
      /\ barrier' = [barrier EXCEPT !.holder = r, !.mark = barrier.heard, !.passes = @ + 1,
                                    !.began = {q \in Reader : reads[q].at = "lock"}]
      /\ UNCHANGED <<tree, events, loop, loopVars, workVars, runVars>>
  BY DEF BeginPass, loopVars
<1>3. reads' = [reads EXCEPT ![r] = now]
  BY <1>1, BarrierTypes DEF BeginPass
<1>4. /\ now \in ReadType /\ now.at = "touch" /\ (now.excused <=> Late)
      /\ now.inst = reads[r].inst /\ now.arrived = reads[r].arrived /\ now.misled = reads[r].misled
  <2>1. reads[r] \in ReadType /\ Late \in BOOLEAN
    BY BarrierTypes DEF Late
  <2> QED BY <1>1, <2>1 DEF ReadType
<1>5. /\ barrier' \in BarrierType /\ barrier'.heard = barrier.heard /\ barrier'.mark = barrier.heard
      /\ barrier'.holder = r /\ barrier'.covered = barrier.covered
      /\ barrier'.ranOut = barrier.ranOut
      /\ barrier'.began = {q \in Reader : reads[q].at = "lock"}
  <2>1. barrier.passes + 1 \in 0..MaxPass
    BY <1>2, BarrierTypes, WatchingAssumption DEF BarrierType
  <2> QED BY <1>2, <2>1, BarrierTypes DEF BarrierType
<1>6. reads' \in [Reader -> ReadType] /\ reads'[r] = now /\ \A q \in Reader : q # r => reads'[q] = reads[q]
  BY <1>3, <1>4, BarrierTypes
<1>7. WatchingTypeOK'
  BY <1>2, <1>5, <1>6, BarrierTypes, ReadsTyped
<1>8. TableInv' /\ TableHolds' /\ StampsPast' /\ Fresh' /\ \A j \in Inst : NothingOlder(j)
  BY <1>2, <1>7, BesideTrees
<1>9. \A q \in Reader : reads[q].at \notin {"touch", "wait"}
  BY <1>2, WatchingAssumption DEF WatchInv, ReadSound
<1>10. ReadSound(r)'
  <2>1. ReadSound(r) /\ reads[r].inst \in Inst /\ reads[r].at \in Passing
    BY <1>2 DEF WatchInv, ReadSound, Passing
  <2>2. Coming(reads[r].inst, reads[r].arrived)'
    BY <1>2, <1>4, <1>6, <1>7, <1>8, <2>1, ReadKept DEF ReadSound
  <2>3. SeesChange(r)'
    BY <1>4, <1>6 DEF SeesChange
  <2> QED BY <1>2, <1>4, <1>5, <1>6, <2>1, <2>2, <2>3 DEF ReadSound
<1>11. ASSUME NEW q \in Reader, q # r
       PROVE  ReadSound(q)'
  <2>1. barrier.holder # q
    BY <1>2, WatchingAssumption
  <2> QED BY <1>2, <1>5, <1>6, <1>7, <1>8, <1>11, <2>1, OtherRead
<1>12. PassSound(r)'
  <2>1. r \in barrier'.began /\ \A q \in barrier'.began : reads'[q].at \in Passing
    BY <1>2, <1>4, <1>5, <1>6 DEF Passing
  <2>2. Late' <=> Late
    BY <1>2 DEF Late
  <2> QED BY <1>4, <1>5, <1>6, <2>1, <2>2 DEF PassSound
<1>13. ASSUME NEW q \in Reader, q # r
       PROVE  PassSound(q)'
  BY <1>6, <1>9, <1>13 DEF PassSound
<1> QED BY <1>7, <1>8, <1>10, <1>11, <1>12, <1>13 DEF WatchInv

LEMMA TouchSentinelKeeps == ASSUME WatchInv, NEW r \in Reader, TouchSentinel(r) PROVE WatchInv'
<1>1. PICK e, delivers : e = NextSentinel /\ delivers = (barrier.mark > 0)
  OBVIOUS
<1>2. PICK at, excused, holder :
          /\ at = IF delivers THEN "wait" ELSE "check"
          /\ excused = (reads[r].excused \/ ~delivers)
          /\ holder = IF delivers THEN r ELSE NoReader
  OBVIOUS
<1>3. PICK now : now = [reads[r] EXCEPT !.at = at, !.excused = excused]
  OBVIOUS
<1>4. /\ reads[r].at = "touch" /\ events' = Append(events, e)
      /\ barrier' = [barrier EXCEPT !.awaited = e, !.holder = holder]
      /\ UNCHANGED <<tree, loop, loopVars, workVars, runVars>>
  BY <1>1, <1>2 DEF TouchSentinel, loopVars
<1>5. reads' = [reads EXCEPT ![r] = now]
  BY <1>1, <1>2, <1>3, BarrierTypes DEF TouchSentinel
<1>6. e \in 0..(Sentinels - 1) /\ e \in Event
  <2>1. barrier.awaited \in Nat
    BY BarrierTypes, WatchingAssumption DEF BarrierType
  <2> QED BY <1>1, <2>1, WatchingAssumption DEF NextSentinel, Event
<1>7. /\ now \in ReadType /\ now.at = at /\ now.excused = excused
      /\ now.inst = reads[r].inst /\ now.arrived = reads[r].arrived /\ now.misled = reads[r].misled
  <2>1. reads[r] \in ReadType /\ excused \in BOOLEAN /\ at \in {"wait", "check"}
    BY <1>2, BarrierTypes DEF ReadType
  <2> QED BY <1>3, <2>1 DEF ReadType
<1>8. /\ barrier' \in BarrierType /\ barrier'.heard = barrier.heard /\ barrier'.mark = barrier.mark
      /\ barrier'.holder = holder /\ barrier'.covered = barrier.covered
      /\ barrier'.ranOut = barrier.ranOut /\ barrier'.began = barrier.began
      /\ barrier'.awaited = e
  BY <1>2, <1>4, <1>6, BarrierTypes DEF BarrierType
<1>9. /\ reads' \in [Reader -> ReadType] /\ reads'[r] = now
      /\ \A q \in Reader : q # r => reads'[q] = reads[q]
      /\ events' \in Seq(Event)
  BY <1>4, <1>5, <1>6, <1>7, BarrierTypes
<1>10. WatchingTypeOK'
  BY <1>4, <1>8, <1>9, ReadsTyped
<1>11. TableInv' /\ TableHolds' /\ StampsPast' /\ Fresh' /\ \A j \in Inst : NothingOlder(j)
  BY <1>4, <1>10, BesideTrees
<1>12. ReadSound(r) /\ PassSound(r) /\ barrier.holder = r /\ reads[r].inst \in Inst
  BY <1>4 DEF WatchInv, ReadSound
<1>13. ReadSound(r)'
  <2>1. Coming(reads[r].inst, reads[r].arrived)
    BY <1>4, <1>12 DEF ReadSound, Passing
  <2>2. Coming(reads[r].inst, reads[r].arrived)'
    BY <1>4, <1>7, <1>9, <1>10, <1>11, <1>12, <2>1, ReadKept
  <2>3. SeesChange(r)'
    BY <1>2, <1>7, <1>9 DEF SeesChange
  <2>4. at \in {"touch", "wait"} <=> holder = r
    BY <1>2, WatchingAssumption
  <2>5. at = "check" => excused
    BY <1>2
  <2> QED BY <1>2, <1>4, <1>7, <1>8, <1>9, <1>12, <2>2, <2>3, <2>4, <2>5 DEF ReadSound
<1>14. ASSUME NEW q \in Reader, q # r
       PROVE  ReadSound(q)'
  <2>1. holder # q /\ barrier.holder # q
    BY <1>2, <1>12, <1>14, WatchingAssumption
  <2> QED BY <1>4, <1>8, <1>9, <1>10, <1>11, <1>14, <2>1, OtherRead
<1>15. PassSound(r)'
  <2>1. CASE delivers
    <3>1. r \in barrier.began /\ \A q \in barrier.began : q \in Reader /\ reads[q].at \in Passing
      <4>1. barrier.began \subseteq Reader
        BY BarrierTypes DEF BarrierType
      <4> QED BY <1>4, <1>12, <4>1 DEF PassSound
    <3>2. \A q \in barrier'.began : reads'[q].at \in Passing
      BY <1>2, <1>7, <1>8, <1>9, <2>1, <3>1 DEF Passing
    <3>3. ~excused => SentinelComes' /\ barrier'.mark = barrier'.heard /\ loop.at # "hearing"
      <4> SUFFICES ASSUME ~reads[r].excused
                   PROVE  SentinelComes' /\ barrier.mark = barrier.heard /\ loop.at # "hearing"
        BY <1>2, <1>8
      <4>1. barrier.mark = barrier.heard /\ ~Late
        BY <1>4, <1>12 DEF PassSound
      <4>2. loop.at # "hearing" /\ \A k \in 1..Len(events) : events[k] = TreeEvent
        BY <4>1 DEF Late
      <4>3. PICK p : p = Len(events) + 1
        OBVIOUS
      <4>4. p \in 1..Len(events') /\ events'[p] = e /\ p \in 1..(Len(events) + 1)
            /\ \A k \in 1..Len(events') : k # p => k \in 1..Len(events) /\ events'[k] = events[k]
        BY <1>4, <4>3, BarrierTypes
      <4>5. OnlySentinel(p)'
        BY <4>2, <4>4 DEF OnlySentinel
      <4>6. ASSUME NEW q \in barrier.began
            PROVE  Reaches(reads[q].inst, reads[q].arrived, p)'
        <5>1. q \in Reader /\ reads[q].inst \in Inst /\ Coming(reads[q].inst, reads[q].arrived)
          BY <3>1 DEF WatchInv, ReadSound, Passing
        <5>2. Reaches(reads[q].inst, reads[q].arrived, p)
          BY <4>3, <5>1 DEF Coming
        <5>3. reads'[q].inst = reads[q].inst /\ reads'[q].arrived = reads[q].arrived
          BY <1>7, <1>9, <5>1
        <5> QED BY <1>4, <1>10, <1>11, <4>4, <5>1, <5>2, <5>3, ReadKept
      <4> QED BY <1>8, <4>1, <4>2, <4>4, <4>5, <4>6 DEF SentinelComes
    <3>4. barrier.heard \in Nat
      BY BarrierTypes DEF BarrierType
    <3>5. loop' = loop
      BY <1>4
    <3> QED BY <1>2, <1>7, <1>8, <1>9, <2>1, <3>1, <3>2, <3>3, <3>4, <3>5 DEF PassSound
  <2>2. CASE ~delivers
    BY <1>2, <1>7, <1>9, <2>2 DEF PassSound
  <2> QED BY <2>1, <2>2
<1>16. ASSUME NEW q \in Reader, q # r
       PROVE  PassSound(q)'
  <2>1. reads[q].at \notin {"touch", "wait"}
    BY <1>12, <1>16 DEF WatchInv, ReadSound
  <2> QED BY <1>9, <1>16, <2>1 DEF PassSound
<1> QED BY <1>10, <1>11, <1>13, <1>14, <1>15, <1>16 DEF WatchInv

LEMMA EndPassKeeps == ASSUME WatchInv, NEW r \in Reader, EndPass(r) PROVE WatchInv'
<1>1. PICK ranOut \in BOOLEAN :
          /\ ~ranOut => barrier.heard # barrier.mark
          /\ reads' = [reads EXCEPT ![r].at = "check", ![r].excused = @ \/ ranOut]
          /\ barrier' = [barrier EXCEPT !.holder = NoReader, !.ranOut = reads[r].excused \/ ranOut,
                                        !.covered = barrier.began, !.began = {}]
  BY DEF EndPass
<1>2. PICK excused : excused = (reads[r].excused \/ ranOut)
  OBVIOUS
<1>3. PICK now : now = [reads[r] EXCEPT !.at = "check", !.excused = excused]
  OBVIOUS
<1>4. /\ reads[r].at = "wait" /\ UNCHANGED <<tree, events, loop, loopVars, workVars, runVars>>
      /\ reads' = [reads EXCEPT ![r] = now]
      /\ barrier' = [barrier EXCEPT !.holder = NoReader, !.ranOut = excused,
                                    !.covered = barrier.began, !.began = {}]
  BY <1>1, <1>2, <1>3, BarrierTypes DEF EndPass, loopVars
<1>5. /\ now \in ReadType /\ now.at = "check" /\ now.excused = excused
      /\ now.inst = reads[r].inst /\ now.arrived = reads[r].arrived /\ now.misled = reads[r].misled
  <2>1. reads[r] \in ReadType /\ excused \in BOOLEAN
    BY <1>2, BarrierTypes DEF ReadType
  <2> QED BY <1>3, <2>1 DEF ReadType
<1>6. /\ barrier' \in BarrierType /\ barrier'.holder = NoReader /\ barrier'.ranOut = excused
      /\ barrier'.covered = barrier.began /\ barrier'.began = {}
  <2>1. excused \in BOOLEAN
    BY <1>2
  <2> QED BY <1>4, <2>1, BarrierTypes DEF BarrierType
<1>7. /\ reads' \in [Reader -> ReadType] /\ reads'[r] = now
      /\ \A q \in Reader : q # r => reads'[q] = reads[q]
  BY <1>4, <1>5, BarrierTypes
<1>8. WatchingTypeOK'
  BY <1>4, <1>6, <1>7, BarrierTypes, ReadsTyped
<1>9. TableInv' /\ TableHolds' /\ StampsPast' /\ Fresh' /\ \A j \in Inst : NothingOlder(j)
  BY <1>4, <1>8, BesideTrees
<1>10. ReadSound(r) /\ PassSound(r) /\ barrier.holder = r /\ reads[r].inst \in Inst
  BY <1>4 DEF WatchInv, ReadSound
<1>11. r \in barrier.began /\ (~excused => AllClear)
  <2>1. ~excused => ~reads[r].excused /\ ~ranOut
    BY <1>2
  <2> QED BY <1>1, <1>4, <1>10, <2>1 DEF PassSound
<1>12. ReadSound(r)'
  <2>1. ~excused => ClearFor(r)
    BY <1>11 DEF AllClear
  <2>2. ClearFor(r) => ClearFor(r)'
    BY <1>4, <1>5, <1>7, <1>8, <1>9, <1>10, ReadKept
  <2>3. SeesChange(r)'
    BY <1>5, <1>7 DEF SeesChange
  <2> QED BY <1>4, <1>5, <1>6, <1>7, <1>10, <2>1, <2>2, <2>3, WatchingAssumption
          DEF ReadSound, Passing
<1>13. ASSUME NEW q \in Reader, q # r
       PROVE  ReadSound(q)'
  <2>1. barrier'.holder # q /\ barrier.holder # q
    BY <1>6, <1>10, <1>13, WatchingAssumption
  <2>2. q \in barrier'.covered /\ ~barrier'.ranOut => ClearFor(q)
    BY <1>6, <1>11 DEF AllClear
  <2> QED BY <1>4, <1>7, <1>8, <1>9, <1>13, <2>1, <2>2, OtherRead
<1>14. ASSUME NEW q \in Reader
       PROVE  PassSound(q)'
  <2>1. q # r => reads[q].at \notin {"touch", "wait"}
    BY <1>10 DEF WatchInv, ReadSound
  <2> QED BY <1>5, <1>7, <2>1 DEF PassSound
<1> QED BY <1>8, <1>9, <1>12, <1>13, <1>14 DEF WatchInv

LEMMA WatchInitInv == WatchingInit => WatchInv
<1> SUFFICES ASSUME WatchingInit PROVE WatchInv
  OBVIOUS
<1> USE WatchingAssumption DEF WatchingInit
<1>1. WatchingTypeOK
  <2>1. None \in Stamp /\ NotReading \in ReadType /\ 1 \in Version
    BY DEF None, Stamp, NotReading, ReadType, Version, Unread
  <2>2. running \in [Inst -> Stamp] /\ kept \in [Inst -> Stamp] /\ reads \in [Reader -> ReadType]
        /\ tree \in Version /\ ran \in [Inst -> 0..MaxRunOf]
    BY <2>1
  <2>3. barrier \in BarrierType
    BY DEF BarrierType
  <2>4. loop \in [at : {"free", "unwatching", "hearing"}, of : Inst \cup {NoInst}]
    BY DEF Free
  <2>5. /\ trees \in [Inst -> [gen : Nat, gone : BOOLEAN, changes : Nat]]
        /\ table \in [ask : Nat, asks : 0..MaxAsk, state : {"none", "pending", "active", "failed"}]
        /\ events \in Seq(Event) /\ commands \in Seq(0..MaxAsk)
    OBVIOUS
  <2> QED BY <2>2, <2>3, <2>4, <2>5 DEF WatchingTypeOK, BarrierType, ReadType
<1>2. TableInv
  BY DEF TableInv, TableTellsTheTruth
<1>3. \A i \in Inst : ~IsWatched(i)
  BY DEF IsWatched
<1>4. TableHolds /\ Fresh
  BY <1>3 DEF TableHolds, Fresh, Coming, Reaches, Holds
<1>5. StampsPast
  <2>1. \A i \in Inst : \A s \in Stamps(i) : s = None
    BY DEF Stamps
  <2> QED BY <2>1 DEF StampsPast, None, Unread
<1>6. \A r \in Reader : reads[r].at = "idle" /\ reads[r].arrived = 1 /\ barrier.holder # r
  BY DEF NotReading
<1>7. \A r \in Reader : ReadSound(r) /\ PassSound(r)
  BY <1>6 DEF ReadSound, PassSound, Passing, SeesChange
<1> QED BY <1>1, <1>2, <1>4, <1>5, <1>7 DEF WatchInv

LEMMA WatchStutters == ASSUME WatchInv, UNCHANGED watchVars PROVE WatchInv'
<1> USE DEF watchVars, loopVars, workVars, runVars
<1>1. WatchingTypeOK'
  BY DEF WatchInv, WatchingTypeOK
<1>2. \A i \in Inst : NothingOlder(i)
  BY SameTrees
<1>3. tree' >= tree
  BY BarrierTypes
<1>4. TableInv' /\ TableHolds' /\ StampsPast' /\ Fresh'
  BY <1>1, BesideTrees
<1>5. \A r \in Reader : ReadSound(r)' /\ PassSound(r)'
  BY <1>1, <1>2, <1>3, BesideReads
<1> QED BY <1>1, <1>4, <1>5 DEF WatchInv

LEMMA WatchStepInv == WatchInv /\ [WatchingNext]_watchVars => WatchInv'
<1> SUFFICES ASSUME WatchInv, [WatchingNext]_watchVars PROVE WatchInv'
  OBVIOUS
<1>1. CASE UNCHANGED watchVars
  BY <1>1, WatchStutters
<1>2. CASE \/ ChangeTree \/ TakeCommand \/ Register \/ TreeUnwatched \/ TakeSettled \/ HearEvent
           \/ Heard
  BY <1>2, ChangeTreeKeeps, WorkerKeeps, TreeUnwatchedKeeps, TakeSettledKeeps, HearChangeKeeps,
     HearSentinelKeeps, HeardKeeps
<1>3. CASE \E i \in Inst : \/ StampRun(i) \/ StoreRun(i) \/ DemandWatch(i)
                           \/ Retry(i) \/ DropWatch(i) \/ ForgetTree(i)
  BY <1>3, StampRunKeeps, KeepKeeps, DemandWatchKeeps, WorkerKeeps, DropWatchKeeps
<1>4. CASE \E r \in Reader : \/ SharePass(r) \/ BeginPass(r) \/ TouchSentinel(r)
                             \/ EndPass(r) \/ CheckRecord(r)
                             \/ \E i \in Inst : Arrive(r, i)
  BY <1>4, SharePassKeeps, BeginPassKeeps, TouchSentinelKeeps, EndPassKeeps, CheckRecordKeeps,
     ArriveKeeps
<1> QED BY <1>1, <1>2, <1>3, <1>4 DEF WatchingNext

LEMMA WatchEver == WatchingSpec => []WatchInv
<1> QED BY WatchInitInv, WatchStepInv, PTL DEF WatchingSpec

\* The registrar's table tells the truth, however often and in whatever order
\* the path is asked for, dropped and registered.
THEOREM TableTellsTheTruthEver == WatchingSpec => []TableTellsTheTruth
<1>1. WatchInv => TableTellsTheTruth
  BY DEF WatchInv, TableInv
<1> QED BY <1>1, WatchEver, PTL

\* A read straight after a change sees it, for any number of instances, readers
\* and changes and however watches come and go: what a record the cache gives
\* as valid was stamped with is older than no change whose event was heard, and
\* the barrier has those heard that came before the read.
THEOREM ReadSeesChangeEver == WatchingSpec => []ReadSeesChange
<1>1. WatchInv => ReadSeesChange
  BY DEF WatchInv, ReadSound, ReadSeesChange
<1> QED BY <1>1, WatchEver, PTL

-----------------------------------------------------------------------------
(* The watch of a resolved value. *)

\* The resolution the client is in, or the one it waits on.
AsRead == IF does = "wait" THEN read ELSE readNow

\* A watch is of what was read; the opening resolution has none.
WatchesRead ==
    /\ does = "open" => rounds = 0 /\ \A a \in Address : fanned[a].at = "none"
    /\ does \in {"resolve", "wait"} =>
           \A a \in Address : fanned[a].at # "none" => a \in DOMAIN read
    /\ does = "wait" => DOMAIN readNow = {}
    /\ does \notin {"write", "ended"} => missed = {}
    /\ \A a \in Address : fanned[a].at \in {"none", "asked"} =>
           fanned[a].frames = <<>> /\ ~fanned[a].opened

\* What was read of the addresses in S names none outside it.
Leads(f, S) ==
    Root \in S /\ \A a \in S \cap DOMAIN f : f[a] # Refused => Reads[a][f[a].is] \subseteq S

\* A resolution reads what it has to, and no more.
Least(f) == \A S \in SUBSET Address : Leads(f, S) => DOMAIN f \subseteq S

ReadWhole ==
    /\ Least(readNow) /\ Least(read)
    /\ does = "write" => Leads(readNow, DOMAIN readNow)
    /\ does \in {"resolve", "wait"} => Leads(read, DOMAIN read)

\* The memos answer for what was read, but for those to be written.
MemosStand(f) ==
    \A a \in Cached \cap DOMAIN f :
        f[a] # Refused => a \in missed \/ memo[a].hash = HashOf(a, f)

\* No data is new: only memos the resolutions wrote may be.
Steady ==
    /\ \A a \in DOMAIN AsRead : Data(AsRead[a]) = node[a]
    /\ \A a \in Address : \A i \in 1..Len(fanned[a].frames) :
           Data(fanned[a].frames[i]) = node[a]
    /\ does \in {"open", "resolve"} => \A a \in DOMAIN readNow : readNow[a] = There(a)
    /\ does \in {"write", "wait"} => MemosStand(AsRead)

\* The last resolution that came to a value.
LastRead == IF does = "write" THEN readNow ELSE read

\* Nothing is new, and no memo is to be written.
Still ==
    /\ missed = {}
    /\ \A a \in DOMAIN AsRead : AsRead[a] = There(a)
    /\ \A a \in Address : \A i \in 1..Len(fanned[a].frames) :
           fanned[a].frames[i] = There(a)
    /\ \A a \in DOMAIN LastRead : Data(LastRead[a]) = node[a]
    /\ MemosStand(LastRead)

\* Each change pays for two rounds: one for what it changed, one for the memos
\* the first wrote.  With one left to pay for no data is new, with none nothing.
RoundsPaid ==
    /\ rounds <= 2 * changes + 1
    /\ does # "ended" /\ 2 * changes <= rounds => Steady
    /\ does # "ended" /\ rounds = 2 * changes + 1 => Still

\* What a stream sent last is the last of its frames, and is what there is, unless
\* it was woken.
SentLast ==
    \A a \in Address :
        /\ fanned[a].at = "open" => fanned[a].woken \/ fanned[a].sent = There(a)
        /\ fanned[a].at = "open" /\ fanned[a].frames # <<>> =>
               fanned[a].frames[Len(fanned[a].frames)] = fanned[a].sent
        /\ fanned[a].at = "ended" => fanned[a].frames = <<Refused>> /\ ~fanned[a].opened

\* Of what was read in f, the client is told whatever is no longer so.
WillBeTold(f) ==
    \A a \in DOMAIN f :
        fanned[a].at = "open" /\ fanned[a].frames = <<>> =>
            fanned[a].woken \/ f[a] = There(a) \/ a \in wentBack

WillHear ==
    /\ does \in {"open", "resolve", "write"} => WillBeTold(readNow)
    /\ does = "wait" /\ ~failed => WillBeTold(read)
    /\ does \in {"resolve", "wait"} =>
       \A a \in DOMAIN read : fanned[a].at = "none" => a \in refusedAt

FanInInv ==
    /\ FanInTypeOK /\ WatchesRead /\ ReadWhole /\ RoundsPaid /\ SentLast /\ WillHear

\* The fields of a watch, and the types of what the client holds of it.
LEMMA WatchIs ==
    ASSUME FanInTypeOK, NEW a \in Address
    PROVE  /\ fanned[a] \in Watch /\ fanned[a].frames \in Seq(Frame)
           /\ fanned[a].at \in {"none", "asked", "open", "ended"}
           /\ fanned[a].sent \in Frame
           /\ node[a] \in Shown \cup {Refused} /\ memo[a] \in LeafMemo
<1>1. /\ fanned \in [Address -> Watch] /\ memo \in [Address -> LeafMemo]
      /\ node \in [Address -> Shown \cup {Refused}]
  BY DEF FanInTypeOK
<1>2. /\ fanned[a] \in Watch /\ memo[a] \in LeafMemo
      /\ node[a] \in Shown \cup {Refused}
  BY <1>1
<1>3. /\ fanned[a].frames \in Seq(Frame) /\ fanned[a].sent \in Frame
      /\ fanned[a].at \in {"none", "asked", "open", "ended"}
  BY <1>2 DEF Watch
<1> QED BY <1>2, <1>3

\* What a read answers is a frame, of what there is.
LEMMA ThereIs ==
    ASSUME FanInTypeOK, NEW a \in Address
    PROVE  /\ There(a) \in Frame /\ Data(There(a)) = node[a]
           /\ There(a) = Refused <=> node[a] = Refused
           /\ node[a] # Refused => There(a).is = node[a] /\ There(a).memo = memo[a]
<1>1. node[a] \in Shown \cup {Refused} /\ memo[a] \in LeafMemo
  BY WatchIs
<1>2. CASE node[a] = Refused
  BY <1>2 DEF There, Data, Frame
<1>3. CASE node[a] # Refused
  <2> DEFINE t == [is |-> node[a], memo |-> memo[a]]
  <2>1. There(a) = t
    BY <1>3 DEF There
  <2>2. t \in NodeFrame /\ t.is = node[a] /\ t.memo = memo[a]
    BY <1>1, <1>3 DEF NodeFrame
  <2> HIDE DEF t
  <2>3. t # Refused
    BY <2>2, FanInAssumption
  <2> QED BY <1>3, <2>1, <2>2, <2>3 DEF Data, Frame
<1> QED BY <1>2, <1>3

\* The data of a frame is that of a node; where it is not refused, it is shown.
LEMMA DataIs ==
    ASSUME NEW f \in Frame
    PROVE  /\ Data(f) \in Shown \cup {Refused}
           /\ Data(f) = Refused <=> f = Refused
           /\ f # Refused => Data(f) = f.is /\ f.is \in Shown
<1>1. CASE f = Refused
  BY <1>1 DEF Data
<1>2. CASE f # Refused
  BY <1>2, FanInAssumption DEF Data, Frame, NodeFrame
<1> QED BY <1>1, <1>2

LEMMA HashIs ==
    ASSUME NEW a, NEW f, \A b \in DOMAIN f : f[b] \in Frame
    PROVE  HashOf(a, f) \in Hash
BY DataIs DEF HashOf, Hash

\* Two readings with the same data have the same hashes.
LEMMA HashSame ==
    ASSUME NEW a, NEW f, NEW g, DOMAIN f = DOMAIN g,
           \A b \in DOMAIN f : Data(f[b]) = Data(g[b])
    PROVE  HashOf(a, f) = HashOf(a, g)
BY DEF HashOf

LEMMA NoWatchIs ==
    /\ NoWatch \in Watch /\ NoWatch.at = "none" /\ NoWatch.frames = <<>>
    /\ ~NoWatch.opened /\ ~[NoWatch EXCEPT !.at = "asked"].opened
    /\ [NoWatch EXCEPT !.at = "asked"] \in Watch
    /\ [NoWatch EXCEPT !.at = "asked"].at = "asked"
    /\ [NoWatch EXCEPT !.at = "asked"].frames = <<>>
<1>1. <<>> \in Seq(Frame) /\ Refused \in Frame
  BY DEF Frame
<1>2. NoWatch \in Watch
  BY <1>1 DEF NoWatch, Watch
<1>3. \A w \in Watch : [w EXCEPT !.at = "asked"] =
          [at |-> "asked", sent |-> w.sent, woken |-> w.woken, frames |-> w.frames,
           opened |-> w.opened]
  BY DEF Watch
<1>4. [NoWatch EXCEPT !.at = "asked"] =
          [at |-> "asked", sent |-> Refused, woken |-> FALSE, frames |-> <<>>,
           opened |-> FALSE]
  BY <1>2, <1>3 DEF NoWatch
<1>5. [at |-> "asked", sent |-> Refused, woken |-> FALSE, frames |-> <<>>,
       opened |-> FALSE] \in Watch
  BY <1>1 DEF Watch
<1>6. NoWatch.at = "none" /\ NoWatch.frames = <<>> /\ ~NoWatch.opened
  BY DEF NoWatch
<1> QED BY <1>2, <1>4, <1>5, <1>6

\* A change wakes whoever watches, and touches nothing else of any watch.
LEMMA WakesIs ==
    ASSUME FanInTypeOK, NEW a \in Address
    PROVE  /\ Wakes(a) \in [Address -> Watch]
           /\ \A b \in Address :
                /\ Wakes(a)[b].at = fanned[b].at /\ Wakes(a)[b].sent = fanned[b].sent
                /\ Wakes(a)[b].frames = fanned[b].frames
                /\ Wakes(a)[b].opened = fanned[b].opened
                /\ fanned[b].woken => Wakes(a)[b].woken
                /\ b = a /\ fanned[a].at = "open" => Wakes(a)[b].woken
<1>1. fanned \in [Address -> Watch] /\ fanned[a] \in Watch
  BY WatchIs DEF FanInTypeOK
<1> DEFINE w == fanned[a].woken \/ fanned[a].at = "open"
           r == [at |-> fanned[a].at, sent |-> fanned[a].sent, woken |-> w,
                 frames |-> fanned[a].frames, opened |-> fanned[a].opened]
<1>2. w \in BOOLEAN /\ (fanned[a].woken => w) /\ (fanned[a].at = "open" => w)
      /\ (w => fanned[a].woken \/ fanned[a].at = "open")
  OBVIOUS
<1>3. Wakes(a) = [fanned EXCEPT ![a] = r]
  <2>1. Wakes(a) = [fanned EXCEPT ![a] = [fanned[a] EXCEPT !.woken = w]]
    BY DEF Wakes
  <2> HIDE DEF w
  <2>2. \A v \in Watch : [v EXCEPT !.woken = w] =
            [at |-> v.at, sent |-> v.sent, woken |-> w, frames |-> v.frames,
             opened |-> v.opened]
    BY DEF Watch
  <2>3. [fanned[a] EXCEPT !.woken = w] = r
    BY <1>1, <2>2
  <2> QED BY <2>1, <2>3
<1> HIDE DEF w
<1>4. /\ r \in Watch /\ r.at = fanned[a].at /\ r.sent = fanned[a].sent
      /\ r.frames = fanned[a].frames /\ r.opened = fanned[a].opened /\ r.woken = w
  BY <1>1, <1>2 DEF Watch
<1> HIDE DEF r
<1>5. /\ Wakes(a)[a] = r
      /\ \A b \in Address : b # a => Wakes(a)[b] = fanned[b]
      /\ Wakes(a) \in [Address -> Watch]
  BY <1>1, <1>3, <1>4
<1> QED BY <1>2, <1>4, <1>5

LEMMA FanInInitInv ==
    ASSUME FanInInit PROVE FanInInv
<1>1. /\ DOMAIN read = {} /\ DOMAIN readNow = {} /\ does = "open" /\ missed = {}
      /\ \A a \in Address : fanned[a] = NoWatch
      /\ fanned = [a \in Address |-> NoWatch]
      /\ rounds = 0 /\ changes = 0
  BY DEF FanInInit, NothingRead
<1>2. memo \in [Address -> LeafMemo]
  <2>1. PICK live \in SUBSET Cached, v \in Output :
          memo = [a \in Address |-> IF a \in live
                                      THEN [hash |-> HashNow(a), out |-> v] ELSE NoMemo]
    BY DEF FanInInit
  <2>2. NoMemo \in LeafMemo
    BY DEF NoMemo, LeafMemo
  <2>3. ASSUME NEW a \in Address PROVE [hash |-> HashNow(a), out |-> v] \in LeafMemo
    <3>1. HashNow(a) \in Hash
      BY DEF HashNow, Hash, FanInInit
    <3> QED BY <3>1 DEF LeafMemo
  <2> QED BY <2>1, <2>2, <2>3
<1>3. FanInTypeOK
  <2>1. fanned \in [Address -> Watch]
    BY <1>1, NoWatchIs
  <2>2. /\ node \in [Address -> Shown \cup {Refused}] /\ due \subseteq Executes
        /\ going \subseteq Executes /\ serving \in BOOLEAN /\ forced \in BOOLEAN
        /\ failed \in BOOLEAN /\ wentBack \subseteq Address /\ refusedAt \subseteq Address
    BY DEF FanInInit
  <2> QED BY <1>1, <1>2, <2>1, <2>2 DEF FanInTypeOK
<1>4. WatchesRead
  BY <1>1, NoWatchIs DEF FanInInit, WatchesRead
<1>5. ReadWhole
  BY <1>1 DEF ReadWhole, Least
<1>6. Steady
  <2>1. \A a \in Address : fanned[a].frames = <<>>
    BY <1>1, NoWatchIs
  <2>2. DOMAIN AsRead = {}
    BY <1>1 DEF AsRead
  <2>3. Len(<<>>) = 0
    OBVIOUS
  <2> QED BY <1>1, <2>1, <2>2, <2>3 DEF Steady
<1>7. RoundsPaid
  BY <1>1, <1>6 DEF RoundsPaid
<1>8. SentLast /\ WillHear
  BY <1>1, NoWatchIs DEF SentLast, WillHear, WillBeTold
<1> QED BY <1>3, <1>4, <1>5, <1>7, <1>8 DEF FanInInv

\* What the daemon holds is another at one address at most, and who watches it is
\* woken.
TouchedOnly(a) ==
    /\ \A b \in Address : b # a => node'[b] = node[b] /\ memo'[b] = memo[b]
    /\ \/ fanned' = Wakes(a)
       \/ fanned' = fanned /\ node' = node /\ memo' = memo

LEMMA TouchedIs ==
    ASSUME FanInTypeOK, NEW a \in Address, TouchedOnly(a)
    PROVE  /\ fanned' \in [Address -> Watch]
           /\ \A b \in Address :
                /\ fanned'[b].at = fanned[b].at /\ fanned'[b].sent = fanned[b].sent
                /\ fanned'[b].frames = fanned[b].frames
                /\ fanned'[b].opened = fanned[b].opened
                /\ fanned[b].woken => fanned'[b].woken
                /\ \/ There(b)' = There(b)
                   \/ fanned[b].at = "open" => fanned'[b].woken
<1>1. fanned \in [Address -> Watch]
  BY DEF FanInTypeOK
<1>2. CASE fanned' = Wakes(a)
  <2>1. ASSUME NEW b \in Address, b # a PROVE There(b)' = There(b)
    BY <2>1 DEF TouchedOnly, There
  <2> QED BY <1>2, <2>1, WakesIs
<1>3. CASE fanned' = fanned /\ node' = node /\ memo' = memo
  <2>1. \A b \in Address : There(b)' = There(b)
    BY <1>3 DEF There
  <2> QED BY <1>1, <1>3, <2>1
<1> QED BY <1>2, <1>3 DEF TouchedOnly

LEMMA TouchedSent ==
    ASSUME FanInTypeOK, SentLast, NEW a \in Address, TouchedOnly(a)
    PROVE  SentLast'
<1> SUFFICES ASSUME NEW b \in Address
             PROVE  /\ fanned'[b].at = "open" =>
                           fanned'[b].woken \/ fanned'[b].sent = There(b)'
                    /\ fanned'[b].at = "open" /\ fanned'[b].frames # <<>> =>
                           fanned'[b].frames[Len(fanned'[b].frames)] = fanned'[b].sent
                    /\ fanned'[b].at = "ended" =>
                           fanned'[b].frames = <<Refused>> /\ ~fanned'[b].opened
  BY DEF SentLast
<1>1. /\ fanned'[b].at = fanned[b].at /\ fanned'[b].sent = fanned[b].sent
      /\ fanned'[b].frames = fanned[b].frames
      /\ fanned'[b].opened = fanned[b].opened
      /\ fanned[b].woken => fanned'[b].woken
      /\ There(b)' = There(b) \/ (fanned[b].at = "open" => fanned'[b].woken)
  BY TouchedIs
<1>2. /\ fanned[b].at = "open" => fanned[b].woken \/ fanned[b].sent = There(b)
      /\ fanned[b].at = "open" /\ fanned[b].frames # <<>> =>
             fanned[b].frames[Len(fanned[b].frames)] = fanned[b].sent
      /\ fanned[b].at = "ended" => fanned[b].frames = <<Refused>> /\ ~fanned[b].opened
  BY DEF SentLast
<1> QED BY <1>1, <1>2

\* What the client will be told of it after the step.
TellsNext(f) ==
    \A a \in DOMAIN f :
        fanned'[a].at = "open" /\ fanned'[a].frames = <<>> =>
            fanned'[a].woken \/ f[a] = There(a)' \/ a \in wentBack'

LEMMA TouchedTold ==
    ASSUME FanInTypeOK, NEW a \in Address, TouchedOnly(a), wentBack' = wentBack,
           NEW f, DOMAIN f \subseteq Address, WillBeTold(f)
    PROVE  TellsNext(f)
<1> SUFFICES ASSUME NEW b \in DOMAIN f, fanned'[b].at = "open", fanned'[b].frames = <<>>
             PROVE  fanned'[b].woken \/ f[b] = There(b)' \/ b \in wentBack
  BY DEF TellsNext
<1>1. b \in Address
  OBVIOUS
<1>2. /\ fanned'[b].at = fanned[b].at /\ fanned'[b].frames = fanned[b].frames
      /\ fanned[b].woken => fanned'[b].woken
      /\ There(b)' = There(b) \/ (fanned[b].at = "open" => fanned'[b].woken)
  BY <1>1, TouchedIs
<1>3. fanned[b].woken \/ f[b] = There(b) \/ b \in wentBack
  BY <1>2 DEF WillBeTold
<1> QED BY <1>2, <1>3

LEMMA ToldThen ==
    ASSUME NEW f, TellsNext(f)
    PROVE  (read' = f => WillBeTold(read)') /\ (readNow' = f => WillBeTold(readNow)')
BY DEF TellsNext, WillBeTold

\* A change pays for two more rounds.
LEMMA ChangePays ==
    ASSUME RoundsPaid, FanInTypeOK, changes' = changes + 1, rounds' = rounds
    PROVE  RoundsPaid'
<1>1. rounds \in Nat /\ changes \in Nat /\ rounds <= 2 * changes + 1
  BY DEF RoundsPaid, FanInTypeOK
<1>2. rounds' < 2 * changes'
  BY <1>1
<1> QED BY <1>1, <1>2 DEF RoundsPaid

\* A step of others: what they change is paid for, and heard of.
LEMMA OthersKeep ==
    ASSUME FanInInv, NEW a \in Address, TouchedOnly(a), changes' = changes + 1,
           UNCHANGED <<serving, clientVars, wentBack>>,
           due' \subseteq Executes, going' \subseteq Executes,
           node' \in [Address -> Shown \cup {Refused}], memo' \in [Address -> LeafMemo]
    PROVE  FanInInv'
<1>1. FanInTypeOK /\ WatchesRead /\ ReadWhole /\ RoundsPaid /\ SentLast /\ WillHear
  BY DEF FanInInv
<1>2. /\ does' = does /\ forced' = forced /\ readNow' = readNow /\ missed' = missed
      /\ read' = read /\ rounds' = rounds /\ refusedAt' = refusedAt /\ failed' = failed
      /\ wentBack' = wentBack /\ serving' = serving
  BY DEF clientVars
<1>3. /\ fanned' \in [Address -> Watch]
      /\ \A b \in Address :
           /\ fanned'[b].at = fanned[b].at /\ fanned'[b].frames = fanned[b].frames
           /\ fanned'[b].opened = fanned[b].opened
  BY <1>1, TouchedIs
<1>4. FanInTypeOK'
  BY <1>1, <1>2, <1>3 DEF FanInTypeOK
<1>5. WatchesRead'
  BY <1>1, <1>2, <1>3 DEF WatchesRead
<1>6. ReadWhole'
  BY <1>1, <1>2 DEF ReadWhole
<1>7. RoundsPaid'
  BY <1>1, <1>2, ChangePays
<1>8. SentLast'
  BY <1>1, TouchedSent
<1>9. WillHear'
  <2>1. DOMAIN read \subseteq Address /\ DOMAIN readNow \subseteq Address
    BY <1>1 DEF FanInTypeOK
  <2>2. WillBeTold(readNow) => WillBeTold(readNow)'
    BY <1>1, <1>2, <2>1, TouchedTold, ToldThen
  <2>3. WillBeTold(read) => WillBeTold(read)'
    BY <1>1, <1>2, <2>1, TouchedTold, ToldThen
  <2>4. \A b \in DOMAIN read : fanned'[b].at = fanned[b].at
    BY <1>3, <2>1
  <2> QED BY <1>1, <1>2, <2>2, <2>3, <2>4 DEF WillHear
<1> QED BY <1>4, <1>5, <1>6, <1>7, <1>8, <1>9 DEF FanInInv

LEMMA ChangeNodeKeeps ==
    ASSUME FanInInv, NEW a \in Address, NEW v \in Shown, ChangeNode(a, v)
    PROVE  FanInInv'
<1>1. /\ node' = [node EXCEPT ![a] = v] /\ changes' = changes + 1 /\ fanned' = Wakes(a)
      /\ UNCHANGED <<memo, due, going, serving, clientVars, wentBack>>
  BY DEF ChangeNode
<1>2. /\ node \in [Address -> Shown \cup {Refused}] /\ memo \in [Address -> LeafMemo]
      /\ due \subseteq Executes /\ going \subseteq Executes
  BY DEF FanInInv, FanInTypeOK
<1>3. /\ node' \in [Address -> Shown \cup {Refused}]
      /\ \A b \in Address : b # a => node'[b] = node[b]
  BY <1>1, <1>2
<1>4. TouchedOnly(a)
  BY <1>1, <1>3 DEF TouchedOnly
<1> QED BY <1>1, <1>2, <1>3, <1>4, OthersKeep

LEMMA ChangeMemoKeeps ==
    ASSUME FanInInv, NEW a \in Cached, ChangeMemo(a)
    PROVE  FanInInv'
<1>1. /\ changes' = changes + 1 /\ fanned' = Wakes(a)
      /\ UNCHANGED <<node, due, going, serving, clientVars, wentBack>>
  BY DEF ChangeMemo
<1>2. /\ node \in [Address -> Shown \cup {Refused}] /\ memo \in [Address -> LeafMemo]
      /\ due \subseteq Executes /\ going \subseteq Executes /\ a \in Address
  BY FanInAssumption DEF FanInInv, FanInTypeOK
<1>3. PICK m \in MemosOf(a) : memo' = [memo EXCEPT ![a] = m]
  BY DEF ChangeMemo
<1>4. MemosOf(a) \subseteq LeafMemo
  <2>1. NoMemo \in LeafMemo
    BY DEF NoMemo, LeafMemo
  <2>2. [memo[a] EXCEPT !.hash = NoHash] \in LeafMemo
    <3>1. memo[a] \in LeafMemo
      BY <1>2
    <3> QED BY <3>1 DEF LeafMemo
  <2>3. ASSUME NEW h \in {HashNow(a), NoHash}, NEW v \in Output
        PROVE  [hash |-> h, out |-> v] \in LeafMemo
    <3>1. HashNow(a) \in Hash
      BY <1>2 DEF HashNow, Hash
    <3> QED BY <3>1 DEF LeafMemo
  <2> QED BY <2>1, <2>2, <2>3 DEF MemosOf
<1>5. /\ memo' \in [Address -> LeafMemo]
      /\ \A b \in Address : b # a => memo'[b] = memo[b]
  BY <1>2, <1>3, <1>4
<1>6. TouchedOnly(a)
  BY <1>1, <1>5 DEF TouchedOnly
<1> QED BY <1>1, <1>2, <1>5, <1>6, OthersKeep

LEMMA RunEndsKeeps ==
    ASSUME FanInInv, NEW a \in Address, RunEnds(a)
    PROVE  FanInInv'
<1>1. /\ changes' = changes + 1 /\ due' = due \ {a} /\ memo' = memo
      /\ going' = IF a \in due THEN going ELSE going \ {a}
      /\ fanned' = IF node' = node THEN fanned ELSE Wakes(a)
      /\ UNCHANGED <<serving, clientVars, wentBack>>
  BY DEF RunEnds
<1>2. /\ node \in [Address -> Shown \cup {Refused}] /\ memo \in [Address -> LeafMemo]
      /\ due \subseteq Executes /\ going \subseteq Executes
  BY DEF FanInInv, FanInTypeOK
<1>3. /\ node' \in [Address -> Shown \cup {Refused}]
      /\ \A b \in Address : b # a => node'[b] = node[b]
  BY <1>2 DEF RunEnds
<1>4. TouchedOnly(a)
  BY <1>1, <1>3 DEF TouchedOnly
<1> QED BY <1>1, <1>2, <1>3, <1>4, OthersKeep

\* One field of a watch is set, and the others are as they were.
LEMMA AtSet ==
    ASSUME NEW r \in Watch, NEW x
    PROVE  [r EXCEPT !.at = x] =
             [at |-> x, sent |-> r.sent, woken |-> r.woken, frames |-> r.frames,
              opened |-> r.opened]
BY DEF Watch

LEMMA WokenSet ==
    ASSUME NEW r \in Watch, NEW x
    PROVE  [r EXCEPT !.woken = x] =
             [at |-> r.at, sent |-> r.sent, woken |-> x, frames |-> r.frames,
              opened |-> r.opened]
BY DEF Watch

LEMMA SentSet ==
    ASSUME NEW r \in Watch, NEW x
    PROVE  [r EXCEPT !.sent = x] =
             [at |-> r.at, sent |-> x, woken |-> r.woken, frames |-> r.frames,
              opened |-> r.opened]
BY DEF Watch

LEMMA FramesSet ==
    ASSUME NEW r \in Watch, NEW x
    PROVE  [r EXCEPT !.frames = x] =
             [at |-> r.at, sent |-> r.sent, woken |-> r.woken, frames |-> x,
              opened |-> r.opened]
BY DEF Watch

\* A watch is sent a frame.
WithFrame(r, v, q) == [r EXCEPT !.sent = v, !.frames = q]

LEMMA SentAFrame ==
    ASSUME NEW r \in Watch, NEW v \in Frame, NEW q \in Seq(Frame)
    PROVE  LET w == WithFrame(r, v, q)
           IN  /\ w \in Watch /\ w.at = r.at /\ w.sent = v /\ w.frames = q
               /\ w.opened = r.opened
<1> DEFINE r1 == [r EXCEPT !.sent = v]
<1>1. r1 \in Watch /\ r1.at = r.at /\ r1.sent = v /\ r1.opened = r.opened
  BY SentSet DEF Watch
<1> DEFINE r2 == [r1 EXCEPT !.frames = q]
<1> HIDE DEF r1
<1>2. r2 = [at |-> r1.at, sent |-> r1.sent, woken |-> r1.woken, frames |-> q,
            opened |-> r1.opened]
  BY <1>1, FramesSet
<1>3. r2 \in Watch /\ r2.at = r1.at /\ r2.sent = r1.sent /\ r2.frames = q
      /\ r2.opened = r1.opened
  BY <1>1, <1>2 DEF Watch
<1> HIDE DEF r2
<1>4. r2 \in Watch /\ r2.at = r.at /\ r2.sent = v /\ r2.frames = q /\ r2.opened = r.opened
  BY <1>1, <1>3
<1> QED BY <1>4 DEF r1, r2, WithFrame

\* The watch that was answered, or served.
LEMMA Answered ==
    ASSUME FanInTypeOK, NEW a \in Address, AnswerWatch(a)
    PROVE  \E w \in Watch :
             /\ fanned' = [fanned EXCEPT ![a] = w]
             /\ w.at = IF node[a] = Refused THEN "ended" ELSE "open"
             /\ w.sent = There(a) /\ w.frames = <<There(a)>>
             /\ w.opened = fanned[a].opened
<1> DEFINE r == fanned[a]
           x == IF node[a] = Refused THEN "ended" ELSE "open"
           q == <<There(a)>>
           v == There(a)
<1>1. r \in Watch /\ v \in Frame /\ q \in Seq(Frame) /\ x \in {"open", "ended"}
  BY WatchIs, ThereIs
<1> DEFINE r0 == [r EXCEPT !.at = x]
<1>2. fanned' = [fanned EXCEPT ![a] = [r0 EXCEPT !.sent = v, !.frames = q]]
  BY DEF AnswerWatch
<1> HIDE DEF r, x, q, v
<1>3. r0 = [at |-> x, sent |-> r.sent, woken |-> r.woken, frames |-> r.frames,
            opened |-> r.opened]
  BY <1>1, AtSet
<1>4. r0 \in Watch /\ r0.at = x /\ r0.opened = r.opened
  BY <1>1, <1>3 DEF Watch
<1> HIDE DEF r0
<1> DEFINE w == WithFrame(r0, v, q)
<1>5. w \in Watch /\ w.at = r0.at /\ w.sent = v /\ w.frames = q /\ w.opened = r0.opened
  BY <1>1, <1>4, SentAFrame
<1> HIDE DEF w
<1>6. fanned' = [fanned EXCEPT ![a] = w]
  BY <1>2 DEF w, WithFrame
<1> QED BY <1>4, <1>5, <1>6 DEF r, x, q, v

LEMMA Served ==
    ASSUME FanInTypeOK, NEW a \in Address, ServeWatch(a)
    PROVE  \E w \in Watch :
             /\ fanned' = [fanned EXCEPT ![a] = w]
             /\ w.at = fanned[a].at /\ w.opened = fanned[a].opened /\ w.sent = There(a)
             /\ w.frames = IF There(a) = fanned[a].sent THEN fanned[a].frames
                                                      ELSE Append(fanned[a].frames, There(a))
<1> DEFINE r == fanned[a]
           q == Append(r.frames, There(a))
           v == There(a)
<1>1. r \in Watch /\ v \in Frame /\ q \in Seq(Frame)
  BY WatchIs, ThereIs
<1> DEFINE r0 == [r EXCEPT !.woken = FALSE]
<1>2. fanned' = [fanned EXCEPT ![a] = IF v = r.sent THEN r0
                                        ELSE [r0 EXCEPT !.sent = v, !.frames = q]]
  <2>1. CASE v = r.sent
    BY <2>1 DEF ServeWatch
  <2>2. CASE v # r.sent
    BY <2>2 DEF ServeWatch
  <2> QED BY <2>1, <2>2
<1> HIDE DEF r, v, q
<1>3. r0 = [at |-> r.at, sent |-> r.sent, woken |-> FALSE, frames |-> r.frames,
            opened |-> r.opened]
  BY <1>1, WokenSet, Zenon
<1>4. r0 \in Watch /\ r0.at = r.at /\ r0.opened = r.opened /\ r0.sent = r.sent
      /\ r0.frames = r.frames
  BY <1>1, <1>3 DEF Watch
<1> HIDE DEF r0
<1> DEFINE w == WithFrame(r0, v, q)
<1>5. w \in Watch /\ w.at = r0.at /\ w.sent = v /\ w.frames = q /\ w.opened = r0.opened
  BY <1>1, <1>4, SentAFrame
<1> HIDE DEF w
<1>6. fanned' = [fanned EXCEPT ![a] = IF v = r.sent THEN r0 ELSE w]
  BY <1>2 DEF w, WithFrame
<1>7. CASE v = r.sent
  BY <1>4, <1>6, <1>7 DEF r, v, q
<1>8. CASE v # r.sent
  BY <1>4, <1>5, <1>6, <1>8 DEF r, v, q
<1> QED BY <1>7, <1>8

\* The daemon answers or serves one watch: it sends what there is.
LEMMA WatchServedKeeps ==
    ASSUME FanInInv, NEW a \in Address, NEW w \in Watch, fanned[a].at \in {"asked", "open"},
           fanned' = [fanned EXCEPT ![a] = w],
           UNCHANGED <<heldVars, changes, serving, clientVars>>,
           w.at \in {"open", "ended"},
           wentBack' \subseteq Address, \A b \in wentBack : b # a => b \in wentBack',
           w.at = "open" => w.sent = There(a),
           w.at = "open" /\ w.frames # <<>> => w.frames[Len(w.frames)] = There(a),
           w.at = "open" /\ w.frames = <<>> => a \in wentBack',
           w.at = "ended" => w.frames = <<Refused>> /\ ~w.opened,
           \A i \in 1..Len(w.frames) :
               \/ w.frames[i] = There(a)
               \/ i \in 1..Len(fanned[a].frames) /\ w.frames[i] = fanned[a].frames[i]
    PROVE  FanInInv'
<1>1. FanInTypeOK
  BY DEF FanInInv
<1>2. /\ fanned' \in [Address -> Watch] /\ fanned'[a] = w
      /\ \A b \in Address : b # a => fanned'[b] = fanned[b]
  BY <1>1 DEF FanInTypeOK
<1>3. /\ does' = does /\ forced' = forced /\ readNow' = readNow /\ missed' = missed
      /\ read' = read /\ rounds' = rounds /\ refusedAt' = refusedAt /\ failed' = failed
      /\ node' = node /\ memo' = memo /\ due' = due /\ going' = going
      /\ changes' = changes /\ serving' = serving
  BY DEF clientVars, heldVars
<1>4. \A b : There(b)' = There(b)
  BY <1>3 DEF There
<1>5. FanInTypeOK'
  BY <1>1, <1>2, <1>3 DEF FanInTypeOK
<1>6. WatchesRead'
  BY <1>2, <1>3 DEF FanInInv, WatchesRead
<1>7. ReadWhole'
  BY <1>3 DEF FanInInv, ReadWhole
<1>8. AsRead' = AsRead /\ LastRead' = LastRead
  BY <1>3 DEF AsRead, LastRead
<1>9. Steady => Steady'
  <2> SUFFICES ASSUME Steady
               PROVE  \A b \in Address : \A i \in 1..Len(fanned'[b].frames) :
                          Data(fanned'[b].frames[i]) = node[b]
    BY <1>3, <1>4, <1>8 DEF Steady, MemosStand
  <2> TAKE b \in Address
  <2> TAKE i \in 1..Len(fanned'[b].frames)
  <2>1. CASE b = a
    <3>1. CASE w.frames[i] = There(a)
      BY <1>1, <1>2, <2>1, <3>1, ThereIs
    <3>2. CASE i \in 1..Len(fanned[a].frames) /\ w.frames[i] = fanned[a].frames[i]
      BY <1>2, <2>1, <3>2 DEF Steady
    <3> QED BY <1>2, <2>1, <3>1, <3>2
  <2>2. CASE b # a
    BY <1>2, <2>2 DEF Steady
  <2> QED BY <2>1, <2>2
<1>10. Still => Still'
  <2> SUFFICES ASSUME Still
               PROVE  \A b \in Address : \A i \in 1..Len(fanned'[b].frames) :
                          fanned'[b].frames[i] = There(b)
    BY <1>3, <1>4, <1>8 DEF Still, MemosStand
  <2> TAKE b \in Address
  <2> TAKE i \in 1..Len(fanned'[b].frames)
  <2>1. CASE b = a
    BY <1>2, <2>1 DEF Still
  <2>2. CASE b # a
    BY <1>2, <2>2 DEF Still
  <2> QED BY <2>1, <2>2
<1>11. RoundsPaid'
  BY <1>3, <1>9, <1>10 DEF FanInInv, RoundsPaid
<1>12. SentLast'
  <2> SUFFICES ASSUME NEW b \in Address
               PROVE  /\ fanned'[b].at = "open" =>
                             fanned'[b].woken \/ fanned'[b].sent = There(b)
                      /\ fanned'[b].at = "open" /\ fanned'[b].frames # <<>> =>
                             fanned'[b].frames[Len(fanned'[b].frames)] = fanned'[b].sent
                      /\ fanned'[b].at = "ended" =>
                             fanned'[b].frames = <<Refused>> /\ ~fanned'[b].opened
    BY <1>4 DEF SentLast
  <2>1. CASE b = a
    BY <1>2, <2>1
  <2>2. CASE b # a
    BY <1>2, <2>2 DEF FanInInv, SentLast
  <2> QED BY <2>1, <2>2
<1>13. WillHear'
  <2>1. ASSUME NEW f, DOMAIN f \subseteq Address, WillBeTold(f) PROVE TellsNext(f)
    <3> SUFFICES ASSUME NEW b \in DOMAIN f, fanned'[b].at = "open", fanned'[b].frames = <<>>
                 PROVE  fanned'[b].woken \/ f[b] = There(b) \/ b \in wentBack'
      BY <1>4 DEF TellsNext
    <3>1. CASE b = a
      BY <1>2, <3>1
    <3>2. CASE b # a
      BY <1>2, <2>1, <3>2 DEF WillBeTold
    <3> QED BY <3>1, <3>2
  <2>2. DOMAIN read \subseteq Address /\ DOMAIN readNow \subseteq Address
    BY <1>1 DEF FanInTypeOK
  <2>3. (WillBeTold(readNow) => WillBeTold(readNow)') /\ (WillBeTold(read) => WillBeTold(read)')
    BY <1>3, <2>1, <2>2, ToldThen
  <2>4. \A b \in DOMAIN read : fanned'[b].at = "none" => fanned[b].at = "none"
    BY <1>2, <2>2
  <2> QED BY <1>3, <2>3, <2>4 DEF FanInInv, WillHear
<1> QED BY <1>5, <1>6, <1>7, <1>11, <1>12, <1>13 DEF FanInInv

\* A daemon answers who asks to watch: with what there is, or a refusal.
LEMMA AnswerWatchKeeps ==
    ASSUME FanInInv, NEW a \in Address, AnswerWatch(a)
    PROVE  FanInInv'
<1>1. /\ fanned[a].at = "asked"
      /\ UNCHANGED <<heldVars, changes, serving, clientVars>> /\ wentBack' = wentBack
  BY DEF AnswerWatch
<1>2. FanInTypeOK /\ wentBack \subseteq Address
  BY DEF FanInInv, FanInTypeOK
<1>3. PICK w \in Watch :
        /\ fanned' = [fanned EXCEPT ![a] = w]
        /\ w.at = IF node[a] = Refused THEN "ended" ELSE "open"
        /\ w.sent = There(a) /\ w.frames = <<There(a)>>
        /\ w.opened = fanned[a].opened
  BY <1>2, Answered
<1>4. /\ w.frames # <<>> /\ w.frames[Len(w.frames)] = There(a)
      /\ \A i \in 1..Len(w.frames) : w.frames[i] = There(a)
  BY <1>3
<1>5. w.at = "ended" => w.frames = <<Refused>> /\ ~w.opened
  <2>1. ~fanned[a].opened
    BY <1>1 DEF FanInInv, WatchesRead
  <2>2. w.at = "ended" => There(a) = Refused
    BY <1>2, <1>3, ThereIs
  <2> QED BY <1>3, <2>1, <2>2
<1> QED BY <1>1, <1>2, <1>3, <1>4, <1>5, WatchServedKeeps

\* The loop of a watch reads again.
LEMMA ServeWatchKeeps ==
    ASSUME FanInInv, NEW a \in Address, ServeWatch(a)
    PROVE  FanInInv'
<1>1. /\ fanned[a].at = "open"
      /\ UNCHANGED <<heldVars, changes, serving, clientVars>>
      /\ There(a) = fanned[a].sent => wentBack' = wentBack \cup {a}
      /\ There(a) # fanned[a].sent => wentBack' = wentBack \ {a}
  BY DEF ServeWatch
<1>2. /\ FanInTypeOK /\ There(a) \in Frame /\ fanned[a].frames \in Seq(Frame)
      /\ wentBack \subseteq Address
  BY WatchIs, ThereIs DEF FanInInv, FanInTypeOK
<1>3. PICK w \in Watch :
        /\ fanned' = [fanned EXCEPT ![a] = w]
        /\ w.at = fanned[a].at /\ w.opened = fanned[a].opened /\ w.sent = There(a)
        /\ w.frames = IF There(a) = fanned[a].sent THEN fanned[a].frames
                                                 ELSE Append(fanned[a].frames, There(a))
  BY <1>2, Served
<1>4. CASE There(a) = fanned[a].sent
  <2>1. w.frames # <<>> => w.frames[Len(w.frames)] = There(a)
    BY <1>1, <1>3, <1>4 DEF FanInInv, SentLast
  <2>2. wentBack' = wentBack \cup {a} /\ w.frames = fanned[a].frames /\ w.at = "open"
    BY <1>1, <1>3, <1>4
  <2> QED BY <1>1, <1>2, <1>3, <2>1, <2>2, WatchServedKeeps
<1>5. CASE There(a) # fanned[a].sent
  <2> DEFINE q == Append(fanned[a].frames, There(a))
  <2>1. /\ q # <<>> /\ q[Len(q)] = There(a)
        /\ \A i \in 1..Len(q) :
               \/ q[i] = There(a)
               \/ i \in 1..Len(fanned[a].frames) /\ q[i] = fanned[a].frames[i]
    <3>1. \A s \in Seq(Frame), v \in Frame :
            LET t == Append(s, v)
            IN  /\ t # <<>> /\ t[Len(t)] = v
                /\ \A i \in 1..Len(t) : t[i] = v \/ (i \in 1..Len(s) /\ t[i] = s[i])
      OBVIOUS
    <3> QED BY <1>2, <3>1
  <2>2. wentBack' = wentBack \ {a} /\ w.frames = q /\ w.at = "open"
    BY <1>1, <1>3, <1>5
  <2> HIDE DEF q
  <2> QED BY <1>1, <1>2, <1>3, <2>1, <2>2, WatchServedKeeps
<1> QED BY <1>4, <1>5

\* A step that changes nothing the watch reads, and at most ends it: an ended
\* client is promised nothing.
LEMMA QuietKeeps ==
    ASSUME FanInInv,
           UNCHANGED <<node, memo, changes, fanned, forced, readNow, missed, read, rounds,
                       wentBack, refusedAt, failed>>,
           due' \subseteq Executes, going' \subseteq Executes,
           serving' \in BOOLEAN, does' = does \/ does' = "ended"
    PROVE  FanInInv'
<1>1. FanInTypeOK'
  BY DEF FanInInv, FanInTypeOK
<1>2. \A b : There(b)' = There(b)
  BY DEF There
<1>3. SentLast'
  BY <1>2 DEF FanInInv, SentLast
<1>4. CASE does' = "ended"
  <2>1. WatchesRead'
    BY <1>4 DEF FanInInv, WatchesRead
  <2>2. ReadWhole'
    BY <1>4 DEF FanInInv, ReadWhole
  <2>3. RoundsPaid' /\ WillHear'
    BY <1>4 DEF FanInInv, RoundsPaid, WillHear
  <2> QED BY <1>1, <1>3, <2>1, <2>2, <2>3 DEF FanInInv
<1>5. CASE does' = does
  <2>1. WatchesRead' /\ ReadWhole'
    BY <1>5 DEF FanInInv, WatchesRead, ReadWhole
  <2>2. AsRead' = AsRead /\ LastRead' = LastRead
    BY <1>5 DEF AsRead, LastRead
  <2>3. (Steady => Steady') /\ (Still => Still')
    BY <1>2, <1>5, <2>2 DEF Steady, Still, MemosStand
  <2>4. RoundsPaid'
    BY <1>5, <2>3 DEF FanInInv, RoundsPaid
  <2>5. WillHear'
    BY <1>2, <1>5 DEF FanInInv, WillHear, WillBeTold
  <2> QED BY <1>1, <1>3, <2>1, <2>4, <2>5 DEF FanInInv
<1> QED BY <1>4, <1>5

\* Who is named is an address, or the readings are of no type.
LEMMA NamedIs ==
    ASSUME FanInTypeOK
    PROVE  Named(readNow) \subseteq Address
<1>1. Root \in Address
  BY FanInAssumption
<1>2. ASSUME NEW b \in DOMAIN readNow, readNow[b] # Refused
      PROVE  Reads[b][readNow[b].is] \subseteq Address
  <2>1. b \in Address /\ readNow[b] \in Frame
    BY DEF FanInTypeOK
  <2>2. readNow[b].is \in Shown
    BY <1>2, <2>1, DataIs
  <2> QED BY <2>1, <2>2, FanInAssumption
<1> QED BY <1>1, <1>2 DEF Named

\* How a fetch comes by its frame: as there is, or by a run that is paid for.
LEMMA FetchIs ==
    ASSUME FanInTypeOK, NEW a \in Address, FetchNode(a)
    PROVE  /\ readNow' = With(readNow, a, There(a)') /\ TouchedOnly(a)
           /\ node' \in [Address -> Shown \cup {Refused}] /\ memo' = memo
           /\ due' \subseteq Executes /\ going' \subseteq Executes
           /\ \/ changes' = changes + 1
              \/ changes' = changes /\ node' = node /\ fanned' = fanned
<1>1. memo' = memo
  BY DEF FetchNode
<1>2. /\ node \in [Address -> Shown \cup {Refused}] /\ due \subseteq Executes
      /\ going \subseteq Executes
  BY DEF FanInTypeOK
<1>3. CASE RunsAtOnce(a)
  <2>1. PICK v \in Shown :
          /\ node' = [node EXCEPT ![a] = v]
          /\ readNow' = With(readNow, a, [is |-> v, memo |-> memo[a]])
    BY <1>3 DEF RunsAtOnce
  <2>2. /\ fanned' = IF node' = node THEN fanned ELSE Wakes(a)
        /\ due' = due \ {a} /\ going' = going
        /\ changes' = IF a \in due \/ does = "open" THEN changes + 1 ELSE changes
        /\ Runs(a)
    BY <1>3 DEF RunsAtOnce
  <2>3. /\ node' \in [Address -> Shown \cup {Refused}] /\ node'[a] = v
        /\ \A b \in Address : b # a => node'[b] = node[b]
    BY <1>2, <2>1
  <2>4. There(a)' = [is |-> v, memo |-> memo[a]]
    <3>1. v # Refused
      BY FanInAssumption
    <3> QED BY <1>1, <2>3, <3>1 DEF There
  <2>5. changes' = changes + 1
    BY <2>2 DEF Runs, Forces
  <2>6. TouchedOnly(a)
    BY <1>1, <2>2, <2>3 DEF TouchedOnly
  <2> QED BY <1>1, <1>2, <2>1, <2>2, <2>3, <2>4, <2>5, <2>6
<1>4. CASE RunGoesOn(a)
  <2>1. /\ node' = node /\ fanned' = fanned /\ changes' = changes
        /\ readNow' = With(readNow, a, There(a))
        /\ going' = going \cup {a} /\ due' = IF a \in going THEN due ELSE due \ {a}
        /\ Runs(a)
    BY <1>4 DEF RunGoesOn
  <2>2. a \in Executes
    BY <1>2, <2>1 DEF Runs
  <2>3. There(a)' = There(a)
    BY <1>1, <2>1 DEF There
  <2>4. TouchedOnly(a)
    BY <1>1, <2>1 DEF TouchedOnly
  <2> QED BY <1>1, <1>2, <2>1, <2>2, <2>3, <2>4
<1>5. CASE /\ ~Runs(a) /\ readNow' = With(readNow, a, There(a))
           /\ UNCHANGED <<node, due, going, changes, fanned>>
  <2>1. There(a)' = There(a)
    BY <1>1, <1>5 DEF There
  <2>2. TouchedOnly(a)
    BY <1>1, <1>5 DEF TouchedOnly
  <2> QED BY <1>1, <1>2, <1>5, <2>1, <2>2
<1> QED BY <1>3, <1>4, <1>5 DEF FetchNode

\* An address is read, and may be run for it, which is paid for.
LEMMA FetchNodeKeeps ==
    ASSUME FanInInv, NEW a \in Address, FetchNode(a)
    PROVE  FanInInv'
<1>1. /\ does \in {"open", "resolve"} /\ serving
      /\ UNCHANGED <<memo, serving, does, forced, missed, read, rounds,
                     refusedAt, failed, wentBack>>
      /\ a \in Named(readNow) /\ a \notin DOMAIN readNow
  BY DEF FetchNode, Resolving, Unfetched
<1>2. FanInTypeOK /\ WatchesRead /\ ReadWhole /\ RoundsPaid /\ SentLast /\ WillHear
      /\ DOMAIN readNow \subseteq Address /\ DOMAIN read \subseteq Address
  BY DEF FanInInv, FanInTypeOK
<1>3. /\ readNow' = With(readNow, a, There(a)') /\ TouchedOnly(a)
      /\ node' \in [Address -> Shown \cup {Refused}]
      /\ due' \subseteq Executes /\ going' \subseteq Executes
      /\ \/ changes' = changes + 1
         \/ changes' = changes /\ node' = node /\ fanned' = fanned
  BY <1>2, FetchIs
<1>4. /\ fanned' \in [Address -> Watch]
      /\ \A b \in Address :
           /\ fanned'[b].at = fanned[b].at /\ fanned'[b].frames = fanned[b].frames
           /\ fanned'[b].opened = fanned[b].opened
  BY <1>2, <1>3, TouchedIs
<1>5. /\ DOMAIN readNow' = DOMAIN readNow \cup {a} /\ readNow'[a] = There(a)'
      /\ \A b \in DOMAIN readNow : b # a /\ readNow'[b] = readNow[b]
  BY <1>1, <1>3 DEF With
<1>6. FanInTypeOK'
  <2>1. There(a)' \in Frame
    <3>1. node'[a] \in Shown \cup {Refused} /\ memo'[a] \in LeafMemo
      BY <1>1, <1>2, <1>3 DEF FanInTypeOK
    <3> QED BY <3>1 DEF There, Frame, NodeFrame
  <2>2. /\ DOMAIN readNow' \subseteq Address
        /\ \A b \in DOMAIN readNow' : readNow'[b] \in Frame
    BY <1>2, <1>5, <2>1 DEF FanInTypeOK
  <2>3. changes' \in Nat
    BY <1>2, <1>3 DEF FanInTypeOK
  <2> QED BY <1>1, <1>2, <1>3, <1>4, <2>2, <2>3 DEF FanInTypeOK
<1>7. WatchesRead'
  BY <1>1, <1>2, <1>4 DEF WatchesRead
<1>8. ReadWhole'
  <2>1. ASSUME NEW S \in SUBSET Address, Leads(readNow', S)
        PROVE  DOMAIN readNow' \subseteq S
    <3>1. Leads(readNow, S)
      BY <1>5, <2>1 DEF Leads
    <3>2. DOMAIN readNow \subseteq S
      BY <1>2, <3>1 DEF ReadWhole, Least
    <3>3. a \in S
      <4>1. CASE a = Root
        BY <2>1, <4>1 DEF Leads
      <4>2. CASE a # Root
        <5>1. PICK c \in DOMAIN readNow :
                readNow[c] # Refused /\ a \in Reads[c][readNow[c].is]
          BY <1>1, <4>2 DEF Named
        <5> QED BY <3>1, <3>2, <5>1 DEF Leads
      <4> QED BY <4>1, <4>2
    <3> QED BY <1>5, <3>2, <3>3
  <2>2. Least(readNow)'
    BY <2>1 DEF Least
  <2>3. Least(read)' /\ (does' \in {"resolve", "wait"} => Leads(read, DOMAIN read)')
    BY <1>1, <1>2 DEF ReadWhole
  <2> QED BY <1>1, <2>2, <2>3 DEF ReadWhole
<1>9. RoundsPaid'
  <2>1. CASE changes' = changes + 1
    BY <1>1, <1>2, <2>1, ChangePays
  <2>2. CASE changes' = changes /\ node' = node /\ fanned' = fanned
    <3>1. \A b : There(b)' = There(b)
      BY <1>1, <2>2 DEF There
    <3>2. AsRead = readNow /\ AsRead' = readNow' /\ LastRead' = LastRead
      BY <1>1 DEF AsRead, LastRead
    <3>3. Data(There(a)) = node[a]
      BY <1>2, ThereIs
    <3>4. Steady => Steady'
      BY <1>1, <1>5, <2>2, <3>1, <3>2, <3>3 DEF Steady
    <3>5. Still => Still'
      BY <1>1, <1>5, <2>2, <3>1, <3>2 DEF Still, MemosStand
    <3> QED BY <1>1, <1>2, <2>2, <3>4, <3>5 DEF RoundsPaid
  <2> QED BY <1>3, <2>1, <2>2
<1>10. SentLast'
  BY <1>2, <1>3, TouchedSent
<1>11. WillHear'
  <2>1. TellsNext(readNow)
    BY <1>1, <1>2, <1>3, TouchedTold DEF WillHear
  <2>2. WillBeTold(readNow)'
    BY <1>1, <1>5, <2>1 DEF TellsNext, WillBeTold
  <2>3. \A b \in DOMAIN read : fanned'[b].at = fanned[b].at
    BY <1>2, <1>4
  <2> QED BY <1>1, <1>2, <2>2, <2>3 DEF WillHear
<1> QED BY <1>6, <1>7, <1>8, <1>9, <1>10, <1>11 DEF FanInInv

\* Where nothing is new, a resolution that is done has read what the last one did.
LEMMA SameRead ==
    ASSUME FanInTypeOK, ReadWhole, Still, does = "resolve", Unfetched = {}
    PROVE  /\ DOMAIN readNow = DOMAIN read
           /\ \A a \in DOMAIN read : readNow[a] = There(a) /\ Data(read[a]) = Data(readNow[a])
<1>1. /\ \A f \in {read, readNow} : /\ DOMAIN f \subseteq Address
                                    /\ \A a \in DOMAIN f : f[a] \in Frame
      /\ Least(readNow) /\ Least(read) /\ Leads(read, DOMAIN read)
  BY DEF FanInTypeOK, ReadWhole
<1>2. /\ \A a \in DOMAIN readNow : readNow[a] = There(a) /\ Data(readNow[a]) = node[a]
      /\ \A a \in DOMAIN read : Data(read[a]) = node[a]
  BY <1>1, ThereIs DEF Still, AsRead, LastRead
<1>3. ASSUME NEW a \in DOMAIN read \cap DOMAIN readNow
      PROVE  /\ read[a] # Refused <=> readNow[a] # Refused
             /\ read[a] # Refused => read[a].is = readNow[a].is
  <2>1. read[a] \in Frame /\ readNow[a] \in Frame /\ Data(read[a]) = Data(readNow[a])
    BY <1>1, <1>2
  <2> QED BY <2>1, DataIs
<1>4. Leads(readNow, DOMAIN readNow)
  BY DEF Unfetched, Named, Leads
<1>5. Leads(read, DOMAIN readNow)
  BY <1>3, <1>4 DEF Leads
<1>6. Leads(readNow, DOMAIN read)
  BY <1>1, <1>3 DEF Leads
<1>7. DOMAIN read \subseteq DOMAIN readNow
  BY <1>1, <1>5 DEF Least
<1>8. DOMAIN readNow \subseteq DOMAIN read
  BY <1>1, <1>6 DEF Least
<1> QED BY <1>2, <1>7, <1>8

\* A resolution comes to its value: what it read names nothing more, and the memos
\* that do not answer for it are to be written.
LEMMA ResolutionEndsKeeps ==
    ASSUME FanInInv, ResolutionEnds
    PROVE  FanInInv'
<1>1. /\ does \in {"open", "resolve"} /\ does' = "write" /\ Unfetched = {}
      /\ UNCHANGED <<heldVars, changes, serving, fanned, forced, readNow, read,
                     rounds, wentBack, refusedAt, failed>>
  BY DEF ResolutionEnds, Resolving
<1>2. FanInTypeOK /\ WatchesRead /\ ReadWhole /\ RoundsPaid /\ SentLast /\ WillHear
  BY DEF FanInInv
<1>3. PICK more \in SUBSET MayMiss : missed' = Misses \cup more
  BY DEF ResolutionEnds
<1>4. missed' \subseteq Cached
  BY <1>3 DEF MayMiss, Misses
<1>5. FanInTypeOK'
  BY <1>1, <1>2, <1>4 DEF FanInTypeOK, heldVars
<1>6. WatchesRead'
  BY <1>1, <1>2 DEF WatchesRead
<1>7. Leads(readNow, DOMAIN readNow)
  BY <1>1 DEF Unfetched, Named, Leads
<1>8. ReadWhole'
  BY <1>1, <1>2, <1>7 DEF ReadWhole
<1>9. /\ \A b : There(b)' = There(b)
      /\ AsRead = readNow /\ AsRead' = readNow /\ LastRead = read /\ LastRead' = readNow
  BY <1>1 DEF There, heldVars, AsRead, LastRead
<1>10. /\ DOMAIN readNow \subseteq Address
       /\ \A a \in DOMAIN readNow : readNow[a] # Refused /\ readNow[a] = There(a) =>
              readNow[a].memo = memo[a]
  <2>1. DOMAIN readNow \subseteq Address
    BY <1>2 DEF FanInTypeOK
  <2> QED BY <1>2, <2>1, ThereIs
<1>11. Steady => Steady'
  <2> SUFFICES ASSUME Steady PROVE Steady'
    OBVIOUS
  <2>1. \A a \in DOMAIN readNow : readNow[a] = There(a)
    BY <1>1 DEF Steady
  <2>2. ASSUME NEW a \in Cached \cap DOMAIN readNow, readNow[a] # Refused
        PROVE  a \in missed' \/ memo[a].hash = HashOf(a, readNow)
    <3>1. readNow[a].memo = memo[a]
      BY <1>10, <2>1, <2>2
    <3>2. a \in Misses \/ readNow[a].memo.hash = HashOf(a, readNow)
      BY <2>2 DEF Misses
    <3> QED BY <1>3, <3>1, <3>2
  <2>3. MemosStand(AsRead)'
    BY <1>1, <1>9, <2>2 DEF MemosStand, heldVars
  <2> QED BY <1>1, <1>9, <2>3 DEF Steady, heldVars
<1>12. Still /\ rounds = 2 * changes + 1 => Still'
  <2> SUFFICES ASSUME Still, rounds = 2 * changes + 1 PROVE Still'
    OBVIOUS
  <2>1. does = "resolve"
    BY <1>1, <1>2 DEF WatchesRead, FanInTypeOK
  <2>2. /\ DOMAIN readNow = DOMAIN read
        /\ \A a \in DOMAIN read : readNow[a] = There(a) /\ Data(read[a]) = Data(readNow[a])
    BY <1>1, <1>2, <2>1, SameRead
  <2>3. \A a : HashOf(a, read) = HashOf(a, readNow)
    BY <2>2, HashSame
  <2>4. ASSUME NEW a \in Cached \cap DOMAIN readNow, readNow[a] # Refused
        PROVE  readNow[a].memo.hash = HashOf(a, readNow) /\ memo[a].hash = HashOf(a, readNow)
    <3>1. read[a] # Refused
      <4>1. read[a] \in Frame /\ readNow[a] \in Frame /\ Data(read[a]) = Data(readNow[a])
        BY <1>2, <2>2, <2>4 DEF FanInTypeOK
      <4> QED BY <2>4, <4>1, DataIs
    <3>2. memo[a].hash = HashOf(a, read)
      BY <1>9, <2>2, <2>4, <3>1 DEF Still, MemosStand
    <3>3. readNow[a].memo = memo[a]
      BY <1>10, <2>2, <2>4
    <3> QED BY <2>3, <3>2, <3>3
  <2>5. Misses = {}
    BY <2>1, <2>4 DEF Misses, Forces
  <2>6. missed' = {}
    BY <1>3, <2>5 DEF MayMiss
  <2>7. MemosStand(LastRead)'
    BY <1>1, <1>9, <2>4 DEF MemosStand, heldVars
  <2>8. \A a \in DOMAIN readNow : Data(readNow[a]) = node[a]
    BY <1>9, <2>2 DEF Still
  <2> QED BY <1>1, <1>9, <2>2, <2>6, <2>7, <2>8 DEF Still, heldVars
<1>13. RoundsPaid'
  BY <1>1, <1>2, <1>11, <1>12 DEF RoundsPaid
<1>14. SentLast'
  BY <1>1, <1>2, <1>9 DEF SentLast
<1>15. WillHear'
  BY <1>1, <1>2, <1>9 DEF WillHear, WillBeTold
<1> QED BY <1>5, <1>6, <1>8, <1>13, <1>14, <1>15 DEF FanInInv

\* A memo is stored, which is new to who watches the leaf and no data of anything;
\* or it is refused, which others pay for.
LEMMA WriteBackKeeps ==
    ASSUME FanInInv, NEW a \in Address, WriteBack(a)
    PROVE  FanInInv'
<1>1. /\ does = "write" /\ a \in missed /\ missed' = missed \ {a}
      /\ UNCHANGED <<node, due, going, serving, does, forced, readNow, read,
                     rounds, refusedAt, failed, wentBack>>
  BY DEF WriteBack
<1>2. FanInTypeOK /\ WatchesRead /\ ReadWhole /\ RoundsPaid /\ SentLast /\ WillHear
      /\ DOMAIN readNow \subseteq Address
  BY DEF FanInInv, FanInTypeOK
<1>3. /\ TouchedOnly(a) /\ memo' \in [Address -> LeafMemo]
      /\ \/ changes' = changes + 1
         \/ changes' = changes /\ memo'[a].hash = HashOf(a, readNow)
  <2>1. memo \in [Address -> LeafMemo]
    BY <1>2 DEF FanInTypeOK
  <2>2. CASE /\ \E v \in Output :
                   memo' = [memo EXCEPT ![a] = [hash |-> HashOf(a, readNow), out |-> v]]
             /\ fanned' = Wakes(a) /\ UNCHANGED changes
    <3>1. PICK v \in Output :
            memo' = [memo EXCEPT ![a] = [hash |-> HashOf(a, readNow), out |-> v]]
      BY <2>2
    <3> DEFINE m == [hash |-> HashOf(a, readNow), out |-> v]
    <3>2. HashOf(a, readNow) \in Hash
      BY <1>2, HashIs DEF FanInTypeOK
    <3>3. m \in LeafMemo /\ m.hash = HashOf(a, readNow)
      BY <3>2 DEF LeafMemo
    <3>4. memo' = [memo EXCEPT ![a] = m]
      BY <3>1
    <3> HIDE DEF m
    <3>5. /\ memo' \in [Address -> LeafMemo] /\ memo'[a] = m
          /\ \A b \in Address : b # a => memo'[b] = memo[b]
      BY <2>1, <3>3, <3>4
    <3>6. TouchedOnly(a)
      BY <1>1, <2>2, <3>5 DEF TouchedOnly
    <3> QED BY <2>2, <3>3, <3>5, <3>6
  <2>3. CASE changes' = changes + 1 /\ UNCHANGED <<memo, fanned>>
    BY <1>1, <2>1, <2>3 DEF TouchedOnly
  <2> QED BY <2>2, <2>3 DEF WriteBack
<1>4. /\ fanned' \in [Address -> Watch]
      /\ \A b \in Address :
           /\ fanned'[b].at = fanned[b].at /\ fanned'[b].frames = fanned[b].frames
           /\ fanned'[b].opened = fanned[b].opened
  BY <1>2, <1>3, TouchedIs
<1>5. FanInTypeOK'
  <2>1. missed' \subseteq Cached /\ changes' \in Nat
    BY <1>1, <1>2, <1>3 DEF FanInTypeOK
  <2> QED BY <1>1, <1>2, <1>3, <1>4, <2>1 DEF FanInTypeOK
<1>6. WatchesRead'
  BY <1>1, <1>2, <1>4 DEF WatchesRead
<1>7. ReadWhole'
  BY <1>1, <1>2 DEF ReadWhole
<1>8. RoundsPaid'
  <2>1. CASE changes' = changes + 1
    BY <1>1, <1>2, <2>1, ChangePays
  <2>2. CASE changes' = changes /\ memo'[a].hash = HashOf(a, readNow)
    <3>1. rounds # 2 * changes + 1
      BY <1>1, <1>2 DEF RoundsPaid, Still
    <3>2. AsRead = readNow /\ AsRead' = readNow
      BY <1>1 DEF AsRead
    <3>3. Steady => Steady'
      <4> SUFFICES ASSUME Steady PROVE Steady'
        OBVIOUS
      <4>1. ASSUME NEW b \in Cached \cap DOMAIN readNow, readNow[b] # Refused
            PROVE  b \in missed' \/ memo'[b].hash = HashOf(b, readNow)
        <5>1. CASE b = a
          BY <2>2, <5>1
        <5>2. CASE b # a
          <6>1. memo'[b] = memo[b]
            BY <1>2, <1>3, <5>2 DEF TouchedOnly
          <6>2. b \in missed \/ memo[b].hash = HashOf(b, readNow)
            BY <1>1, <3>2, <4>1 DEF Steady, MemosStand
          <6> QED BY <1>1, <5>2, <6>1, <6>2
        <5> QED BY <5>1, <5>2
      <4>2. MemosStand(AsRead)'
        BY <1>1, <3>2, <4>1 DEF MemosStand
      <4> QED BY <1>1, <1>4, <3>2, <4>2 DEF Steady
    <3> QED BY <1>1, <1>2, <2>2, <3>1, <3>3 DEF RoundsPaid
  <2> QED BY <1>3, <2>1, <2>2
<1>9. SentLast'
  BY <1>2, <1>3, TouchedSent
<1>10. WillHear'
  <2>1. TellsNext(readNow)
    BY <1>1, <1>2, <1>3, TouchedTold DEF WillHear
  <2> QED BY <1>1, <2>1, ToldThen DEF WillHear
<1> QED BY <1>5, <1>6, <1>7, <1>8, <1>9, <1>10 DEF FanInInv

\* A stream that is followed is as it was, or is asked for, or is dropped.
LEMMA FollowedIs ==
    ASSUME FanInTypeOK, NEW a \in Address
    PROVE  /\ Followed(a) \in Watch
           /\ a \notin DOMAIN readNow =>
                  Followed(a).at = "none" /\ Followed(a).frames = <<>> /\ ~Followed(a).opened
           /\ a \in DOMAIN readNow /\ fanned[a].at = "none" =>
                  Followed(a).at = "asked" /\ Followed(a).frames = <<>> /\ ~Followed(a).opened
           /\ a \in DOMAIN readNow /\ fanned[a].at # "none" => Followed(a) = fanned[a]
<1>1. fanned[a] \in Watch
  BY WatchIs
<1>2. CASE a \notin DOMAIN readNow
  BY <1>2, NoWatchIs DEF Followed
<1>3. CASE a \in DOMAIN readNow /\ fanned[a].at # "none"
  BY <1>1, <1>3 DEF Followed
<1>4. CASE a \in DOMAIN readNow /\ fanned[a].at = "none"
  <2>1. Followed(a) = [NoWatch EXCEPT !.at = "asked"]
    BY <1>4 DEF Followed
  <2> DEFINE w == [NoWatch EXCEPT !.at = "asked"]
  <2>2. w \in Watch /\ w.at = "asked" /\ w.frames = <<>> /\ ~w.opened
    BY NoWatchIs
  <2> HIDE DEF w
  <2>3. Followed(a) = w
    BY <2>1 DEF w
  <2> QED BY <1>4, <2>2, <2>3
<1> QED BY <1>2, <1>3, <1>4

\* What was read is followed, and its memos are written.
LEMMA FollowKeeps ==
    ASSUME FanInInv, Follow
    PROVE  FanInInv'
<1>1. /\ does = "write" /\ does' = "wait" /\ missed = {} /\ missed' = {}
      /\ read' = readNow /\ DOMAIN readNow' = {} /\ readNow' = NothingRead
      /\ fanned' = [a \in Address |-> Followed(a)]
      /\ wentBack' = {a \in wentBack \cap DOMAIN readNow :
                          fanned[a].at # "none" /\ readNow[a] # There(a)}
      /\ refusedAt' = {a \in refusedAt : Followed(a).at # "asked"}
      /\ failed' = FALSE
      /\ UNCHANGED <<node, memo, due, going, changes, serving, forced, rounds>>
  BY DEF Follow, heldVars, NothingRead
<1>2. FanInTypeOK /\ WatchesRead /\ ReadWhole /\ RoundsPaid /\ SentLast /\ WillHear
  BY DEF FanInInv
<1>3. \A a \in Address :
        /\ fanned'[a] \in Watch
        /\ a \notin DOMAIN readNow =>
               fanned'[a].at = "none" /\ fanned'[a].frames = <<>> /\ ~fanned'[a].opened
        /\ a \in DOMAIN readNow /\ fanned[a].at = "none" =>
               fanned'[a].at = "asked" /\ fanned'[a].frames = <<>> /\ ~fanned'[a].opened
        /\ a \in DOMAIN readNow /\ fanned[a].at # "none" => fanned'[a] = fanned[a]
  <2>1. \A a \in Address : fanned'[a] = Followed(a)
    BY <1>1
  <2> QED BY <1>2, <2>1, FollowedIs
<1>4. FanInTypeOK'
  <2>1. fanned' \in [Address -> Watch]
    BY <1>1, <1>3
  <2>2. \A f \in {read', readNow'} : /\ DOMAIN f \subseteq Address
                                     /\ \A a \in DOMAIN f : f[a] \in Frame
    BY <1>1, <1>2 DEF FanInTypeOK
  <2>3. wentBack' \subseteq Address /\ refusedAt' \subseteq Address
    BY <1>1, <1>2 DEF FanInTypeOK
  <2> QED BY <1>1, <1>2, <2>1, <2>2, <2>3 DEF FanInTypeOK
<1>5. WatchesRead'
  <2>1. \A a \in Address : fanned'[a].at \in {"none", "asked"} =>
            fanned'[a].frames = <<>> /\ ~fanned'[a].opened
    BY <1>2, <1>3 DEF WatchesRead
  <2> QED BY <1>1, <1>3, <2>1 DEF WatchesRead
<1>6. ReadWhole'
  <2>1. Least(readNow)'
    BY <1>1 DEF Least
  <2>2. Least(read)' /\ Leads(read, DOMAIN read)'
    BY <1>1, <1>2 DEF ReadWhole, Least, Leads
  <2> QED BY <1>1, <2>1, <2>2 DEF ReadWhole
<1>7. /\ \A b : There(b)' = There(b)
      /\ AsRead = readNow /\ AsRead' = readNow /\ LastRead = readNow /\ LastRead' = readNow
  BY <1>1 DEF There, AsRead, LastRead
<1>8. \A a \in Address : \A i \in 1..Len(fanned'[a].frames) :
          i \in 1..Len(fanned[a].frames) /\ fanned'[a].frames[i] = fanned[a].frames[i]
  <2> TAKE a \in Address
  <2> TAKE i \in 1..Len(fanned'[a].frames)
  <2>1. Len(<<>>) = 0
    OBVIOUS
  <2>2. a \in DOMAIN readNow /\ fanned[a].at # "none"
    BY <1>3, <2>1
  <2> QED BY <1>3, <2>2
<1>9. RoundsPaid'
  <2>1. Steady => Steady'
    BY <1>1, <1>7, <1>8 DEF Steady, MemosStand
  <2>2. Still => Still'
    BY <1>1, <1>7, <1>8 DEF Still, MemosStand
  <2> QED BY <1>1, <1>2, <2>1, <2>2 DEF RoundsPaid
<1>10. SentLast'
  BY <1>1, <1>2, <1>3, <1>7 DEF SentLast
<1>11. WillHear'
  <2>1. DOMAIN readNow \subseteq Address
    BY <1>2 DEF FanInTypeOK
  <2>2. ASSUME NEW a \in DOMAIN readNow, fanned'[a].at = "open", fanned'[a].frames = <<>>
        PROVE  fanned'[a].woken \/ readNow[a] = There(a) \/ a \in wentBack'
    <3>1. fanned[a].at # "none" /\ fanned'[a] = fanned[a]
      BY <1>3, <2>1, <2>2
    <3>2. fanned[a].woken \/ readNow[a] = There(a) \/ a \in wentBack
      BY <1>1, <1>2, <2>2, <3>1 DEF WillHear, WillBeTold
    <3> QED BY <1>1, <3>1, <3>2
  <2>3. WillBeTold(read)'
    BY <1>1, <1>7, <2>2 DEF WillBeTold
  <2>4. \A a \in DOMAIN readNow : fanned'[a].at # "none"
    BY <1>3, <2>1
  <2> QED BY <1>1, <2>3, <2>4 DEF WillHear
<1> QED BY <1>4, <1>5, <1>6, <1>9, <1>10, <1>11 DEF FanInInv

\* A resolution that is lost is paid for as a change of others' is.
LEMMA ResolutionLostKeeps ==
    ASSUME FanInInv, ResolutionLost
    PROVE  FanInInv'
<1>1. /\ does = "resolve" /\ does' = "wait" /\ DOMAIN readNow' = {} /\ failed' = TRUE
      /\ changes' = changes + 1
      /\ UNCHANGED <<node, memo, due, going, serving, fanned, forced, missed, read,
                     rounds, refusedAt, wentBack>>
  BY DEF ResolutionLost, heldVars, NothingRead
<1>2. FanInTypeOK /\ WatchesRead /\ ReadWhole /\ RoundsPaid /\ SentLast /\ WillHear
  BY DEF FanInInv
<1>3. FanInTypeOK'
  BY <1>1, <1>2 DEF FanInTypeOK
<1>4. WatchesRead'
  BY <1>1, <1>2 DEF WatchesRead
<1>5. ReadWhole'
  <2>1. Least(readNow)'
    BY <1>1 DEF Least
  <2>2. Least(read)' /\ Leads(read, DOMAIN read)'
    BY <1>1, <1>2 DEF ReadWhole
  <2> QED BY <1>1, <2>1, <2>2 DEF ReadWhole
<1>6. RoundsPaid'
  BY <1>1, <1>2, ChangePays
<1>7. SentLast'
  BY <1>1, <1>2 DEF SentLast, There
<1>8. WillHear'
  BY <1>1, <1>2 DEF WillHear
<1> QED BY <1>3, <1>4, <1>5, <1>6, <1>7, <1>8 DEF FanInInv

LEMMA OpenedSet ==
    ASSUME NEW r \in Watch, NEW x
    PROVE  [r EXCEPT !.opened = x] =
             [at |-> r.at, sent |-> r.sent, woken |-> r.woken, frames |-> r.frames,
              opened |-> x]
BY DEF Watch

\* The frames of a watch are taken.
Emptied(r) == [r EXCEPT !.frames = <<>>, !.opened = TRUE]

LEMMA EmptiedIs ==
    ASSUME NEW r \in Watch
    PROVE  LET w == Emptied(r)
           IN  /\ w \in Watch /\ w.at = r.at /\ w.sent = r.sent /\ w.frames = <<>>
               /\ w.woken = r.woken
<1> DEFINE none == <<>>
           r1 == [r EXCEPT !.frames = none]
           yes == TRUE
<1>1. none \in Seq(Frame) /\ yes \in BOOLEAN
  OBVIOUS
<1> HIDE DEF none, yes
<1>2. r1 = [at |-> r.at, sent |-> r.sent, woken |-> r.woken, frames |-> none,
            opened |-> r.opened]
  BY FramesSet
<1>3. r1 \in Watch /\ r1.at = r.at /\ r1.sent = r.sent /\ r1.frames = none
      /\ r1.woken = r.woken
  BY <1>1, <1>2 DEF Watch
<1> DEFINE r2 == [r1 EXCEPT !.opened = yes]
<1> HIDE DEF r1
<1>4. r2 = [at |-> r1.at, sent |-> r1.sent, woken |-> r1.woken, frames |-> r1.frames,
            opened |-> yes]
  BY <1>3, OpenedSet, Zenon
<1>5. r2 \in Watch /\ r2.at = r1.at /\ r2.sent = r1.sent /\ r2.frames = r1.frames
      /\ r2.woken = r1.woken
  BY <1>1, <1>3, <1>4 DEF Watch
<1> HIDE DEF r2
<1>6. r2 \in Watch /\ r2.at = r.at /\ r2.sent = r.sent /\ r2.frames = none
      /\ r2.woken = r.woken
  BY <1>3, <1>5
<1>7. r2 = Emptied(r)
  BY DEF Emptied, r1, r2, none, yes
<1> QED BY <1>6, <1>7 DEF none

\* A stream whose frames the client took.
LEMMA TakenIs ==
    ASSUME FanInTypeOK, NEW a \in Address
    PROVE  /\ Taken(a) \in Watch /\ Taken(a).frames = <<>>
           /\ fanned[a].frames = <<>> => Taken(a) = fanned[a]
           /\ RefusedOpening(a) => Taken(a).at = "none" /\ ~Taken(a).opened
           /\ ~RefusedOpening(a) =>
                  /\ Taken(a).at = fanned[a].at /\ Taken(a).sent = fanned[a].sent
                  /\ Taken(a).woken = fanned[a].woken
<1>1. fanned[a] \in Watch
  BY WatchIs
<1>2. CASE fanned[a].frames = <<>>
  BY <1>1, <1>2 DEF Taken, RefusedOpening
<1>3. CASE RefusedOpening(a)
  BY <1>3, NoWatchIs DEF Taken, RefusedOpening
<1>4. CASE fanned[a].frames # <<>> /\ ~RefusedOpening(a)
  <2>1. Taken(a) = Emptied(fanned[a])
    BY <1>4 DEF Taken, Emptied
  <2> QED BY <1>1, <1>4, <2>1, EmptiedIs
<1> QED BY <1>2, <1>3, <1>4

\* The frames are taken, and one resolution is begun if one of them is news: there
\* was a round left to pay for it, for what the last one read is no longer there.
LEMMA TakeFramesKeeps ==
    ASSUME FanInInv, TakeFrames
    PROVE  FanInInv'
<1>1. /\ does = "wait" /\ fanned' = [a \in Address |-> Taken(a)]
      /\ refusedAt' = refusedAt \cup {a \in Address : RefusedOpening(a)}
      /\ UNCHANGED <<node, memo, due, going, changes, serving, forced, readNow, missed,
                     read, failed, wentBack>>
  BY DEF TakeFrames, heldVars
<1>2. FanInTypeOK /\ WatchesRead /\ ReadWhole /\ RoundsPaid /\ SentLast /\ WillHear
  BY DEF FanInInv
<1>3. /\ DOMAIN readNow = {} /\ AsRead = read /\ LastRead = read /\ missed = {}
      /\ DOMAIN read \subseteq Address
      /\ rounds \in Nat /\ changes \in Nat /\ rounds <= 2 * changes + 1
  BY <1>1, <1>2 DEF WatchesRead, FanInTypeOK, AsRead, LastRead, RoundsPaid
<1>4. \A a \in Address :
        /\ fanned'[a] \in Watch /\ fanned'[a].frames = <<>>
        /\ fanned[a].frames = <<>> => fanned'[a] = fanned[a]
        /\ RefusedOpening(a) => fanned'[a].at = "none" /\ ~fanned'[a].opened
        /\ ~RefusedOpening(a) =>
               /\ fanned'[a].at = fanned[a].at /\ fanned'[a].sent = fanned[a].sent
               /\ fanned'[a].woken = fanned[a].woken
  <2>1. \A a \in Address : fanned'[a] = Taken(a)
    BY <1>1
  <2> QED BY <1>2, <2>1, TakenIs
<1>5. \A a \in Address : \/ fanned'[a].at = fanned[a].at
                         \/ fanned'[a].at = "none" /\ a \in refusedAt'
  BY <1>1, <1>4
<1>6. \A b : There(b)' = There(b)
  BY <1>1 DEF There
<1>7. SentLast'
  <2>1. ASSUME NEW a \in Address PROVE fanned'[a].at # "ended"
    <3>1. Head(<<Refused>>) = Refused /\ <<Refused>> # <<>>
      OBVIOUS
    <3>2. fanned[a].at = "ended" => RefusedOpening(a)
      BY <1>2, <3>1 DEF SentLast, RefusedOpening
    <3> QED BY <1>4, <3>2
  <2> QED BY <1>2, <1>4, <1>6, <2>1 DEF SentLast
<1>8. \A a \in Address : fanned'[a].at \in {"none", "asked"} =>
          fanned'[a].frames = <<>> /\ ~fanned'[a].opened
  <2> SUFFICES ASSUME NEW a \in Address, fanned'[a].at \in {"none", "asked"}
               PROVE  ~fanned'[a].opened
    BY <1>4
  <2>1. CASE RefusedOpening(a)
    BY <1>4, <2>1
  <2>2. CASE ~RefusedOpening(a)
    BY <1>2, <1>4, <2>2 DEF WatchesRead
  <2> QED BY <2>1, <2>2
<1>9. fanned' \in [Address -> Watch] /\ refusedAt' \subseteq Address
  BY <1>1, <1>2, <1>4 DEF FanInTypeOK
<1>10. \A a \in Address : fanned'[a].at # "none" => a \in DOMAIN read
  BY <1>1, <1>2, <1>5 DEF WatchesRead
<1>11. \A a \in Address : Len(fanned'[a].frames) = 0
  BY <1>4
<1>12. \A a \in DOMAIN read : fanned'[a].at = "none" => a \in refusedAt'
  BY <1>1, <1>2, <1>3, <1>5 DEF WillHear
<1>13. CASE \E a \in Address : IsNotice(a)
  <2>1. does' = "resolve" /\ rounds' = rounds + 1
    BY <1>13 DEF TakeFrames
  <2>2. FanInTypeOK'
    BY <1>1, <1>2, <1>3, <1>9, <2>1 DEF FanInTypeOK
  <2>3. WatchesRead'
    BY <1>1, <1>3, <1>8, <1>10, <2>1 DEF WatchesRead
  <2>4. ReadWhole'
    BY <1>1, <1>2, <2>1 DEF ReadWhole
  <2>5. rounds # 2 * changes + 1
    <3>1. PICK a \in Address : IsNotice(a)
      BY <1>13
    <3>2. PICK i \in 1..Len(fanned[a].frames) : fanned[a].frames[i] # read[a]
      BY <3>1 DEF IsNotice, AlreadyRead
    <3>3. a \in DOMAIN read
      <4>1. fanned[a].frames # <<>>
        BY <3>2
      <4> QED BY <1>1, <1>2, <4>1 DEF WatchesRead
    <3> QED BY <1>1, <1>2, <1>3, <3>2, <3>3 DEF RoundsPaid, Still
  <2>6. RoundsPaid'
    <3>1. rounds' <= 2 * changes' + 1
      BY <1>1, <1>3, <2>1, <2>5
    <3>2. AsRead' = readNow /\ LastRead' = read
      BY <1>1, <2>1 DEF AsRead, LastRead
    <3>3. Steady'
      BY <1>1, <1>3, <1>11, <2>1, <3>2 DEF Steady
    <3>4. ASSUME rounds' = 2 * changes' + 1 PROVE Still'
      <4>1. 2 * changes <= rounds
        BY <1>1, <1>3, <2>1, <3>4
      <4>2. Steady
        BY <1>1, <1>2, <4>1 DEF RoundsPaid
      <4>3. MemosStand(LastRead)'
        BY <1>1, <1>3, <3>2, <4>2 DEF Steady, MemosStand
      <4> QED BY <1>1, <1>3, <1>11, <3>2, <4>2, <4>3 DEF Steady, Still
    <3> QED BY <3>1, <3>3, <3>4 DEF RoundsPaid
  <2>7. WillHear'
    BY <1>1, <1>3, <1>12, <2>1 DEF WillHear, WillBeTold
  <2> QED BY <1>7, <2>2, <2>3, <2>4, <2>6, <2>7 DEF FanInInv
<1>14. CASE ~\E a \in Address : IsNotice(a)
  <2>1. does' = does /\ rounds' = rounds
    BY <1>14 DEF TakeFrames
  <2>2. FanInTypeOK'
    BY <1>1, <1>2, <1>9, <2>1 DEF FanInTypeOK
  <2>3. WatchesRead'
    BY <1>1, <1>2, <1>8, <1>10, <2>1 DEF WatchesRead
  <2>4. ReadWhole'
    BY <1>1, <1>2, <2>1 DEF ReadWhole
  <2>5. RoundsPaid'
    <3>1. AsRead' = AsRead /\ LastRead' = LastRead
      BY <1>1, <2>1 DEF AsRead, LastRead
    <3>2. (Steady => Steady') /\ (Still => Still')
      BY <1>1, <1>6, <1>11, <2>1, <3>1 DEF Steady, Still, MemosStand
    <3> QED BY <1>1, <1>2, <2>1, <3>2 DEF RoundsPaid
  <2>6. WillHear'
    <3>1. ASSUME ~failed, NEW a \in DOMAIN read, fanned'[a].at = "open"
          PROVE  fanned'[a].woken \/ read[a] = There(a) \/ a \in wentBack
      <4>1. a \in Address /\ ~RefusedOpening(a)
        BY <1>3, <1>4, <3>1
      <4>2. fanned[a].at = "open" /\ fanned'[a].woken = fanned[a].woken
        BY <1>4, <3>1, <4>1
      <4>3. CASE fanned[a].frames = <<>>
        BY <1>1, <1>2, <3>1, <4>1, <4>2, <4>3 DEF WillHear, WillBeTold
      <4>4. CASE fanned[a].frames # <<>>
        <5>1. fanned[a].frames \in Seq(Frame)
          BY <1>2, <4>1, WatchIs
        <5>2. Len(fanned[a].frames) \in 1..Len(fanned[a].frames)
          BY <4>4, <5>1
        <5>3. fanned[a].frames[Len(fanned[a].frames)] = read[a]
          BY <1>14, <4>1, <5>2 DEF IsNotice, AlreadyRead
        <5>4. fanned[a].sent = read[a]
          BY <1>2, <4>1, <4>2, <4>4, <5>3 DEF SentLast
        <5> QED BY <1>2, <4>1, <4>2, <5>4 DEF SentLast
      <4> QED BY <4>3, <4>4
    <3>2. ~failed => WillBeTold(read)'
      BY <1>1, <1>6, <3>1 DEF WillBeTold
    <3> QED BY <1>1, <1>12, <2>1, <3>2 DEF WillHear
  <2> QED BY <1>7, <2>2, <2>3, <2>4, <2>5, <2>6 DEF FanInInv
<1> QED BY <1>13, <1>14

LEMMA FanInStepInv ==
    ASSUME FanInInv, [FanInNext]_fanInVars
    PROVE  FanInInv'
<1>1. ASSUME NEW a \in Address, NEW v \in Shown, ChangeNode(a, v) PROVE FanInInv'
  BY <1>1, ChangeNodeKeeps
<1>2. ASSUME NEW a \in Cached, ChangeMemo(a) PROVE FanInInv'
  BY <1>2, ChangeMemoKeeps
<1>3. serving \in BOOLEAN /\ due \subseteq Executes /\ going \subseteq Executes
  BY DEF FanInInv, FanInTypeOK
<1>4. ASSUME NEW a \in Address, ComesDue(a) PROVE FanInInv'
  BY <1>3, <1>4, QuietKeeps DEF ComesDue, clientVars
<1>5. ASSUME NEW a \in Address, RunEnds(a) PROVE FanInInv'
  BY <1>5, RunEndsKeeps
<1>6. ASSUME NEW a \in Address, AnswerWatch(a) PROVE FanInInv'
  BY <1>6, AnswerWatchKeeps
<1>7. ASSUME NEW a \in Address, ServeWatch(a) PROVE FanInInv'
  BY <1>7, ServeWatchKeeps
<1>8. ASSUME NEW a \in Address, FetchNode(a) PROVE FanInInv'
  BY <1>8, FetchNodeKeeps
<1>9. ASSUME NEW a \in Address, WriteBack(a) PROVE FanInInv'
  BY <1>9, WriteBackKeeps
<1>10. CASE DaemonEnds
  BY <1>3, <1>10, QuietKeeps DEF DaemonEnds, heldVars, clientVars
<1>11. CASE ResolutionFails
  BY <1>3, <1>11, QuietKeeps DEF ResolutionFails, heldVars
<1>12. CASE WatchEnds
  BY <1>3, <1>12, QuietKeeps DEF WatchEnds, heldVars
<1>13. CASE ResolutionEnds
  BY <1>13, ResolutionEndsKeeps
<1>14. CASE Follow
  BY <1>14, FollowKeeps
<1>15. CASE ResolutionLost
  BY <1>15, ResolutionLostKeeps
<1>16. CASE TakeFrames
  BY <1>16, TakeFramesKeeps
<1>17. CASE UNCHANGED fanInVars
  BY <1>3, <1>17, QuietKeeps DEF fanInVars, heldVars, clientVars
<1> QED
  BY <1>1, <1>2, <1>4, <1>5, <1>6, <1>7, <1>8, <1>9, <1>10, <1>11, <1>12, <1>13, <1>14,
     <1>15, <1>16, <1>17 DEF FanInNext

LEMMA FanInEver == FanInSpec => []FanInInv
<1>1. FanInInit => FanInInv
  BY FanInInitInv
<1>2. FanInInv /\ [FanInNext]_fanInVars => FanInInv'
  BY FanInStepInv
<1> QED BY <1>1, <1>2, PTL DEF FanInSpec

\* The watch of a resolved value dies down (as_reresolve_inputs, already_read,
\* write_back): though its reads begin runs and it writes memos back, each of its
\* re-resolutions is paid for by something it did not do, two for each such thing
\* and one for the opening, for every graph of addresses, cached leaves and
\* inputs of theirs.
THEOREM NoStormEver == FanInSpec => []NoStorm
<1>1. FanInInv => NoStorm
  BY DEF FanInInv, RoundsPaid, NoStorm
<1> QED BY <1>1, FanInEver, PTL

\* Once nothing is on its way to the client, what it resolved from is what the
\* daemon holds, memos included (ResolvedWatch::take_buffered, follow, write_back,
\* handle_watch), but for a node that came back to what its stream had sent, an
\* address refused, and what a failed resolution had the notices of.
THEOREM FanInCaughtUpEver == FanInSpec => []FanInCaughtUp
<1>1. ASSUME FanInInv, FanInRests, ~failed, NEW a \in DOMAIN read
      PROVE  read[a] = There(a) \/ a \in wentBack \cup refusedAt
  <2>1. does = "wait" /\ FanInTypeOK /\ a \in Address /\ SentLast /\ WillHear
    BY <1>1 DEF FanInInv, FanInRests, FanInTypeOK
  <2>2. /\ fanned[a].frames = <<>> /\ ~fanned[a].woken
        /\ fanned[a].at \in {"none", "open", "ended"}
    BY <1>1, <2>1, WatchIs DEF FanInRests
  <2>3. CASE fanned[a].at = "none"
    BY <2>1, <2>3 DEF WillHear
  <2>4. CASE fanned[a].at = "open"
    BY <1>1, <2>1, <2>2, <2>4 DEF WillHear, WillBeTold
  <2>5. CASE fanned[a].at = "ended"
    BY <2>1, <2>2, <2>5 DEF SentLast
  <2> QED BY <2>2, <2>3, <2>4, <2>5
<1>2. FanInInv => FanInCaughtUp
  BY <1>1 DEF FanInCaughtUp
<1> QED BY <1>2, FanInEver, PTL
=============================================================================
