----------------------------- MODULE Singleton -----------------------------
(***************************************************************************)
(* How one daemon comes to own a socket: daemon processes that start,      *)
(* contend for the flock on the pid file, supersede one another, bind the  *)
(* socket, leave, and are killed (src/src/singleton/mod.rs,                *)
(* src/src/cli/commands/daemon.rs, Server::bind).                          *)
(*                                                                         *)
(* The file system is what they share: which inode the pid path names,     *)
(* what is written in it, who holds the flock of it, and which listener    *)
(* the socket path names.  A process does one call on it at a time, so     *)
(* that what another process does in between can matter.  Process ids are  *)
(* not used again.  Time is not kept: a grace or a deadline may run out at *)
(* any point after the first try it allows.                                *)
(***************************************************************************)
EXTENDS Integers, FiniteSets

CONSTANTS
    Proc,       \* daemon processes: each is started once
    NoProc,
    MaxBuild,   \* how many builds of the binary there will be
    MaxCrash    \* how many processes the outside kills outright

ASSUME NumbersAssumption == MaxBuild \in Nat \ {0} /\ MaxCrash \in Nat

ASSUME ProcAssumption == IsFiniteSet(Proc) /\ NoProc \notin Proc

Build == 1..MaxBuild

\* A process has at most one pid file open, and the path names one more.
Inode == 1..(Cardinality(Proc) + 1)

NoInode == 0

VARIABLES
    stage,   \* [Proc -> Stage]
    build,   \* [Proc -> Build]: hash_current_binary, taken at the start
    since,   \* [Proc -> Build \cup {0}]: what was on disk when the watch began
    again,   \* procs that have superseded, and are at the retries of acquire
    target,  \* [Proc -> Proc \cup {NoProc}]: the pid a superseding proc read
    told,    \* procs whose cancellation token is cancelled
    fd,      \* [Proc -> Inode \cup {NoInode}]: the pid file a proc has open
    pidFile, \* the inode the pid path names, or NoInode
    pidIn,   \* [Inode -> Proc \cup {NoProc}]: the pid written in it
    lockOf,  \* [Inode -> Proc \cup {NoProc}]: who holds the flock of it
    listens, \* procs with a listener
    sock,    \* whose listener the socket path names, or NoProc
    disk,    \* the build of the binary on disk
    crashes, \* how many procs the outside has killed
    owed     \* starts nothing from outside has undone: see NoStartUnserved

fileVars == <<fd, pidFile, pidIn, lockOf>>
sockVars == <<listens, sock>>
procVars == <<stage, build, since, again, target, told>>
singletonVars == <<procVars, fileVars, sockVars, disk, crashes, owed>>

Stage == {"none", "open", "lock", "read", "probe", "kill", "await",
          "clear", "write", "arm", "look", "unlink", "bind", "serve",
          "unpid", "close", "dead"}

\* The process exists.
Alive(p) == stage[p] \notin {"none", "dead"}

\* SIGTERM is handled: before the signal thread starts it ends the process.
Armed(p) == stage[p] \in {"look", "unlink", "bind", "serve", "unpid", "close"}

\* The socket answers a connect.
Serving == sock \in listens

FreeInode ==
    CHOOSE i \in Inode : i # pidFile /\ \A p \in Proc : fd[p] # i

\* The starts that have done nothing yet: they hold and have signalled nobody.
Fresh == {q \in Proc \ again : stage[q] \in {"open", "lock", "read", "probe"}}

\* The pid path names another file than the daemon's, which another unlinked:
\* who supersedes it meets whoever has locked the other file.
Adrift(q) ==
    /\ stage[q] \in {"arm", "look", "unlink", "bind", "serve"}
    /\ fd[q] # pidFile

\* What is owed once q has been superseded.
OwedAfter(q) == IF Adrift(q) THEN owed \cap Fresh ELSE owed

SingletonInit ==
    /\ stage = [p \in Proc |-> "none"]
    /\ build = [p \in Proc |-> 1]
    /\ since = [p \in Proc |-> 0]
    /\ again = {} /\ told = {} /\ listens = {} /\ owed = {}
    /\ target = [p \in Proc |-> NoProc]
    /\ fd = [p \in Proc |-> NoInode]
    /\ pidFile = NoInode
    /\ pidIn = [i \in Inode |-> NoProc]
    /\ lockOf = [i \in Inode |-> NoProc]
    /\ sock = NoProc
    /\ disk = 1
    /\ crashes = 0

GoesTo(p, s) == stage' = [stage EXCEPT ![p] = s]

-----------------------------------------------------------------------------
(* Acquiring the lock. *)

\* The process starts and hashes the binary it runs.
Start(p) ==
    /\ stage[p] = "none"
    /\ GoesTo(p, "open")
    /\ build' = [build EXCEPT ![p] = disk]
    /\ owed' = owed \cup {p}
    /\ UNCHANGED <<since, again, target, told, fileVars, sockVars, disk,
                   crashes>>

\* acquire opens the pid path, and makes the file if there is none.
Open(p) ==
    /\ stage[p] = "open"
    /\ IF pidFile = NoInode
         THEN LET i == FreeInode
              IN  /\ pidFile' = i
                  /\ fd' = [fd EXCEPT ![p] = i]
                  /\ pidIn' = [pidIn EXCEPT ![i] = NoProc]
         ELSE fd' = [fd EXCEPT ![p] = pidFile] /\ UNCHANGED <<pidFile, pidIn>>
    /\ GoesTo(p, "lock")
    /\ UNCHANGED <<build, since, again, target, told, lockOf, sockVars, disk,
                   crashes, owed>>

\* flock takes the inode that was opened, whatever the path names by now.
Lock(p) ==
    /\ stage[p] = "lock"
    /\ lockOf[fd[p]] = NoProc
    /\ lockOf' = [lockOf EXCEPT ![fd[p]] = p]
    /\ GoesTo(p, "clear")
    /\ UNCHANGED <<build, since, again, target, told, fd, pidFile, pidIn,
                   sockVars, disk, crashes, owed>>

\* flock would block: acquire closes the file, with AlreadyHeld.  The first
\* time the record decides what follows.  After a supersession acquire is
\* tried again.
Contended(p) ==
    /\ stage[p] = "lock"
    /\ lockOf[fd[p]] # NoProc
    /\ fd' = [fd EXCEPT ![p] = NoInode]
    /\ GoesTo(p, IF p \in again THEN "open" ELSE "read")
    /\ UNCHANGED <<build, since, again, target, told, pidFile, pidIn, lockOf,
                   sockVars, disk, crashes, owed>>

\* The process ends by itself with an error its spawner sees.
Fails(p) ==
    /\ GoesTo(p, "dead")
    /\ owed' = owed \ {p}

\* The deadline of the retries has passed.
GiveUp(p) ==
    /\ stage[p] = "lock" /\ p \in again
    /\ lockOf[fd[p]] # NoProc
    /\ fd' = [fd EXCEPT ![p] = NoInode]
    /\ Fails(p)
    /\ UNCHANGED <<build, since, again, target, told, pidFile, pidIn, lockOf,
                   sockVars, disk, crashes>>

\* The record is read from the path.  With no file there, or nothing written
\* in it yet, the start fails.  Another build is superseded at once.
Read(p) ==
    /\ stage[p] = "read"
    /\ UNCHANGED <<build, since, again, told, fileVars, sockVars, disk,
                   crashes>>
    /\ IF pidFile = NoInode \/ pidIn[pidFile] = NoProc
         THEN Fails(p) /\ UNCHANGED target
         ELSE /\ target' = [target EXCEPT ![p] = pidIn[pidFile]]
              /\ GoesTo(p, IF build[pidIn[pidFile]] = build[p] THEN "probe"
                                                           ELSE "kill")
              /\ UNCHANGED owed

\* Mutant: whoever holds the lock is taken to serve.
ProbeTrusting(p) ==
    /\ stage[p] = "probe"
    /\ GoesTo(p, "dead")
    /\ UNCHANGED <<build, since, again, target, told, fileVars, sockVars,
                   disk, crashes, owed>>

\* probe_until_serving: the same build serves, so the process leaves it to
\* that one; or it does not within the grace.
Probe(p) ==
    /\ stage[p] = "probe"
    /\ GoesTo(p, IF Serving THEN "dead" ELSE "kill")
    /\ UNCHANGED <<build, since, again, target, told, fileVars, sockVars,
                   disk, crashes, owed>>

\* What a process leaves behind when it dies: its files are closed, so its
\* flock and its listener are gone; both paths stay.
Dies(q) ==
    /\ fd' = [fd EXCEPT ![q] = NoInode]
    /\ lockOf' = [i \in Inode |-> IF lockOf[i] = q THEN NoProc ELSE lockOf[i]]
    /\ listens' = listens \ {q}
    /\ UNCHANGED <<pidFile, pidIn, sock>>

\* supersede_existing sends SIGTERM; the owner may be gone already.
Kill(p) ==
    /\ stage[p] = "kill"
    /\ LET t == target[p]
       IN  CASE ~Alive(t) ->
                    /\ GoesTo(p, "open") /\ again' = again \cup {p}
                    /\ UNCHANGED <<told, fileVars, sockVars, owed>>
             [] Alive(t) /\ Armed(t) ->
                    /\ GoesTo(p, "await") /\ told' = told \cup {t}
                    /\ UNCHANGED <<again, fileVars, sockVars, owed>>
             [] Alive(t) /\ ~Armed(t) ->
                    /\ stage' = [stage EXCEPT ![p] = "await", ![t] = "dead"]
                    /\ Dies(t) /\ owed' = OwedAfter(t)
                    /\ UNCHANGED <<again, told>>
    /\ UNCHANGED <<build, since, target, disk, crashes>>

\* The owner has gone, or the grace has: then SIGKILL ends it.
Await(p) ==
    /\ stage[p] = "await"
    /\ again' = again \cup {p}
    /\ LET t == target[p]
       IN  \/ /\ ~Alive(t)
              /\ GoesTo(p, "open")
              /\ UNCHANGED <<fileVars, sockVars, owed>>
           \/ /\ Alive(t)
              /\ stage' = [stage EXCEPT ![p] = "open", ![t] = "dead"]
              /\ Dies(t) /\ owed' = OwedAfter(t)
    /\ UNCHANGED <<build, since, target, told, disk, crashes>>

\* Mutant: the record is zeroed where it should be emptied.
ClearToZero(p) ==
    /\ stage[p] = "clear"
    /\ pidIn' = [pidIn EXCEPT ![fd[p]] = NoInode]
    /\ GoesTo(p, "write")
    /\ UNCHANGED <<build, since, again, target, told, fd, pidFile, lockOf,
                   sockVars, disk, crashes, owed>>

\* The owner empties the file, then writes its record.
Clear(p) ==
    /\ stage[p] = "clear"
    /\ pidIn' = [pidIn EXCEPT ![fd[p]] = NoProc]
    /\ GoesTo(p, "write")
    /\ UNCHANGED <<build, since, again, target, told, fd, pidFile, lockOf,
                   sockVars, disk, crashes, owed>>

Write(p) ==
    /\ stage[p] = "write"
    /\ pidIn' = [pidIn EXCEPT ![fd[p]] = p]
    /\ GoesTo(p, "arm")
    /\ UNCHANGED <<build, since, again, target, told, fd, pidFile, lockOf,
                   sockVars, disk, crashes, owed>>

-----------------------------------------------------------------------------
(* Serving and leaving. *)

\* What the binary on disk is compared with from now on: the file as it is
\* when the watch begins, for its clock is read only then.
WatchedFrom(p) == disk

\* The signal thread starts, then the watch on the binary.
Arm(p) ==
    /\ stage[p] = "arm"
    /\ since' = [since EXCEPT ![p] = WatchedFrom(p)]
    /\ GoesTo(p, "look")
    /\ UNCHANGED <<build, again, target, told, fileVars, sockVars, disk,
                   crashes, owed>>

\* Server::bind looks at the socket path first.  Where something answers the
\* daemon does not start.
Look(p) ==
    /\ stage[p] = "look"
    /\ IF sock = NoProc THEN GoesTo(p, "bind") /\ UNCHANGED owed
       ELSE IF Serving  THEN GoesTo(p, "unpid") /\ owed' = owed \ {p}
                        ELSE GoesTo(p, "unlink") /\ UNCHANGED owed
    /\ UNCHANGED <<build, since, again, target, told, fileVars, sockVars,
                   disk, crashes>>

\* The stale socket is unlinked, whosoever it is by now.
Unlink(p) ==
    /\ stage[p] = "unlink"
    /\ sock' = NoProc
    /\ GoesTo(p, "bind")
    /\ UNCHANGED <<build, since, again, target, told, fileVars, listens, disk,
                   crashes, owed>>

\* bind takes a free path only.
Bind(p) ==
    /\ stage[p] = "bind"
    /\ IF sock = NoProc
         THEN /\ sock' = p /\ listens' = listens \cup {p}
              /\ GoesTo(p, "serve") /\ UNCHANGED owed
         ELSE /\ UNCHANGED sockVars
              /\ GoesTo(p, "unpid") /\ owed' = owed \ {p}
    /\ UNCHANGED <<build, since, again, target, told, fileVars, disk, crashes>>

\* The watch on the binary cancels: an event, or the poll of its mtime.
Notice(p) ==
    /\ stage[p] \in {"look", "unlink", "bind", "serve"}
    /\ p \notin told
    /\ since[p] # disk
    /\ told' = told \cup {p}
    /\ owed' = owed \ {p}
    /\ UNCHANGED <<stage, build, since, again, target, fileVars, sockVars,
                   disk, crashes>>

\* A cancelled daemon drops its listener; the socket path stays.
Leave(p) ==
    /\ stage[p] = "serve" /\ p \in told
    /\ listens' = listens \ {p}
    /\ GoesTo(p, "unpid")
    /\ owed' = IF p \in owed THEN OwedAfter(p) ELSE owed \cap Fresh
    /\ UNCHANGED <<build, since, again, target, told, fileVars, sock, disk,
                   crashes>>

\* Mutant: the lock goes with the name.
UnpidUnlocked(p) ==
    /\ stage[p] = "unpid"
    /\ pidFile' = NoInode
    /\ lockOf' = [i \in Inode |-> IF lockOf[i] = p THEN NoProc ELSE lockOf[i]]
    /\ GoesTo(p, "close")
    /\ UNCHANGED <<build, since, again, target, told, fd, pidIn, sockVars,
                   disk, crashes, owed>>

\* SingletonLock is dropped: the path is unlinked, then its file is closed,
\* and the process ends.
Unpid(p) ==
    /\ stage[p] = "unpid"
    /\ pidFile' = NoInode
    /\ GoesTo(p, "close")
    /\ UNCHANGED <<build, since, again, target, told, fd, pidIn, lockOf,
                   sockVars, disk, crashes, owed>>

Close(p) ==
    /\ stage[p] = "close"
    /\ Dies(p)
    /\ GoesTo(p, "dead")
    /\ UNCHANGED <<build, since, again, target, told, disk, crashes, owed>>

-----------------------------------------------------------------------------
(* The outside. *)

\* The binary is replaced.
Replace ==
    /\ disk < MaxBuild
    /\ disk' = disk + 1
    /\ UNCHANGED <<procVars, fileVars, sockVars, crashes, owed>>

\* A daemon is told to stop: a signal, or a setting that needs a restart.
Stop(p) ==
    /\ Armed(p) /\ p \notin told
    /\ told' = told \cup {p}
    /\ owed' = owed \ {p}
    /\ UNCHANGED <<stage, build, since, again, target, fileVars, sockVars,
                   disk, crashes>>

\* A process is killed outright.
Crash(p) ==
    /\ Alive(p) /\ crashes < MaxCrash
    /\ crashes' = crashes + 1
    /\ GoesTo(p, "dead")
    /\ Dies(p)
    /\ owed' = (owed \cap Fresh) \ {p}
    /\ UNCHANGED <<build, since, again, target, told, disk>>

DaemonStep(p) ==
    \/ Open(p) \/ Lock(p) \/ Contended(p) \/ GiveUp(p) \/ Read(p)
    \/ Probe(p) \/ Kill(p) \/ Await(p) \/ Clear(p) \/ Write(p)
    \/ Arm(p) \/ Look(p) \/ Unlink(p) \/ Bind(p) \/ Notice(p)
    \/ Leave(p) \/ Unpid(p) \/ Close(p)

SingletonNext ==
    \/ \E p \in Proc : Start(p) \/ DaemonStep(p) \/ Stop(p) \/ Crash(p)
    \/ Replace

SingletonSpec == SingletonInit /\ [][SingletonNext]_singletonVars

-----------------------------------------------------------------------------
(* Properties. *)

SingletonTypeOK ==
    /\ stage \in [Proc -> Stage]
    /\ build \in [Proc -> Build]
    /\ since \in [Proc -> Build \cup {0}]
    /\ again \subseteq Proc /\ told \subseteq Proc
    /\ target \in [Proc -> Proc \cup {NoProc}]
    /\ fd \in [Proc -> Inode \cup {NoInode}]
    /\ pidFile \in Inode \cup {NoInode}
    /\ pidIn \in [Inode -> Proc \cup {NoProc}]
    /\ lockOf \in [Inode -> Proc \cup {NoProc}]
    /\ listens \subseteq Proc
    /\ sock \in Proc \cup {NoProc}
    /\ disk \in Build
    /\ crashes \in 0..MaxCrash
    /\ owed \subseteq Proc

\* Nothing is under way: every process has ended, or serves and is not asked
\* to stop.
AtRest ==
    \A p \in Proc : \/ stage[p] \in {"none", "dead"}
                    \/ stage[p] = "serve" /\ p \notin told

\* A start that came to nothing without a word left a daemon that serves: one
\* that exits silently, is superseded, or supersedes an owner that was itself
\* on its way out never leaves the socket to nobody.  Left out is what the
\* outside undoes, and, where it takes five processes, what ends with a daemon
\* whose pid path another daemon unlinked: see the README.
NoStartUnserved == AtRest /\ owed # {} => Serving

\* What a superseding process signals is the owner of the lock it lost to: a
\* process a record names and that still lives has not let go of its lock.
OnlyOwnersSignalled ==
    \A p \in Proc : stage[p] \in {"kill", "await"} =>
        (Alive(target[p]) => \E i \in Inode : lockOf[i] = target[p])
=============================================================================
