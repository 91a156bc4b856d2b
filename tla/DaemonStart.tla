---------------------------- MODULE DaemonStart ----------------------------
(***************************************************************************)
(* How clients find the daemon or start it: the discovery file, the health *)
(* check, the lock directory around the start, and the daemon's own start  *)
(* up to the discovery file.  Clients and daemons are processes that share *)
(* the file system only; each step is one file operation or one answer.    *)
(*                                                                         *)
(* Daemons are numbered in the order in which they are spawned.  The file  *)
(* is written by truncating it: in between it does not parse.  It names a  *)
(* process and a base URL; a health check asks the URL, whoever serves it. *)
(***************************************************************************)
EXTENDS Integers, FiniteSets

CONSTANTS
  Clients,      \* processes that call ensureDaemon
  Nobody,       \* owner of a lock directory that is not there
  MaxDaemons,   \* bound: daemons spawned
  MaxTroubles   \* bound: processes killed, health checks that time out, sleeps

ASSUME DaemonStartAssumption ==
  /\ Nobody \notin Clients
  /\ MaxDaemons \in Nat \ {0} /\ MaxTroubles \in Nat

VARIABLES
  port,        \* SYNCHRONIZE_PORT: daemons bind one port, or each a free one
  daemon,      \* the daemons' processes
  spawned,     \* number of daemons so far
  discovery,   \* the discovery file: the daemon it names, None or Torn
  lock,        \* the lock directory: who made it, and whether it is old
  stage,       \* where a client is in ensureDaemon
  seen,        \* the daemon in the file that the client has read
  child,       \* the daemon that the client spawned
  served,      \* history: the daemons that have served since the call began
  troubles

vars == <<port, daemon, spawned, discovery, lock, stage, seen, child, served, troubles>>
processes == <<port, daemon, spawned>>

Daemons == 1..MaxDaemons
None == 0
Torn == -1
Free == [owner |-> Nobody, old |-> FALSE]

InBody == {"recheck", "recheck_health", "spawn", "wait", "wait_health"}
Stages == {"idle", "host_health", "host_stop", "host_remove", "hosted", "health", "lock", "remove_stale", "unlock_ok", "unlock_error",
           "read", "done", "failed", "killed"} \cup InBody

TypeOK ==
  /\ port \in {"fixed", "free"}
  /\ daemon \in [Daemons -> {"unborn", "booting", "listening", "writing", "ready", "dead"}]
  /\ spawned \in 0..MaxDaemons
  /\ discovery \in {None, Torn} \cup Daemons
  /\ lock \in [owner : Clients \cup {Nobody}, old : BOOLEAN]
  /\ stage \in [Clients -> Stages]
  /\ seen \in [Clients -> {None} \cup Daemons]
  /\ child \in [Clients -> {None} \cup Daemons]
  /\ served \in [Clients -> SUBSET Daemons]
  /\ troubles \in 0..MaxTroubles
  /\ \A c \in Clients : stage[c] = "done" => seen[c] # None

Trouble == troubles < MaxTroubles /\ troubles' = troubles + 1
Goto(c, s) == stage' = [stage EXCEPT ![c] = s]

Serving == {d \in Daemons : daemon[d] \in {"listening", "writing", "ready"}}

\* Two daemons' files have one base URL.  (A free port is not handed out twice.)
SameUrl(d, e) == d = e \/ port = "fixed"

\* Some daemon answers at the base URL in a daemon's file.
Answers(d) == d # None /\ \E e \in Serving : SameUrl(d, e)

-----------------------------------------------------------------------------
(*                               The daemon                                *)

\* Bun.serve: a fixed port that is taken ends the process.
Bind(d) ==
  /\ daemon[d] = "booting"
  /\ \/ /\ port = "fixed" /\ Serving # {}
        /\ daemon' = [daemon EXCEPT ![d] = "dead"]
        /\ UNCHANGED served
     \/ /\ port = "free" \/ Serving = {}
        /\ daemon' = [daemon EXCEPT ![d] = "listening"]
        /\ served' = [c \in Clients |-> served[c] \cup {d}]
  /\ UNCHANGED <<port, spawned, discovery, lock, stage, seen, child, troubles>>

\* writeJson(discovery): the file is truncated, then written.
Truncate(d) ==
  /\ daemon[d] = "listening"
  /\ daemon' = [daemon EXCEPT ![d] = "writing"]
  /\ discovery' = Torn
  /\ UNCHANGED <<port, spawned, lock, stage, seen, child, served, troubles>>

Write(d) ==
  /\ daemon[d] = "writing"
  /\ daemon' = [daemon EXCEPT ![d] = "ready"]
  /\ discovery' = d
  /\ UNCHANGED <<port, spawned, lock, stage, seen, child, served, troubles>>

\* A daemon is killed; the file stays as it is.
Die(d) ==
  /\ Trouble
  /\ daemon[d] \in {"booting", "listening", "writing", "ready"}
  /\ daemon' = [daemon EXCEPT ![d] = "dead"]
  /\ UNCHANGED <<port, spawned, discovery, lock, stage, seen, child, served>>

-----------------------------------------------------------------------------
(*                              ensureDaemon                               *)

\* readJson: a file that does not parse makes the caller fail, a missing one
\* names nobody.
Read(c, named, missing, unparsable) ==
  /\ seen' = [seen EXCEPT ![c] = IF discovery = Torn THEN None ELSE discovery]
  /\ Goto(c, CASE discovery = Torn -> unparsable
               [] discovery = None -> missing
               [] OTHER            -> named)

\* isHealthy: a daemon that serves the base URL may still answer too late.
Health(c, healthy, unhealthy) ==
  \/ Answers(seen[c]) /\ Goto(c, healthy) /\ UNCHANGED troubles
  \/ ~ Answers(seen[c]) /\ Goto(c, unhealthy) /\ UNCHANGED troubles
  \/ Answers(seen[c]) /\ Trouble /\ Goto(c, unhealthy)

\* The host command with --restart reads a file with other settings than it wants.
Host(c) ==
  /\ Trouble
  /\ stage[c] = "idle"
  /\ Read(c, "host_health", "hosted", "failed")
  /\ UNCHANGED <<processes, discovery, lock, child, served>>

\* discoveryIsHealthy
HostHealth(c) ==
  /\ stage[c] = "host_health"
  /\ Health(c, "host_stop", "hosted")
  /\ UNCHANGED <<processes, discovery, lock, seen, child, served>>

\* stopDaemon: it waits until the process in the file is gone, which need not be
\* the one that answered.
HostStop(c) ==
  /\ stage[c] = "host_stop"
  /\ daemon' = [daemon EXCEPT ![seen[c]] = "dead"]
  /\ Goto(c, "host_remove")
  /\ UNCHANGED <<port, spawned, discovery, lock, seen, child, served, troubles>>

\* The discovery file is removed, whichever daemon it names by now.
HostRemove(c) ==
  /\ stage[c] = "host_remove"
  /\ discovery' = None
  /\ Goto(c, "hosted")
  /\ UNCHANGED <<processes, lock, seen, child, served, troubles>>

\* ensureDaemon begins.
Call(c) ==
  /\ stage[c] \in {"idle", "hosted"}
  /\ Read(c, "health", "lock", "failed")
  /\ served' = [served EXCEPT ![c] = Serving]
  /\ UNCHANGED <<processes, discovery, lock, child, troubles>>

CheckFound(c) ==
  /\ stage[c] = "health"
  /\ Health(c, "done", "lock")
  /\ UNCHANGED <<processes, discovery, lock, seen, child, served>>

\* withLaunchLock: mkdir makes the directory or finds it there.
MakeLock(c) ==
  /\ stage[c] = "lock" /\ lock = Free
  /\ lock' = [owner |-> c, old |-> FALSE]
  /\ Goto(c, "recheck")
  /\ UNCHANGED <<processes, discovery, seen, child, served, troubles>>

\* Mutant of FindOldLock: any lock that is there counts as stale.
FindAnyLock(c) ==
  /\ stage[c] = "lock" /\ lock # Free
  /\ Goto(c, "remove_stale")
  /\ UNCHANGED <<processes, discovery, lock, seen, child, served, troubles>>

\* Mutant of FindOldLock: a stale lock is waited for like any other.
FindOldLockWaiting(c) ==
  /\ stage[c] = "lock" /\ lock.old
  /\ UNCHANGED vars

\* It is older than STALE_LOCK_MS.  (A younger one is waited for.)
FindOldLock(c) ==
  /\ stage[c] = "lock" /\ lock.old
  /\ Goto(c, "remove_stale")
  /\ UNCHANGED <<processes, discovery, lock, seen, child, served, troubles>>

\* The lock that is there by now is removed.
RemoveStale(c) ==
  /\ stage[c] = "remove_stale"
  /\ lock' = Free
  /\ Goto(c, "lock")
  /\ UNCHANGED <<processes, discovery, seen, child, served, troubles>>

\* The lock gets old: its owner is gone, or slept for longer than the 30 s that
\* no start takes.
Age ==
  /\ lock # Free /\ ~ lock.old
  /\ IF stage[lock.owner] \in InBody \cup {"unlock_ok", "unlock_error"} THEN Trouble
     ELSE UNCHANGED troubles
  /\ lock' = [lock EXCEPT !.old = TRUE]
  /\ UNCHANGED <<processes, discovery, stage, seen, child, served>>

Recheck(c) ==
  /\ stage[c] = "recheck"
  /\ Read(c, "recheck_health", "spawn", "unlock_error")
  /\ UNCHANGED <<processes, discovery, lock, child, served, troubles>>

\* Mutant of CheckAgain: with the lock, a discovery file that is there is trusted.
CheckAgainNot(c) ==
  /\ stage[c] = "recheck_health"
  /\ Goto(c, "unlock_ok")
  /\ UNCHANGED <<processes, discovery, lock, seen, child, served, troubles>>

CheckAgain(c) ==
  /\ stage[c] = "recheck_health"
  /\ Health(c, "unlock_ok", "spawn")
  /\ UNCHANGED <<processes, discovery, lock, seen, child, served>>

\* startDaemon: a detached process.
StartDaemon(c) ==
  /\ stage[c] = "spawn"
  /\ spawned < MaxDaemons
  /\ spawned' = spawned + 1
  /\ daemon' = [daemon EXCEPT ![spawned + 1] = "booting"]
  /\ child' = [child EXCEPT ![c] = spawned + 1]
  /\ Goto(c, "wait")
  /\ UNCHANGED <<port, discovery, lock, seen, served, troubles>>

\* waitForDaemon: a child that has ended ends the wait, once no discovery file
\* names a healthy daemon; so does the deadline.
WaitRead(c) ==
  /\ stage[c] = "wait"
  /\ Read(c, "wait_health", "wait_health", "unlock_error")
  /\ UNCHANGED <<processes, discovery, lock, child, served, troubles>>

WaitHealth(c) ==
  /\ stage[c] = "wait_health"
  /\ Health(c, "unlock_ok", IF daemon[child[c]] = "dead" THEN "unlock_error" ELSE "wait")
  /\ UNCHANGED <<processes, discovery, lock, seen, child, served>>

Deadline(c) ==
  /\ stage[c] = "wait"
  /\ Goto(c, "unlock_error")
  /\ UNCHANGED <<processes, discovery, lock, seen, child, served, troubles>>

\* The finally of withLaunchLock removes the lock that is there, whoever made it.
Unlock(c) ==
  /\ stage[c] \in {"unlock_ok", "unlock_error"}
  /\ lock' = Free
  /\ Goto(c, IF stage[c] = "unlock_ok" THEN "read" ELSE "failed")
  /\ UNCHANGED <<processes, discovery, seen, child, served, troubles>>

\* The discovery file is read once more, and what it names is returned.
Return(c) ==
  /\ stage[c] = "read"
  /\ Read(c, "done", "failed", "failed")
  /\ UNCHANGED <<processes, discovery, lock, child, served, troubles>>

\* A client is killed; its lock stays, and so does the daemon it spawned.
Kill(c) ==
  /\ Trouble
  /\ stage[c] \notin {"idle", "done", "failed", "killed"}
  /\ Goto(c, "killed")
  /\ UNCHANGED <<processes, discovery, lock, seen, child, served>>

-----------------------------------------------------------------------------
\* No daemon runs; a discovery file may be left of one that died.
Init ==
  /\ port \in {"fixed", "free"}
  /\ daemon = [d \in Daemons |-> IF d = 1 THEN "dead" ELSE "unborn"]
  /\ spawned = 1
  /\ discovery \in {None, 1}
  /\ lock = Free
  /\ stage = [c \in Clients |-> "idle"]
  /\ seen = [c \in Clients |-> None]
  /\ child = [c \in Clients |-> None]
  /\ served = [c \in Clients |-> {}]
  /\ troubles = 0

\* What a client does without being asked or waiting for others.
Step(c) ==
  \/ CheckFound(c) \/ MakeLock(c) \/ FindOldLock(c) \/ RemoveStale(c)
  \/ Recheck(c) \/ CheckAgain(c) \/ StartDaemon(c) \/ WaitRead(c) \/ WaitHealth(c)
  \/ Unlock(c) \/ Return(c) \/ HostHealth(c) \/ HostStop(c) \/ HostRemove(c)

Next ==
  \/ \E d \in Daemons : Bind(d) \/ Truncate(d) \/ Write(d) \/ Die(d)
  \/ \E c \in Clients : Call(c) \/ Host(c) \/ Step(c) \/ Deadline(c) \/ Kill(c)
  \/ Age

Spec == Init /\ [][Next]_vars

\* Clients go on, the wait has a deadline, and time passes.
Fairness ==
  /\ \A c \in Clients : WF_vars(Step(c)) /\ SF_vars(Deadline(c))
  /\ WF_vars(Age)

FairSpec == Spec /\ Fairness

-----------------------------------------------------------------------------
(*                               Properties                                *)

\* As long as no process is killed and nobody sleeps, one client at a time is
\* between its lock and its unlock, so one daemon is started at a time.
OneStarter ==
  troubles = 0 => Cardinality({c \in Clients : stage[c] \in InBody}) <= 1

\* The base URL that a client is given is one at which a daemon has served since
\* the call began, whatever other clients and daemons did to the discovery file and
\* the lock meanwhile: the file is read again after the check, and what it names by
\* then is returned unchecked.
HasServed(c, d) == \E e \in served[c] : SameUrl(d, e)
ReturnedHasServed == \A c \in Clients : stage[c] = "done" => HasServed(c, seen[c])

\* Every call returns or fails, although lock owners are killed.
EveryCallReturns ==
  \A c \in Clients :
    (stage[c] \notin {"idle", "hosted"}) ~> (stage[c] \in {"hosted", "done", "failed", "killed"})
=============================================================================
