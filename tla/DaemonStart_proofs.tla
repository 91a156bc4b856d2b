------------------------- MODULE DaemonStart_proofs -------------------------
(***************************************************************************)
(* Theorems about DaemonStart, for every set of clients and every bound on *)
(* daemons and troubles.                                                   *)
(***************************************************************************)
EXTENDS DaemonStart, FiniteSetTheorems, TLAPS

USE DaemonStartAssumption DEF DaemonStartAssumption

-----------------------------------------------------------------------------
(*                         The inductive invariant                         *)

\* Who serves now has served since every call that has not begun anew.
ServingCounts == \A c \in Clients : Serving \subseteq served[c]

\* A client that asks for the daemon it has read of: the discovery file names that
\* one still, or one whose base URL was served since the call.  Once there was an
\* answer, the file names no other.
Recent ==
  \A c \in Clients :
    /\ stage[c] \in {"recheck_health", "wait_health"} /\ discovery \in Daemons =>
         discovery = seen[c] \/ HasServed(c, discovery)
    /\ stage[c] \in {"unlock_ok", "read"} /\ discovery \in Daemons => HasServed(c, discovery)

\* As long as nothing goes wrong, the lock is there exactly while its owner is
\* between the lock and the unlock, and nobody takes it for a stale one.
Holding == InBody \cup {"unlock_ok", "unlock_error"}

HeldByOwner ==
  troubles = 0 =>
    /\ ~ lock.old
    /\ \A c \in Clients : /\ stage[c] # "remove_stale"
                          /\ stage[c] \in Holding <=> lock.owner = c

Inv == TypeOK /\ ServingCounts /\ Recent /\ ReturnedHasServed /\ HeldByOwner

LEMMA InitInv == Init => Inv
  <1> SUFFICES ASSUME Init PROVE Inv
    OBVIOUS
  <1>1. 1 \in Daemons /\ 1 \in 0..MaxDaemons /\ 0 \in 0..MaxTroubles
    BY DEF Daemons
  <1>2. TypeOK
    BY <1>1 DEF Init, TypeOK, Free, Stages
  <1>3. ServingCounts
    BY DEF Init, ServingCounts, Serving, Daemons
  <1>4. Recent /\ ReturnedHasServed
    BY DEF Init, Recent, ReturnedHasServed
  <1>5. HeldByOwner
    BY DEF Init, HeldByOwner, Holding, InBody, Free
  <1>6. QED BY <1>2, <1>3, <1>4, <1>5 DEF Inv

-----------------------------------------------------------------------------
(*                               The daemons                               *)

\* A step of the daemons: one of them moves on, and may rewrite the file, with
\* nothing or with itself.
LEMMA DaemonStep ==
  ASSUME Inv, NEW d \in Daemons, Bind(d) \/ Truncate(d) \/ Write(d) \/ Die(d)
  PROVE  Inv'
  <1>1. /\ UNCHANGED <<port, spawned, lock, stage, seen, child>>
        /\ troubles' \in 0..MaxTroubles /\ (troubles' = 0 => troubles = 0)
    BY DEF Bind, Truncate, Write, Die, Trouble, Inv, TypeOK
  <1>2. PICK s \in {"listening", "writing", "ready", "dead"} : daemon' = [daemon EXCEPT ![d] = s]
    BY DEF Bind, Truncate, Write, Die
  <1>3. /\ daemon' \in [Daemons -> {"unborn", "booting", "listening", "writing", "ready", "dead"}]
        /\ \A e \in Daemons : daemon'[e] = IF e = d THEN s ELSE daemon[e]
    BY <1>2 DEF Inv, TypeOK
  <1>4. /\ served' \in [Clients -> SUBSET Daemons]
        /\ \A c \in Clients : served[c] \subseteq served'[c]
        /\ s # "dead" => d \in Serving \/ \A c \in Clients : d \in served'[c]
    <2>1. CASE Bind(d)
      <3>1. CASE UNCHANGED served /\ daemon' = [daemon EXCEPT ![d] = "dead"]
        <4>1. s = "dead"
          BY <1>3, <3>1 DEF Inv, TypeOK
        <4>2. QED BY <3>1, <4>1 DEF Inv, TypeOK
      <3>2. CASE served' = [c \in Clients |-> served[c] \cup {d}]
        BY <3>2 DEF Inv, TypeOK
      <3>3. QED BY <2>1, <3>1, <3>2 DEF Bind
    <2>2. CASE Truncate(d) \/ Write(d)
      BY <2>2 DEF Truncate, Write, Serving, Inv, TypeOK
    <2>3. CASE Die(d)
      <3>1. s = "dead" /\ UNCHANGED served
        BY <1>3, <2>3 DEF Die, Inv, TypeOK
      <3>2. QED BY <3>1 DEF Inv, TypeOK
    <2>4. QED BY <2>1, <2>2, <2>3
  <1>5. discovery' \in {discovery, Torn} \/ (discovery' = d /\ d \in Serving)
    BY DEF Bind, Truncate, Write, Die, Serving
  <1>6. TypeOK'
    BY <1>1, <1>3, <1>4, <1>5 DEF Inv, TypeOK
  <1>7. ServingCounts'
    <2> SUFFICES ASSUME NEW c \in Clients, NEW e \in Daemons, daemon'[e] \in {"listening", "writing", "ready"}
                 PROVE  e \in served'[c]
      BY DEF ServingCounts, Serving
    <2>1. CASE e = d
      BY <1>3, <1>4, <2>1 DEF Inv, ServingCounts
    <2>2. CASE e # d
      <3>1. e \in Serving
        BY <1>3, <2>2 DEF Serving
      <3>2. QED BY <1>4, <3>1 DEF Inv, ServingCounts
    <2>3. QED BY <2>1, <2>2
  <1>8. Recent'
    <2>1. ASSUME NEW c \in Clients, discovery' \in Daemons
          PROVE  /\ stage[c] \in {"recheck_health", "wait_health"} =>
                      discovery' = seen[c] \/ \E e \in served'[c] : discovery' = e \/ port = "fixed"
                 /\ stage[c] \in {"unlock_ok", "read"} =>
                      \E e \in served'[c] : discovery' = e \/ port = "fixed"
      <3>1. CASE discovery' = discovery
        <4>1. HasServed(c, discovery) => \E e \in served'[c] : discovery = e \/ port = "fixed"
          BY <1>4 DEF HasServed, SameUrl
        <4>2. QED BY <2>1, <3>1, <4>1 DEF Inv, Recent
      <3>2. CASE discovery' = d /\ d \in Serving
        <4>1. d \in served'[c]
          BY <1>4, <2>1, <3>2 DEF Inv, ServingCounts
        <4>2. QED BY <3>2, <4>1
      <3>3. Torn \notin Daemons
        BY DEF Torn, Daemons
      <3>4. QED BY <1>5, <2>1, <3>1, <3>2, <3>3
    <2>2. QED BY <1>1, <2>1 DEF Recent, HasServed, SameUrl
  <1>9. ReturnedHasServed'
    BY <1>1, <1>4 DEF Inv, ReturnedHasServed, HasServed, SameUrl
  <1>10. HeldByOwner'
    BY <1>1 DEF Inv, HeldByOwner
  <1>11. QED BY <1>6, <1>7, <1>8, <1>9, <1>10 DEF Inv

-----------------------------------------------------------------------------
(*                               The clients                               *)

LEMMA GotoStage ==
  ASSUME TypeOK, NEW c \in Clients, NEW s \in Stages, Goto(c, s)
  PROVE  /\ stage' \in [Clients -> Stages]
         /\ \A b \in Clients : stage'[b] = IF b = c THEN s ELSE stage[b]
  BY DEF Goto, TypeOK

\* A health check: the URL of who is found healthy has been served.
LEMMA HealthStep ==
  ASSUME Inv, NEW c \in Clients,
         NEW healthy \in {"done", "unlock_ok"}, NEW unhealthy \in {"lock", "spawn", "wait", "unlock_error"},
         Health(c, healthy, unhealthy),
         UNCHANGED <<processes, discovery, lock, seen, child, served>>,
         stage[c] \in {"health", "recheck_health", "wait_health"},
         stage[c] # "health" => healthy = "unlock_ok" /\ unhealthy # "lock",
         stage[c] = "health" => healthy = "done" /\ unhealthy = "lock"
  PROVE  Inv'
  <1>1. UNCHANGED <<port, daemon, spawned>>
    BY DEF processes
  <1>2. healthy \in Stages /\ unhealthy \in Stages
    BY DEF Stages, InBody
  <1>3. PICK s \in {healthy, unhealthy} : Goto(c, s) /\ (s = healthy => Answers(seen[c]))
    BY DEF Health
  <1>4. troubles' \in 0..MaxTroubles /\ (troubles' = 0 => troubles = 0)
    BY DEF Health, Trouble, Inv, TypeOK
  <1>5. /\ stage' \in [Clients -> Stages]
        /\ \A b \in Clients : stage'[b] = IF b = c THEN s ELSE stage[b]
    BY <1>2, <1>3, GotoStage DEF Inv
  <1>6. s = healthy => seen[c] # None /\ HasServed(c, seen[c])
    BY <1>3 DEF Answers, Inv, ServingCounts, HasServed
  <1>7. unhealthy # "done" /\ unhealthy # "unlock_ok"
    OBVIOUS
  <1>8. TypeOK'
    BY <1>1, <1>4, <1>5, <1>6, <1>7 DEF Inv, TypeOK
  <1>9. ServingCounts'
    BY <1>1 DEF Inv, ServingCounts, Serving
  <1>10. Recent'
    <2>1. ASSUME NEW b \in Clients, discovery \in Daemons
          PROVE  /\ stage'[b] \in {"recheck_health", "wait_health"} =>
                      discovery = seen[b] \/ HasServed(b, discovery)
                 /\ stage'[b] \in {"unlock_ok", "read"} => HasServed(b, discovery)
      <3>1. CASE b # c
        BY <1>5, <2>1, <3>1 DEF Inv, Recent
      <3>2. CASE b = c /\ s = healthy
        BY <1>5, <1>6, <2>1, <3>2 DEF Inv, Recent
      <3>3. CASE b = c /\ s = unhealthy
        BY <1>5, <1>7, <3>3
      <3>4. QED BY <1>3, <3>1, <3>2, <3>3
    <2>2. QED BY <1>1, <2>1 DEF Recent, HasServed, SameUrl
  <1>11. ReturnedHasServed'
    <2>1. ASSUME NEW b \in Clients, stage'[b] = "done" PROVE HasServed(b, seen[b])
      BY <1>5, <1>6, <1>7, <2>1 DEF Inv, ReturnedHasServed
    <2>2. QED BY <1>1, <2>1 DEF ReturnedHasServed, HasServed, SameUrl
  <1>12. HeldByOwner'
    <2>1. s \in Holding <=> stage[c] \in Holding
      BY <1>3 DEF Holding, InBody
    <2>2. s # "remove_stale"
      BY <1>3
    <2>3. QED BY <1>4, <1>5, <2>1, <2>2 DEF Inv, HeldByOwner
  <1>13. QED BY <1>8, <1>9, <1>10, <1>11, <1>12 DEF Inv

\* The discovery file is read: a client that goes on has seen what it names.
LEMMA ReadStage ==
  ASSUME Inv, NEW c \in Clients, NEW named \in Stages, NEW missing \in Stages, NEW unparsable \in Stages,
         Read(c, named, missing, unparsable)
  PROVE  /\ stage' \in [Clients -> Stages] /\ seen' \in [Clients -> {None} \cup Daemons]
         /\ \A b \in Clients : b # c => stage'[b] = stage[b] /\ seen'[b] = seen[b]
         /\ stage'[c] \in {named, missing, unparsable}
         /\ discovery \in Daemons => stage'[c] = named
         /\ discovery = None => stage'[c] = missing
         /\ discovery = Torn => stage'[c] = unparsable
         /\ discovery # Torn => seen'[c] = discovery
  <1> DEFINE s == CASE discovery = Torn -> unparsable
                    [] discovery = None -> missing
                    [] OTHER            -> named
             v == IF discovery = Torn THEN None ELSE discovery
  <1>1. discovery \in {None, Torn} \cup Daemons /\ None # Torn /\ Torn \notin Daemons /\ None \notin Daemons
    BY DEF Inv, TypeOK, None, Torn, Daemons
  <1>2. /\ s \in {named, missing, unparsable}
        /\ discovery \in Daemons => s = named
        /\ discovery = None => s = missing
        /\ discovery = Torn => s = unparsable
    BY <1>1
  <1>3. v \in {None} \cup Daemons /\ (discovery # Torn => v = discovery)
    BY <1>1
  <1>4. Goto(c, s) /\ seen' = [seen EXCEPT ![c] = v]
    BY DEF Read
  <1> HIDE DEF s, v
  <1>5. s \in Stages
    BY <1>2
  <1>6. /\ stage' \in [Clients -> Stages]
        /\ \A b \in Clients : stage'[b] = IF b = c THEN s ELSE stage[b]
    BY <1>4, <1>5, GotoStage DEF Inv
  <1>7. /\ seen' \in [Clients -> {None} \cup Daemons]
        /\ \A b \in Clients : seen'[b] = IF b = c THEN v ELSE seen[b]
    BY <1>3, <1>4 DEF Inv, TypeOK
  <1>8. QED BY <1>2, <1>3, <1>6, <1>7

LEMMA CallStep ==
  ASSUME Inv, NEW c \in Clients, Call(c)
  PROVE  Inv'
  <1>1. /\ stage[c] \in {"idle", "hosted"} /\ Read(c, "health", "lock", "failed")
        /\ served' = [served EXCEPT ![c] = Serving]
        /\ UNCHANGED <<port, daemon, spawned, discovery, lock, child, troubles>>
    BY DEF Call, processes
  <1>2. {"health", "lock", "failed"} \subseteq Stages
    BY DEF Stages
  <1>3. /\ stage' \in [Clients -> Stages] /\ seen' \in [Clients -> {None} \cup Daemons]
        /\ \A b \in Clients : b # c => stage'[b] = stage[b] /\ seen'[b] = seen[b]
        /\ stage'[c] \in {"health", "lock", "failed"}
    BY <1>1, <1>2, ReadStage
  <1>4. /\ served' \in [Clients -> SUBSET Daemons]
        /\ \A b \in Clients : served'[b] = IF b = c THEN Serving ELSE served[b]
    BY <1>1 DEF Inv, TypeOK, Serving
  <1>5. TypeOK'
    BY <1>1, <1>3, <1>4 DEF Inv, TypeOK
  <1>6. ServingCounts'
    BY <1>1, <1>4 DEF Inv, ServingCounts, Serving
  <1>7. Recent' /\ ReturnedHasServed'
    <2>1. ASSUME NEW b \in Clients, b # c
          PROVE  UNCHANGED <<stage[b], seen[b], served[b]>>
      BY <1>3, <1>4, <2>1
    <2>2. ASSUME NEW b \in Clients, discovery \in Daemons
          PROVE  /\ stage'[b] \in {"recheck_health", "wait_health"} =>
                      discovery = seen'[b] \/ HasServed(b, discovery)'
                 /\ stage'[b] \in {"unlock_ok", "read"} => HasServed(b, discovery)'
      <3>1. CASE b = c
        BY <1>3, <3>1
      <3>2. CASE b # c
        <4>1. HasServed(b, discovery) => HasServed(b, discovery)'
          BY <1>1, <2>1, <3>2 DEF HasServed, SameUrl
        <4>2. QED BY <1>3, <2>1, <2>2, <3>2, <4>1 DEF Inv, Recent
      <3>3. QED BY <3>1, <3>2
    <2>3. ASSUME NEW b \in Clients, stage'[b] = "done" PROVE HasServed(b, seen[b])'
      <3>1. b # c
        BY <1>3, <2>3
      <3>2. HasServed(b, seen[b])
        BY <2>1, <2>3, <3>1 DEF Inv, ReturnedHasServed
      <3>3. QED BY <1>1, <2>1, <3>1, <3>2 DEF HasServed, SameUrl
    <2>4. QED BY <1>1, <2>2, <2>3 DEF Recent, ReturnedHasServed
  <1>8. HeldByOwner'
    BY <1>1, <1>3 DEF Inv, HeldByOwner, Holding, InBody
  <1>9. QED BY <1>5, <1>6, <1>7, <1>8 DEF Inv

\* With the lock the file is read again, while the daemon starts, and at the end.
LEMMA ReadStep ==
  ASSUME Inv, NEW c \in Clients, Recheck(c) \/ WaitRead(c) \/ Return(c)
  PROVE  Inv'
  <1>1. UNCHANGED <<port, daemon, spawned, discovery, lock, child, served, troubles>>
    BY DEF Recheck, WaitRead, Return, processes
  <1>2. {"recheck_health", "spawn", "unlock_error", "wait_health", "done", "failed"} \subseteq Stages
    BY DEF Stages, InBody
  <1>3. discovery \in {None, Torn} \cup Daemons /\ None # Torn /\ Torn \notin Daemons /\ None \notin Daemons
    BY DEF Inv, TypeOK, None, Torn, Daemons
  <1>4. /\ stage' \in [Clients -> Stages] /\ seen' \in [Clients -> {None} \cup Daemons]
        /\ \A b \in Clients : b # c => stage'[b] = stage[b] /\ seen'[b] = seen[b]
    BY <1>2, ReadStage DEF Recheck, WaitRead, Return
  <1>5. /\ stage'[c] \in {"recheck_health", "wait_health"} => seen'[c] = discovery
        /\ stage'[c] = "done" => /\ stage[c] = "read" /\ discovery \in Daemons
                                 /\ seen'[c] = discovery
        /\ stage'[c] \in {"recheck_health", "spawn", "unlock_error", "wait_health", "done", "failed"}
        /\ stage'[c] \in Holding <=> stage[c] \in Holding
    <2>1. CASE Recheck(c)
      BY <1>2, <1>3, <2>1, ReadStage DEF Recheck, Holding, InBody
    <2>2. CASE WaitRead(c)
      <3>1. /\ stage'[c] \in {"wait_health", "unlock_error"}
            /\ discovery # Torn => seen'[c] = discovery
            /\ discovery = Torn => stage'[c] = "unlock_error"
            /\ stage[c] = "wait"
        BY <1>2, <2>2, ReadStage DEF WaitRead
      <3>2. QED BY <3>1 DEF Holding, InBody
    <2>3. CASE Return(c)
      <3>1. /\ stage'[c] \in {"done", "failed"} /\ stage[c] = "read"
            /\ discovery = None => stage'[c] = "failed"
            /\ discovery = Torn => stage'[c] = "failed"
            /\ discovery # Torn => seen'[c] = discovery
        BY <1>2, <2>3, ReadStage DEF Return
      <3>2. QED BY <1>3, <3>1 DEF Holding, InBody
    <2>4. QED BY <2>1, <2>2, <2>3
  <1>6. TypeOK'
    BY <1>1, <1>3, <1>4, <1>5 DEF Inv, TypeOK
  <1>7. ServingCounts'
    BY <1>1 DEF Inv, ServingCounts, Serving
  <1>8. Recent'
    <2>1. ASSUME NEW b \in Clients, discovery \in Daemons
          PROVE  /\ stage'[b] \in {"recheck_health", "wait_health"} =>
                      discovery = seen'[b] \/ HasServed(b, discovery)
                 /\ stage'[b] \in {"unlock_ok", "read"} => HasServed(b, discovery)
      <3>1. CASE b = c
        BY <1>5, <3>1
      <3>2. CASE b # c
        BY <1>4, <2>1, <3>2 DEF Inv, Recent
      <3>3. QED BY <3>1, <3>2
    <2>2. QED BY <1>1, <2>1 DEF Recent, HasServed, SameUrl
  <1>9. ReturnedHasServed'
    <2>1. ASSUME NEW b \in Clients, stage'[b] = "done" PROVE HasServed(b, seen'[b])
      BY <1>4, <1>5, <2>1 DEF Inv, Recent, ReturnedHasServed
    <2>2. QED BY <1>1, <2>1 DEF ReturnedHasServed, HasServed, SameUrl
  <1>10. HeldByOwner'
    BY <1>1, <1>4, <1>5 DEF Inv, HeldByOwner
  <1>11. QED BY <1>6, <1>7, <1>8, <1>9, <1>10 DEF Inv

\* A step that takes a client to a stage where it relies on nothing it read.
LEMMA ElsewhereStep ==
  ASSUME Inv, NEW c \in Clients, NEW s \in Stages, Goto(c, s),
         s \notin {"recheck_health", "wait_health", "unlock_ok", "done"},
         s = "read" => stage[c] = "unlock_ok",
         UNCHANGED <<port, seen, served>>,
         troubles' \in 0..MaxTroubles,
         daemon' \in [Daemons -> {"unborn", "booting", "listening", "writing", "ready", "dead"}],
         child' \in [Clients -> {None} \cup Daemons],
         spawned' \in 0..MaxDaemons,
         \A d \in Daemons : daemon'[d] \in {daemon[d], "dead", "booting"},
         discovery' \in {discovery, None},
         lock' \in [owner : Clients \cup {Nobody}, old : BOOLEAN],
         HeldByOwner'
  PROVE  Inv'
  <1>1. /\ stage' \in [Clients -> Stages]
        /\ \A b \in Clients : stage'[b] = IF b = c THEN s ELSE stage[b]
    BY GotoStage DEF Inv
  <1>2. discovery' \in Daemons => discovery' = discovery
    BY DEF None, Daemons
  <1>3. TypeOK'
    BY <1>1 DEF Inv, TypeOK
  <1>4. ServingCounts'
    BY DEF Inv, ServingCounts, Serving
  <1>5. Recent'
    <2>1. ASSUME NEW b \in Clients, discovery' \in Daemons
          PROVE  /\ stage'[b] \in {"recheck_health", "wait_health"} =>
                      discovery = seen[b] \/ HasServed(b, discovery)
                 /\ stage'[b] \in {"unlock_ok", "read"} => HasServed(b, discovery)
      BY <1>1, <1>2, <2>1 DEF Inv, Recent
    <2>2. QED BY <1>2, <2>1 DEF Recent, HasServed, SameUrl
  <1>6. ReturnedHasServed'
    <2>1. ASSUME NEW b \in Clients, stage'[b] = "done" PROVE HasServed(b, seen[b])
      BY <1>1, <2>1 DEF Inv, ReturnedHasServed
    <2>2. QED BY <2>1 DEF ReturnedHasServed, HasServed, SameUrl
  <1>7. QED BY <1>3, <1>4, <1>5, <1>6 DEF Inv

\* What most steps leave alone.
LEMMA Unchanged ==
  ASSUME Inv
  PROVE  /\ UNCHANGED daemon =>
              /\ daemon' \in [Daemons -> {"unborn", "booting", "listening", "writing", "ready", "dead"}]
              /\ \A d \in Daemons : daemon'[d] = daemon[d]
         /\ UNCHANGED spawned => spawned' \in 0..MaxDaemons
         /\ UNCHANGED child => child' \in [Clients -> {None} \cup Daemons]
         /\ UNCHANGED troubles => troubles' \in 0..MaxTroubles
         /\ UNCHANGED lock => lock' \in [owner : Clients \cup {Nobody}, old : BOOLEAN]
  BY DEF Inv, TypeOK

\* A step that moves one client, with the lock or without it throughout.
LEMMA LockKept ==
  ASSUME Inv, NEW c \in Clients, NEW s \in Stages, Goto(c, s), s # "remove_stale",
         s \in Holding <=> stage[c] \in Holding,
         UNCHANGED lock, troubles' = 0 => troubles = 0
  PROVE  HeldByOwner'
  BY GotoStage DEF Inv, HeldByOwner

LEMMA HostStep ==
  ASSUME Inv, NEW c \in Clients, HostHealth(c) \/ HostStop(c) \/ HostRemove(c)
  PROVE  Inv'
  <1>1. PICK s \in {"host_stop", "host_remove", "hosted"} : Goto(c, s)
    BY DEF HostHealth, Health, HostStop, HostRemove
  <1>2. /\ UNCHANGED <<port, seen, served>> /\ UNCHANGED child /\ UNCHANGED spawned /\ UNCHANGED lock
        /\ discovery' \in {discovery, None}
        /\ stage[c] \in {"host_health", "host_stop", "host_remove"}
    BY DEF HostHealth, HostStop, HostRemove, processes
  <1>3. troubles' \in 0..MaxTroubles /\ (troubles' = 0 => troubles = 0)
    BY DEF HostHealth, Health, HostStop, HostRemove, Trouble, Inv, TypeOK
  <1>4. s \in Stages /\ s \notin Holding /\ stage[c] \notin Holding /\ s # "remove_stale"
    BY <1>2 DEF Stages, Holding, InBody
  <1>5. HeldByOwner'
    BY <1>1, <1>2, <1>3, <1>4, LockKept
  <1>6. /\ daemon' \in [Daemons -> {"unborn", "booting", "listening", "writing", "ready", "dead"}]
        /\ \A d \in Daemons : daemon'[d] \in {daemon[d], "dead", "booting"}
    <2>1. UNCHANGED daemon \/ daemon' = [daemon EXCEPT ![seen[c]] = "dead"]
      BY DEF HostHealth, HostStop, HostRemove, processes
    <2>2. QED BY <2>1 DEF Inv, TypeOK
  <1>7. QED BY <1>1, <1>2, <1>3, <1>4, <1>5, <1>6, ElsewhereStep, Unchanged

\* The host command reads the file; a client is killed: something went wrong.
LEMMA TroubleStep ==
  ASSUME Inv, NEW c \in Clients, Host(c) \/ Kill(c)
  PROVE  Inv'
  <1>1. /\ UNCHANGED <<port, daemon, spawned, discovery, lock, child, served>>
        /\ troubles' \in 0..MaxTroubles /\ troubles' # 0
    BY DEF Host, Kill, Trouble, processes, Inv, TypeOK
  <1>2. {"host_health", "hosted", "failed", "killed"} \subseteq Stages
    BY DEF Stages
  <1>3. /\ stage' \in [Clients -> Stages] /\ seen' \in [Clients -> {None} \cup Daemons]
        /\ \A b \in Clients : b # c => stage'[b] = stage[b] /\ seen'[b] = seen[b]
        /\ stage'[c] \in {"host_health", "hosted", "failed", "killed"}
    <2>1. CASE Host(c)
      BY <1>2, <2>1, ReadStage DEF Host
    <2>2. CASE Kill(c)
      BY <1>2, <2>2, GotoStage DEF Kill, Inv, TypeOK
    <2>3. QED BY <2>1, <2>2
  <1>4. TypeOK'
    BY <1>1, <1>3 DEF Inv, TypeOK
  <1>5. ServingCounts'
    BY <1>1 DEF Inv, ServingCounts, Serving
  <1>6. Recent'
    <2>1. ASSUME NEW b \in Clients, discovery \in Daemons
          PROVE  /\ stage'[b] \in {"recheck_health", "wait_health"} =>
                      discovery = seen'[b] \/ HasServed(b, discovery)
                 /\ stage'[b] \in {"unlock_ok", "read"} => HasServed(b, discovery)
      BY <1>3, <2>1 DEF Inv, Recent
    <2>2. QED BY <1>1, <2>1 DEF Recent, HasServed, SameUrl
  <1>7. ReturnedHasServed'
    <2>1. ASSUME NEW b \in Clients, stage'[b] = "done" PROVE HasServed(b, seen'[b])
      BY <1>3, <2>1 DEF Inv, ReturnedHasServed
    <2>2. QED BY <1>1, <2>1 DEF ReturnedHasServed, HasServed, SameUrl
  <1>8. HeldByOwner'
    BY <1>1 DEF HeldByOwner
  <1>9. QED BY <1>4, <1>5, <1>6, <1>7, <1>8 DEF Inv

\* Taking the lock, taking over an old one, and releasing it.
LEMMA LockStep ==
  ASSUME Inv, NEW c \in Clients, MakeLock(c) \/ FindOldLock(c) \/ RemoveStale(c) \/ Unlock(c)
  PROVE  Inv'
  <1>1. PICK s \in {"recheck", "remove_stale", "lock", "read", "failed"} :
          Goto(c, s) /\ (s = "read" => stage[c] = "unlock_ok")
    BY DEF MakeLock, FindOldLock, RemoveStale, Unlock
  <1>2. /\ UNCHANGED <<port, seen, served>> /\ UNCHANGED child
        /\ UNCHANGED spawned /\ UNCHANGED troubles /\ UNCHANGED daemon /\ UNCHANGED discovery
    BY DEF MakeLock, FindOldLock, RemoveStale, Unlock, processes
  <1>3. s \in Stages
    BY DEF Stages, InBody
  <1>4. lock' \in [owner : Clients \cup {Nobody}, old : BOOLEAN]
    <2>1. CASE MakeLock(c)
      BY <2>1 DEF MakeLock
    <2>2. CASE FindOldLock(c)
      BY <2>2 DEF FindOldLock, Inv, TypeOK
    <2>3. CASE RemoveStale(c) \/ Unlock(c)
      <3>1. lock' = Free
        BY <2>3 DEF RemoveStale, Unlock
      <3>2. QED BY <3>1 DEF Free
    <2>4. QED BY <2>1, <2>2, <2>3
  <1>5. HeldByOwner'
    <2> SUFFICES ASSUME troubles = 0 PROVE HeldByOwner'
      BY <1>2 DEF HeldByOwner
    <2>1. /\ ~ lock.old
          /\ \A b \in Clients : /\ stage[b] # "remove_stale"
                                /\ stage[b] \in Holding <=> lock.owner = b
      BY DEF Inv, HeldByOwner
    <2>2. CASE MakeLock(c)
      <3>1. lock.owner = Nobody /\ lock'.owner = c /\ ~ lock'.old /\ Goto(c, "recheck")
        BY <2>2 DEF MakeLock, Free
      <3>2. \A b \in Clients : stage'[b] = IF b = c THEN "recheck" ELSE stage[b]
        BY <3>1, GotoStage DEF Inv, Stages, InBody
      <3>3. QED BY <2>1, <3>1, <3>2 DEF HeldByOwner, Holding, InBody
    <2>3. CASE FindOldLock(c) \/ RemoveStale(c)
      BY <2>1, <2>3 DEF FindOldLock, RemoveStale
    <2>4. CASE Unlock(c)
      <3>1. lock'.owner = Nobody /\ ~ lock'.old /\ lock.owner = c /\ s \in {"read", "failed"}
            /\ \A b \in Clients : stage'[b] = IF b = c THEN s ELSE stage[b]
        <4>1. stage[c] \in Holding
          BY <2>4 DEF Unlock, Holding
        <4>2. \A b \in Clients : stage'[b] = IF b = c THEN s ELSE stage[b]
          BY <1>1, <1>3, GotoStage DEF Inv
        <4>3. stage'[c] \in {"read", "failed"}
          BY <2>4 DEF Unlock, Goto, Inv, TypeOK
        <4>4. QED BY <2>1, <2>4, <4>1, <4>2, <4>3 DEF Unlock, Free
      <3>2. QED BY <2>1, <3>1 DEF HeldByOwner, Holding, InBody
    <2>5. QED BY <2>2, <2>3, <2>4
  <1>6. QED BY <1>1, <1>2, <1>3, <1>4, <1>5, ElsewhereStep, Unchanged

LEMMA StartStep ==
  ASSUME Inv, NEW c \in Clients, StartDaemon(c) \/ Deadline(c)
  PROVE  Inv'
  <1>1. PICK s \in {"wait", "unlock_error"} : Goto(c, s)
    BY DEF StartDaemon, Deadline
  <1>2. /\ UNCHANGED <<port, seen, served>> /\ UNCHANGED discovery
        /\ UNCHANGED troubles /\ UNCHANGED lock
        /\ stage[c] \in {"spawn", "wait"}
    BY DEF StartDaemon, Deadline, processes
  <1>3. s \in Stages /\ s \in Holding /\ stage[c] \in Holding
    BY <1>2 DEF Stages, Holding, InBody
  <1>4. HeldByOwner'
    BY <1>1, <1>2, <1>3, LockKept
  <1>5. CASE StartDaemon(c)
    <2>1. /\ spawned < MaxDaemons /\ spawned' = spawned + 1
          /\ daemon' = [daemon EXCEPT ![spawned + 1] = "booting"]
          /\ child' = [child EXCEPT ![c] = spawned + 1]
      BY <1>5 DEF StartDaemon
    <2>2. spawned \in Nat /\ spawned + 1 \in Daemons /\ spawned' \in 0..MaxDaemons
      BY <2>1 DEF Inv, TypeOK, Daemons
    <2>3. /\ daemon' \in [Daemons -> {"unborn", "booting", "listening", "writing", "ready", "dead"}]
          /\ child' \in [Clients -> {None} \cup Daemons]
          /\ \A d \in Daemons : daemon'[d] \in {daemon[d], "booting"}
      BY <2>1, <2>2 DEF Inv, TypeOK
    <2>4. QED BY <1>1, <1>2, <1>3, <1>4, <2>2, <2>3, ElsewhereStep, Unchanged
  <1>6. CASE Deadline(c)
    <2>1. UNCHANGED daemon /\ UNCHANGED spawned /\ UNCHANGED child
      BY <1>6 DEF Deadline, processes
    <2>2. QED BY <1>1, <1>2, <1>3, <1>4, <2>1, ElsewhereStep, Unchanged
  <1>7. QED BY <1>5, <1>6

LEMMA AgeStep ==
  ASSUME Inv, Age
  PROVE  Inv'
  <1>1. /\ UNCHANGED <<port, daemon, spawned, discovery, stage, seen, child, served>>
        /\ lock' = [lock EXCEPT !.old = TRUE] /\ lock # Free /\ ~ lock.old
        /\ troubles' \in 0..MaxTroubles
        /\ stage[lock.owner] \in Holding => troubles' # 0
    BY DEF Age, processes, Trouble, Holding, Inv, TypeOK
  <1>2. TypeOK'
    BY <1>1 DEF Inv, TypeOK
  <1>3. ServingCounts' /\ Recent' /\ ReturnedHasServed'
    BY <1>1 DEF Inv, ServingCounts, Serving, Recent, ReturnedHasServed, HasServed, SameUrl
  <1>4. HeldByOwner'
    <2> SUFFICES ASSUME troubles' = 0 PROVE FALSE
      BY DEF HeldByOwner
    <2>1. troubles = 0
      BY <1>1 DEF Age, Trouble, Inv, TypeOK
    <2>2. lock.owner \in Clients
      <3>1. lock \in [owner : Clients \cup {Nobody}, old : BOOLEAN]
        BY DEF Inv, TypeOK
      <3>2. lock.owner = Nobody => lock = Free
        BY <1>1, <3>1 DEF Free
      <3>3. QED BY <1>1, <3>1, <3>2
    <2>3. stage[lock.owner] \in Holding
      BY <2>1, <2>2 DEF Inv, HeldByOwner
    <2>4. QED BY <1>1, <2>3
  <1>5. QED BY <1>2, <1>3, <1>4 DEF Inv

LEMMA ClientStep ==
  ASSUME Inv, NEW c \in Clients, Step(c)
  PROVE  Inv'
  <1>1. CASE CheckFound(c)
    BY <1>1, HealthStep DEF CheckFound
  <1>2. CASE CheckAgain(c)
    BY <1>2, HealthStep DEF CheckAgain
  <1>3. CASE WaitHealth(c)
    BY <1>3, HealthStep DEF WaitHealth
  <1>4. QED
    BY <1>1, <1>2, <1>3, ReadStep, HostStep, LockStep, StartStep DEF Step

LEMMA NextStep ==
  ASSUME Inv, [Next]_vars
  PROVE  Inv'
  <1>1. CASE Next
    BY <1>1, DaemonStep, CallStep, TroubleStep, ClientStep, StartStep, AgeStep DEF Next
  <1>2. CASE UNCHANGED vars
    BY <1>2 DEF vars, Inv, TypeOK, ServingCounts, Serving, Recent, ReturnedHasServed, HasServed, SameUrl,
                HeldByOwner
  <1>3. QED BY <1>1, <1>2

LEMMA Invariance == Spec => []Inv
  <1>1. Init => Inv
    BY InitInv
  <1>2. Inv /\ [Next]_vars => Inv'
    BY NextStep
  <1>3. QED BY <1>1, <1>2, PTL DEF Spec

-----------------------------------------------------------------------------
(*                                Theorems                                 *)

\* The file, the lock and the processes keep their types; who has returned
\* names a daemon.
THEOREM TypeCorrect == Spec => []TypeOK
  <1>1. Inv => TypeOK
    BY DEF Inv
  <1>2. QED BY <1>1, Invariance, PTL

\* Unless a process is killed or sleeps, one client at a time starts a daemon.
THEOREM OneStarterAtATime == Spec => []OneStarter
  <1>1. Inv => OneStarter
    <2> SUFFICES ASSUME Inv, troubles = 0
                 PROVE  Cardinality({c \in Clients : stage[c] \in InBody}) <= 1
      BY DEF OneStarter
    <2> DEFINE starters == {c \in Clients : stage[c] \in InBody}
    <2>1. starters \in SUBSET {lock.owner}
      BY DEF Inv, HeldByOwner, Holding
    <2>2. IsFiniteSet({lock.owner}) /\ Cardinality({lock.owner}) = 1
      BY FS_Singleton
    <2> HIDE DEF starters
    <2>3. Cardinality(starters) <= 1
      BY <2>1, <2>2, FS_Subset
    <2>4. QED BY <2>3 DEF starters
  <1>2. QED BY <1>1, Invariance, PTL

\* The base URL that a client is given has been served since it called.
THEOREM ReturnedUrlHasServed == Spec => []ReturnedHasServed
  <1>1. Inv => ReturnedHasServed
    BY DEF Inv
  <1>2. QED BY <1>1, Invariance, PTL
=============================================================================
