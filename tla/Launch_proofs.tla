---------------------------- MODULE Launch_proofs ----------------------------
(***************************************************************************)
(* Proofs about the launch kernel, for any set of launches, any limits and *)
(* any number of restarts.                                                 *)
(*                                                                         *)
(* Kernel is the inductive invariant of CrashSpec: the rows marked running *)
(* are the one the worker awaits, the worker's question fits the kind of   *)
(* its work, a failed launch has used up some work, and a launch that has  *)
(* joined had its seat.  Outbox adds what makes work accompany every       *)
(* unfinished launch when the daemon dies only between handlers (Spec).    *)
(***************************************************************************)
EXTENDS Launch, FiniteSetTheorems, TLAPS

-----------------------------------------------------------------------------
(***************************************************************************)
(* The transition table                                                    *)
(***************************************************************************)

\* An event either takes an edge of the table or leaves the state alone.
LEMMA AfterIsEdge ==
  ASSUME NEW s \in States, NEW e
  PROVE  \/ <<s, e, After(s, e)>> \in Edges
         \/ After(s, e) = s /\ \A t \in States : <<s, e, t>> \notin Edges
<1>1. After(s, e) = IF \E t \in States : <<s, e, t>> \in Edges
                    THEN CHOOSE t \in States : <<s, e, t>> \in Edges
                    ELSE s
  BY Zenon DEF After, transitionLaunch
<1>2. CASE \E t \in States : <<s, e, t>> \in Edges
  <2>1. <<s, e, CHOOSE t \in States : <<s, e, t>> \in Edges>> \in Edges
    BY <1>2, Zenon
  <2> QED BY <1>1, <1>2, <2>1, Zenon
<1>3. CASE ~ \E t \in States : <<s, e, t>> \in Edges
  BY <1>1, <1>3, Zenon
<1> QED BY <1>2, <1>3

\* No event leads out of the states.
LEMMA AfterInStates ==
  ASSUME NEW s \in States, NEW e
  PROVE  After(s, e) \in States
<1>1. \A edge \in Edges : edge[3] \in States
  BY DEF Edges, States
<1> QED BY <1>1, AfterIsEdge

\* What each event does, read off the table.
LEMMA AfterFailed ==
  ASSUME NEW s \in States
  PROVE  After(s, "failed") = IF s \in Failable THEN "failed" ELSE s
<1>1. \A t \in States : <<s, "failed", t>> \in Edges <=> s \in Failable /\ t = "failed"
  BY DEF Edges, Failable, States
<1>2. "failed" \in States
  BY DEF States
<1> QED BY <1>1, <1>2, AfterIsEdge, AfterInStates

LEMMA AfterStopped ==
  ASSUME NEW s \in States
  PROVE  After(s, "stopped") = IF s \in {"none", "failed"} THEN s ELSE "stopped"
<1>1. \A t \in States : <<s, "stopped", t>> \in Edges <=>
                          s \in States \ {"none", "failed", "stopped"} /\ t = "stopped"
  BY DEF Edges, Failable
<1>2. "stopped" \in States
  BY DEF States
<1> QED BY <1>1, <1>2, AfterIsEdge, AfterInStates

LEMMA AfterSpawnStarted ==
  ASSUME NEW s \in States
  PROVE  After(s, "spawn_started") = IF s = "accepted" THEN "spawning" ELSE s
<1>1. \A t \in States : <<s, "spawn_started", t>> \in Edges <=> s = "accepted" /\ t = "spawning"
  BY DEF Edges
<1>2. "spawning" \in States
  BY DEF States
<1> QED BY <1>1, <1>2, AfterIsEdge, AfterInStates

LEMMA AfterSpawned ==
  ASSUME NEW s \in States, NEW l \in Launches
  PROVE  After(s, SpawnedEvent(l)) =
           IF s = "spawning" THEN IF l \in Claude THEN "prompt_waiting" ELSE "spawned"
           ELSE s
<1>1. \A t \in States : <<s, SpawnedEvent(l), t>> \in Edges <=>
        s = "spawning" /\ t = IF l \in Claude THEN "prompt_waiting" ELSE "spawned"
  BY DEF Edges, SpawnedEvent
<1>2. "prompt_waiting" \in States /\ "spawned" \in States
  BY DEF States
<1> QED BY <1>1, <1>2, AfterIsEdge, AfterInStates

LEMMA AfterPrompt ==
  ASSUME NEW s \in States
  PROVE  After(s, "prompt_accepted") = IF s = "prompt_waiting" THEN "prompt_accepted" ELSE s
<1>1. \A t \in States : <<s, "prompt_accepted", t>> \in Edges <=>
                          s = "prompt_waiting" /\ t = "prompt_accepted"
  BY DEF Edges
<1>2. "prompt_accepted" \in States
  BY DEF States
<1> QED BY <1>1, <1>2, AfterIsEdge, AfterInStates

LEMMA AfterRegistered ==
  ASSUME NEW s \in States
  PROVE  After(s, "registered") =
           IF s \in {"spawned", "prompt_waiting", "prompt_accepted"} THEN "registered" ELSE s
<1>1. \A t \in States : <<s, "registered", t>> \in Edges <=>
        s \in {"spawned", "prompt_waiting", "prompt_accepted"} /\ t = "registered"
  BY DEF Edges
<1>2. "registered" \in States
  BY DEF States
<1> QED BY <1>1, <1>2, AfterIsEdge, AfterInStates

LEMMA AfterReconciling ==
  ASSUME NEW s \in States
  PROVE  After(s, "reconcile_started") = IF s = "registered" THEN "reconciling" ELSE s
<1>1. \A t \in States : <<s, "reconcile_started", t>> \in Edges <=>
                          s = "registered" /\ t = "reconciling"
  BY DEF Edges
<1>2. "reconciling" \in States
  BY DEF States
<1> QED BY <1>1, <1>2, AfterIsEdge, AfterInStates

LEMMA AfterJoin ==
  ASSUME NEW s \in States
  PROVE  /\ After(s, "join_succeeded") = IF s = "reconciling" THEN "joined" ELSE s
         /\ After(s, "join_failed") = IF s = "reconciling" THEN "registered_unjoined" ELSE s
<1>1. \A t \in States : <<s, "join_succeeded", t>> \in Edges <=>
                          s = "reconciling" /\ t = "joined"
  BY DEF Edges
<1>2. \A t \in States : <<s, "join_failed", t>> \in Edges <=>
                          s = "reconciling" /\ t = "registered_unjoined"
  BY DEF Edges
<1>3. "joined" \in States /\ "registered_unjoined" \in States
  BY DEF States
<1> QED BY <1>1, <1>2, <1>3, AfterIsEdge, AfterInStates

LEMMA AfterObserved ==
  ASSUME NEW s \in States
  PROVE  After(s, "running_observed") = IF s \in {"registered", "joined"} THEN "running" ELSE s
<1>1. \A t \in States : <<s, "running_observed", t>> \in Edges <=>
                          s \in {"registered", "joined"} /\ t = "running"
  BY DEF Edges
<1>2. "running" \in States
  BY DEF States
<1> QED BY <1>1, <1>2, AfterIsEdge, AfterInStates

-----------------------------------------------------------------------------
(***************************************************************************)
(* The inductive invariant                                                 *)
(***************************************************************************)

\* What the worker awaits fits the kind of its work.
AsksFit ==
  worker # Idle => (worker.doing = "confirm" <=> worker.kind = "prompt_confirm")

\* Two of the facts are about states, rows and peers that need not be the
\* current ones: a crash leaves some writes of a handler behind.
Exhausted(states, rows) ==
  \A l \in Launches : states[l] = "failed" =>
    \E k \in Kinds : rows[l][k].status = "failed" /\ rows[l][k].attempts = MaxAttempts(k)

WereSeated(states, peers) ==
  \A l \in Grouped : states[l] \in {"joined", "running"} => peers[l].seat # "none"

Limited(rows) ==
  \A l \in Launches, k \in Kinds : rows[l][k].attempts <= MaxAttempts(k)

Kernel ==
  /\ TypeOK
  /\ WorkerOwnsRunning
  /\ AsksFit
  /\ Exhausted(state, work)
  /\ WereSeated(state, peer)

LEMMA LimitsAreNumbers ==
  \A k \in Kinds : MaxAttempts(k) \in Nat \ {0}
  BY LaunchAssumption DEF MaxAttempts, Kinds

LEMMA InitKernel == Init => Kernel
<1> SUFFICES ASSUME Init PROVE Kernel
  OBVIOUS
<1>1. TypeOK
  BY LaunchAssumption, LimitsAreNumbers
  DEF Init, TypeOK, States, WorkRow, NoWork, PeerRow, NoPeer
<1>2. WorkerOwnsRunning
  BY LaunchAssumption DEF Init, WorkerOwnsRunning, NoWork, Idle
<1>3. AsksFit /\ Exhausted(state, work) /\ WereSeated(state, peer)
  BY LaunchAssumption DEF Init, AsksFit, Exhausted, WereSeated
<1> QED BY <1>1, <1>2, <1>3 DEF Kernel

-----------------------------------------------------------------------------
(***************************************************************************)
(* The steps of a handler                                                  *)
(***************************************************************************)

LEMMA AcceptKeeps ==
  ASSUME Kernel, NEW l \in Launches, Accept(l)
  PROVE  Kernel'
<1> USE DEF Kernel
<1>0. "spawn" \in Kinds
  BY DEF Kinds
<1>1. /\ state' = [state EXCEPT ![l] = "accepted"]
      /\ work' = [work EXCEPT ![l]["spawn"] = Enqueued(work[l]["spawn"])]
      /\ UNCHANGED <<worker, session, peer, calls, stops, crashes>>
  BY DEF Accept
<1>2. Enqueued(work[l]["spawn"]) \in WorkRow
  BY <1>0 DEF TypeOK, WorkRow, Enqueued
<1>3. \A m \in Launches, k \in Kinds :
        \/ work'[m][k] = work[m][k]
        \/ /\ work[m][k].status = "none"
           /\ work'[m][k].status = "queued"
           /\ work'[m][k].attempts = 0
  <2>1. \A m \in Launches, k \in Kinds :
          work'[m][k] = IF m = l /\ k = "spawn" THEN Enqueued(work[l]["spawn"]) ELSE work[m][k]
    BY <1>0, <1>1 DEF TypeOK
  <2> QED BY <2>1 DEF Enqueued
<1>4. TypeOK'
  <2>1. Limited(work')
    BY <1>3, LimitsAreNumbers DEF TypeOK, Limited
  <2>2. work' \in [Launches -> [Kinds -> WorkRow]]
    BY <1>0, <1>1, <1>2 DEF TypeOK
  <2>3. state' \in [Launches -> States]
    BY <1>1 DEF TypeOK, States
  <2> QED BY <1>1, <2>1, <2>2, <2>3 DEF TypeOK, Limited
<1>5. WorkerOwnsRunning'
  BY <1>1, <1>3 DEF WorkerOwnsRunning
<1>6. AsksFit'
  BY <1>1 DEF AsksFit
<1>7. Exhausted(state', work')
  BY <1>1, <1>3 DEF Exhausted, TypeOK
<1>8. WereSeated(state', peer')
  BY <1>1, LaunchAssumption DEF WereSeated, TypeOK
<1> QED BY <1>4, <1>5, <1>6, <1>7, <1>8

LEMMA ClaimKeeps ==
  ASSUME Kernel, NEW l \in Launches, NEW k \in Kinds, Claim(l, k)
  PROVE  Kernel'
<1> USE DEF Kernel
<1> DEFINE idle == IF k = "spawn" THEN state[l] \in SpawnOver ELSE state[l] \notin PromptOpen
           row  == [status   |-> IF idle THEN "done" ELSE "running",
                    attempts |-> work[l][k].attempts + 1]
<1> HIDE DEF idle
<1>1. /\ worker = Idle
      /\ work[l][k].status = "queued"
      /\ work[l][k].attempts < MaxAttempts(k)
      /\ work' = [work EXCEPT ![l][k] = row]
      /\ worker' = IF idle THEN Idle
                   ELSE Ask(l, k, IF k = "spawn" THEN "list" ELSE "confirm")
      /\ state' = IF k = "spawn" THEN [state EXCEPT ![l] = After(state[l], "spawn_started")]
                  ELSE state
      /\ UNCHANGED <<session, peer, calls, stops, crashes>>
  BY DEF Claim, MayClaim, idle
<1>2. row \in WorkRow
  BY DEF TypeOK, WorkRow
<1>3. \A m \in Launches, i \in Kinds :
        work'[m][i] = IF m = l /\ i = k THEN row ELSE work[m][i]
  BY <1>1 DEF TypeOK
<1>4. \A m \in Launches :
        state'[m] = state[m] \/ (state[m] = "accepted" /\ state'[m] = "spawning")
  <2>1. state \in [Launches -> States]
    BY DEF TypeOK
  <2>2. After(state[l], "spawn_started") =
          IF state[l] = "accepted" THEN "spawning" ELSE state[l]
    BY <2>1, AfterSpawnStarted
  <2>3. CASE k = "spawn"
    BY <1>1, <2>1, <2>2, <2>3
  <2>4. CASE k # "spawn"
    BY <1>1, <2>4
  <2> QED BY <2>3, <2>4
<1>5. TypeOK'
  <2>1. Limited(work')
    BY <1>1, <1>3, LimitsAreNumbers DEF TypeOK, Limited, WorkRow
  <2>2. work' \in [Launches -> [Kinds -> WorkRow]]
    BY <1>1, <1>2 DEF TypeOK
  <2>3. state' \in [Launches -> States]
    BY <1>1, AfterInStates DEF TypeOK
  <2>4. worker' \in Tasks \cup {Idle}
    BY <1>1 DEF Ask, Tasks
  <2> QED BY <1>1, <2>1, <2>2, <2>3, <2>4 DEF TypeOK, Limited
<1>6. WorkerOwnsRunning'
  BY <1>1, <1>3, LaunchAssumption DEF WorkerOwnsRunning, Ask, Idle
<1>7. AsksFit'
  BY <1>1 DEF AsksFit, Ask, Kinds
<1>8. Exhausted(state', work')
  BY <1>1, <1>3, <1>4 DEF Exhausted
<1>9. WereSeated(state', peer')
  BY <1>1, <1>4, LaunchAssumption DEF WereSeated
<1> QED BY <1>5, <1>6, <1>7, <1>8, <1>9

\* Asking the backend something else about spawn work.
LEMMA AsksKeeps ==
  ASSUME Kernel, worker # Idle, worker.kind = "spawn",
         NEW what \in {"add", "start", "remove", "relist"}, Asks(what),
         UNCHANGED <<session, peer, calls, stops, crashes>>
  PROVE  Kernel'
<1>1. /\ worker' = Ask(worker.launch, worker.kind, what)
      /\ UNCHANGED <<state, work, session, peer, calls, stops, crashes>>
  BY DEF Asks
<1>2. worker \in Tasks
  BY DEF Kernel, TypeOK
<1>3. worker' \in Tasks /\ worker'.launch = worker.launch /\ worker'.kind = worker.kind
  BY <1>1, <1>2 DEF Ask, Tasks
<1>4. TypeOK'
  BY <1>1, <1>3 DEF Kernel, TypeOK
<1>5. WorkerOwnsRunning'
  BY <1>1, <1>3 DEF Kernel, WorkerOwnsRunning
<1>6. AsksFit'
  BY <1>1 DEF AsksFit, Ask
<1> QED BY <1>1, <1>4, <1>5, <1>6 DEF Kernel, Exhausted, WereSeated

\* The worker is done with its work, which is no longer running; other rows are
\* as they were, or were just enqueued.
LEMMA WorkerRests ==
  ASSUME Kernel, worker # Idle,
         worker' = Idle,
         state' \in [Launches -> States],
         work' \in [Launches -> [Kinds -> WorkRow]],
         Limited(work'),
         work'[worker.launch][worker.kind].status # "running",
         \A l \in Launches, k \in Kinds :
           \/ l = worker.launch /\ k = worker.kind
           \/ work'[l][k] = work[l][k]
           \/ work[l][k].status = "none" /\ work'[l][k].status = "queued",
         Exhausted(state', work'),
         \A l \in Launches : state'[l] \in {"joined", "running"} => state'[l] = state[l],
         UNCHANGED <<session, peer, calls, stops, crashes>>
  PROVE  Kernel'
<1>1. worker \in Tasks
  BY DEF Kernel, TypeOK
<1>2. TypeOK'
  BY DEF Kernel, TypeOK, Limited
<1>3. WorkerOwnsRunning'
  <2> SUFFICES ASSUME NEW l \in Launches, NEW k \in Kinds
               PROVE  work'[l][k].status # "running"
    BY LaunchAssumption DEF WorkerOwnsRunning, Idle
  <2>1. CASE l = worker.launch /\ k = worker.kind
    BY <2>1
  <2>2. CASE work'[l][k] = work[l][k] /\ ~ (l = worker.launch /\ k = worker.kind)
    BY <2>2 DEF Kernel, WorkerOwnsRunning
  <2>3. CASE work'[l][k].status = "queued"
    BY <2>3
  <2> QED BY <2>1, <2>2, <2>3
<1>4. AsksFit'
  BY DEF AsksFit
<1>5. WereSeated(state', peer')
  BY LaunchAssumption DEF Kernel, WereSeated
<1> QED BY <1>2, <1>3, <1>4, <1>5 DEF Kernel

LEMMA WorkInHand ==
  ASSUME Kernel, worker # Idle
  PROVE  /\ worker \in Tasks
         /\ worker.launch \in Launches
         /\ worker.kind \in Kinds
         /\ work[worker.launch][worker.kind] \in WorkRow
         /\ work[worker.launch][worker.kind].status = "running"
         /\ work[worker.launch][worker.kind].attempts <= MaxAttempts(worker.kind)
<1>1. worker \in Tasks
  BY DEF Kernel, TypeOK
<1>2. worker.launch \in Launches /\ worker.kind \in Kinds
  BY <1>1 DEF Tasks
<1> QED BY <1>1, <1>2 DEF Kernel, TypeOK, WorkerOwnsRunning

LEMMA WorkFailsKeeps ==
  ASSUME Kernel, worker # Idle, WorkFails(worker.launch, worker.kind),
         UNCHANGED <<session, peer, calls, stops, crashes>>
  PROVE  Kernel'
<1> DEFINE l == worker.launch
           k == worker.kind
           last == work[l][k].attempts >= MaxAttempts(k)
           row == [work[l][k] EXCEPT !.status = IF last THEN "failed" ELSE "queued"]
<1>1. /\ l \in Launches
      /\ k \in Kinds
      /\ work[l][k] \in WorkRow
      /\ work[l][k].status = "running"
      /\ work[l][k].attempts <= MaxAttempts(k)
  BY WorkInHand
<1>2. /\ state \in [Launches -> States]
      /\ work \in [Launches -> [Kinds -> WorkRow]]
      /\ Limited(work)
  BY DEF Kernel, TypeOK, Limited
<1>3. /\ work' = [work EXCEPT ![l] = Finished(l, k, IF last THEN "failed" ELSE "queued")]
      /\ state' = IF last THEN [state EXCEPT ![l] = After(state[l], "failed")] ELSE state
      /\ worker' = Idle
  BY DEF WorkFails
<1>4. /\ row \in WorkRow
      /\ row.attempts = work[l][k].attempts
      /\ row.status = IF last THEN "failed" ELSE "queued"
  BY <1>1 DEF WorkRow
<1> HIDE DEF l, k, row
<1>5. \A m \in Launches, i \in Kinds :
        work'[m][i] = IF m = l /\ i = k THEN row ELSE work[m][i]
  BY <1>1, <1>2, <1>3 DEF Finished, row
<1>6. work' \in [Launches -> [Kinds -> WorkRow]]
  BY <1>1, <1>2, <1>3, <1>4 DEF Finished, row
<1>7. Limited(work')
  BY <1>1, <1>2, <1>4, <1>5 DEF Limited
<1>8. After(state[l], "failed") \in States
  BY <1>1, <1>2, AfterInStates
<1>9. state' \in [Launches -> States]
  BY <1>2, <1>3, <1>8
<1>10. Exhausted(state', work')
  <2> SUFFICES ASSUME NEW m \in Launches, state'[m] = "failed"
               PROVE  \E i \in Kinds : /\ work'[m][i].status = "failed"
                                       /\ work'[m][i].attempts = MaxAttempts(i)
    BY DEF Exhausted
  <2>1. CASE m = l /\ last
    <3>1. row.attempts = MaxAttempts(k)
      BY <1>1, <1>4, <2>1, LimitsAreNumbers DEF WorkRow
    <3> QED BY <1>1, <1>4, <1>5, <2>1, <3>1
  <2>2. CASE ~ (m = l /\ last)
    <3>1. state[m] = "failed"
      BY <1>2, <1>3, <2>2
    <3>2. PICK i \in Kinds : work[m][i].status = "failed" /\ work[m][i].attempts = MaxAttempts(i)
      BY <3>1 DEF Kernel, Exhausted
    <3>3. work'[m][i] = work[m][i]
      BY <1>1, <1>5, <3>2
    <3> QED BY <3>2, <3>3
  <2> QED BY <2>1, <2>2
<1>11. \A m \in Launches : state'[m] \in {"joined", "running"} => state'[m] = state[m]
  <2>1. After(state[l], "failed") = IF state[l] \in Failable THEN "failed" ELSE state[l]
    BY <1>1, <1>2, AfterFailed
  <2> QED BY <1>1, <1>2, <1>3, <2>1
<1>12. work'[l][k].status # "running"
  BY <1>1, <1>4, <1>5
<1> QED BY <1>1, <1>3, <1>5, <1>6, <1>7, <1>9, <1>10, <1>11, <1>12, WorkerRests, Zenon DEF l, k

LEMMA SpawnSucceededKeeps ==
  ASSUME Kernel, worker # Idle, worker.kind = "spawn", SpawnSucceeded(worker.launch),
         UNCHANGED <<session, peer, calls, stops, crashes>>
  PROVE  Kernel'
<1> DEFINE l == worker.launch
           done == [work[l]["spawn"] EXCEPT !.status = "done"]
           next == IF l \in Claude THEN Enqueued(work[l]["prompt_confirm"])
                   ELSE work[l]["prompt_confirm"]
<1>1. /\ l \in Launches
      /\ "spawn" \in Kinds
      /\ "prompt_confirm" \in Kinds
      /\ work[l]["spawn"] \in WorkRow
      /\ work[l]["spawn"].status = "running"
  BY WorkInHand DEF Kinds
<1>2. /\ state \in [Launches -> States]
      /\ work \in [Launches -> [Kinds -> WorkRow]]
      /\ Limited(work)
  BY DEF Kernel, TypeOK, Limited
<1>3. /\ state' = [state EXCEPT ![l] = After(state[l], SpawnedEvent(l))]
      /\ work' = [work EXCEPT ![l] =
                    [Finished(l, "spawn", "done") EXCEPT !["prompt_confirm"] = next]]
      /\ worker' = Idle
  <2>1. Finished(l, "spawn", "done")["prompt_confirm"] = work[l]["prompt_confirm"]
    BY <1>1, <1>2 DEF Finished
  <2> QED BY <2>1 DEF SpawnSucceeded
<1>4. /\ done \in WorkRow
      /\ done.attempts = work[l]["spawn"].attempts
      /\ done.status = "done"
  BY <1>1 DEF WorkRow
<1>5. next \in WorkRow
  BY <1>1, <1>2 DEF WorkRow, Enqueued
<1>6. \/ next = work[l]["prompt_confirm"]
      \/ /\ work[l]["prompt_confirm"].status = "none"
         /\ next.status = "queued"
         /\ next.attempts = 0
  BY DEF Enqueued
<1> HIDE DEF l, done, next
<1>7. \A m \in Launches, i \in Kinds :
        work'[m][i] = IF m = l /\ i = "prompt_confirm" THEN next
                      ELSE IF m = l /\ i = "spawn" THEN done ELSE work[m][i]
  BY <1>1, <1>2, <1>3 DEF Finished, done
<1>8. work' \in [Launches -> [Kinds -> WorkRow]]
  BY <1>1, <1>2, <1>3, <1>4, <1>5 DEF Finished, done
<1>9. Limited(work')
  BY <1>1, <1>2, <1>4, <1>6, <1>7, LimitsAreNumbers DEF Limited
<1>10. After(state[l], SpawnedEvent(l)) =
         IF state[l] = "spawning" THEN IF l \in Claude THEN "prompt_waiting" ELSE "spawned"
         ELSE state[l]
  BY <1>1, <1>2, AfterSpawned
<1>11. state' \in [Launches -> States]
  BY <1>1, <1>2, <1>3, AfterInStates
<1>12. \A m \in Launches :
         state'[m] \in {"failed", "joined", "running"} => state'[m] = state[m]
  BY <1>1, <1>2, <1>3, <1>10
<1>13. Exhausted(state', work')
  <2> SUFFICES ASSUME NEW m \in Launches, state'[m] = "failed"
               PROVE  \E i \in Kinds : /\ work'[m][i].status = "failed"
                                       /\ work'[m][i].attempts = MaxAttempts(i)
    BY DEF Exhausted
  <2>1. PICK i \in Kinds : work[m][i].status = "failed" /\ work[m][i].attempts = MaxAttempts(i)
    BY <1>12 DEF Kernel, Exhausted
  <2>2. work'[m][i] = work[m][i]
    BY <1>1, <1>6, <1>7, <2>1
  <2> QED BY <2>1, <2>2
<1>14. /\ work'[l]["spawn"].status # "running"
       /\ \A m \in Launches, i \in Kinds :
            \/ m = l /\ i = "spawn"
            \/ work'[m][i] = work[m][i]
            \/ work[m][i].status = "none" /\ work'[m][i].status = "queued"
  BY <1>1, <1>4, <1>6, <1>7
<1> QED BY <1>3, <1>8, <1>9, <1>11, <1>12, <1>13, <1>14, WorkerRests DEF l

LEMMA PromptAcceptedKeeps ==
  ASSUME Kernel, worker # Idle, worker.kind = "prompt_confirm",
         state' = [state EXCEPT ![worker.launch] = After(state[worker.launch], "prompt_accepted")],
         work' = [work EXCEPT ![worker.launch] =
                    Finished(worker.launch, "prompt_confirm", "done")],
         worker' = Idle,
         UNCHANGED <<session, peer, calls, stops, crashes>>
  PROVE  Kernel'
<1> DEFINE l == worker.launch
           done == [work[l]["prompt_confirm"] EXCEPT !.status = "done"]
<1>1. /\ l \in Launches
      /\ "prompt_confirm" \in Kinds
      /\ work[l]["prompt_confirm"] \in WorkRow
      /\ work[l]["prompt_confirm"].status = "running"
  BY WorkInHand DEF Kinds
<1>2. /\ state \in [Launches -> States]
      /\ work \in [Launches -> [Kinds -> WorkRow]]
      /\ Limited(work)
  BY DEF Kernel, TypeOK, Limited
<1>3. /\ done \in WorkRow
      /\ done.attempts = work[l]["prompt_confirm"].attempts
      /\ done.status = "done"
  BY <1>1 DEF WorkRow
<1> HIDE DEF l, done
<1>4. \A m \in Launches, i \in Kinds :
        work'[m][i] = IF m = l /\ i = "prompt_confirm" THEN done ELSE work[m][i]
  BY <1>1, <1>2 DEF Finished, l, done
<1>5. work' \in [Launches -> [Kinds -> WorkRow]]
  BY <1>1, <1>2, <1>3 DEF Finished, l, done
<1>6. Limited(work')
  BY <1>1, <1>2, <1>3, <1>4 DEF Limited
<1>7. After(state[l], "prompt_accepted") =
        IF state[l] = "prompt_waiting" THEN "prompt_accepted" ELSE state[l]
  BY <1>1, <1>2, AfterPrompt
<1>8. state' \in [Launches -> States]
  BY <1>1, <1>2, AfterInStates DEF l
<1>9. \A m \in Launches :
        state'[m] \in {"failed", "joined", "running"} => state'[m] = state[m]
  BY <1>1, <1>2, <1>7 DEF l
<1>10. Exhausted(state', work')
  <2> SUFFICES ASSUME NEW m \in Launches, state'[m] = "failed"
               PROVE  \E i \in Kinds : /\ work'[m][i].status = "failed"
                                       /\ work'[m][i].attempts = MaxAttempts(i)
    BY DEF Exhausted
  <2>1. PICK i \in Kinds : work[m][i].status = "failed" /\ work[m][i].attempts = MaxAttempts(i)
    BY <1>9 DEF Kernel, Exhausted
  <2>2. work'[m][i] = work[m][i]
    BY <1>1, <1>4, <2>1
  <2> QED BY <2>1, <2>2
<1> QED BY <1>1, <1>3, <1>4, <1>5, <1>6, <1>8, <1>9, <1>10, WorkerRests DEF l

LEMMA ContinueKeeps ==
  ASSUME Kernel, Continue
  PROVE  Kernel'
<1> DEFINE l == worker.launch
<1>1. UNCHANGED <<session, peer, calls, stops, crashes>>
  BY DEF Continue
<1>2. /\ worker # Idle
      /\ worker.kind = IF worker.doing = "confirm" THEN "prompt_confirm" ELSE "spawn"
  <2>1. worker # Idle
    BY DEF Continue, Idle
  <2> QED BY <2>1, WorkInHand DEF Kernel, AsksFit, Kinds
<1>3. CASE worker.kind = "spawn" /\ SpawnSucceeded(l)
  BY <1>1, <1>2, <1>3, SpawnSucceededKeeps
<1>4. CASE worker.kind = "spawn" /\ \E what \in {"add", "start", "remove", "relist"} : Asks(what)
  BY <1>1, <1>2, <1>4, AsksKeeps
<1>5. CASE WorkFails(l, worker.kind)
  BY <1>1, <1>2, <1>5, WorkFailsKeeps
<1>6. CASE /\ worker.kind = "prompt_confirm"
           /\ state' = [state EXCEPT ![l] = After(state[l], "prompt_accepted")]
           /\ work' = [work EXCEPT ![l] = Finished(l, "prompt_confirm", "done")]
           /\ worker' = Idle
  BY <1>1, <1>2, <1>6, PromptAcceptedKeeps
<1> QED BY <1>2, <1>3, <1>4, <1>5, <1>6 DEF Continue

LEMMA AnswerKeeps ==
  ASSUME Kernel, Answer
  PROVE  Kernel'
<1>1. /\ worker # Idle
      /\ UNCHANGED <<state, work, peer, calls, stops, crashes>>
  BY DEF Answer, Idle
<1>2. PICK answer \in {"yes", "no"}, to \in {"absent", "added", "started"} :
        Reply(answer, worker.launch, to)
  BY <1>1, WorkInHand DEF Answer, Kernel, TypeOK
<1>3. /\ worker' \in Tasks
      /\ worker'.launch = worker.launch
      /\ worker'.kind = worker.kind
      /\ worker'.doing = worker.doing
  BY <1>1, <1>2, WorkInHand DEF Reply, Tasks
<1>4. TypeOK'
  BY <1>1, <1>2, <1>3 DEF Kernel, TypeOK, Reply
<1>5. WorkerOwnsRunning'
  BY <1>1, <1>3 DEF Kernel, WorkerOwnsRunning
<1>6. AsksFit'
  BY <1>1, <1>3 DEF Kernel, AsksFit
<1> QED BY <1>1, <1>4, <1>5, <1>6 DEF Kernel, Exhausted, WereSeated

-----------------------------------------------------------------------------
(***************************************************************************)
(* Agents, operators and restarts                                          *)
(***************************************************************************)

\* Steps that touch neither the work nor the worker.
LEMMA OutsideKeeps ==
  ASSUME Kernel, TypeOK',
         UNCHANGED <<work, worker>>,
         \A l \in Launches : state'[l] = "failed" => state[l] = "failed",
         WereSeated(state', peer')
  PROVE  Kernel'
<1>1. WorkerOwnsRunning' /\ AsksFit'
  BY DEF Kernel, WorkerOwnsRunning, AsksFit
<1>2. Exhausted(state', work')
  BY DEF Kernel, Exhausted
<1> QED BY <1>1, <1>2 DEF Kernel

LEMMA SendRegisterKeeps ==
  ASSUME Kernel, NEW l \in Launches, SendRegister(l)
  PROVE  Kernel'
<1>1. TypeOK'
  BY DEF SendRegister, Kernel, TypeOK
<1>2. WereSeated(state', peer')
  BY DEF SendRegister, Kernel, WereSeated
<1> QED BY <1>1, <1>2, OutsideKeeps DEF SendRegister

LEMMA AskStopKeeps ==
  ASSUME Kernel, NEW l \in Launches, AskStop(l)
  PROVE  Kernel'
<1>1. TypeOK'
  BY DEF AskStop, Kernel, TypeOK
<1>2. WereSeated(state', peer')
  BY DEF AskStop, Kernel, WereSeated
<1> QED BY <1>1, <1>2, OutsideKeeps DEF AskStop

LEMMA StopAnswerKeeps ==
  ASSUME Kernel, NEW l \in Launches, StopAnswer(l)
  PROVE  Kernel'
<1>1. TypeOK'
  BY DEF StopAnswer, Kernel, TypeOK
<1>2. WereSeated(state', peer')
  BY DEF StopAnswer, Kernel, WereSeated
<1> QED BY <1>1, <1>2, OutsideKeeps DEF StopAnswer

\* What a peer's row becomes: it keeps a seat if it had one.
LEMMA RowsChange ==
  ASSUME NEW p \in PeerRow
  PROVE  /\ Unseated(p) \in PeerRow
         /\ Unseated(p).life = p.life /\ Unseated(p).seat # "none"
         /\ Joined(p) \in PeerRow
         /\ Joined(p).life = p.life /\ Joined(p).seat = "active"
         /\ Buried(p) \in PeerRow
         /\ Buried(p).life = "deleted" /\ (Buried(p).seat = "none" <=> p.seat = "none")
         /\ Deactivated(p) \in PeerRow
         /\ Deactivated(p).life = IF p.life = "live" THEN "deleted" ELSE p.life
         /\ Deactivated(p).seat = "none" <=> p.seat = "none"
         /\ Pruned(p) \in PeerRow
         /\ Pruned(p).life = p.life /\ (Pruned(p).seat = "none" <=> p.seat = "none")
<1>1. Unseated(p) \in PeerRow /\ Unseated(p).life = p.life /\ Unseated(p).seat = "left"
  BY DEF Unseated, PeerRow
<1>2. Joined(p) \in PeerRow /\ Joined(p).life = p.life /\ Joined(p).seat = "active"
  BY DEF Joined, PeerRow
<1>3. /\ Buried(p) \in PeerRow
      /\ Buried(p).life = "deleted" /\ (Buried(p).seat = "none" <=> p.seat = "none")
  BY DEF Buried, PeerRow
<1>4. /\ Deactivated(p) \in PeerRow
      /\ Deactivated(p).life = IF p.life = "live" THEN "deleted" ELSE p.life
      /\ Deactivated(p).seat = "none" <=> p.seat = "none"
  BY <1>3 DEF Deactivated
<1>5. /\ Pruned(p) \in PeerRow
      /\ Pruned(p).life = p.life /\ (Pruned(p).seat = "none" <=> p.seat = "none")
  BY <1>1 DEF Pruned
<1> QED BY <1>1, <1>2, <1>3, <1>4, <1>5

LEMMA StopRecordKeeps ==
  ASSUME Kernel, NEW l \in Launches, StopRecord(l)
  PROVE  Kernel'
<1>1. /\ state' = [state EXCEPT ![l] = After(state[l], "stopped")]
      /\ peer' = [peer EXCEPT ![l] = Deactivated(peer[l])]
      /\ stops' = [stops EXCEPT ![l] = "none"]
      /\ UNCHANGED <<work, worker, session, calls, crashes>>
  BY DEF StopRecord
<1>2. /\ state \in [Launches -> States]
      /\ peer \in [Launches -> PeerRow]
  BY DEF Kernel, TypeOK
<1>3. After(state[l], "stopped") =
        IF state[l] \in {"none", "failed"} THEN state[l] ELSE "stopped"
  BY <1>2, AfterStopped
<1>4. Deactivated(peer[l]) \in PeerRow /\ (Deactivated(peer[l]).seat = "none" <=> peer[l].seat = "none")
  BY <1>2, RowsChange
<1>5. state' \in [Launches -> States]
  BY <1>1, <1>2, AfterInStates
<1>6. TypeOK'
  BY <1>1, <1>2, <1>4, <1>5 DEF Kernel, TypeOK
<1>7. WereSeated(state', peer')
  BY <1>1, <1>2, <1>3, <1>4, LaunchAssumption DEF Kernel, WereSeated
<1>8. \A m \in Launches : state'[m] = "failed" => state[m] = "failed"
  BY <1>1, <1>2, <1>3
<1> QED BY <1>1, <1>6, <1>7, <1>8, OutsideKeeps

\* What the reconciliation may make of a state that it does not skip.
LEMMA Reconciliation ==
  ASSUME NEW l \in Launches, state \in [Launches -> States]
  PROVE  /\ Registered(l) \in States
         /\ Registered(l) \in {"failed", "joined", "running"} => Registered(l) = state[l]
         /\ Reconciling(l) \in States
         /\ Reconciling(l) \in {"failed", "joined", "running"} => Reconciling(l) = state[l]
         /\ After(Registered(l), "running_observed") \in States
         /\ After(Registered(l), "running_observed") = "failed" => state[l] = "failed"
         /\ After(Reconciling(l), "join_succeeded") \in States
         /\ After(Reconciling(l), "join_succeeded") = "failed" => state[l] = "failed"
         /\ After(After(Reconciling(l), "join_succeeded"), "running_observed") \in States
         /\ After(After(Reconciling(l), "join_succeeded"), "running_observed") = "failed"
              => state[l] = "failed"
         /\ After(Reconciling(l), "join_failed") \in States
         /\ After(Reconciling(l), "join_failed") \in {"failed", "joined", "running"}
              => After(Reconciling(l), "join_failed") = state[l]
<1>1. /\ Registered(l) \in States
      /\ Registered(l) \in {"failed", "joined", "running", "reconciling"} => Registered(l) = state[l]
  BY AfterRegistered, AfterInStates DEF Registered
<1>2. /\ Reconciling(l) \in States
      /\ Reconciling(l) \in {"failed", "joined", "running"} => Reconciling(l) = state[l]
  BY <1>1, AfterReconciling, AfterInStates DEF Reconciling
<1>3. /\ After(Registered(l), "running_observed") \in States
      /\ After(Registered(l), "running_observed") = "failed" => state[l] = "failed"
  BY <1>1, AfterObserved, AfterInStates
<1>4. /\ After(Reconciling(l), "join_succeeded") \in States
      /\ After(Reconciling(l), "join_succeeded") = "failed" => state[l] = "failed"
  BY <1>2, AfterJoin, AfterInStates
<1>5. /\ After(After(Reconciling(l), "join_succeeded"), "running_observed") \in States
      /\ After(After(Reconciling(l), "join_succeeded"), "running_observed") = "failed"
           => state[l] = "failed"
  BY <1>4, AfterObserved, AfterInStates
<1>6. /\ After(Reconciling(l), "join_failed") \in States
      /\ After(Reconciling(l), "join_failed") \in {"failed", "joined", "running"}
           => After(Reconciling(l), "join_failed") = state[l]
  BY <1>2, AfterJoin, AfterInStates
<1> QED BY <1>1, <1>2, <1>3, <1>4, <1>5, <1>6

\* A registration forgets no seat.
LEMMA UpsertedTyped ==
  ASSUME NEW p \in PeerRow, NEW up \in Upserted(p)
  PROVE  /\ up \in PeerRow
         /\ up.life = "live"
         /\ up.seat = "none" <=> p.seat = "none"
<1> DEFINE live == [p EXCEPT !.life = "live"]
<1>1. live \in PeerRow /\ live.life = "live" /\ live.seat = p.seat
  BY DEF PeerRow
<1>2. LET back == [live EXCEPT !.seat = "active"]
      IN  back \in PeerRow /\ back.life = "live" /\ back.seat = "active"
  BY <1>1 DEF PeerRow
<1>3. Unseated(live) \in PeerRow /\ Unseated(live).life = "live" /\ Unseated(live).seat # "none"
  BY <1>1, RowsChange
<1>4. \/ p.seat \in {"dead", "reserved"} /\ up \in {[live EXCEPT !.seat = "active"], Unseated(live)}
      \/ up = live
  <2>1. CASE p.seat = "dead"
    BY <2>1 DEF Upserted
  <2>2. CASE p.seat = "reserved"
    BY <2>2 DEF Upserted
  <2>3. CASE p.seat \notin {"dead", "reserved"}
    BY <2>3 DEF Upserted
  <2> QED BY <2>1, <2>2, <2>3
<1> HIDE DEF live
<1> QED BY <1>1, <1>2, <1>3, <1>4

LEMMA RegisterKeeps ==
  ASSUME Kernel, NEW l \in Launches, Register(l)
  PROVE  Kernel'
<1>1. /\ state \in [Launches -> States]
      /\ peer \in [Launches -> PeerRow]
  BY DEF Kernel, TypeOK
<1>2. UNCHANGED <<work, worker, session, stops, crashes>> /\ calls' = calls \ {l}
  BY DEF Register
<1>3. PICK to \in States, p \in PeerRow :
        /\ state' = [state EXCEPT ![l] = to]
        /\ peer' = [peer EXCEPT ![l] = p]
        /\ to = "failed" => state[l] = "failed"
        /\ l \in Grouped /\ to \in {"joined", "running"} => p.seat # "none"
  <2>1. PICK up \in Upserted(peer[l]) :
       \/ /\ state[l] \in Unreconciled
          /\ peer' = [peer EXCEPT ![l] = up]
          /\ state' = state
       \/ /\ state[l] \notin Unreconciled
          /\ l \notin Grouped
          /\ peer' = [peer EXCEPT ![l] = up]
          /\ state' = [state EXCEPT ![l] = After(Registered(l), "running_observed")]
       \/ /\ state[l] \notin Unreconciled
          /\ l \in Grouped
          /\ peer' = [peer EXCEPT ![l] = Joined(up)]
          /\ state' = [state EXCEPT ![l] =
                         After(After(Reconciling(l), "join_succeeded"), "running_observed")]
       \/ /\ state[l] \notin Unreconciled
          /\ l \in Grouped
          /\ up # Joined(up)
          /\ peer' = [peer EXCEPT ![l] = up]
          /\ state' = [state EXCEPT ![l] = After(Reconciling(l), "join_failed")]
    BY Zenon DEF Register
  <2>2. /\ up \in PeerRow
        /\ up.seat = "none" <=> peer[l].seat = "none"
        /\ Joined(up) \in PeerRow
        /\ Joined(up).seat # "none"
    BY <1>1, <2>1, UpsertedTyped, RowsChange
  <2>3. l \in Grouped /\ state[l] \in {"joined", "running"} => up.seat # "none"
    BY <2>2 DEF Kernel, WereSeated
  <2>4. CASE state[l] \in Unreconciled /\ peer' = [peer EXCEPT ![l] = up] /\ state' = state
    <3>1. state' = [state EXCEPT ![l] = state[l]]
      BY <1>1, <2>4
    <3> QED BY <1>1, <2>2, <2>3, <2>4, <3>1
  <2>5. CASE /\ l \notin Grouped
             /\ peer' = [peer EXCEPT ![l] = up]
             /\ state' = [state EXCEPT ![l] = After(Registered(l), "running_observed")]
    BY <1>1, <2>2, <2>5, Reconciliation
  <2>6. CASE /\ peer' = [peer EXCEPT ![l] = Joined(up)]
             /\ state' = [state EXCEPT ![l] =
                            After(After(Reconciling(l), "join_succeeded"), "running_observed")]
    BY <1>1, <2>2, <2>6, Reconciliation
  <2>7. CASE /\ peer' = [peer EXCEPT ![l] = up]
             /\ state' = [state EXCEPT ![l] = After(Reconciling(l), "join_failed")]
    BY <1>1, <2>2, <2>3, <2>7, Reconciliation
  <2> QED BY <2>1, <2>4, <2>5, <2>6, <2>7
<1>4. TypeOK'
  BY <1>1, <1>2, <1>3 DEF Kernel, TypeOK
<1>5. WereSeated(state', peer')
  BY <1>1, <1>3, LaunchAssumption DEF Kernel, WereSeated
<1>6. \A m \in Launches : state'[m] = "failed" => state[m] = "failed"
  BY <1>1, <1>3
<1> QED BY <1>2, <1>4, <1>5, <1>6, OutsideKeeps

\* Whatever else moves a peer touches no launch, work or worker, takes at most the
\* session away, and leaves the peer with a seat if it had one.
LEMMA MoveIs ==
  ASSUME Kernel, NEW l \in Moved, Moves(l)
  PROVE  /\ l \in Launches
         /\ UNCHANGED <<state, work, worker, calls, crashes>>
         /\ session' \in {session, [session EXCEPT ![l] = "absent"]}
         /\ \E to \in {"none", "reaping", "reaped"} : stops' \in {stops, [stops EXCEPT ![l] = to]}
         /\ \E p \in PeerRow : /\ peer' = [peer EXCEPT ![l] = p]
                               /\ peer[l].seat # "none" => p.seat # "none"
<1>1. l \in Launches
  BY LaunchAssumption
<1>2. peer \in [Launches -> PeerRow] /\ peer[l] \in PeerRow
  BY <1>1 DEF Kernel, TypeOK
<1>3. peer = [peer EXCEPT ![l] = peer[l]]
  BY <1>1, <1>2
<1>4. CASE Leave(l)
  <2>1. Unseated(peer[l]) \in PeerRow /\ Unseated(peer[l]).seat # "none"
    BY <1>2, RowsChange
  <2>2. peer' = [peer EXCEPT ![l] = Unseated(peer[l])]
    BY <1>4 DEF Leave, PeerBecomes
  <2> QED BY <1>1, <1>4, <2>1, <2>2 DEF Leave, PeerBecomes
<1>5. ASSUME NEW a \in {"launch", "other"}, Join(l, a)
      PROVE  /\ UNCHANGED <<state, work, worker, session, calls, stops, crashes>>
             /\ \E p \in PeerRow : /\ peer' = [peer EXCEPT ![l] = p]
                                   /\ peer[l].seat # "none" => p.seat # "none"
  <2>1. LET p == [peer[l] EXCEPT !.seat = "active", !.alias = a]
        IN  p \in PeerRow /\ p.seat = "active"
    BY <1>2 DEF PeerRow
  <2> QED BY <1>5, <2>1 DEF Join, PeerBecomes
<1>6. ASSUME NEW a \in {"launch", "other"}, Rename(l, a)
      PROVE  /\ UNCHANGED <<state, work, worker, session, calls, stops, crashes>>
             /\ \E p \in PeerRow : /\ peer' = [peer EXCEPT ![l] = p]
                                   /\ peer[l].seat # "none" => p.seat # "none"
  <2>1. LET p == [peer[l] EXCEPT !.alias = a] IN p \in PeerRow /\ p.seat = peer[l].seat
    BY <1>2 DEF PeerRow
  <2> QED BY <1>6, <2>1 DEF Rename, PeerBecomes
<1>7. CASE Delete(l) \/ SweepExpired(l)
  BY <1>1, <1>2, <1>7, RowsChange DEF Delete, SweepExpired, PeerBecomes
<1>8. CASE RegisterElsewhere(l)
  <2>1. PICK up \in Upserted(peer[l]) : PeerBecomes(l, up) /\ UNCHANGED stops
    BY <1>8 DEF RegisterElsewhere
  <2> QED BY <1>1, <1>2, <2>1, UpsertedTyped DEF PeerBecomes
<1>9. CASE BeginArchive(l)
  BY <1>1, <1>2, <1>3, <1>9 DEF BeginArchive
<1>10. CASE Reaped(l)
  BY <1>1, <1>2, <1>3, <1>10 DEF Reaped
<1>11. CASE FinishArchive(l)
  <2> DEFINE p == [peer[l] EXCEPT !.life = IF @ = "live" THEN "archived" ELSE @,
                                  !.seat = IF @ = "active" THEN "reserved" ELSE @]
  <2>1. p \in PeerRow /\ (peer[l].seat # "none" => p.seat # "none")
    BY <1>2 DEF PeerRow
  <2>2. peer' = [peer EXCEPT ![l] = p]
    BY <1>11 DEF FinishArchive, PeerBecomes
  <2> HIDE DEF p
  <2> QED BY <1>1, <1>11, <2>1, <2>2 DEF FinishArchive, PeerBecomes
<1> QED BY <1>1, <1>4, <1>5, <1>6, <1>7, <1>8, <1>9, <1>10, <1>11 DEF Moves

LEMMA MovesKeep ==
  ASSUME Kernel, NEW l \in Moved, Moves(l)
  PROVE  Kernel'
<1>1. /\ l \in Launches
      /\ UNCHANGED <<state, work, worker, calls, crashes>>
      /\ session' \in {session, [session EXCEPT ![l] = "absent"]}
  BY MoveIs
<1>2. PICK p \in PeerRow : /\ peer' = [peer EXCEPT ![l] = p]
                           /\ peer[l].seat # "none" => p.seat # "none"
  BY MoveIs
<1>3. PICK to \in {"none", "reaping", "reaped"} : stops' \in {stops, [stops EXCEPT ![l] = to]}
  BY MoveIs
<1>4. TypeOK'
  BY <1>1, <1>2, <1>3 DEF Kernel, TypeOK
<1>5. WereSeated(state', peer')
  BY <1>1, <1>2, LaunchAssumption DEF Kernel, TypeOK, WereSeated
<1> QED BY <1>1, <1>4, <1>5, OutsideKeeps

\* Rows that a dead worker had claimed are queued with the attempts they have.
LEMMA RequeuedRows ==
  ASSUME NEW rows \in [Launches -> [Kinds -> WorkRow]]
  PROVE  /\ Requeued(rows) \in [Launches -> [Kinds -> WorkRow]]
         /\ \A l \in Launches, k \in Kinds :
              /\ Requeued(rows)[l][k].status =
                   IF rows[l][k].status = "running" THEN "queued" ELSE rows[l][k].status
              /\ Requeued(rows)[l][k].attempts = rows[l][k].attempts
<1>1. \A l \in Launches, k \in Kinds :
        LET row == Requeued(rows)[l][k]
        IN  /\ row \in WorkRow
            /\ row.status = IF rows[l][k].status = "running" THEN "queued" ELSE rows[l][k].status
            /\ row.attempts = rows[l][k].attempts
  <2> SUFFICES ASSUME NEW l \in Launches, NEW k \in Kinds
               PROVE  LET row == Requeued(rows)[l][k]
                      IN  /\ row \in WorkRow
                          /\ row.status = IF rows[l][k].status = "running" THEN "queued"
                                          ELSE rows[l][k].status
                          /\ row.attempts = rows[l][k].attempts
    OBVIOUS
  <2>1. rows[l][k] \in WorkRow
    OBVIOUS
  <2>2. Requeued(rows)[l][k] =
          IF rows[l][k].status = "running" THEN [rows[l][k] EXCEPT !.status = "queued"]
          ELSE rows[l][k]
    BY DEF Requeued
  <2> QED BY <2>1, <2>2 DEF WorkRow
<1>2. Requeued(rows) = [l \in Launches |-> [k \in Kinds |-> Requeued(rows)[l][k]]]
  BY DEF Requeued
<1> QED BY <1>1, <1>2

\* A restart, whichever writes of a handler were made before the daemon died.
LEMMA RestartFromKeeps ==
  ASSUME Kernel,
         NEW states \in [Launches -> States],
         NEW rows \in [Launches -> [Kinds -> WorkRow]],
         NEW peers \in [Launches -> PeerRow],
         Limited(rows), Exhausted(states, rows), WereSeated(states, peers),
         RestartFrom(states, rows, peers)
  PROVE  Kernel'
<1>0. PICK ephemeral \in SUBSET (Grouped \cap Moved) :
        peer' = [l \in Launches |->
                   IF states[l] = "stopped"
                   THEN Deactivated(IF l \in ephemeral THEN Pruned(peers[l]) ELSE peers[l])
                   ELSE IF l \in ephemeral THEN Pruned(peers[l]) ELSE peers[l]]
  BY DEF RestartFrom
<1>1. /\ state' = states
      /\ work' = Requeued(rows)
      /\ worker' = Idle
      /\ stops' = [l \in Launches |-> "none"]
      /\ calls' = {}
      /\ crashes' = crashes + 1
      /\ crashes < MaxCrashes
      /\ session' \in [Launches -> {"absent", "added", "started"}]
  BY DEF RestartFrom
<1>2. Limited(work')
  BY <1>1, RequeuedRows DEF Limited
<1>10. ASSUME NEW l \in Launches
       PROVE  LET kept == IF l \in ephemeral THEN Pruned(peers[l]) ELSE peers[l]
                  p    == IF states[l] = "stopped" THEN Deactivated(kept) ELSE kept
              IN  p \in PeerRow /\ (p.seat = "none" <=> peers[l].seat = "none")
  BY RowsChange
<1>3. peer' \in [Launches -> PeerRow]
  BY <1>0, <1>10
<1>4. crashes' \in 0..MaxCrashes
  BY <1>1, LaunchAssumption DEF Kernel, TypeOK
<1>5. TypeOK'
  BY <1>1, <1>2, <1>3, <1>4, RequeuedRows DEF TypeOK, Limited
<1>6. WorkerOwnsRunning'
  <2>1. \A l \in Launches, k \in Kinds :
          work'[l][k].status = IF rows[l][k].status = "running" THEN "queued"
                               ELSE rows[l][k].status
    BY <1>1, RequeuedRows, Zenon
  <2>2. \A l \in Launches, k \in Kinds : work'[l][k].status # "running"
    BY <2>1
  <2>3. \A l \in Launches : worker'.launch # l
    BY <1>1, LaunchAssumption DEF Idle
  <2> QED BY <2>2, <2>3 DEF WorkerOwnsRunning
<1>7. AsksFit'
  BY <1>1 DEF AsksFit
<1>8. Exhausted(state', work')
  <2> SUFFICES ASSUME NEW l \in Launches, state'[l] = "failed"
               PROVE  \E k \in Kinds : /\ work'[l][k].status = "failed"
                                       /\ work'[l][k].attempts = MaxAttempts(k)
    BY DEF Exhausted
  <2>1. PICK k \in Kinds : rows[l][k].status = "failed" /\ rows[l][k].attempts = MaxAttempts(k)
    BY <1>1 DEF Exhausted
  <2> QED BY <1>1, <2>1, RequeuedRows
<1>9. WereSeated(state', peer')
  BY <1>0, <1>1, <1>10, LaunchAssumption DEF WereSeated
<1> QED BY <1>5, <1>6, <1>7, <1>8, <1>9 DEF Kernel

LEMMA RestartKeeps ==
  ASSUME Kernel, Restart
  PROVE  Kernel'
  BY RestartFromKeeps DEF Restart, Kernel, TypeOK, Limited

LEMMA CrashInAcceptKeeps ==
  ASSUME Kernel, NEW l \in Launches, CrashInAccept(l)
  PROVE  Kernel'
<1> DEFINE states == [state EXCEPT ![l] = "accepted"]
<1>1. RestartFrom(states, work, peer)
  BY DEF CrashInAccept
<1>2. states \in [Launches -> States]
  BY DEF Kernel, TypeOK, States
<1>3. Exhausted(states, work) /\ WereSeated(states, peer)
  BY LaunchAssumption DEF Kernel, TypeOK, Exhausted, WereSeated
<1> HIDE DEF states
<1> QED BY <1>1, <1>2, <1>3, RestartFromKeeps DEF Kernel, TypeOK, Limited

LEMMA CrashInSpawnSucceededKeeps ==
  ASSUME Kernel, CrashInSpawnSucceeded
  PROVE  Kernel'
<1> DEFINE l == worker.launch
           states == [state EXCEPT ![l] = After(state[l], SpawnedEvent(l))]
<1>1. RestartFrom(states, work, peer)
  BY DEF CrashInSpawnSucceeded
<1>2. l \in Launches /\ state \in [Launches -> States]
  <2>1. worker # Idle
    BY DEF CrashInSpawnSucceeded, Idle
  <2> QED BY <2>1, WorkInHand DEF Kernel, TypeOK
<1>3. states \in [Launches -> States]
  BY <1>2, AfterInStates
<1>4. \A m \in Launches :
        states[m] \in {"failed", "joined", "running"} => states[m] = state[m]
  <2>1. After(state[l], SpawnedEvent(l)) \in {"failed", "joined", "running"}
          => After(state[l], SpawnedEvent(l)) = state[l]
    BY <1>2, AfterSpawned
  <2> QED BY <1>2, <2>1
<1> HIDE DEF states
<1>5. Exhausted(states, work) /\ WereSeated(states, peer)
  BY <1>4, LaunchAssumption DEF Kernel, Exhausted, WereSeated
<1> QED BY <1>1, <1>3, <1>5, RestartFromKeeps DEF Kernel, TypeOK, Limited

LEMMA CrashInWorkFailsKeeps ==
  ASSUME Kernel, CrashInWorkFails
  PROVE  Kernel'
<1> DEFINE l == worker.launch
           k == worker.kind
           row == [work[l][k] EXCEPT !.status = "failed"]
           rows == [work EXCEPT ![l] = Finished(l, k, "failed")]
<1>1. RestartFrom(state, rows, peer)
  BY DEF CrashInWorkFails
<1>2. worker # Idle
  BY DEF CrashInWorkFails, Idle
<1>3. /\ l \in Launches /\ k \in Kinds
      /\ work[l][k] \in WorkRow
      /\ work[l][k].status = "running"
  BY <1>2, WorkInHand
<1>4. /\ work \in [Launches -> [Kinds -> WorkRow]]
      /\ Limited(work)
  BY DEF Kernel, TypeOK, Limited
<1>5. row \in WorkRow /\ row.attempts = work[l][k].attempts
  BY <1>3 DEF WorkRow
<1> HIDE DEF l, k, row
<1>6. \A m \in Launches, i \in Kinds :
        rows[m][i] = IF m = l /\ i = k THEN row ELSE work[m][i]
  BY <1>3, <1>4 DEF Finished, row
<1>7. rows \in [Launches -> [Kinds -> WorkRow]]
  BY <1>3, <1>4, <1>5 DEF Finished, row
<1> HIDE DEF rows
<1>8. Limited(rows)
  BY <1>3, <1>4, <1>5, <1>6 DEF Limited
<1>9. Exhausted(state, rows)
  <2> SUFFICES ASSUME NEW m \in Launches, state[m] = "failed"
               PROVE  \E i \in Kinds : /\ rows[m][i].status = "failed"
                                       /\ rows[m][i].attempts = MaxAttempts(i)
    BY DEF Exhausted
  <2>1. PICK i \in Kinds : work[m][i].status = "failed" /\ work[m][i].attempts = MaxAttempts(i)
    BY DEF Kernel, Exhausted
  <2>2. rows[m][i] = work[m][i]
    BY <1>3, <1>6, <2>1
  <2> QED BY <2>1, <2>2
<1> QED BY <1>1, <1>7, <1>8, <1>9, RestartFromKeeps DEF Kernel, TypeOK

\* The states and peers that a cut registration may leave.
LEMMA CrashInRegisterKeeps ==
  ASSUME Kernel, NEW l \in Launches, CrashInRegister(l)
  PROVE  Kernel'
<1>1. /\ state \in [Launches -> States]
      /\ peer \in [Launches -> PeerRow]
  BY DEF Kernel, TypeOK
<1>2. PICK to \in States, p \in PeerRow :
        /\ RestartFrom([state EXCEPT ![l] = to], work, [peer EXCEPT ![l] = p])
        /\ to = "failed" => state[l] = "failed"
        /\ l \in Grouped /\ to \in {"joined", "running"} => p.seat # "none"
  <2>1. PICK up \in Upserted(peer[l]) :
       \/ RestartFrom(state, work, [peer EXCEPT ![l] = up])
       \/ RestartFrom([state EXCEPT ![l] = Registered(l)], work, [peer EXCEPT ![l] = up])
       \/ \E p \in {up, Joined(up)} :
            RestartFrom([state EXCEPT ![l] = Reconciling(l)], work, [peer EXCEPT ![l] = p])
       \/ RestartFrom([state EXCEPT ![l] = After(Reconciling(l), "join_succeeded")], work,
                      [peer EXCEPT ![l] = Joined(up)])
    BY Zenon DEF CrashInRegister
  <2>2. /\ up \in PeerRow
        /\ up.seat = "none" <=> peer[l].seat = "none"
        /\ Joined(up) \in PeerRow
        /\ Joined(up).seat # "none"
    BY <1>1, <2>1, UpsertedTyped, RowsChange
  <2>3. l \in Grouped /\ state[l] \in {"joined", "running"} => up.seat # "none"
    BY <2>2 DEF Kernel, WereSeated
  <2>4. CASE RestartFrom(state, work, [peer EXCEPT ![l] = up])
    <3>1. state = [state EXCEPT ![l] = state[l]]
      BY <1>1
    <3>2. RestartFrom([state EXCEPT ![l] = state[l]], work, [peer EXCEPT ![l] = up])
      BY <2>4, <3>1
    <3>3. state[l] \in States
      BY <1>1
    <3> QED BY <2>2, <2>3, <3>2, <3>3
  <2>5. CASE RestartFrom([state EXCEPT ![l] = Registered(l)], work, [peer EXCEPT ![l] = up])
    BY <1>1, <2>2, <2>3, <2>5, Reconciliation
  <2>6. CASE \E p \in {up, Joined(up)} :
               RestartFrom([state EXCEPT ![l] = Reconciling(l)], work, [peer EXCEPT ![l] = p])
    BY <1>1, <2>2, <2>3, <2>6, Reconciliation
  <2>7. CASE RestartFrom([state EXCEPT ![l] = After(Reconciling(l), "join_succeeded")], work,
                         [peer EXCEPT ![l] = Joined(up)])
    BY <1>1, <2>2, <2>7, Reconciliation
  <2> QED BY <2>1, <2>4, <2>5, <2>6, <2>7
<1> DEFINE states == [state EXCEPT ![l] = to]
           peers == [peer EXCEPT ![l] = p]
<1>3. RestartFrom(states, work, peers)
  BY <1>2
<1>4. /\ states \in [Launches -> States]
      /\ peers \in [Launches -> PeerRow]
  BY <1>1, <1>2
<1>5. Exhausted(states, work)
  BY <1>1, <1>2 DEF Kernel, Exhausted
<1>6. WereSeated(states, peers)
  BY <1>1, <1>2, LaunchAssumption DEF Kernel, WereSeated
<1> HIDE DEF states, peers
<1> QED BY <1>3, <1>4, <1>5, <1>6, RestartFromKeeps DEF Kernel, TypeOK, Limited

-----------------------------------------------------------------------------
(***************************************************************************)
(* Theorems of CrashSpec                                                   *)
(***************************************************************************)
LEMMA NextKeepsKernel == Kernel /\ [CrashNext]_vars => Kernel'
<1> SUFFICES ASSUME Kernel, [CrashNext]_vars PROVE Kernel'
  OBVIOUS
<1>1. CASE UNCHANGED vars
  BY <1>1 DEF vars, Kernel, TypeOK, WorkerOwnsRunning, AsksFit, Exhausted, WereSeated
<1>2. CASE \E l \in Launches, k \in Kinds : Claim(l, k)
  BY <1>2, ClaimKeeps
<1>3. CASE Continue
  BY <1>3, ContinueKeeps
<1>4. CASE Answer
  BY <1>4, AnswerKeeps
<1>5. ASSUME NEW l \in Launches, Accept(l) PROVE Kernel'
  BY <1>5, AcceptKeeps
<1>6. ASSUME NEW l \in Launches, SendRegister(l) PROVE Kernel'
  BY <1>6, SendRegisterKeeps
<1>7. ASSUME NEW l \in Launches, Register(l) PROVE Kernel'
  BY <1>7, RegisterKeeps
<1>8. ASSUME NEW l \in Launches, AskStop(l) PROVE Kernel'
  BY <1>8, AskStopKeeps
<1>9. ASSUME NEW l \in Launches, StopAnswer(l) PROVE Kernel'
  BY <1>9, StopAnswerKeeps
<1>10. ASSUME NEW l \in Launches, StopRecord(l) PROVE Kernel'
  BY <1>10, StopRecordKeeps
<1>11. CASE Restart
  BY <1>11, RestartKeeps
<1>12. CASE CrashInSpawnSucceeded
  BY <1>12, CrashInSpawnSucceededKeeps
<1>13. CASE CrashInWorkFails
  BY <1>13, CrashInWorkFailsKeeps
<1>14. ASSUME NEW l \in Launches, CrashInAccept(l) \/ CrashInRegister(l) PROVE Kernel'
  BY <1>14, CrashInAcceptKeeps, CrashInRegisterKeeps
<1>15. ASSUME NEW l \in Moved, Moves(l) PROVE Kernel'
  BY <1>15, MovesKeep
<1> QED
  BY <1>1, <1>2, <1>3, <1>4, <1>5, <1>6, <1>7, <1>8, <1>9, <1>10, <1>11, <1>12, <1>13, <1>14,
     <1>15
  DEF CrashNext, Next, ClaimSome

LEMMA KernelHolds == CrashSpec => []Kernel
  BY InitKernel, NextKeepsKernel, PTL DEF CrashSpec

\* Every variable keeps its type, no work is claimed more often than its
\* max_attempts, wherever the daemon dies.
THEOREM TypeCorrect == CrashSpec => []TypeOK
<1>1. Kernel => TypeOK
  BY DEF Kernel
<1> QED BY <1>1, KernelHolds, PTL

\* Exactly the work that the worker awaits something for is marked running
\* (recoverLocalLaunchWork leaves no row to a worker that is gone).
THEOREM RunningWorkIsOwned == CrashSpec => []WorkerOwnsRunning
<1>1. Kernel => WorkerOwnsRunning
  BY DEF Kernel
<1> QED BY <1>1, KernelHolds, PTL

\* A launch fails only when some work of it used up its attempts
\* (startLaunchWorker), wherever the daemon dies.
THEOREM FailureIsExhaustion == CrashSpec => []FailedWasExhausted
<1>1. Kernel => FailedWasExhausted
  BY DEF Kernel, Exhausted, FailedWasExhausted
<1> QED BY <1>1, KernelHolds, PTL

\* A launch is shown as joined or running only once its agent had its seat
\* (reconcileDurableLaunch, joinGroupCore), wherever the daemon dies and whatever
\* leaves, deletions and archives came between.
THEOREM RunningMeansWasSeated == CrashSpec => []RunningWasSeated
<1>1. Kernel => RunningWasSeated
  BY DEF Kernel, WereSeated, RunningWasSeated
<1> QED BY <1>1, KernelHolds, PTL

-----------------------------------------------------------------------------
(***************************************************************************)
(* Work accompanies every unfinished launch (Spec)                         *)
(***************************************************************************)

\* Which work a launch has in the states before its prompt is accepted.
Outbox ==
  \A l \in Launches :
    /\ state[l] = "none" => work[l]["spawn"].status = "none"
    /\ state[l] = "accepted" => work[l]["spawn"].status = "queued"
    /\ state[l] = "spawning" => work[l]["spawn"].status \in {"queued", "running"}
    /\ state[l] \in {"none", "accepted", "spawning"} =>
         work[l]["prompt_confirm"].status = "none"
    /\ state[l] = "prompt_waiting" =>
         work[l]["prompt_confirm"].status \in {"queued", "running"}

LEMMA KindsAre == "spawn" \in Kinds /\ "prompt_confirm" \in Kinds
  BY DEF Kinds

LEMMA AcceptOutbox ==
  ASSUME Kernel, Outbox, NEW l \in Launches, Accept(l)
  PROVE  Outbox'
<1>1. /\ state \in [Launches -> States]
      /\ work \in [Launches -> [Kinds -> WorkRow]]
  BY DEF Kernel, TypeOK
<1>2. /\ state[l] = "none"
      /\ state' = [state EXCEPT ![l] = "accepted"]
      /\ work' = [work EXCEPT ![l]["spawn"] = Enqueued(work[l]["spawn"])]
  BY DEF Accept
<1>3. Enqueued(work[l]["spawn"]).status = "queued"
  BY <1>2 DEF Outbox, Enqueued
<1>4. \A m \in Launches, i \in Kinds :
        work'[m][i] = IF m = l /\ i = "spawn" THEN Enqueued(work[l]["spawn"]) ELSE work[m][i]
  BY <1>1, <1>2, KindsAre
<1> QED BY <1>1, <1>2, <1>3, <1>4, KindsAre DEF Outbox

LEMMA ClaimOutbox ==
  ASSUME Kernel, Outbox, NEW l \in Launches, NEW k \in Kinds, Claim(l, k)
  PROVE  Outbox'
<1> DEFINE idle == IF k = "spawn" THEN state[l] \in SpawnOver ELSE state[l] \notin PromptOpen
           row  == [status   |-> IF idle THEN "done" ELSE "running",
                    attempts |-> work[l][k].attempts + 1]
<1>1. /\ state \in [Launches -> States]
      /\ work \in [Launches -> [Kinds -> WorkRow]]
  BY DEF Kernel, TypeOK
<1>2. /\ work[l][k].status = "queued"
      /\ work' = [work EXCEPT ![l][k] = row]
      /\ state' = IF k = "spawn" THEN [state EXCEPT ![l] = After(state[l], "spawn_started")]
                  ELSE state
  BY DEF Claim, MayClaim
<1>3. row.status = IF idle THEN "done" ELSE "running"
  OBVIOUS
<1> HIDE DEF row
<1>4. \A m \in Launches, i \in Kinds :
        work'[m][i] = IF m = l /\ i = k THEN row ELSE work[m][i]
  BY <1>1, <1>2
<1>5. After(state[l], "spawn_started") =
        IF state[l] = "accepted" THEN "spawning" ELSE state[l]
  BY <1>1, AfterSpawnStarted
<1>6. CASE k = "spawn"
  <2>1. state[l] \in {"accepted", "spawning"} => row.status = "running"
    BY <1>3, <1>6 DEF SpawnOver
  <2>2. \A m \in Launches :
          /\ state'[m] = IF m = l /\ state[l] = "accepted" THEN "spawning" ELSE state[m]
          /\ work'[m]["spawn"] = IF m = l THEN row ELSE work[m]["spawn"]
          /\ work'[m]["prompt_confirm"] = work[m]["prompt_confirm"]
    BY <1>1, <1>2, <1>4, <1>5, <1>6, KindsAre
  <2>3. state[l] # "none"
    BY <1>2, <1>6 DEF Outbox
  <2> QED BY <2>1, <2>2, <2>3 DEF Outbox
<1>7. CASE k = "prompt_confirm"
  <2>1. state[l] = "prompt_waiting" => row.status = "running"
    BY <1>3, <1>7 DEF PromptOpen
  <2>2. \A m \in Launches :
          /\ state'[m] = state[m]
          /\ work'[m]["spawn"] = work[m]["spawn"]
          /\ work'[m]["prompt_confirm"] = IF m = l THEN row ELSE work[m]["prompt_confirm"]
    BY <1>1, <1>2, <1>4, <1>7, KindsAre
  <2>3. state[l] \notin {"none", "accepted", "spawning"}
    BY <1>2, <1>7 DEF Outbox
  <2> QED BY <2>1, <2>2, <2>3 DEF Outbox
<1> QED BY <1>6, <1>7 DEF Kinds

LEMMA WorkFailsOutbox ==
  ASSUME Kernel, Outbox, worker # Idle, WorkFails(worker.launch, worker.kind)
  PROVE  Outbox'
<1> DEFINE l == worker.launch
           k == worker.kind
           last == work[l][k].attempts >= MaxAttempts(k)
           row == [work[l][k] EXCEPT !.status = IF last THEN "failed" ELSE "queued"]
<1>1. /\ l \in Launches
      /\ k \in Kinds
      /\ work[l][k] \in WorkRow
      /\ work[l][k].status = "running"
  BY WorkInHand
<1>2. /\ state \in [Launches -> States]
      /\ work \in [Launches -> [Kinds -> WorkRow]]
  BY DEF Kernel, TypeOK
<1>3. /\ work' = [work EXCEPT ![l] = Finished(l, k, IF last THEN "failed" ELSE "queued")]
      /\ state' = IF last THEN [state EXCEPT ![l] = After(state[l], "failed")] ELSE state
  BY DEF WorkFails
<1>4. row.status = IF last THEN "failed" ELSE "queued"
  BY <1>1 DEF WorkRow
<1> HIDE DEF l, k, row, last
<1>5. \A m \in Launches, i \in Kinds :
        work'[m][i] = IF m = l /\ i = k THEN row ELSE work[m][i]
  BY <1>1, <1>2, <1>3 DEF Finished, row
<1>6. After(state[l], "failed") = IF state[l] \in Failable THEN "failed" ELSE state[l]
  BY <1>1, <1>2, AfterFailed
<1>7. state[l] \notin {"none", "accepted"}
      /\ (k = "prompt_confirm" => state[l] # "spawning")
  BY <1>1 DEF Outbox, Kinds
<1>8. \A m \in Launches :
        state'[m] = IF m = l /\ last /\ state[l] \in Failable THEN "failed" ELSE state[m]
  BY <1>1, <1>2, <1>3, <1>6
<1>9. last => state'[l] \notin {"none", "accepted", "spawning", "prompt_waiting"}
  BY <1>1, <1>7, <1>8 DEF Failable
<1>10. ASSUME NEW m \in Launches
       PROVE  /\ state'[m] = "none" => work'[m]["spawn"].status = "none"
              /\ state'[m] = "accepted" => work'[m]["spawn"].status = "queued"
              /\ state'[m] = "spawning" => work'[m]["spawn"].status \in {"queued", "running"}
              /\ state'[m] \in {"none", "accepted", "spawning"} =>
                   work'[m]["prompt_confirm"].status = "none"
              /\ state'[m] = "prompt_waiting" =>
                   work'[m]["prompt_confirm"].status \in {"queued", "running"}
  <2>1. CASE m # l
    BY <1>5, <1>8, <2>1, KindsAre DEF Outbox
  <2>2. CASE m = l /\ last
    BY <1>9, <2>2
  <2>3. CASE m = l /\ ~ last
    <3>1. state'[l] = state[l] /\ row.status = "queued"
      BY <1>1, <1>4, <1>8, <2>3
    <3>2. CASE k = "spawn"
      BY <1>1, <1>5, <1>7, <2>3, <3>1, <3>2, KindsAre DEF Outbox
    <3>3. CASE k = "prompt_confirm"
      BY <1>1, <1>5, <1>7, <2>3, <3>1, <3>3, KindsAre DEF Outbox
    <3> QED BY <1>1, <3>2, <3>3 DEF Kinds
  <2> QED BY <2>1, <2>2, <2>3
<1> QED BY <1>10 DEF Outbox

LEMMA SpawnSucceededOutbox ==
  ASSUME Kernel, Outbox, worker # Idle, worker.kind = "spawn", SpawnSucceeded(worker.launch)
  PROVE  Outbox'
<1> DEFINE l == worker.launch
           next == IF l \in Claude THEN Enqueued(work[l]["prompt_confirm"])
                   ELSE work[l]["prompt_confirm"]
<1>1. /\ l \in Launches
      /\ work[l]["spawn"].status = "running"
  BY WorkInHand DEF Kinds
<1>2. /\ state \in [Launches -> States]
      /\ work \in [Launches -> [Kinds -> WorkRow]]
  BY DEF Kernel, TypeOK
<1>3. /\ state' = [state EXCEPT ![l] = After(state[l], SpawnedEvent(l))]
      /\ work' = [work EXCEPT ![l] =
                    [Finished(l, "spawn", "done") EXCEPT !["prompt_confirm"] = next]]
  <2>1. Finished(l, "spawn", "done")["prompt_confirm"] = work[l]["prompt_confirm"]
    BY <1>1, <1>2, KindsAre DEF Finished
  <2> QED BY <2>1 DEF SpawnSucceeded
<1>4. \/ next = work[l]["prompt_confirm"]
      \/ work[l]["prompt_confirm"].status = "none" /\ next.status = "queued"
  BY DEF Enqueued
<1>5. l \in Claude /\ work[l]["prompt_confirm"].status = "none" => next.status = "queued"
  BY DEF Enqueued
<1> HIDE DEF l, next
<1>6. \A m \in Launches :
        /\ work'[m]["prompt_confirm"] = IF m = l THEN next ELSE work[m]["prompt_confirm"]
        /\ m # l => work'[m]["spawn"] = work[m]["spawn"]
  BY <1>1, <1>2, <1>3, KindsAre DEF Finished
<1>7. After(state[l], SpawnedEvent(l)) =
        IF state[l] = "spawning" THEN IF l \in Claude THEN "prompt_waiting" ELSE "spawned"
        ELSE state[l]
  BY <1>1, <1>2, AfterSpawned
<1>8. \A m \in Launches :
        state'[m] = IF m = l /\ state[l] = "spawning"
                    THEN IF l \in Claude THEN "prompt_waiting" ELSE "spawned"
                    ELSE state[m]
  BY <1>1, <1>2, <1>3, <1>7
<1>9. state[l] \notin {"none", "accepted"}
      /\ (state[l] = "spawning" => work[l]["prompt_confirm"].status = "none")
  BY <1>1 DEF Outbox
<1>10. ASSUME NEW m \in Launches
       PROVE  /\ state'[m] = "none" => work'[m]["spawn"].status = "none"
              /\ state'[m] = "accepted" => work'[m]["spawn"].status = "queued"
              /\ state'[m] = "spawning" => work'[m]["spawn"].status \in {"queued", "running"}
              /\ state'[m] \in {"none", "accepted", "spawning"} =>
                   work'[m]["prompt_confirm"].status = "none"
              /\ state'[m] = "prompt_waiting" =>
                   work'[m]["prompt_confirm"].status \in {"queued", "running"}
  <2>1. CASE m # l
    BY <1>6, <1>8, <2>1 DEF Outbox
  <2>2. CASE m = l /\ state[l] = "spawning"
    BY <1>1, <1>5, <1>6, <1>8, <1>9, <2>2
  <2>3. CASE m = l /\ state[l] # "spawning"
    BY <1>1, <1>4, <1>6, <1>8, <1>9, <2>3 DEF Outbox
  <2> QED BY <2>1, <2>2, <2>3
<1> QED BY <1>10 DEF Outbox

LEMMA PromptAcceptedOutbox ==
  ASSUME Kernel, Outbox, worker # Idle, worker.kind = "prompt_confirm",
         state' = [state EXCEPT ![worker.launch] = After(state[worker.launch], "prompt_accepted")],
         work' = [work EXCEPT ![worker.launch] =
                    Finished(worker.launch, "prompt_confirm", "done")]
  PROVE  Outbox'
<1> DEFINE l == worker.launch
<1>1. /\ l \in Launches
      /\ work[l]["prompt_confirm"].status = "running"
  BY WorkInHand
<1>2. /\ state \in [Launches -> States]
      /\ work \in [Launches -> [Kinds -> WorkRow]]
  BY DEF Kernel, TypeOK
<1>3. After(state[l], "prompt_accepted") =
        IF state[l] = "prompt_waiting" THEN "prompt_accepted" ELSE state[l]
  BY <1>1, <1>2, AfterPrompt
<1>4. \A m \in Launches :
        /\ work'[m]["spawn"] = work[m]["spawn"]
        /\ m # l => work'[m]["prompt_confirm"] = work[m]["prompt_confirm"]
  BY <1>1, <1>2, KindsAre DEF Finished
<1>5. \A m \in Launches :
        state'[m] = IF m = l /\ state[l] = "prompt_waiting" THEN "prompt_accepted" ELSE state[m]
  BY <1>1, <1>2, <1>3
<1>6. state[l] \notin {"none", "accepted", "spawning"}
  BY <1>1 DEF Outbox
<1> QED BY <1>1, <1>4, <1>5, <1>6 DEF Outbox

LEMMA ContinueOutbox ==
  ASSUME Kernel, Outbox, Continue
  PROVE  Outbox'
<1> DEFINE l == worker.launch
<1>1. /\ worker # Idle
      /\ worker.kind = IF worker.doing = "confirm" THEN "prompt_confirm" ELSE "spawn"
  <2>1. worker # Idle
    BY DEF Continue, Idle
  <2> QED BY <2>1, WorkInHand DEF Kernel, AsksFit, Kinds
<1>2. CASE worker.kind = "spawn" /\ SpawnSucceeded(l)
  BY <1>1, <1>2, SpawnSucceededOutbox
<1>3. CASE UNCHANGED <<state, work>>
  BY <1>3 DEF Outbox
<1>4. CASE WorkFails(l, worker.kind)
  BY <1>1, <1>4, WorkFailsOutbox
<1>5. CASE /\ worker.kind = "prompt_confirm"
           /\ state' = [state EXCEPT ![l] = After(state[l], "prompt_accepted")]
           /\ work' = [work EXCEPT ![l] = Finished(l, "prompt_confirm", "done")]
  BY <1>1, <1>5, PromptAcceptedOutbox
<1> QED BY <1>1, <1>2, <1>3, <1>4, <1>5 DEF Continue, Asks

\* A step that leaves the work alone and moves launches only to states that
\* need none.
LEMMA OutboxElsewhere ==
  ASSUME Outbox, UNCHANGED work,
         \A l \in Launches :
           \/ state'[l] = state[l]
           \/ state'[l] \notin {"none", "accepted", "spawning", "prompt_waiting"}
  PROVE  Outbox'
  BY DEF Outbox

LEMMA StopRecordOutbox ==
  ASSUME Kernel, Outbox, NEW l \in Launches, StopRecord(l)
  PROVE  Outbox'
<1>1. state \in [Launches -> States]
  BY DEF Kernel, TypeOK
<1>2. After(state[l], "stopped") =
        IF state[l] \in {"none", "failed"} THEN state[l] ELSE "stopped"
  BY <1>1, AfterStopped
<1> QED BY <1>1, <1>2, OutboxElsewhere DEF StopRecord

\* Registering leaves a state that needs work only by leaving it alone.
LEMMA RegisteredElsewhere ==
  ASSUME NEW l \in Launches, state \in [Launches -> States],
         NEW to \in {After(Registered(l), "running_observed"),
                     After(After(Reconciling(l), "join_succeeded"), "running_observed"),
                     After(Reconciling(l), "join_failed")}
  PROVE  to = state[l] \/ to \notin {"none", "accepted", "spawning", "prompt_waiting"}
<1> DEFINE Early == {"none", "accepted", "spawning", "prompt_waiting"}
<1>1. Registered(l) \in States /\ (Registered(l) \in Early => Registered(l) = state[l])
  BY AfterRegistered, AfterInStates DEF Registered
<1>2. Reconciling(l) \in States /\ (Reconciling(l) \in Early => Reconciling(l) = state[l])
  BY <1>1, AfterReconciling, AfterInStates DEF Reconciling
<1>3. LET s == After(Registered(l), "running_observed") IN s \in Early => s = state[l]
  BY <1>1, AfterObserved
<1>4. LET s == After(Reconciling(l), "join_succeeded")
      IN  s \in States /\ (s \in Early => s = state[l])
  BY <1>2, AfterJoin, AfterInStates
<1>5. LET s == After(After(Reconciling(l), "join_succeeded"), "running_observed")
      IN  s \in Early => s = state[l]
  BY <1>4, AfterObserved
<1>6. LET s == After(Reconciling(l), "join_failed") IN s \in Early => s = state[l]
  BY <1>2, AfterJoin
<1> QED BY <1>3, <1>5, <1>6

LEMMA RegisterOutbox ==
  ASSUME Kernel, Outbox, NEW l \in Launches, Register(l)
  PROVE  Outbox'
<1>1. state \in [Launches -> States]
  BY DEF Kernel, TypeOK
<1>2. UNCHANGED work
  BY DEF Register
<1>3. \/ state' = state
      \/ \E to \in {After(Registered(l), "running_observed"),
                    After(After(Reconciling(l), "join_succeeded"), "running_observed"),
                    After(Reconciling(l), "join_failed")} :
           state' = [state EXCEPT ![l] = to]
  BY Zenon DEF Register
<1> QED BY <1>1, <1>2, <1>3, RegisteredElsewhere, OutboxElsewhere

LEMMA RestartOutbox ==
  ASSUME Kernel, Outbox, Restart
  PROVE  Outbox'
<1>1. /\ state' = state
      /\ work' = Requeued(work)
  BY DEF Restart, RestartFrom
<1>2. work \in [Launches -> [Kinds -> WorkRow]]
  BY DEF Kernel, TypeOK
<1>3. \A l \in Launches, k \in Kinds :
        work'[l][k].status = IF work[l][k].status = "running" THEN "queued"
                             ELSE work[l][k].status
  BY <1>1, <1>2, RequeuedRows, Zenon
<1>4. \A l \in Launches :
        /\ work'[l]["spawn"].status = IF work[l]["spawn"].status = "running" THEN "queued"
                                      ELSE work[l]["spawn"].status
        /\ work'[l]["prompt_confirm"].status =
             IF work[l]["prompt_confirm"].status = "running" THEN "queued"
             ELSE work[l]["prompt_confirm"].status
  BY <1>3, KindsAre
<1> HIDE DEF Kernel
<1> QED BY <1>1, <1>4 DEF Outbox

LEMMA NextKeepsOutbox == Kernel /\ Outbox /\ [Next]_vars => Outbox'
<1> SUFFICES ASSUME Kernel, Outbox, [Next]_vars PROVE Outbox'
  OBVIOUS
<1>1. CASE UNCHANGED <<state, work>>
  BY <1>1 DEF Outbox
<1>2. CASE \E l \in Launches, k \in Kinds : Claim(l, k)
  BY <1>2, ClaimOutbox
<1>3. CASE Continue
  BY <1>3, ContinueOutbox
<1>4. CASE Answer
  BY <1>1, <1>4 DEF Answer
<1>5. ASSUME NEW l \in Launches, Accept(l) PROVE Outbox'
  BY <1>5, AcceptOutbox
<1>6. ASSUME NEW l \in Launches, SendRegister(l) \/ AskStop(l) \/ StopAnswer(l) PROVE Outbox'
  BY <1>1, <1>6 DEF SendRegister, AskStop, StopAnswer
<1>7. ASSUME NEW l \in Launches, Register(l) PROVE Outbox'
  BY <1>7, RegisterOutbox
<1>8. ASSUME NEW l \in Launches, StopRecord(l) PROVE Outbox'
  BY <1>8, StopRecordOutbox
<1>9. CASE Restart
  BY <1>9, RestartOutbox
<1>10. CASE UNCHANGED vars
  BY <1>1, <1>10 DEF vars
<1>11. ASSUME NEW l \in Moved, Moves(l) PROVE Outbox'
  BY <1>1, <1>11, MoveIs
<1> QED
  BY <1>2, <1>3, <1>4, <1>5, <1>6, <1>7, <1>8, <1>9, <1>10, <1>11 DEF Next, ClaimSome

\* Between handlers, a launch that is not spawned yet has spawn work, and one
\* whose prompt waits has prompt work (launch, markSpawnSucceeded,
\* recoverLocalLaunchWork).
THEOREM WorkAccompaniesLaunch == Spec => []UnfinishedHasWork
<1>1. Init => Kernel /\ Outbox
  <2>1. Init => Outbox
    BY KindsAre DEF Init, Outbox, NoWork
  <2> QED BY <2>1, InitKernel
<1>2. Kernel /\ Outbox /\ [Next]_vars => (Kernel /\ Outbox)'
  <2>1. [Next]_vars => [CrashNext]_vars
    BY DEF CrashNext
  <2> QED BY <2>1, NextKeepsKernel, NextKeepsOutbox
<1>3. Outbox => UnfinishedHasWork
  BY DEF Outbox, UnfinishedHasWork
<1> QED BY <1>1, <1>2, <1>3, PTL DEF Spec

-----------------------------------------------------------------------------
(***************************************************************************)
(* Launches never go back (CrashSpec)                                      *)
(***************************************************************************)

\* The place of each state in LAUNCH_STATES.
LEMMA Ranks ==
  /\ Rank("none") = 1
  /\ Rank("accepted") = 2
  /\ Rank("spawning") = 3
  /\ Rank("spawned") = 4
  /\ Rank("prompt_waiting") = 5
  /\ Rank("prompt_accepted") = 6
  /\ Rank("registered") = 7
  /\ Rank("reconciling") = 8
  /\ Rank("joined") = 9
  /\ Rank("running") = 10
  /\ Rank("registered_unjoined") = 11
  /\ Rank("stale") = 12
  /\ Rank("failed") = 13
  /\ Rank("stopped") = 14
<1>1. /\ Order[1] = "none"
      /\ Order[2] = "accepted"
      /\ Order[3] = "spawning"
      /\ Order[4] = "spawned"
      /\ Order[5] = "prompt_waiting"
      /\ Order[6] = "prompt_accepted"
      /\ Order[7] = "registered"
      /\ Order[8] = "reconciling"
      /\ Order[9] = "joined"
      /\ Order[10] = "running"
      /\ Order[11] = "registered_unjoined"
      /\ Order[12] = "stale"
      /\ Order[13] = "failed"
      /\ Order[14] = "stopped"
  BY DEF Order
<1>2. \A i \in 1..14 : i \in {1, 2, 3, 4, 5, 6, 7, 8, 9, 10, 11, 12, 13, 14}
  OBVIOUS
<1>3. \A i, j \in 1..14 : Order[i] = Order[j] => i = j
  BY <1>1, <1>2
<1>4. ASSUME NEW i \in 1..14 PROVE Rank(Order[i]) = i
  <2>1. \E j \in 1..14 : Order[j] = Order[i]
    OBVIOUS
  <2>2. Rank(Order[i]) \in 1..14 /\ Order[Rank(Order[i])] = Order[i]
    BY <2>1, Zenon DEF Rank
  <2> QED BY <1>3, <2>2
<1> QED BY <1>1, <1>4

LEMMA RankIsNumber == \A s \in States : Rank(s) \in 1..14
  BY Ranks DEF States

\* No event moves a launch back.
LEMMA AfterClimbs ==
  ASSUME NEW s \in States, NEW e
  PROVE  After(s, e) \in States /\ Rank(After(s, e)) >= Rank(s)
<1>1. \A edge \in Edges : Rank(edge[3]) >= Rank(edge[1])
  BY Ranks DEF Edges, Failable, States
<1>2. CASE <<s, e, After(s, e)>> \in Edges
  <2> DEFINE edge == <<s, e, After(s, e)>>
  <2>1. edge[1] = s /\ edge[3] = After(s, e)
    OBVIOUS
  <2> HIDE DEF edge
  <2>2. Rank(edge[3]) >= Rank(edge[1])
    BY <1>1, <1>2 DEF edge
  <2> QED BY <2>1, <2>2, AfterInStates
<1>3. CASE After(s, e) = s
  BY <1>3, RankIsNumber
<1> QED BY <1>2, <1>3, AfterIsEdge

\* The launches of states are no further back than the launches now.
Ahead(states) ==
  \A l \in Launches : Rank(states[l]) >= Rank(state[l])

\* One launch moved to a state that is no further back.
LEMMA OneMoved ==
  ASSUME Kernel, NEW l \in Launches, NEW to, Rank(to) >= Rank(state[l])
  PROVE  Ahead([state EXCEPT ![l] = to])
<1>1. \A m \in Launches : Rank(state[m]) \in 1..14
  BY RankIsNumber DEF Kernel, TypeOK
<1>2. \A m \in Launches : [state EXCEPT ![l] = to][m] = IF m = l THEN to ELSE state[m]
  BY DEF Kernel, TypeOK
<1> QED BY <1>1, <1>2 DEF Ahead

LEMMA NoneMoved ==
  ASSUME Kernel
  PROVE  Ahead(state)
  BY RankIsNumber DEF Kernel, TypeOK, Ahead

LEMMA RegisterClimbs ==
  ASSUME Kernel, NEW l \in Launches
  PROVE  /\ Ahead([state EXCEPT ![l] = Registered(l)])
         /\ Ahead([state EXCEPT ![l] = Reconciling(l)])
         /\ Ahead([state EXCEPT ![l] = After(Registered(l), "running_observed")])
         /\ Ahead([state EXCEPT ![l] = After(Reconciling(l), "join_succeeded")])
         /\ Ahead([state EXCEPT ![l] =
                     After(After(Reconciling(l), "join_succeeded"), "running_observed")])
         /\ Ahead([state EXCEPT ![l] = After(Reconciling(l), "join_failed")])
<1>1. state[l] \in States
  BY DEF Kernel, TypeOK
<1>2. Registered(l) \in States /\ Rank(Registered(l)) >= Rank(state[l])
  BY <1>1, AfterClimbs DEF Registered
<1>3. Reconciling(l) \in States /\ Rank(Reconciling(l)) >= Rank(state[l])
  BY <1>1, <1>2, AfterClimbs, RankIsNumber DEF Reconciling
<1>4. Rank(After(Registered(l), "running_observed")) >= Rank(state[l])
  BY <1>1, <1>2, AfterClimbs, RankIsNumber
<1>5. /\ After(Reconciling(l), "join_succeeded") \in States
      /\ Rank(After(Reconciling(l), "join_succeeded")) >= Rank(state[l])
  BY <1>1, <1>3, AfterClimbs, RankIsNumber
<1>6. Rank(After(After(Reconciling(l), "join_succeeded"), "running_observed")) >= Rank(state[l])
  BY <1>1, <1>5, AfterClimbs, RankIsNumber
<1>7. Rank(After(Reconciling(l), "join_failed")) >= Rank(state[l])
  BY <1>1, <1>3, AfterClimbs, RankIsNumber
<1> QED BY <1>2, <1>3, <1>4, <1>5, <1>6, <1>7, OneMoved

\* Every handler that writes one launch's state, and every one that does not.
LEMMA StepClimbs ==
  ASSUME Kernel, [CrashNext]_vars
  PROVE  Ahead(state')
<1>1. state \in [Launches -> States]
  BY DEF Kernel, TypeOK
<1>2. \A l \in Launches : \A e : Ahead([state EXCEPT ![l] = After(state[l], e)])
  BY <1>1, AfterClimbs, OneMoved
<1>3. \A l \in Launches : state[l] = "none" => Ahead([state EXCEPT ![l] = "accepted"])
  BY Ranks, OneMoved
<1>4. CASE UNCHANGED state
  BY <1>4, NoneMoved
<1>5. ASSUME NEW l \in Launches, NEW k \in Kinds, Claim(l, k) PROVE Ahead(state')
  BY <1>2, <1>4, <1>5 DEF Claim
<1>6. CASE Continue
  <2> DEFINE l == worker.launch
  <2>1. l \in Launches
    <3>1. worker # Idle
      BY <1>6 DEF Continue, Idle
    <3> QED BY <3>1, WorkInHand
  <2>2. UNCHANGED state \/ \E e : state' = [state EXCEPT ![l] = After(state[l], e)]
    BY <1>6, Zenon DEF Continue, SpawnSucceeded, Asks, WorkFails
  <2> QED BY <1>2, <1>4, <2>1, <2>2
<1>7. ASSUME NEW l \in Launches, Accept(l) PROVE Ahead(state')
  BY <1>3, <1>7 DEF Accept
<1>8. ASSUME NEW l \in Launches, Register(l) PROVE Ahead(state')
  <2>1. \/ state' = state
        \/ state' = [state EXCEPT ![l] = After(Registered(l), "running_observed")]
        \/ state' = [state EXCEPT ![l] =
                       After(After(Reconciling(l), "join_succeeded"), "running_observed")]
        \/ state' = [state EXCEPT ![l] = After(Reconciling(l), "join_failed")]
    BY <1>8, Zenon DEF Register
  <2> QED BY <1>4, <2>1, RegisterClimbs
<1>9. ASSUME NEW l \in Launches, StopRecord(l) PROVE Ahead(state')
  BY <1>2, <1>9 DEF StopRecord
<1>10. CASE CrashInSpawnSucceeded
  <2>1. worker.launch \in Launches
    <3>1. worker # Idle
      BY <1>10 DEF CrashInSpawnSucceeded, Idle
    <3> QED BY <3>1, WorkInHand
  <2> QED BY <1>2, <1>10, <2>1 DEF CrashInSpawnSucceeded, RestartFrom
<1>11. ASSUME NEW l \in Launches, CrashInAccept(l) PROVE Ahead(state')
  BY <1>3, <1>11 DEF CrashInAccept, RestartFrom
<1>12. ASSUME NEW l \in Launches, CrashInRegister(l) PROVE Ahead(state')
  <2>1. \/ state' = state
        \/ state' = [state EXCEPT ![l] = Registered(l)]
        \/ state' = [state EXCEPT ![l] = Reconciling(l)]
        \/ state' = [state EXCEPT ![l] = After(Reconciling(l), "join_succeeded")]
    BY <1>12, Zenon DEF CrashInRegister, RestartFrom
  <2> QED BY <1>4, <2>1, RegisterClimbs
<1>13. CASE Answer \/ Restart \/ CrashInWorkFails \/ UNCHANGED vars
  BY <1>4, <1>13 DEF Answer, Restart, RestartFrom, CrashInWorkFails, vars
<1>14. ASSUME NEW l \in Launches, SendRegister(l) \/ AskStop(l) \/ StopAnswer(l)
       PROVE  Ahead(state')
  BY <1>4, <1>14 DEF SendRegister, AskStop, StopAnswer
<1>15. ASSUME NEW l \in Moved, Moves(l) PROVE Ahead(state')
  BY <1>4, <1>15, MoveIs
<1> QED
  BY <1>5, <1>6, <1>7, <1>8, <1>9, <1>10, <1>11, <1>12, <1>13, <1>14, <1>15
  DEF CrashNext, Next, ClaimSome

\* A launch never goes back in the order of LAUNCH_STATES, although the worker,
\* the registration and the stop write its state from rows they read at
\* different times (applyTransition, applyLaunchTransition).
THEOREM LaunchesNeverGoBack == CrashSpec => ProgressIsMonotone
<1>1. Kernel /\ [CrashNext]_vars =>
        [\A l \in Launches : Rank(state'[l]) >= Rank(state[l])]_vars
  BY StepClimbs DEF Ahead
<1> QED BY <1>1, KernelHolds, PTL DEF CrashSpec, ProgressIsMonotone

-----------------------------------------------------------------------------
(***************************************************************************)
(* Registrations are not lost (CrashSpec)                                  *)
(***************************************************************************)

\* Nothing exists of a launch that was not accepted, and no event makes a
\* launch stale.
Unborn ==
  \A l \in Launches :
    /\ state[l] # "stale"
    /\ state[l] = "none" =>
         /\ session[l] = "absent"
         /\ l \notin calls
         /\ worker.launch # l
         /\ \A k \in Kinds : work[l][k].status = "none"

LEMMA NeverStale ==
  ASSUME NEW s \in States, NEW e, s # "stale"
  PROVE  After(s, e) # "stale"
<1>1. \A edge \in Edges : edge[3] # "stale"
  BY DEF Edges, Failable
<1>2. CASE <<s, e, After(s, e)>> \in Edges
  <2> DEFINE edge == <<s, e, After(s, e)>>
  <2>1. edge[3] = After(s, e)
    OBVIOUS
  <2> HIDE DEF edge
  <2> QED BY <1>1, <1>2, <2>1 DEF edge
<1>3. CASE After(s, e) = s
  BY <1>3
<1> QED BY <1>2, <1>3, AfterIsEdge

\* Finishing a row keeps the type of the table.
LEMMA FinishedTyped ==
  ASSUME work \in [Launches -> [Kinds -> WorkRow]], NEW l \in Launches, NEW k \in Kinds
  PROVE  [work EXCEPT ![l] = Finished(l, k, "failed")] \in [Launches -> [Kinds -> WorkRow]]
<1> DEFINE row == [work[l][k] EXCEPT !.status = "failed"]
<1>1. row \in WorkRow
  BY DEF WorkRow
<1> HIDE DEF row
<1>2. Finished(l, k, "failed") = [work[l] EXCEPT ![k] = row]
  BY DEF Finished, row
<1>3. Finished(l, k, "failed") \in [Kinds -> WorkRow]
  BY <1>1, <1>2
<1> QED BY <1>3

\* The steps that give a launch a session, work, a call or the worker are steps
\* of a launch that was accepted.
LEMMA StillUnborn ==
  ASSUME Kernel, Unborn, [CrashNext]_vars,
         NEW l \in Launches, state[l] = "none", state'[l] = "none"
  PROVE  /\ session'[l] = "absent"
         /\ l \notin calls'
         /\ worker'.launch # l
         /\ \A k \in Kinds : work'[l][k].status = "none"
<1>1. /\ session[l] = "absent"
      /\ l \notin calls
      /\ worker.launch # l
      /\ \A k \in Kinds : work[l][k].status = "none"
  BY DEF Unborn
<1>2. /\ work \in [Launches -> [Kinds -> WorkRow]]
      /\ state \in [Launches -> States]
      /\ session \in [Launches -> {"absent", "added", "started"}]
  BY DEF Kernel, TypeOK
<1>3. ASSUME NEW m \in Launches, NEW k \in Kinds, Claim(m, k)
      PROVE  worker'.launch # l /\ work'[l] = work[l]
  <2>1. m # l
    BY <1>1, <1>3 DEF Claim, MayClaim
  <2>2. worker'.launch \in {None, m}
    BY <1>3 DEF Claim, Ask, Idle
  <2>3. work'[l] = work[l]
    BY <1>2, <1>3, <2>1 DEF Claim
  <2> QED BY <2>1, <2>2, <2>3, LaunchAssumption
<1>4. CASE \E m \in Launches, k \in Kinds : Claim(m, k)
  BY <1>1, <1>3, <1>4 DEF Claim
<1>5. CASE Continue
  <2>1. worker'.launch \in {None, worker.launch}
    BY <1>5 DEF Continue, SpawnSucceeded, Asks, WorkFails, Ask, Idle
  <2>2. work'[l] = work[l]
    BY <1>1, <1>2, <1>5 DEF Continue, SpawnSucceeded, Asks, WorkFails
  <2> QED BY <1>1, <1>5, <2>1, <2>2, LaunchAssumption DEF Continue
<1>6. CASE Answer
  <2>1. worker # Idle /\ worker \in Tasks
    <3>1. worker # Idle
      BY <1>6 DEF Answer, Idle
    <3> QED BY <3>1, WorkInHand
  <2>2. \E answer \in {"yes", "no"}, to \in {"absent", "added", "started"} :
          Reply(answer, worker.launch, to)
    BY <1>2, <1>6, <2>1, WorkInHand DEF Answer
  <2>3. worker'.launch = worker.launch /\ session'[l] = session[l]
    BY <1>1, <1>2, <2>1, <2>2 DEF Reply, Tasks
  <2> QED BY <1>1, <1>6, <2>3 DEF Answer
<1>7. ASSUME NEW m \in Launches, Accept(m) PROVE m # l
  BY <1>2, <1>7 DEF Accept
<1>8. ASSUME NEW m \in Launches, Accept(m)
      PROVE  work'[l] = work[l] /\ UNCHANGED <<session, calls, worker>>
  BY <1>2, <1>7, <1>8 DEF Accept
<1>9. ASSUME NEW m \in Launches, SendRegister(m) PROVE m # l
  BY <1>1, <1>9 DEF SendRegister
<1>10. ASSUME NEW m \in Launches,
              SendRegister(m) \/ Register(m) \/ AskStop(m) \/ StopAnswer(m) \/ StopRecord(m)
       PROVE  /\ session'[l] = "absent"
              /\ l \notin calls'
              /\ UNCHANGED <<worker, work>>
  <2>1. session'[l] = "absent"
    BY <1>1, <1>2, <1>10 DEF SendRegister, Register, AskStop, StopAnswer, StopRecord
  <2> QED BY <1>1, <1>9, <1>10, <2>1 DEF SendRegister, Register, AskStop, StopAnswer, StopRecord
<1>11. ASSUME NEW states, NEW rows \in [Launches -> [Kinds -> WorkRow]], NEW peers,
              RestartFrom(states, rows, peers), rows[l] = work[l]
       PROVE  /\ session'[l] = "absent"
              /\ l \notin calls'
              /\ worker'.launch # l
              /\ \A k \in Kinds : work'[l][k].status = "none"
  <2>1. Landed(l) = {"absent"}
    BY <1>1 DEF Landed
  <2>2. session'[l] = "absent"
    BY <1>11, <2>1 DEF RestartFrom
  <2>3. \A k \in Kinds : work'[l][k].status = IF rows[l][k].status = "running" THEN "queued"
                                              ELSE rows[l][k].status
    BY <1>11, RequeuedRows, Zenon DEF RestartFrom
  <2>4. calls' = {} /\ worker' = Idle
    BY <1>11 DEF RestartFrom
  <2> QED BY <1>1, <1>11, <2>2, <2>3, <2>4, LaunchAssumption DEF Idle
<1>12. CASE Restart
  BY <1>2, <1>11, <1>12 DEF Restart
<1>13. CASE CrashInSpawnSucceeded
  BY <1>2, <1>11, <1>13 DEF CrashInSpawnSucceeded
<1>14. CASE CrashInWorkFails
  <2> DEFINE rows == [work EXCEPT ![worker.launch] = Finished(worker.launch, worker.kind, "failed")]
  <2>1. RestartFrom(state, rows, peer) /\ worker # Idle
    BY <1>14 DEF CrashInWorkFails, Idle
  <2>2. rows[l] = work[l]
    BY <1>1, <1>2
  <2>3. rows \in [Launches -> [Kinds -> WorkRow]]
    <3>1. worker.launch \in Launches /\ worker.kind \in Kinds
      BY <2>1, WorkInHand
    <3> QED BY <1>2, <3>1, FinishedTyped
  <2> HIDE DEF rows
  <2> QED BY <1>11, <2>1, <2>2, <2>3
<1>15. ASSUME NEW m \in Launches, CrashInAccept(m) \/ CrashInRegister(m)
       PROVE  \E states, peers : RestartFrom(states, work, peers)
  BY <1>15, Zenon DEF CrashInAccept, CrashInRegister
<1>16. ASSUME NEW m \in Launches, CrashInAccept(m) \/ CrashInRegister(m)
       PROVE  /\ session'[l] = "absent"
              /\ l \notin calls'
              /\ worker'.launch # l
              /\ \A k \in Kinds : work'[l][k].status = "none"
  BY <1>2, <1>11, <1>15, <1>16
<1>17. CASE UNCHANGED vars
  BY <1>1, <1>17 DEF vars
<1>18. ASSUME NEW m \in Moved, Moves(m)
       PROVE  session'[l] = "absent" /\ UNCHANGED <<calls, worker, work>>
  BY <1>1, <1>2, <1>18, MoveIs
<1> QED
  BY <1>1, <1>4, <1>5, <1>6, <1>8, <1>10, <1>12, <1>13, <1>14, <1>16, <1>17, <1>18
  DEF CrashNext, Next, ClaimSome

\* No step makes a launch stale, and none takes one back to "none".
LEMMA NoneStale ==
  ASSUME Kernel, Unborn, [CrashNext]_vars, NEW l \in Launches
  PROVE  state'[l] # "stale" /\ (state'[l] = "none" => state[l] = "none")
<1>1. state' \in [Launches -> States] /\ state \in [Launches -> States]
  BY NextKeepsKernel DEF Kernel, TypeOK
<1>2. state'[l] = "none" => state[l] = "none"
  <2>1. Rank(state'[l]) >= Rank(state[l])
    BY StepClimbs DEF Ahead
  <2>2. \A s \in States : s # "none" => Rank(s) >= 2
    BY Ranks DEF States
  <2> QED BY <1>1, <2>1, <2>2, Ranks, RankIsNumber
<1>3. \A m \in Launches : \A e : state[m] \in States /\ After(state[m], e) # "stale"
  BY <1>1, NeverStale DEF Unborn
<1>4. \A m \in Launches : \A e : [state EXCEPT ![m] = After(state[m], e)][l] # "stale"
  BY <1>1, <1>3 DEF Unborn
<1>5. \A m \in Launches :
        /\ [state EXCEPT ![m] = Registered(m)][l] # "stale"
        /\ [state EXCEPT ![m] = Reconciling(m)][l] # "stale"
        /\ [state EXCEPT ![m] = After(Registered(m), "running_observed")][l] # "stale"
        /\ [state EXCEPT ![m] = After(Reconciling(m), "join_succeeded")][l] # "stale"
        /\ [state EXCEPT ![m] =
              After(After(Reconciling(m), "join_succeeded"), "running_observed")][l] # "stale"
        /\ [state EXCEPT ![m] = After(Reconciling(m), "join_failed")][l] # "stale"
  <2> SUFFICES ASSUME NEW m \in Launches
               PROVE  \A to \in {Registered(m), Reconciling(m),
                                 After(Registered(m), "running_observed"),
                                 After(Reconciling(m), "join_succeeded"),
                                 After(After(Reconciling(m), "join_succeeded"),
                                       "running_observed"),
                                 After(Reconciling(m), "join_failed")} : to # "stale"
    BY <1>1 DEF Unborn
  <2>1. Registered(m) \in States /\ Registered(m) # "stale"
    BY <1>1, <1>3, AfterInStates DEF Registered
  <2>2. Reconciling(m) \in States /\ Reconciling(m) # "stale"
    BY <2>1, AfterInStates, NeverStale DEF Reconciling
  <2>3. /\ After(Reconciling(m), "join_succeeded") \in States
        /\ After(Reconciling(m), "join_succeeded") # "stale"
    BY <2>2, AfterInStates, NeverStale
  <2> QED BY <2>1, <2>2, <2>3, NeverStale
<1>6. CASE UNCHANGED state
  BY <1>2, <1>6 DEF Unborn
<1>7. ASSUME NEW m \in Launches, NEW k \in Kinds, Claim(m, k) PROVE state'[l] # "stale"
  BY <1>4, <1>6, <1>7 DEF Claim
<1>8. CASE Continue
  <2>1. worker.launch \in Launches
    <3>1. worker # Idle
      BY <1>8 DEF Continue, Idle
    <3> QED BY <3>1, WorkInHand
  <2>2. \/ UNCHANGED state
        \/ \E e : state' = [state EXCEPT ![worker.launch] = After(state[worker.launch], e)]
    BY <1>8, Zenon DEF Continue, SpawnSucceeded, Asks, WorkFails
  <2> QED BY <1>2, <1>4, <1>6, <2>1, <2>2
<1>9. ASSUME NEW m \in Launches, Accept(m) PROVE state'[l] # "stale"
  BY <1>1, <1>9 DEF Accept, Unborn
<1>10. ASSUME NEW m \in Launches, Register(m) PROVE state'[l] # "stale"
  <2>1. \/ state' = state
        \/ state' = [state EXCEPT ![m] = After(Registered(m), "running_observed")]
        \/ state' = [state EXCEPT ![m] =
                       After(After(Reconciling(m), "join_succeeded"), "running_observed")]
        \/ state' = [state EXCEPT ![m] = After(Reconciling(m), "join_failed")]
    BY <1>10, Zenon DEF Register
  <2> QED BY <1>5, <1>6, <2>1
<1>11. ASSUME NEW m \in Launches, StopRecord(m) PROVE state'[l] # "stale"
  BY <1>4, <1>11 DEF StopRecord
<1>12. CASE CrashInSpawnSucceeded
  <2>1. worker.launch \in Launches
    <3>1. worker # Idle
      BY <1>12 DEF CrashInSpawnSucceeded, Idle
    <3> QED BY <3>1, WorkInHand
  <2> QED BY <1>2, <1>4, <1>12, <2>1 DEF CrashInSpawnSucceeded, RestartFrom
<1>13. ASSUME NEW m \in Launches, CrashInAccept(m) PROVE state'[l] # "stale"
  BY <1>1, <1>13 DEF CrashInAccept, RestartFrom, Unborn
<1>14. ASSUME NEW m \in Launches, CrashInRegister(m) PROVE state'[l] # "stale"
  <2>1. \/ state' = state
        \/ state' = [state EXCEPT ![m] = Registered(m)]
        \/ state' = [state EXCEPT ![m] = Reconciling(m)]
        \/ state' = [state EXCEPT ![m] = After(Reconciling(m), "join_succeeded")]
    BY <1>14, Zenon DEF CrashInRegister, RestartFrom
  <2> QED BY <1>5, <1>6, <2>1
<1>15. CASE Answer \/ Restart \/ CrashInWorkFails \/ UNCHANGED vars
  BY <1>6, <1>15 DEF Answer, Restart, RestartFrom, CrashInWorkFails, vars
<1>16. ASSUME NEW m \in Launches, SendRegister(m) \/ AskStop(m) \/ StopAnswer(m)
       PROVE  state'[l] # "stale"
  BY <1>6, <1>16 DEF SendRegister, AskStop, StopAnswer
<1>17. ASSUME NEW m \in Moved, Moves(m) PROVE state'[l] # "stale"
  BY <1>6, <1>17, MoveIs
<1> QED
  BY <1>2, <1>7, <1>8, <1>9, <1>10, <1>11, <1>12, <1>13, <1>14, <1>15, <1>16, <1>17
  DEF CrashNext, Next, ClaimSome

LEMMA UnbornHolds == CrashSpec => [](Kernel /\ Unborn)
<1>1. Init => Kernel /\ Unborn
  <2>1. Init => Unborn
    BY LaunchAssumption DEF Init, Unborn, NoWork, Idle
  <2> QED BY <2>1, InitKernel
<1>2. Kernel /\ Unborn /\ [CrashNext]_vars => (Kernel /\ Unborn)'
  <2>1. Kernel /\ Unborn /\ [CrashNext]_vars => Unborn'
    BY NoneStale, StillUnborn DEF Unborn
  <2> QED BY <2>1, NextKeepsKernel
<1> QED BY <1>1, <1>2, PTL DEF CrashSpec

\* A registration of a launch between its recorded spawn and its join, or after a
\* join that failed, leaves its agent in its group or says that it is not
\* (reconcileDurableLaunch, upsertPeer), whatever cut registrations, leaves,
\* deletions and archives went before.
THEOREM RegistrationsReconcile == CrashSpec => RegistrationReconciles
<1>1. ASSUME Kernel, NEW l \in Grouped, Register(l), state[l] \in Reconcilable
      PROVE  Reconciled(l)
  <2>1. /\ l \in Launches
        /\ state \in [Launches -> States]
        /\ peer \in [Launches -> PeerRow]
    BY <1>1, LaunchAssumption DEF Kernel, TypeOK
  <2>2. state[l] \notin Unreconciled
    BY <1>1 DEF Unreconciled, Reconcilable
  <2>3. PICK up \in Upserted(peer[l]) :
          \/ peer' = [peer EXCEPT ![l] = Joined(up)]
          \/ state' = [state EXCEPT ![l] = After(Reconciling(l), "join_failed")]
    BY <1>1, <2>2, Zenon DEF Register
  <2>4. Joined(up).seat = "active"
    BY <2>1, UpsertedTyped, RowsChange
  <2>5. After(Reconciling(l), "join_failed") = "registered_unjoined"
    <3>1. Registered(l) \in States
      BY <2>1, AfterInStates DEF Registered
    <3>2. Registered(l) \in {"registered", "reconciling", "registered_unjoined"}
      BY <1>1, <2>1, AfterRegistered DEF Registered, Reconcilable
    <3>3. Reconciling(l) \in States
      BY <3>1, AfterInStates DEF Reconciling
    <3>4. Reconciling(l) \in {"reconciling", "registered_unjoined"}
      BY <3>1, <3>2, AfterReconciling DEF Reconciling
    <3> QED BY <3>3, <3>4, AfterJoin
  <2> QED BY <2>1, <2>3, <2>4, <2>5 DEF Reconciled
<1>2. Kernel /\ [CrashNext]_vars =>
        [\A l \in Grouped : Register(l) /\ state[l] \in Reconcilable => Reconciled(l)]_vars
  BY <1>1
<1> QED BY <1>2, KernelHolds, PTL DEF CrashSpec, RegistrationReconciles

-----------------------------------------------------------------------------
(***************************************************************************)
(* Few launches are left behind (CrashSpec)                                *)
(***************************************************************************)

\* A row that is neither in hand nor can be claimed, and a launch in state s
\* that has nothing else.
Idles(row, k) == row.status # "running" /\ ~ MayClaim(row, k)
Workless(s, spawn, prompt) ==
  \/ s \in {"accepted", "spawning"} /\ Idles(spawn, "spawn")
  \/ s = "prompt_waiting" /\ Idles(prompt, "prompt_confirm")

LEMMA OrphanedIs ==
  /\ \A l \in Launches :
       l \in Orphaned <=> Workless(state[l], work[l]["spawn"], work[l]["prompt_confirm"])
  /\ \A l \in Launches :
       l \in Orphaned' <=> Workless(state'[l], work'[l]["spawn"], work'[l]["prompt_confirm"])
  /\ Orphaned \subseteq Launches /\ Orphaned' \subseteq Launches
  BY DEF Orphaned, Awaited, Workless, Idles

\* Prompt work comes after the spawn, whose work is claimed when it begins.
InOrder(s, spawn, prompt) ==
  /\ s \in {"none", "accepted", "spawning"} => prompt.status = "none"
  /\ spawn.status = "running" => s \notin {"none", "accepted"}

RowsInOrder ==
  \A l \in Launches : InOrder(state[l], work[l]["spawn"], work[l]["prompt_confirm"])

NoneOrphaned == RowsInOrder' /\ Orphaned' \subseteq Orphaned

\* A step that touches one launch.
LEMMA OneTouched ==
  ASSUME RowsInOrder, NEW l \in Launches,
         \A m \in Launches : m # l =>
           /\ state'[m] = state[m]
           /\ work'[m]["spawn"] = work[m]["spawn"]
           /\ work'[m]["prompt_confirm"] = work[m]["prompt_confirm"],
         InOrder(state'[l], work'[l]["spawn"], work'[l]["prompt_confirm"]),
         Workless(state'[l], work'[l]["spawn"], work'[l]["prompt_confirm"]) =>
           Workless(state[l], work[l]["spawn"], work[l]["prompt_confirm"])
  PROVE  NoneOrphaned
<1>1. RowsInOrder'
  BY DEF RowsInOrder
<1>2. \A m \in Launches : m \in Orphaned' => m \in Orphaned
  BY OrphanedIs
<1> QED BY <1>1, <1>2, OrphanedIs DEF NoneOrphaned

\* A step that leaves the work alone.
LEMMA WorkUntouched ==
  ASSUME RowsInOrder, UNCHANGED work,
         \A l \in Launches :
           \/ state'[l] = state[l]
           \/ state'[l] \notin {"none", "accepted", "spawning", "prompt_waiting"}
  PROVE  NoneOrphaned
<1>1. RowsInOrder'
  BY DEF RowsInOrder, InOrder
<1>2. \A m \in Launches : m \in Orphaned' => m \in Orphaned
  BY OrphanedIs DEF Workless
<1> QED BY <1>1, <1>2, OrphanedIs DEF NoneOrphaned

LEMMA AcceptOrphansNone ==
  ASSUME Kernel, Unborn, RowsInOrder, NEW l \in Launches, Accept(l)
  PROVE  NoneOrphaned
<1> DEFINE row == Enqueued(work[l]["spawn"])
<1>1. /\ state \in [Launches -> States]
      /\ work \in [Launches -> [Kinds -> WorkRow]]
  BY DEF Kernel, TypeOK
<1>2. /\ state[l] = "none"
      /\ state' = [state EXCEPT ![l] = "accepted"]
      /\ work' = [work EXCEPT ![l]["spawn"] = row]
  BY DEF Accept
<1>3. row.status = "queued" /\ row.attempts = 0
  BY <1>2, KindsAre DEF Unborn, Enqueued
<1> HIDE DEF row
<1>4. \A m \in Launches :
        /\ state'[m] = IF m = l THEN "accepted" ELSE state[m]
        /\ work'[m]["spawn"] = IF m = l THEN row ELSE work[m]["spawn"]
        /\ work'[m]["prompt_confirm"] = work[m]["prompt_confirm"]
  BY <1>1, <1>2, KindsAre
<1>5. ~ Idles(row, "spawn")
  BY <1>3, LimitsAreNumbers, KindsAre DEF Idles, MayClaim
<1>6. InOrder("accepted", row, work[l]["prompt_confirm"])
  BY <1>2, <1>3 DEF RowsInOrder, InOrder
<1>7. ~ Workless("accepted", row, work[l]["prompt_confirm"])
  BY <1>5 DEF Workless
<1> QED BY <1>4, <1>6, <1>7, OneTouched

LEMMA ClaimOrphansNone ==
  ASSUME Kernel, Unborn, RowsInOrder, NEW l \in Launches, NEW k \in Kinds, Claim(l, k)
  PROVE  NoneOrphaned
<1> DEFINE idle == IF k = "spawn" THEN state[l] \in SpawnOver ELSE state[l] \notin PromptOpen
           row  == [status   |-> IF idle THEN "done" ELSE "running",
                    attempts |-> work[l][k].attempts + 1]
<1>1. /\ state \in [Launches -> States]
      /\ work \in [Launches -> [Kinds -> WorkRow]]
  BY DEF Kernel, TypeOK
<1>2. /\ work[l][k].status = "queued"
      /\ work' = [work EXCEPT ![l][k] = row]
      /\ state' = IF k = "spawn" THEN [state EXCEPT ![l] = After(state[l], "spawn_started")]
                  ELSE state
  BY DEF Claim, MayClaim
<1>3. row.status = IF idle THEN "done" ELSE "running"
  OBVIOUS
<1> HIDE DEF row
<1>4. After(state[l], "spawn_started") =
        IF state[l] = "accepted" THEN "spawning" ELSE state[l]
  BY <1>1, AfterSpawnStarted
<1>5. state[l] # "none"
  BY <1>2 DEF Unborn
<1>6. CASE k = "spawn"
  <2>1. state[l] \in {"accepted", "spawning"} => row.status = "running"
    BY <1>3, <1>6 DEF SpawnOver
  <2> DEFINE to == IF state[l] = "accepted" THEN "spawning" ELSE state[l]
  <2>2. \A m \in Launches :
          /\ state'[m] = IF m = l THEN to ELSE state[m]
          /\ work'[m]["spawn"] = IF m = l THEN row ELSE work[m]["spawn"]
          /\ work'[m]["prompt_confirm"] = work[m]["prompt_confirm"]
    BY <1>1, <1>2, <1>4, <1>6, KindsAre
  <2>3. InOrder(to, row, work[l]["prompt_confirm"])
    BY <1>5 DEF RowsInOrder, InOrder
  <2>4. Workless(to, row, work[l]["prompt_confirm"]) =>
          Workless(state[l], work[l]["spawn"], work[l]["prompt_confirm"])
    BY <2>1 DEF Workless, Idles
  <2> HIDE DEF to
  <2> QED BY <2>2, <2>3, <2>4, OneTouched
<1>7. CASE k = "prompt_confirm"
  <2>1. state[l] = "prompt_waiting" => row.status = "running"
    BY <1>3, <1>7 DEF PromptOpen
  <2>2. \A m \in Launches :
          /\ state'[m] = state[m]
          /\ work'[m]["spawn"] = work[m]["spawn"]
          /\ work'[m]["prompt_confirm"] = IF m = l THEN row ELSE work[m]["prompt_confirm"]
    BY <1>1, <1>2, <1>7, KindsAre
  <2>3. state[l] \notin {"none", "accepted", "spawning"}
    BY <1>2, <1>7 DEF RowsInOrder, InOrder
  <2>4. InOrder(state[l], work[l]["spawn"], row)
    BY <2>3 DEF InOrder
  <2>5. ~ Workless(state[l], work[l]["spawn"], row)
    BY <2>1, <2>3 DEF Workless, Idles
  <2> QED BY <2>2, <2>4, <2>5, OneTouched
<1> QED BY <1>6, <1>7 DEF Kinds

LEMMA WorkFailsOrphansNone ==
  ASSUME Kernel, RowsInOrder, worker # Idle, WorkFails(worker.launch, worker.kind)
  PROVE  NoneOrphaned
<1> DEFINE l == worker.launch
           k == worker.kind
           last == work[l][k].attempts >= MaxAttempts(k)
           row == [work[l][k] EXCEPT !.status = IF last THEN "failed" ELSE "queued"]
<1>1. /\ l \in Launches
      /\ k \in Kinds
      /\ work[l][k] \in WorkRow
      /\ work[l][k].status = "running"
  BY WorkInHand
<1>2. /\ state \in [Launches -> States]
      /\ work \in [Launches -> [Kinds -> WorkRow]]
  BY DEF Kernel, TypeOK
<1>3. /\ work' = [work EXCEPT ![l] = Finished(l, k, IF last THEN "failed" ELSE "queued")]
      /\ state' = IF last THEN [state EXCEPT ![l] = After(state[l], "failed")] ELSE state
  BY DEF WorkFails
<1>4. /\ row.status = IF last THEN "failed" ELSE "queued"
      /\ ~ last => ~ Idles(row, k)
  <2>1. row.status = (IF last THEN "failed" ELSE "queued") /\ row.attempts = work[l][k].attempts
    BY <1>1 DEF WorkRow
  <2>2. work[l][k].attempts \in Nat /\ MaxAttempts(k) \in Nat
    BY <1>1, LimitsAreNumbers DEF WorkRow
  <2>3. ~ last => row.attempts < MaxAttempts(k)
    <3>1. ~ last => work[l][k].attempts < MaxAttempts(k)
      BY <2>2
    <3> HIDE DEF row, last
    <3> QED BY <2>1, <3>1
  <2> HIDE DEF row, last
  <2> QED BY <2>1, <2>3 DEF Idles, MayClaim
<1> HIDE DEF l, k, row, last
<1>5. \A m \in Launches, i \in Kinds :
        work'[m][i] = IF m = l /\ i = k THEN row ELSE work[m][i]
  BY <1>1, <1>2, <1>3 DEF Finished, row
<1>6. After(state[l], "failed") = IF state[l] \in Failable THEN "failed" ELSE state[l]
  BY <1>1, <1>2, AfterFailed
<1>7. state[l] \notin {"none", "accepted"} /\ (k = "prompt_confirm" => state[l] # "spawning")
  BY <1>1 DEF RowsInOrder, InOrder, Kinds
<1>8. \A m \in Launches :
        state'[m] = IF m = l /\ last /\ state[l] \in Failable THEN "failed" ELSE state[m]
  BY <1>1, <1>2, <1>3, <1>6
<1>9. \A m \in Launches : m # l =>
        /\ state'[m] = state[m]
        /\ work'[m]["spawn"] = work[m]["spawn"]
        /\ work'[m]["prompt_confirm"] = work[m]["prompt_confirm"]
  BY <1>5, <1>8, KindsAre
<1>10. CASE last
  <2>1. state'[l] \notin {"none", "accepted", "spawning", "prompt_waiting"}
    BY <1>1, <1>7, <1>8, <1>10 DEF Failable
  <2>2. InOrder(state'[l], work'[l]["spawn"], work'[l]["prompt_confirm"])
    BY <2>1 DEF InOrder
  <2>3. ~ Workless(state'[l], work'[l]["spawn"], work'[l]["prompt_confirm"])
    BY <2>1 DEF Workless
  <2> QED BY <1>1, <1>9, <2>2, <2>3, OneTouched
<1>11. CASE ~ last
  <2>1. state'[l] = state[l] /\ row.status = "queued" /\ ~ Idles(row, k)
    BY <1>1, <1>4, <1>8, <1>11
  <2>2. CASE k = "spawn"
    <3>1. work'[l]["spawn"] = row /\ work'[l]["prompt_confirm"] = work[l]["prompt_confirm"]
      BY <1>1, <1>5, <2>2, KindsAre
    <3>2. InOrder(state[l], row, work[l]["prompt_confirm"])
      BY <1>1, <2>1 DEF RowsInOrder, InOrder
    <3>3. Workless(state[l], row, work[l]["prompt_confirm"]) =>
            Workless(state[l], work[l]["spawn"], work[l]["prompt_confirm"])
      BY <2>1, <2>2 DEF Workless
    <3> QED BY <1>1, <1>9, <2>1, <3>1, <3>2, <3>3, OneTouched
  <2>3. CASE k = "prompt_confirm"
    <3>1. work'[l]["spawn"] = work[l]["spawn"] /\ work'[l]["prompt_confirm"] = row
      BY <1>1, <1>5, <2>3, KindsAre
    <3>2. InOrder(state[l], work[l]["spawn"], row)
      BY <1>7, <2>3 DEF InOrder
    <3>3. ~ Workless(state[l], work[l]["spawn"], row)
      BY <1>7, <2>1, <2>3 DEF Workless
    <3> QED BY <1>1, <1>9, <2>1, <3>1, <3>2, <3>3, OneTouched
  <2> QED BY <1>1, <2>2, <2>3 DEF Kinds
<1> QED BY <1>10, <1>11

LEMMA SpawnSucceededOrphansNone ==
  ASSUME Kernel, RowsInOrder, worker # Idle, worker.kind = "spawn", SpawnSucceeded(worker.launch)
  PROVE  NoneOrphaned
<1> DEFINE l == worker.launch
           next == IF l \in Claude THEN Enqueued(work[l]["prompt_confirm"])
                   ELSE work[l]["prompt_confirm"]
           to == IF state[l] = "spawning"
                 THEN IF l \in Claude THEN "prompt_waiting" ELSE "spawned"
                 ELSE state[l]
<1>1. l \in Launches /\ work[l]["spawn"].status = "running"
  BY WorkInHand DEF Kinds
<1>2. /\ state \in [Launches -> States]
      /\ work \in [Launches -> [Kinds -> WorkRow]]
  BY DEF Kernel, TypeOK
<1>3. /\ state' = [state EXCEPT ![l] = After(state[l], SpawnedEvent(l))]
      /\ work' = [work EXCEPT ![l] =
                    [Finished(l, "spawn", "done") EXCEPT !["prompt_confirm"] = next]]
  <2>1. Finished(l, "spawn", "done")["prompt_confirm"] = work[l]["prompt_confirm"]
    BY <1>1, <1>2, KindsAre DEF Finished
  <2> QED BY <2>1 DEF SpawnSucceeded
<1>4. \/ next = work[l]["prompt_confirm"]
      \/ next.status = "queued" /\ next.attempts = 0
  BY DEF Enqueued
<1>5. l \in Claude /\ work[l]["prompt_confirm"].status = "none" =>
        next.status = "queued" /\ next.attempts = 0
  BY DEF Enqueued
<1> HIDE DEF l, next
<1>6. \A m \in Launches :
        /\ work'[m]["prompt_confirm"] = IF m = l THEN next ELSE work[m]["prompt_confirm"]
        /\ m # l => work'[m]["spawn"] = work[m]["spawn"]
  BY <1>1, <1>2, <1>3, KindsAre DEF Finished
<1>7. After(state[l], SpawnedEvent(l)) = to
  BY <1>1, <1>2, AfterSpawned
<1>8. \A m \in Launches : state'[m] = IF m = l THEN to ELSE state[m]
  BY <1>1, <1>2, <1>3, <1>7
<1>9. state[l] \notin {"none", "accepted"}
      /\ (state[l] = "spawning" => work[l]["prompt_confirm"].status = "none")
  BY <1>1 DEF RowsInOrder, InOrder
<1>10. next.status = "queued" /\ next.attempts = 0 => ~ Idles(next, "prompt_confirm")
  BY LimitsAreNumbers, KindsAre DEF Idles, MayClaim
<1>11. to \notin {"none", "accepted", "spawning"}
  BY <1>9
<1>12. Workless(to, work'[l]["spawn"], next) =>
         Workless(state[l], work[l]["spawn"], work[l]["prompt_confirm"])
  <2> SUFFICES ASSUME to = "prompt_waiting", Idles(next, "prompt_confirm")
               PROVE  state[l] = "prompt_waiting" /\ next = work[l]["prompt_confirm"]
    BY <1>11 DEF Workless
  <2> QED BY <1>4, <1>5, <1>9, <1>10
<1>13. InOrder(to, work'[l]["spawn"], next)
  BY <1>11 DEF InOrder
<1> HIDE DEF to
<1> QED BY <1>1, <1>6, <1>8, <1>12, <1>13, OneTouched

LEMMA PromptAcceptedOrphansNone ==
  ASSUME Kernel, RowsInOrder, worker # Idle, worker.kind = "prompt_confirm",
         state' = [state EXCEPT ![worker.launch] = After(state[worker.launch], "prompt_accepted")],
         work' = [work EXCEPT ![worker.launch] =
                    Finished(worker.launch, "prompt_confirm", "done")]
  PROVE  NoneOrphaned
<1> DEFINE l == worker.launch
<1>1. l \in Launches /\ work[l]["prompt_confirm"].status = "running"
  BY WorkInHand
<1>2. /\ state \in [Launches -> States]
      /\ work \in [Launches -> [Kinds -> WorkRow]]
  BY DEF Kernel, TypeOK
<1>3. After(state[l], "prompt_accepted") =
        IF state[l] = "prompt_waiting" THEN "prompt_accepted" ELSE state[l]
  BY <1>1, <1>2, AfterPrompt
<1>4. \A m \in Launches : m # l =>
        /\ state'[m] = state[m]
        /\ work'[m]["spawn"] = work[m]["spawn"]
        /\ work'[m]["prompt_confirm"] = work[m]["prompt_confirm"]
  BY <1>1, <1>2
<1>5. state'[l] \notin {"none", "accepted", "spawning", "prompt_waiting"}
  <2>1. state[l] \notin {"none", "accepted", "spawning"}
    BY <1>1 DEF RowsInOrder, InOrder
  <2> QED BY <1>1, <1>2, <1>3, <2>1
<1>6. InOrder(state'[l], work'[l]["spawn"], work'[l]["prompt_confirm"])
  BY <1>5 DEF InOrder
<1>7. ~ Workless(state'[l], work'[l]["spawn"], work'[l]["prompt_confirm"])
  BY <1>5 DEF Workless
<1> QED BY <1>1, <1>4, <1>6, <1>7, OneTouched

LEMMA ContinueOrphansNone ==
  ASSUME Kernel, RowsInOrder, Continue
  PROVE  NoneOrphaned
<1> DEFINE l == worker.launch
<1>1. /\ worker # Idle
      /\ worker.kind = IF worker.doing = "confirm" THEN "prompt_confirm" ELSE "spawn"
  <2>1. worker # Idle
    BY DEF Continue, Idle
  <2> QED BY <2>1, WorkInHand DEF Kernel, AsksFit, Kinds
<1>2. CASE worker.kind = "spawn" /\ SpawnSucceeded(l)
  BY <1>1, <1>2, SpawnSucceededOrphansNone
<1>3. CASE UNCHANGED <<state, work>>
  BY <1>3, WorkUntouched
<1>4. CASE WorkFails(l, worker.kind)
  BY <1>1, <1>4, WorkFailsOrphansNone
<1>5. CASE /\ worker.kind = "prompt_confirm"
           /\ state' = [state EXCEPT ![l] = After(state[l], "prompt_accepted")]
           /\ work' = [work EXCEPT ![l] = Finished(l, "prompt_confirm", "done")]
  BY <1>1, <1>5, PromptAcceptedOrphansNone
<1> QED BY <1>1, <1>2, <1>3, <1>4, <1>5 DEF Continue, Asks

\* The handlers, when the daemon does not die.
LEMMA HandlersOrphanNone ==
  ASSUME Kernel, Unborn, RowsInOrder, [Next]_vars, ~ Restart
  PROVE  NoneOrphaned
<1>1. CASE UNCHANGED <<state, work>>
  BY <1>1, WorkUntouched
<1>2. CASE \E l \in Launches, k \in Kinds : Claim(l, k)
  BY <1>2, ClaimOrphansNone
<1>3. CASE Continue
  BY <1>3, ContinueOrphansNone
<1>4. ASSUME NEW l \in Launches, Accept(l) PROVE NoneOrphaned
  BY <1>4, AcceptOrphansNone
<1>5. ASSUME NEW l \in Launches, Register(l) PROVE NoneOrphaned
  <2>1. state \in [Launches -> States] /\ UNCHANGED work
    BY <1>5 DEF Kernel, TypeOK, Register
  <2>2. \/ state' = state
        \/ \E to \in {After(Registered(l), "running_observed"),
                      After(After(Reconciling(l), "join_succeeded"), "running_observed"),
                      After(Reconciling(l), "join_failed")} :
             state' = [state EXCEPT ![l] = to]
    BY <1>5, Zenon DEF Register
  <2> QED BY <2>1, <2>2, RegisteredElsewhere, WorkUntouched
<1>6. ASSUME NEW l \in Launches, StopRecord(l) PROVE NoneOrphaned
  <2>1. state \in [Launches -> States]
    BY DEF Kernel, TypeOK
  <2>2. After(state[l], "stopped") =
          IF state[l] \in {"none", "failed"} THEN state[l] ELSE "stopped"
    BY <2>1, AfterStopped
  <2> QED BY <1>6, <2>1, <2>2, WorkUntouched DEF StopRecord
<1>7. CASE Answer \/ UNCHANGED vars
  BY <1>1, <1>7 DEF Answer, vars
<1>8. ASSUME NEW l \in Launches, SendRegister(l) \/ AskStop(l) \/ StopAnswer(l)
      PROVE  NoneOrphaned
  BY <1>1, <1>8 DEF SendRegister, AskStop, StopAnswer
<1>9. ASSUME NEW l \in Moved, Moves(l) PROVE NoneOrphaned
  BY <1>1, <1>9, MoveIs
<1> QED
  BY <1>2, <1>3, <1>4, <1>5, <1>6, <1>7, <1>8, <1>9 DEF Next, ClaimSome

\* A restart leaves behind at most the launch of the handler that was cut and
\* the one whose work was in hand.
TwoOrphanedAt(cut) ==
  RowsInOrder' /\ Orphaned' \ Orphaned \subseteq {cut, worker.launch} /\ crashes' = crashes + 1

LEMMA RestartFromOrphansTwo ==
  ASSUME Kernel, RowsInOrder, NEW cut, NEW states, NEW peers,
         NEW rows \in [Launches -> [Kinds -> WorkRow]],
         RestartFrom(states, rows, peers),
         \A m \in Launches \ {cut, worker.launch} :
           /\ rows[m] = work[m]
           /\ states[m] = state[m]
              \/ states[m] \notin {"none", "accepted", "spawning", "prompt_waiting"},
         \A m \in Launches : states[m] \in {"none", "accepted", "spawning"} =>
           rows[m]["prompt_confirm"].status = "none"
  PROVE  TwoOrphanedAt(cut)
<1>1. state' = states /\ work' = Requeued(rows) /\ crashes' = crashes + 1
  BY DEF RestartFrom
<1>2. \A m \in Launches, k \in Kinds :
        /\ work'[m][k].status = IF rows[m][k].status = "running" THEN "queued"
                                ELSE rows[m][k].status
        /\ work'[m][k].attempts = rows[m][k].attempts
  BY <1>1, RequeuedRows, Zenon
<1>3. RowsInOrder'
  <2> SUFFICES ASSUME NEW m \in Launches
               PROVE  InOrder(state'[m], work'[m]["spawn"], work'[m]["prompt_confirm"])
    BY DEF RowsInOrder
  <2>1. work'[m]["spawn"].status # "running"
    BY <1>2, KindsAre
  <2>2. rows[m]["prompt_confirm"].status = "none" => work'[m]["prompt_confirm"].status = "none"
    BY <1>2, KindsAre
  <2> QED BY <1>1, <2>1, <2>2 DEF InOrder
<1>4. ASSUME NEW m \in Launches, m \notin {cut, worker.launch}, m \in Orphaned'
      PROVE  m \in Orphaned
  <2>1. Workless(states[m], work'[m]["spawn"], work'[m]["prompt_confirm"])
    BY <1>1, <1>4, OrphanedIs
  <2>2. states[m] = state[m] /\ rows[m] = work[m]
    BY <1>4, <2>1 DEF Workless
  <2>3. \A k \in Kinds : work[m][k].status # "running"
    BY <1>4 DEF Kernel, WorkerOwnsRunning
  <2>4. \A k \in Kinds : /\ work'[m][k].status = work[m][k].status
                         /\ work'[m][k].attempts = work[m][k].attempts
    BY <1>2, <2>2, <2>3
  <2>5. \A k \in Kinds : Idles(work'[m][k], k) <=> Idles(work[m][k], k)
    BY <2>4 DEF Idles, MayClaim
  <2>6. Workless(state[m], work[m]["spawn"], work[m]["prompt_confirm"])
    BY <2>1, <2>2, <2>5, KindsAre DEF Workless
  <2> QED BY <2>6, OrphanedIs
<1>5. Orphaned' \ Orphaned \subseteq {cut, worker.launch}
  BY <1>4, OrphanedIs
<1> QED BY <1>1, <1>3, <1>5 DEF TwoOrphanedAt

\* Registering, whichever of its transitions were made.
LEMMA RegisteringElsewhere ==
  ASSUME NEW l \in Launches, state \in [Launches -> States],
         NEW to \in {state[l], Registered(l), Reconciling(l),
                     After(Reconciling(l), "join_succeeded")}
  PROVE  to = state[l] \/ to \notin {"none", "accepted", "spawning", "prompt_waiting"}
<1> DEFINE Early == {"none", "accepted", "spawning", "prompt_waiting"}
<1>1. Registered(l) \in States /\ (Registered(l) \in Early => Registered(l) = state[l])
  BY AfterRegistered, AfterInStates DEF Registered
<1>2. Reconciling(l) \in States /\ (Reconciling(l) \in Early => Reconciling(l) = state[l])
  BY <1>1, AfterReconciling, AfterInStates DEF Reconciling
<1>3. LET s == After(Reconciling(l), "join_succeeded") IN s \in Early => s = state[l]
  BY <1>2, AfterJoin
<1> QED BY <1>1, <1>2, <1>3

LEMMA RestartsOrphanTwo ==
  ASSUME Kernel, Unborn, RowsInOrder,
         \/ Restart \/ CrashInSpawnSucceeded \/ CrashInWorkFails
         \/ \E l \in Launches : CrashInAccept(l) \/ CrashInRegister(l)
  PROVE  \E cut : TwoOrphanedAt(cut)
<1>1. /\ state \in [Launches -> States]
      /\ work \in [Launches -> [Kinds -> WorkRow]]
  BY DEF Kernel, TypeOK
<1>2. \A m \in Launches : state[m] \in {"none", "accepted", "spawning"} =>
        work[m]["prompt_confirm"].status = "none"
  BY DEF RowsInOrder, InOrder
<1>3. CASE Restart
  <2>1. RestartFrom(state, work, peer)
    BY <1>3 DEF Restart
  <2>2. TwoOrphanedAt(None)
    BY <1>1, <1>2, <2>1, RestartFromOrphansTwo
  <2> QED BY <2>2
<1>4. CASE CrashInSpawnSucceeded
  <2> DEFINE l == worker.launch
             states == [state EXCEPT ![l] = After(state[l], SpawnedEvent(l))]
  <2>1. RestartFrom(states, work, peer)
    BY <1>4 DEF CrashInSpawnSucceeded
  <2>2. l \in Launches
    <3>1. worker # Idle
      BY <1>4 DEF CrashInSpawnSucceeded, Idle
    <3> QED BY <3>1, WorkInHand
  <2>3. After(state[l], SpawnedEvent(l)) \in {"none", "accepted", "spawning"} =>
          After(state[l], SpawnedEvent(l)) = state[l]
    BY <1>1, <2>2, AfterSpawned
  <2>4. \A m \in Launches : states[m] = IF m = l THEN After(state[l], SpawnedEvent(l)) ELSE state[m]
    BY <1>1, <2>2
  <2>5. \A m \in Launches : states[m] \in {"none", "accepted", "spawning"} =>
          work[m]["prompt_confirm"].status = "none"
    BY <1>2, <2>2, <2>3, <2>4
  <2> HIDE DEF states
  <2>6. TwoOrphanedAt(None)
    BY <1>1, <2>1, <2>4, <2>5, RestartFromOrphansTwo
  <2> QED BY <2>6
<1>5. CASE CrashInWorkFails
  <2> DEFINE l == worker.launch
             k == worker.kind
             rows == [work EXCEPT ![l] = Finished(l, k, "failed")]
  <2>1. RestartFrom(state, rows, peer)
    BY <1>5 DEF CrashInWorkFails
  <2>2. l \in Launches /\ k \in Kinds /\ work[l][k].status = "running"
    <3>1. worker # Idle
      BY <1>5 DEF CrashInWorkFails, Idle
    <3> QED BY <3>1, WorkInHand
  <2>3. rows \in [Launches -> [Kinds -> WorkRow]]
    BY <1>1, <2>2, FinishedTyped
  <2>4. \A m \in Launches : m # l => rows[m] = work[m]
    BY <1>1, <2>2
  <2>5. rows[l]["prompt_confirm"].status = "none" \/ rows[l]["prompt_confirm"] = work[l]["prompt_confirm"]
        \/ k = "prompt_confirm"
    BY <1>1, <2>2, KindsAre DEF Finished, Kinds
  <2>6. k = "prompt_confirm" => state[l] \notin {"none", "accepted", "spawning"}
    BY <1>2, <2>2
  <2> HIDE DEF rows
  <2>7. \A m \in Launches : state[m] \in {"none", "accepted", "spawning"} =>
          rows[m]["prompt_confirm"].status = "none"
    BY <1>2, <2>2, <2>4, <2>5, <2>6
  <2>8. TwoOrphanedAt(None)
    BY <1>1, <2>1, <2>3, <2>4, <2>7, RestartFromOrphansTwo
  <2> QED BY <2>8
<1>6. ASSUME NEW l \in Launches, CrashInAccept(l) PROVE TwoOrphanedAt(l)
  <2> DEFINE states == [state EXCEPT ![l] = "accepted"]
  <2>1. RestartFrom(states, work, peer) /\ state[l] = "none"
    BY <1>6 DEF CrashInAccept
  <2>2. \A m \in Launches : states[m] = IF m = l THEN "accepted" ELSE state[m]
    BY <1>1
  <2> HIDE DEF states
  <2>3. \A m \in Launches : states[m] \in {"none", "accepted", "spawning"} =>
          work[m]["prompt_confirm"].status = "none"
    BY <1>2, <2>1, <2>2
  <2> QED BY <1>1, <2>1, <2>2, <2>3, RestartFromOrphansTwo
<1>7. ASSUME NEW l \in Launches, CrashInRegister(l) PROVE TwoOrphanedAt(l)
  <2> DEFINE Tos == {state[l], Registered(l), Reconciling(l), After(Reconciling(l), "join_succeeded")}
  <2>0. PICK peers : \/ RestartFrom(state, work, peers)
                     \/ RestartFrom([state EXCEPT ![l] = Registered(l)], work, peers)
                     \/ RestartFrom([state EXCEPT ![l] = Reconciling(l)], work, peers)
                     \/ RestartFrom([state EXCEPT ![l] = After(Reconciling(l), "join_succeeded")],
                                    work, peers)
    BY <1>7, Zenon DEF CrashInRegister
  <2>1. PICK to \in Tos : RestartFrom([state EXCEPT ![l] = to], work, peers)
    <3>1. state = [state EXCEPT ![l] = state[l]]
      BY <1>1
    <3>2. CASE RestartFrom(state, work, peers)
      <4>1. RestartFrom([state EXCEPT ![l] = state[l]], work, peers)
        BY <3>1, <3>2
      <4> QED BY <4>1
    <3> QED BY <2>0, <3>2
  <2>2. to = state[l] \/ to \notin {"none", "accepted", "spawning", "prompt_waiting"}
    BY <1>1, <2>1, RegisteringElsewhere
  <2> DEFINE states == [state EXCEPT ![l] = to]
  <2>3. \A m \in Launches : states[m] = IF m = l THEN to ELSE state[m]
    BY <1>1
  <2>4. RestartFrom(states, work, peers)
    BY <2>1
  <2> HIDE DEF states
  <2>5. \A m \in Launches : states[m] \in {"none", "accepted", "spawning"} =>
          work[m]["prompt_confirm"].status = "none"
    BY <1>2, <2>2, <2>3
  <2> QED BY <1>1, <2>3, <2>4, <2>5, RestartFromOrphansTwo
<1> QED BY <1>3, <1>4, <1>5, <1>6, <1>7

LEMMA CrashesOnlyIncrease ==
  ASSUME Kernel, [Next]_vars, ~ Restart
  PROVE  UNCHANGED crashes
<1>1. ASSUME NEW l \in Moved, Moves(l) PROVE UNCHANGED crashes
  BY <1>1, MoveIs
<1> QED
  BY <1>1
  DEF Next, ClaimSome, vars, Claim, Continue, Answer, Accept, SendRegister, Register, AskStop,
      StopAnswer, StopRecord

LEMMA StepOrphansFew ==
  ASSUME Kernel, Unborn, RowsInOrder, [CrashNext]_vars
  PROVE  /\ RowsInOrder'
         /\ IsFiniteSet(Orphaned' \ Orphaned) /\ Cardinality(Orphaned' \ Orphaned) \in Nat
         /\ Cardinality(Orphaned' \ Orphaned) <= 2 * (crashes' - crashes)
<1>0. crashes \in Nat
  BY LaunchAssumption DEF Kernel, TypeOK
<1>1. CASE [Next]_vars /\ ~ Restart
  <2>1. RowsInOrder' /\ Orphaned' \ Orphaned = {}
    BY <1>1, HandlersOrphanNone DEF NoneOrphaned
  <2>2. crashes' = crashes
    BY <1>1, CrashesOnlyIncrease
  <2>3. IsFiniteSet(Orphaned' \ Orphaned) /\ Cardinality(Orphaned' \ Orphaned) = 0
    BY <2>1, FS_EmptySet
  <2> QED BY <1>0, <2>1, <2>2, <2>3
<1>2. CASE \/ Restart \/ CrashInSpawnSucceeded \/ CrashInWorkFails
           \/ \E l \in Launches : CrashInAccept(l) \/ CrashInRegister(l)
  <2>1. PICK cut : TwoOrphanedAt(cut)
    BY <1>2, RestartsOrphanTwo
  <2> DEFINE New == Orphaned' \ Orphaned
             Two == {cut, worker.launch}
  <2>2. RowsInOrder' /\ New \subseteq Two /\ crashes' = crashes + 1
    BY <2>1 DEF TwoOrphanedAt
  <2>3. IsFiniteSet(Two) /\ Cardinality(Two) <= 2 /\ Cardinality(Two) \in Nat
    <3>1. IsFiniteSet({cut}) /\ Cardinality({cut}) = 1
      BY FS_Singleton
    <3>2. Two = {cut} \cup {worker.launch}
      OBVIOUS
    <3>3. /\ IsFiniteSet({cut} \cup {worker.launch})
          /\ \/ Cardinality({cut} \cup {worker.launch}) = 1
             \/ Cardinality({cut} \cup {worker.launch}) = 1 + 1
      BY <3>1, FS_AddElement
    <3> QED BY <3>2, <3>3
  <2>4. IsFiniteSet(New) /\ Cardinality(New) <= Cardinality(Two) /\ Cardinality(New) \in Nat
    BY <2>2, <2>3, FS_Subset, FS_CardinalityType
  <2>5. 2 * (crashes' - crashes) = 2
    BY <1>0, <2>2
  <2>6. Cardinality(New) <= 2
    <3> HIDE DEF New, Two
    <3> QED BY <2>3, <2>4
  <2> QED BY <2>2, <2>4, <2>5, <2>6
<1> QED BY <1>1, <1>2 DEF CrashNext

LEMMA InOrderHolds == CrashSpec => [](Kernel /\ Unborn /\ RowsInOrder)
<1>1. Init => RowsInOrder
  BY KindsAre DEF Init, RowsInOrder, InOrder, NoWork
<1>2. Kernel /\ Unborn /\ RowsInOrder /\ [CrashNext]_vars => RowsInOrder'
  BY StepOrphansFew
<1> QED BY <1>1, <1>2, UnbornHolds, PTL DEF CrashSpec

\* Whatever states and rows earlier crashes left (recoverLocalLaunchWork,
\* claimNextLaunchWork), no handler leaves an unfinished launch without work that
\* can be done: only a restart does, to two launches at most.
THEOREM OnlyRestartsLeaveBehind == CrashSpec => OnlyRestartsOrphan
<1>1. Kernel /\ Unborn /\ RowsInOrder /\ [CrashNext]_vars =>
        [Cardinality(Orphaned' \ Orphaned) <= 2 * (crashes' - crashes)]_vars
  BY StepOrphansFew
<1> QED BY <1>1, InOrderHolds, PTL DEF CrashSpec, OnlyRestartsOrphan

\* So few launches are ever left without such work: two for each restart.
THEOREM FewAreLeftBehind == CrashSpec => []OrphansAreFew
<1> DEFINE Few == IsFiniteSet(Orphaned) /\ OrphansAreFew
<1>1. Init => Few
  <2>1. Init => Orphaned = {} /\ crashes = 0
    BY DEF Init, Orphaned
  <2> QED BY <2>1, FS_EmptySet DEF OrphansAreFew
<1>2. Kernel /\ Unborn /\ RowsInOrder /\ Few /\ [CrashNext]_vars => Few'
  <2> SUFFICES ASSUME Kernel, Unborn, RowsInOrder, Few, [CrashNext]_vars PROVE Few'
    OBVIOUS
  <2> DEFINE Old == Orphaned
             New == Orphaned' \ Orphaned
  <2>1. /\ IsFiniteSet(New) /\ Cardinality(New) \in Nat
        /\ Cardinality(New) <= 2 * (crashes' - crashes)
    BY StepOrphansFew
  <2>2. IsFiniteSet(Old) /\ Cardinality(Old) \in Nat /\ Cardinality(Old) <= 2 * crashes
    BY FS_CardinalityType DEF OrphansAreFew
  <2>3. /\ IsFiniteSet(Old \cup New)
        /\ Cardinality(Old \cup New) = Cardinality(Old) + Cardinality(New) - Cardinality(Old \cap New)
    BY <2>1, <2>2, FS_Union
  <2>4. Cardinality(Old \cap New) = 0
    <3>1. Old \cap New = {}
      OBVIOUS
    <3> QED BY <3>1, FS_EmptySet
  <2>5. /\ IsFiniteSet(Orphaned') /\ Cardinality(Orphaned') \in Nat
        /\ Cardinality(Orphaned') <= Cardinality(Old \cup New)
        /\ Cardinality(Old \cup New) \in Nat
    <3>1. Orphaned' \subseteq Old \cup New
      OBVIOUS
    <3> QED BY <2>3, <3>1, FS_Subset, FS_CardinalityType
  <2>6. crashes \in Nat /\ crashes' \in Nat
    BY NextKeepsKernel, LaunchAssumption DEF Kernel, TypeOK
  <2>7. Cardinality(Orphaned') <= 2 * crashes'
    <3> HIDE DEF Old, New
    <3> QED BY <2>1, <2>2, <2>3, <2>4, <2>5, <2>6
  <2> QED BY <2>5, <2>7 DEF OrphansAreFew
<1> HIDE DEF Few
<1>3. CrashSpec => []Few
  BY <1>1, <1>2, InOrderHolds, PTL DEF CrashSpec
<1>4. Few => OrphansAreFew
  BY DEF Few
<1> QED BY <1>3, <1>4, PTL

-----------------------------------------------------------------------------
(***************************************************************************)
(* A stop holds once no spawn work is left (CrashSpec)                     *)
(***************************************************************************)
LEMMA StopStep ==
  ASSUME Kernel, Unborn, [CrashNext]_vars,
         NEW l \in Launches, state[l] = "stopped", session[l] = "absent", SpawnIsOver(l)
  PROVE  state'[l] = "stopped" /\ session'[l] = "absent" /\ SpawnIsOver(l)'
<1>1. /\ state \in [Launches -> States] /\ state' \in [Launches -> States]
      /\ work \in [Launches -> [Kinds -> WorkRow]]
      /\ session \in [Launches -> {"absent", "added", "started"}]
  BY NextKeepsKernel DEF Kernel, TypeOK
<1>2. state'[l] = "stopped"
  <2>1. Rank(state'[l]) >= Rank(state[l])
    BY StepClimbs DEF Ahead
  <2> QED BY <1>1, <2>1, Ranks DEF States
\* The worker may be at work on the launch's prompt, never on its spawn.
<1>3. /\ work[l]["spawn"].status \in {"done", "failed"}
      /\ worker.launch = l => worker \in Tasks /\ worker.kind = "prompt_confirm"
                                /\ worker.doing = "confirm"
  <2>1. work[l]["spawn"].status \in {"done", "failed"}
    BY DEF SpawnIsOver
  <2>2. worker.launch = l => worker # Idle
    BY LaunchAssumption DEF Idle
  <2>3. ~ (worker.launch = l /\ worker.kind = "spawn")
    BY <2>1, KindsAre DEF Kernel, WorkerOwnsRunning
  <2> QED BY <2>1, <2>2, <2>3, WorkInHand DEF Kernel, AsksFit, Kinds
<1>4. Landed(l) = {"absent"}
  BY <1>3 DEF Landed
<1>5. ASSUME NEW states, NEW rows \in [Launches -> [Kinds -> WorkRow]], NEW peers,
             RestartFrom(states, rows, peers), rows[l]["spawn"] = work[l]["spawn"]
      PROVE  session'[l] = "absent" /\ work'[l]["spawn"].status \in {"done", "failed"}
  <2>1. session'[l] \in Landed(l)
    BY <1>5 DEF RestartFrom
  <2>2. work'[l]["spawn"].status = IF rows[l]["spawn"].status = "running" THEN "queued"
                                   ELSE rows[l]["spawn"].status
    BY <1>5, RequeuedRows, KindsAre, Zenon DEF RestartFrom
  <2> QED BY <1>3, <1>4, <1>5, <2>1, <2>2
<1>6. session'[l] = "absent" /\ work'[l]["spawn"].status \in {"done", "failed"}
  <2>1. ASSUME NEW m \in Launches, NEW k \in Kinds, Claim(m, k)
        PROVE  work'[l]["spawn"] = work[l]["spawn"] /\ UNCHANGED session
    <3>1. ~ (m = l /\ k = "spawn")
      BY <1>3, <2>1 DEF Claim, MayClaim
    <3> QED BY <1>1, <2>1, <3>1, KindsAre DEF Claim
  <2>2. CASE Continue
    <3>1. worker # Idle
      BY <2>2 DEF Continue, Idle
    <3>2. worker.launch \in Launches /\ worker.kind \in Kinds
      BY <3>1, WorkInHand
    <3>3. CASE worker.launch # l
      BY <1>1, <1>3, <2>2, <3>2, <3>3 DEF Continue, SpawnSucceeded, Asks, WorkFails
    <3>4. CASE worker.launch = l
      <4>1. \/ work' = [work EXCEPT ![l] = Finished(l, "prompt_confirm", "done")]
            \/ WorkFails(l, "prompt_confirm")
        BY <1>3, <2>2, <3>4 DEF Continue
      <4>2. work'[l]["spawn"] = work[l]["spawn"]
        BY <1>1, <4>1, KindsAre DEF WorkFails, Finished
      <4> QED BY <1>3, <2>2, <4>2 DEF Continue
    <3> QED BY <3>3, <3>4
  <2>3. CASE Answer
    <3>1. worker # Idle
      BY <2>3 DEF Answer, Idle
    <3>2. session'[l] = "absent"
      <4>1. CASE worker.launch # l
        BY <1>1, <2>3, <3>1, <4>1, WorkInHand DEF Answer, Reply
      <4>2. CASE worker.launch = l
        <5>1. \E answer \in {"yes", "no"} : Reply(answer, l, session[l])
          BY <1>3, <2>3, <4>2 DEF Answer
        <5> QED BY <1>1, <5>1 DEF Reply
      <4> QED BY <4>1, <4>2
    <3> QED BY <1>3, <2>3, <3>2 DEF Answer
  <2>4. ASSUME NEW m \in Launches, Accept(m)
        PROVE  work'[l]["spawn"] = work[l]["spawn"] /\ UNCHANGED session
    <3>1. m # l
      BY <2>4 DEF Accept
    <3> QED BY <1>1, <2>4, <3>1 DEF Accept
  <2>5. ASSUME NEW m \in Launches,
               SendRegister(m) \/ Register(m) \/ AskStop(m) \/ StopAnswer(m) \/ StopRecord(m)
        PROVE  session'[l] = "absent" /\ UNCHANGED work
    BY <1>1, <2>5 DEF SendRegister, Register, AskStop, StopAnswer, StopRecord
  <2>6. CASE Restart \/ CrashInSpawnSucceeded
    BY <1>1, <1>5, <2>6 DEF Restart, CrashInSpawnSucceeded
  <2>7. CASE CrashInWorkFails
    <3> DEFINE rows == [work EXCEPT ![worker.launch] = Finished(worker.launch, worker.kind, "failed")]
    <3>1. RestartFrom(state, rows, peer) /\ worker # Idle
      BY <2>7 DEF CrashInWorkFails, Idle
    <3>2. worker.launch \in Launches /\ worker.kind \in Kinds
      BY <3>1, WorkInHand
    <3>3. rows[l]["spawn"] = work[l]["spawn"]
      BY <1>1, <1>3, <3>2, KindsAre DEF Finished
    <3>4. rows \in [Launches -> [Kinds -> WorkRow]]
      BY <1>1, <3>2, FinishedTyped
    <3> HIDE DEF rows
    <3> QED BY <1>5, <3>1, <3>3, <3>4
  <2>8. ASSUME NEW m \in Launches, CrashInAccept(m) \/ CrashInRegister(m)
        PROVE  \E states, peers : RestartFrom(states, work, peers)
    BY <2>8, Zenon DEF CrashInAccept, CrashInRegister
  <2>9. ASSUME NEW m \in Launches, CrashInAccept(m) \/ CrashInRegister(m)
        PROVE  session'[l] = "absent" /\ work'[l]["spawn"].status \in {"done", "failed"}
    BY <1>1, <1>5, <2>8, <2>9
  <2>10. CASE UNCHANGED vars
    BY <1>3, <2>10 DEF vars
  <2>11. ASSUME NEW m \in Moved, Moves(m) PROVE session'[l] = "absent" /\ UNCHANGED work
    BY <1>1, <2>11, MoveIs
  <2> QED
    BY <1>3, <2>1, <2>2, <2>3, <2>4, <2>5, <2>6, <2>7, <2>9, <2>10, <2>11
    DEF CrashNext, Next, ClaimSome
<1> QED BY <1>2, <1>6 DEF SpawnIsOver

\* A stopped launch whose session is gone and that has no spawn work left stays
\* down (the stop route, startLaunchWorker, recoverLocalLaunchWork), wherever the
\* daemon dies.
THEOREM StopsHold == CrashSpec => StopHolds
<1>1. Kernel /\ Unborn /\ [CrashNext]_vars =>
        [\A l \in Launches :
           state[l] = "stopped" /\ session[l] = "absent" /\ SpawnIsOver(l) =>
             state'[l] = "stopped" /\ session'[l] = "absent" /\ SpawnIsOver(l)']_vars
  BY StopStep
<1> QED BY <1>1, UnbornHolds, PTL DEF CrashSpec, StopHolds

-----------------------------------------------------------------------------
(***************************************************************************)
(* Life: the peers of launches implement PeerLife, as long as the daemon   *)
(* stops between two handlers (Spec).  A register that is cut after the    *)
(* upsert leaves a live peer of a launch that may be stopped, which the    *)
(* start that follows deletes: in CrashSpec both happen in one step.       *)
(***************************************************************************)
\* A step that makes the peers of some launches something, or leaves them alone.
LEMMA LifeBecomes ==
  ASSUME NEW ls \in SUBSET Launches, NEW to,
         \A l \in Launches : peer'[l].life = IF l \in ls THEN to ELSE peer[l].life
  PROVE  Life!Becomes(ls, to)
  BY DEF Life!Becomes

LEMMA LifeStays ==
  ASSUME \A l \in Launches : peer'[l].life = peer[l].life
  PROVE  UNCHANGED Life!vars
  BY DEF Life!vars

\* One launch's peer is replaced by another row.
LEMMA OneBecomes ==
  ASSUME Kernel, NEW l \in Launches, NEW row, peer' = [peer EXCEPT ![l] = row]
  PROVE  \A m \in Launches : peer'[m].life = IF m \in {l} THEN row.life ELSE peer[m].life
  BY DEF Kernel, TypeOK

\* The live ones of some peers are deleted.
LEMMA SomeExpire ==
  ASSUME NEW ls \in SUBSET Launches,
         \A l \in Launches : peer'[l].life = IF l \in ls /\ peer[l].life = "live" THEN "deleted"
                                             ELSE peer[l].life
  PROVE  Life!Next
<1>1. PICK ps \in SUBSET Launches : ps = {l \in ls : peer[l].life = "live"}
  OBVIOUS
<1>2. \A l \in Launches : peer'[l].life = IF l \in ps THEN "deleted" ELSE peer[l].life
  BY <1>1
<1>3. ps \subseteq Life!LiveOnes
  BY <1>1 DEF Life!LiveOnes
<1>4. Life!Expire(ps)
  BY <1>2, <1>3 DEF Life!Expire, Life!Becomes
<1> QED BY <1>4 DEF Life!Next

LEMMA OneRegisters ==
  ASSUME Kernel, NEW l \in Launches, NEW row, row.life = "live",
         peer' = [peer EXCEPT ![l] = row]
  PROVE  Life!Next
<1>1. \A m \in Launches : peer'[m].life = IF m \in {l} THEN "live" ELSE peer[m].life
  BY DEF Kernel, TypeOK
<1>2. Life!Becomes({l}, "live")
  BY <1>1 DEF Life!Becomes
<1> QED BY <1>2 DEF Life!Register, Life!Next

LEMMA RegisteredLives ==
  ASSUME Kernel, NEW l \in Launches, Register(l)
  PROVE  Life!Next
<1>1. PICK up \in Upserted(peer[l]) : peer' \in {[peer EXCEPT ![l] = up],
                                                [peer EXCEPT ![l] = Joined(up)]}
  BY Zenon DEF Register
<1>2. up.life = "live" /\ Joined(up).life = "live"
  BY <1>1, UpsertedTyped, RowsChange DEF Kernel, TypeOK
<1> QED BY <1>1, <1>2, OneRegisters

\* What else moves a peer: a leave, a join and a rename leave it as alive as it was.
LEMMA MovesLive ==
  ASSUME Kernel, NEW l \in Moved, Moves(l)
  PROVE  Life!Next \/ UNCHANGED Life!vars
<1>1. l \in Launches /\ peer \in [Launches -> PeerRow] /\ peer[l] \in PeerRow
  BY LaunchAssumption DEF Kernel, TypeOK
<1>2. ASSUME NEW row, row.life = peer[l].life, peer' = [peer EXCEPT ![l] = row]
      PROVE  UNCHANGED Life!vars
  BY <1>1, <1>2, OneBecomes, LifeStays
<1>3. CASE Leave(l)
  BY <1>1, <1>2, <1>3, RowsChange DEF Leave, PeerBecomes
<1>4. ASSUME NEW a \in {"launch", "other"}, Join(l, a) \/ Rename(l, a) PROVE UNCHANGED Life!vars
  <2>1. [peer[l] EXCEPT !.seat = "active", !.alias = a].life = peer[l].life
    BY <1>1 DEF PeerRow
  <2>2. [peer[l] EXCEPT !.alias = a].life = peer[l].life
    BY <1>1 DEF PeerRow
  <2> QED BY <1>2, <1>4, <2>1, <2>2 DEF Join, Rename, PeerBecomes
<1>5. ASSUME peer' = [peer EXCEPT ![l] = Buried(peer[l])]
      PROVE  Life!Becomes({l}, "deleted")
  <2>1. Buried(peer[l]).life = "deleted"
    BY <1>1, RowsChange
  <2> QED BY <1>1, <1>5, <2>1, OneBecomes, LifeBecomes
<1>6. CASE Delete(l)
  <2>1. Life!Delete(l)
    BY <1>1, <1>5, <1>6 DEF Delete, Present, PeerBecomes, Life!Delete
  <2> QED BY <1>1, <2>1 DEF Life!Next
<1>7. CASE SweepExpired(l)
  <2>1. Life!Delete(l)
    BY <1>1, <1>5, <1>7 DEF SweepExpired, PeerBecomes, Life!Delete
  <2> QED BY <1>1, <2>1 DEF Life!Next
<1>8. CASE RegisterElsewhere(l)
  <2>1. PICK up \in Upserted(peer[l]) : peer' = [peer EXCEPT ![l] = up]
    BY <1>8 DEF RegisterElsewhere, PeerBecomes
  <2>2. up.life = "live"
    BY <1>1, <2>1, UpsertedTyped
  <2> QED BY <1>1, <2>1, <2>2, OneRegisters
<1>9. CASE BeginArchive(l) \/ Reaped(l)
  BY <1>9, LifeStays DEF BeginArchive, Reaped
<1>10. CASE FinishArchive(l)
  <2> DEFINE row == [peer[l] EXCEPT !.life = IF @ = "live" THEN "archived" ELSE @,
                                    !.seat = IF @ = "active" THEN "reserved" ELSE @]
  <2>1. peer' = [peer EXCEPT ![l] = row]
    BY <1>10 DEF FinishArchive, PeerBecomes
  <2>2. row.life = IF peer[l].life = "live" THEN "archived" ELSE peer[l].life
    BY <1>1 DEF PeerRow
  <2> HIDE DEF row
  <2>3. CASE peer[l].life = "live"
    <3>1. Life!Archive(l)
      BY <1>1, <2>1, <2>2, <2>3, OneBecomes, LifeBecomes DEF Life!Archive
    <3> QED BY <1>1, <3>1 DEF Life!Next
  <2>4. CASE peer[l].life # "live"
    BY <1>2, <2>1, <2>2, <2>4
  <2> QED BY <2>3, <2>4
<1> QED BY <1>3, <1>4, <1>6, <1>7, <1>8, <1>9, <1>10 DEF Moves

LEMMA LifeStep ==
  ASSUME Kernel, [Next]_vars
  PROVE  [Life!Next]_(Life!vars)
<1>1. peer \in [Launches -> PeerRow] /\ state \in [Launches -> States]
  BY DEF Kernel, TypeOK
<1>2. ASSUME UNCHANGED peer PROVE UNCHANGED Life!vars
  BY <1>2 DEF Life!vars
<1>3. ASSUME NEW l \in Launches, StopRecord(l) PROVE Life!Next
  <2>1. peer' = [peer EXCEPT ![l] = Deactivated(peer[l])]
    BY <1>3 DEF StopRecord
  <2>2. \A m \in Launches :
          peer'[m].life = IF m \in {l} /\ peer[m].life = "live" THEN "deleted" ELSE peer[m].life
    BY <1>1, <2>1, RowsChange
  <2> QED BY <2>2, SomeExpire
<1>4. CASE Restart
  <2> DEFINE swept == {l \in Launches : state[l] = "stopped"}
  <2>1. PICK ephemeral \in SUBSET (Grouped \cap Moved) :
          peer' = [l \in Launches |->
                     IF state[l] = "stopped"
                     THEN Deactivated(IF l \in ephemeral THEN Pruned(peer[l]) ELSE peer[l])
                     ELSE IF l \in ephemeral THEN Pruned(peer[l]) ELSE peer[l]]
    BY <1>4 DEF Restart, RestartFrom
  <2>2. ASSUME NEW l \in Launches
        PROVE  LET kept == IF l \in ephemeral THEN Pruned(peer[l]) ELSE peer[l]
               IN  /\ kept \in PeerRow /\ kept.life = peer[l].life
                   /\ Deactivated(kept).life =
                        IF kept.life = "live" THEN "deleted" ELSE kept.life
    BY <1>1, RowsChange
  <2>3. \A l \in Launches :
          peer'[l].life = IF l \in swept /\ peer[l].life = "live" THEN "deleted"
                          ELSE peer[l].life
    BY <2>1, <2>2
  <2>4. swept \in SUBSET Launches
    OBVIOUS
  <2> HIDE DEF swept
  <2> QED BY <2>3, <2>4, SomeExpire
<1>5. ASSUME NEW l \in Launches, NEW k \in Kinds, Claim(l, k) PROVE UNCHANGED peer
  BY <1>5 DEF Claim
<1>6. ASSUME NEW l \in Launches, Accept(l) \/ SendRegister(l) \/ AskStop(l) \/ StopAnswer(l)
      PROVE  UNCHANGED peer
  BY <1>6 DEF Accept, SendRegister, AskStop, StopAnswer
<1>7. ASSUME Continue \/ Answer PROVE UNCHANGED peer
  BY <1>7 DEF Continue, Answer
<1>8. ASSUME UNCHANGED vars PROVE UNCHANGED peer
  BY <1>8 DEF vars
<1>9. ASSUME NEW l \in Moved, Moves(l) PROVE [Life!Next]_(Life!vars)
  BY <1>9, MovesLive
<1> QED
  BY <1>2, <1>3, <1>4, <1>5, <1>6, <1>7, <1>8, <1>9, RegisteredLives DEF Next, ClaimSome

LEMMA LifeInit == Init => Life!Init
  BY DEF Init, NoPeer, Life!Init, Life!LiveOnes

\* The peers of launches live as PeerLife says: stops (StopRecord), deletions and
\* sweeps delete them, an archive that awaited the backend archives what is there
\* by then (FinishArchive) and only a registration brings them back, wherever
\* worker, backend and handlers stand meanwhile.
THEOREM LaunchKeepsLife == Spec => LifeSpec
<1>1. Kernel /\ [Next]_vars => Kernel'
  BY NextKeepsKernel DEF CrashNext
<1>2. Kernel /\ [Next]_vars => [Life!Next]_(Life!vars)
  BY LifeStep
<1> QED BY <1>1, <1>2, LifeInit, InitKernel, PTL DEF Spec, LifeSpec, Life!Spec

=============================================================================
