------------------------------- MODULE Launch -------------------------------
(***************************************************************************)
(* The durable launch kernel: launch intents (table launch_intents), the   *)
(* work queue (launch_work), the one launch worker of the daemon, the      *)
(* session backend it asks, the agents that register once they run, the    *)
(* operator who stops them, and what else moves their peers and seats.     *)
(*                                                                         *)
(* Handlers run on one thread.  A request to the backend is awaited: the   *)
(* worker asks, the backend answers (its effect happens then), and the     *)
(* worker continues in a later step, with every other handler in between.  *)
(* Each launch has a peer id and a backend title of its own.               *)
(***************************************************************************)
EXTENDS Integers, FiniteSets, Sequences

CONSTANTS
  Launches,        \* launch_id
  Claude,          \* launches of claude: their start-up prompt is confirmed
  Grouped,         \* launches with a target_group
  Moved,           \* bound: launches whose peers others than the kernel move, too
  SpawnAttempts,   \* max_attempts of spawn work
  PromptAttempts,  \* max_attempts of prompt_confirm work
  None,            \* no launch
  MaxCrashes       \* bound: restarts of the daemon in a behaviour

ASSUME LaunchAssumption ==
  /\ Claude \subseteq Launches
  /\ Grouped \subseteq Launches
  /\ Moved \subseteq Launches
  /\ SpawnAttempts \in Nat \ {0}
  /\ PromptAttempts \in Nat \ {0}
  /\ None \notin Launches
  /\ MaxCrashes \in Nat

VARIABLES
  state,    \* launch_intents.state, "none" before there is an intent
  work,     \* launch_work rows by launch and kind
  worker,   \* what the launch worker awaits
  session,  \* the backend's session of the launch's title
  peer,     \* the launch's peer, its seat in the target group and the seat's alias
  calls,    \* launches whose agent has a register call on its way
  stops,    \* progress of an operator's stop or archive, one at a time by launch
  crashes   \* number of restarts so far

vars == <<state, work, worker, session, peer, calls, stops, crashes>>

\* LAUNCH_STATES, in the order of the source, after "none".
Order == <<"none", "accepted", "spawning", "spawned", "prompt_waiting", "prompt_accepted",
           "registered", "reconciling", "joined", "running", "registered_unjoined",
           "stale", "failed", "stopped">>
States == {"none", "accepted", "spawning", "spawned", "prompt_waiting", "prompt_accepted",
           "registered", "reconciling", "joined", "running", "registered_unjoined",
           "stale", "failed", "stopped"}

Kinds == {"spawn", "prompt_confirm"}
MaxAttempts(k) == IF k = "spawn" THEN SpawnAttempts ELSE PromptAttempts
WorkRow == [status : {"none", "queued", "running", "done", "failed"}, attempts : Nat]
NoWork  == [status |-> "none", attempts |-> 0]

Idle  == [launch |-> None, kind |-> "none", doing |-> "none", reply |-> "none"]
Tasks == [launch : Launches, kind : Kinds,
          doing : {"list", "add", "start", "remove", "relist", "confirm"},
          reply : {"awaited", "yes", "no"}]

\* A seat is left by a leave, an alias that another took, or a pruned group; it
\* is dead when its left_at is its owner's deleted_at.  The alias is the launch's
\* or another one.
PeerRow == [life  : {"unknown", "live", "archived", "deleted"},
            seat  : {"none", "active", "reserved", "dead", "left"},
            alias : {"launch", "other"}]
NoPeer  == [life |-> "unknown", seat |-> "none", alias |-> "launch"]

TypeOK ==
  /\ state \in [Launches -> States]
  /\ work \in [Launches -> [Kinds -> WorkRow]]
  /\ \A l \in Launches, k \in Kinds : work[l][k].attempts <= MaxAttempts(k)
  /\ worker \in Tasks \cup {Idle}
  /\ session \in [Launches -> {"absent", "added", "started"}]
  /\ peer \in [Launches -> PeerRow]
  /\ calls \subseteq Launches
  /\ stops \in [Launches -> {"none", "asked", "removed", "reaping", "reaped"}]
  /\ crashes \in 0..MaxCrashes

-----------------------------------------------------------------------------
(***************************************************************************)
(* transitionLaunch                                                        *)
(***************************************************************************)
Terminal == {"running", "registered_unjoined", "stale", "failed", "stopped"}

Failable == {"accepted", "spawning", "spawned", "prompt_waiting", "prompt_accepted",
             "registered", "reconciling"}

Edges ==
  {<<"accepted", "spawn_started", "spawning">>,
   <<"spawning", "spawn_succeeded", "spawned">>,
   <<"spawning", "spawn_succeeded_prompt", "prompt_waiting">>,
   <<"prompt_waiting", "prompt_accepted", "prompt_accepted">>,
   <<"spawned", "registered", "registered">>,
   <<"prompt_waiting", "registered", "registered">>,
   <<"prompt_accepted", "registered", "registered">>,
   <<"registered", "reconcile_started", "reconciling">>,
   <<"registered", "running_observed", "running">>,
   <<"reconciling", "join_succeeded", "joined">>,
   <<"reconciling", "join_failed", "registered_unjoined">>,
   <<"joined", "running_observed", "running">>}
  \cup {<<s, "failed", "failed">> : s \in Failable}
  \cup {<<s, "stopped", "stopped">> : s \in States \ {"none", "failed", "stopped"}}

\* What an event makes of each state.
transitionLaunch(e) ==
  [s \in States |-> IF \E t \in States : <<s, e, t>> \in Edges
                    THEN CHOOSE t \in States : <<s, e, t>> \in Edges
                    ELSE s]

\* Mutant of After: prompt acceptance is written on the row read before the await.
AfterStaleRow(s, e) ==
  IF e = "prompt_accepted" THEN "prompt_accepted" ELSE transitionLaunch(e)[s]

\* applyTransition and applyLaunchTransition: an event that the state does not
\* allow is logged and leaves the row as it is.
After(s, e) == transitionLaunch(e)[s]

-----------------------------------------------------------------------------
(***************************************************************************)
(* POST /agent-sessions/launch                                             *)
(***************************************************************************)
Enqueued(row) == IF row.status = "none" THEN [status |-> "queued", attempts |-> 0] ELSE row

Accept(l) ==
  /\ state[l] = "none"
  /\ state' = [state EXCEPT ![l] = "accepted"]
  /\ work' = [work EXCEPT ![l]["spawn"] = Enqueued(@)]
  /\ UNCHANGED <<worker, session, peer, calls, stops, crashes>>

-----------------------------------------------------------------------------
(***************************************************************************)
(* The launch worker: one piece of work at a time                          *)
(***************************************************************************)
Ask(l, k, what) == [launch |-> l, kind |-> k, doing |-> what, reply |-> "awaited"]

\* The states in which there is nothing to spawn, and those in which a prompt
\* may still be waiting.
SpawnOver  == {"prompt_waiting", "prompt_accepted", "registered", "reconciling", "joined",
               "running"}
PromptOpen == {"prompt_waiting", "spawned"}

\* Mutant of MayClaim: finished work that has attempts left is claimed again.
MayClaimDone(row, k) == row.status \in {"queued", "done"} /\ row.attempts < MaxAttempts(k)

\* The rows that claimNextLaunchWork selects.  With one worker, no row is
\* running when it claims.
MayClaim(row, k) == row.status = "queued" /\ row.attempts < MaxAttempts(k)

\* claimNextLaunchWork and the work's first stretch, up to its first await or,
\* when there is nothing to do, to completeLaunchWork.  Which of the queued rows
\* is due first is left open.
Claim(l, k) ==
  LET idle == IF k = "spawn" THEN state[l] \in SpawnOver ELSE state[l] \notin PromptOpen
      row  == [status   |-> IF idle THEN "done" ELSE "running",
               attempts |-> work[l][k].attempts + 1]
  IN  /\ worker = Idle
      /\ MayClaim(work[l][k], k)
      /\ work' = [work EXCEPT ![l][k] = row]
      /\ worker' = IF idle THEN Idle
                   ELSE Ask(l, k, IF k = "spawn" THEN "list" ELSE "confirm")
      /\ state' = IF k = "spawn" THEN [state EXCEPT ![l] = After(@, "spawn_started")]
                  ELSE state
      /\ UNCHANGED <<session, peer, calls, stops, crashes>>

Finished(l, k, status) == [work[l] EXCEPT ![k].status = status]

SpawnedEvent(l) == IF l \in Claude THEN "spawn_succeeded_prompt" ELSE "spawn_succeeded"

\* Mutant of SpawnSucceeded: the prompt's work is not enqueued.
SpawnSucceededQuietly(l) ==
  /\ state' = [state EXCEPT ![l] = After(@, SpawnedEvent(l))]
  /\ work' = [work EXCEPT ![l] = Finished(l, "spawn", "done")]
  /\ worker' = Idle

\* markSpawnSucceeded on the row as it is now, then completeLaunchWork.
SpawnSucceeded(l) ==
  /\ state' = [state EXCEPT ![l] = After(@, SpawnedEvent(l))]
  /\ work' = [work EXCEPT ![l] =
                [Finished(l, "spawn", "done") EXCEPT !["prompt_confirm"] =
                   IF l \in Claude THEN Enqueued(@) ELSE @]]
  /\ worker' = Idle

\* Mutant of WorkFails: the first failure fails the launch.
WorkFailsAtOnce(l, k) ==
  LET last == work[l][k].attempts >= MaxAttempts(k)
  IN  /\ work' = [work EXCEPT ![l] = Finished(l, k, IF last THEN "failed" ELSE "queued")]
      /\ state' = [state EXCEPT ![l] = After(@, "failed")]
      /\ worker' = Idle

\* Mutant of WorkFails: the launch is not told that its last attempt failed.
WorkFailsSilently(l, k) ==
  LET last == work[l][k].attempts >= MaxAttempts(k)
  IN  /\ work' = [work EXCEPT ![l] = Finished(l, k, IF last THEN "failed" ELSE "queued")]
      /\ worker' = Idle
      /\ UNCHANGED state

\* failLaunchWork; when it was the last attempt, the launch fails.
WorkFails(l, k) ==
  LET last == work[l][k].attempts >= MaxAttempts(k)
  IN  /\ work' = [work EXCEPT ![l] = Finished(l, k, IF last THEN "failed" ELSE "queued")]
      /\ state' = IF last THEN [state EXCEPT ![l] = After(@, "failed")] ELSE state
      /\ worker' = Idle

Asks(what) ==
  /\ worker' = Ask(worker.launch, worker.kind, what)
  /\ UNCHANGED <<state, work>>

\* The worker continues with the backend's reply.
Continue ==
  LET l == worker.launch
      answered(what, reply) == worker.doing = what /\ worker.reply = reply
  IN  /\ \/ answered("list", "yes")    /\ SpawnSucceeded(l)
         \/ answered("list", "no")     /\ Asks("add")
         \/ answered("add", "yes")     /\ Asks("start")
         \/ answered("add", "no")      /\ Asks("relist")
         \/ answered("start", "yes")   /\ SpawnSucceeded(l)
         \/ answered("start", "no")    /\ Asks("remove")
         \/ answered("remove", "yes")  /\ Asks("relist")
         \/ answered("relist", "yes")  /\ SpawnSucceeded(l)
         \/ answered("relist", "no")   /\ WorkFails(l, "spawn")
         \/ answered("confirm", "yes")
            /\ state' = [state EXCEPT ![l] = After(@, "prompt_accepted")]
            /\ work' = [work EXCEPT ![l] = Finished(l, "prompt_confirm", "done")]
            /\ worker' = Idle
         \/ answered("confirm", "no")  /\ WorkFails(l, "prompt_confirm")
      /\ UNCHANGED <<session, peer, calls, stops, crashes>>

-----------------------------------------------------------------------------
(***************************************************************************)
(* The session backend (the aoe command line): any command may fail.       *)
(***************************************************************************)
Reply(answer, l, to) ==
  /\ worker' = [worker EXCEPT !.reply = answer]
  /\ session' = [session EXCEPT ![l] = to]

Answer ==
  LET l == worker.launch
      s == session[l]
  IN  /\ worker.reply = "awaited"
      /\ \/ worker.doing \in {"list", "relist"} /\ s # "absent" /\ Reply("yes", l, s)
         \/ worker.doing \in {"list", "relist"} /\ Reply("no", l, s)
         \/ worker.doing = "add" /\ s = "absent" /\ Reply("yes", l, "added")
         \/ worker.doing = "start" /\ s = "added" /\ Reply("yes", l, "started")
         \/ worker.doing = "remove" /\ \E to \in {s, "absent"} : Reply("yes", l, to)
         \/ worker.doing = "confirm" /\ s = "started" /\ Reply("yes", l, s)
         \/ worker.doing \in {"add", "start", "confirm"} /\ Reply("no", l, s)
      /\ UNCHANGED <<state, work, peer, calls, stops, crashes>>

-----------------------------------------------------------------------------
(***************************************************************************)
(* The agent registers itself with its launch id when its session starts.  *)
(***************************************************************************)
SendRegister(l) ==
  /\ session[l] = "started"
  /\ calls' = calls \cup {l}
  /\ UNCHANGED <<state, work, worker, session, peer, stops, crashes>>

\* The row of a seat that its owner lost.
Unseated(p) == [p EXCEPT !.seat = "left", !.alias = "launch"]

\* The row of a peer that joined with the launch's alias.
Joined(p) == [p EXCEPT !.seat = "active", !.alias = "launch"]

\* Mutant of Upserted: the peer's row is replaced, and its seats cascade.
UpsertedAnew(p) == {[NoPeer EXCEPT !.life = "live"]}

\* upsertPeer: a peer that was archived or deleted gets back the seat it had; a
\* dead one only unless another peer took its alias meanwhile.
Upserted(p) ==
  LET live == [p EXCEPT !.life = "live"]
  IN  CASE p.seat = "dead"     -> {[live EXCEPT !.seat = "active"], Unseated(live)}
        [] p.seat = "reserved" -> {[live EXCEPT !.seat = "active"]}
        [] OTHER               -> {live}

\* Mutant of Unreconciled: a launch whose prompt still waits is skipped.
UnreconciledPrompt == {"prompt_waiting", "running", "failed", "stale", "stopped"}

\* reconcileDurableLaunch does nothing for these.
Unreconciled == {"running", "failed", "stale", "stopped"}

Registered(l)  == After(state[l], "registered")
Reconciling(l) == After(Registered(l), "reconcile_started")

\* POST /agent-sessions/register with the launch id and the pinned peer id.
Register(l) ==
  /\ l \in calls
  /\ calls' = calls \ {l}
  /\ \E up \in Upserted(peer[l]) :
       \/ /\ state[l] \in Unreconciled
          /\ peer' = [peer EXCEPT ![l] = up]
          /\ state' = state
       \/ /\ state[l] \notin Unreconciled
          /\ l \notin Grouped
          /\ peer' = [peer EXCEPT ![l] = up]
          /\ state' = [state EXCEPT ![l] = After(Registered(l), "running_observed")]
       \/ /\ state[l] \notin Unreconciled
          /\ l \in Grouped
          /\ peer' = [peer EXCEPT ![l] = Joined(up)]
          /\ state' = [state EXCEPT ![l] =
                         After(After(Reconciling(l), "join_succeeded"), "running_observed")]
       \/ /\ state[l] \notin Unreconciled
          /\ l \in Grouped
          /\ up # Joined(up)  \* joining may fail only if there is something to join
          /\ peer' = [peer EXCEPT ![l] = up]
          /\ state' = [state EXCEPT ![l] = After(Reconciling(l), "join_failed")]
  /\ UNCHANGED <<work, worker, session, stops, crashes>>

-----------------------------------------------------------------------------
(***************************************************************************)
(* POST /agent-sessions/stop, with the title or the peer of the launch     *)
(***************************************************************************)
AskStop(l) ==
  /\ state[l] # "none"
  /\ stops[l] = "none"
  /\ stops' = [stops EXCEPT ![l] = "asked"]
  /\ UNCHANGED <<state, work, worker, session, peer, calls, crashes>>

\* The backend removes the session, or refuses and the request fails.
StopAnswer(l) ==
  /\ stops[l] = "asked"
  /\ \/ /\ session[l] # "absent"
        /\ session' = [session EXCEPT ![l] = "absent"]
        /\ stops' = [stops EXCEPT ![l] = "removed"]
     \/ /\ stops' = [stops EXCEPT ![l] = "none"]
        /\ UNCHANGED session
  /\ UNCHANGED <<state, work, worker, peer, calls, crashes>>

\* softDeletePeerIfPresent, and what sweepExpiredPeers does to a row.
Buried(p) ==
  [p EXCEPT !.life = "deleted",
            !.seat = IF @ \in {"active", "reserved"} THEN "dead" ELSE @]

\* deactivateStoppedLaunchPeer: an archived peer stays.
Deactivated(p) == IF p.life = "live" THEN Buried(p) ELSE p

StopRecord(l) ==
  /\ stops[l] = "removed"
  /\ stops' = [stops EXCEPT ![l] = "none"]
  /\ state' = [state EXCEPT ![l] = After(@, "stopped")]
  /\ peer' = [peer EXCEPT ![l] = Deactivated(@)]
  /\ UNCHANGED <<work, worker, session, calls, crashes>>

-----------------------------------------------------------------------------
(***************************************************************************)
(* What moves a launch's peer and seat besides the kernel: none of it      *)
(* touches launch_intents.                                                 *)
(***************************************************************************)
PeerBecomes(l, row) ==
  /\ peer' = [peer EXCEPT ![l] = row]
  /\ UNCHANGED <<state, work, worker, session, calls, crashes>>

\* A peer that getPeer finds.
Present(l) == peer[l].life \in {"live", "archived"}

\* POST /groups/:name/leave
Leave(l) ==
  /\ peer[l].seat = "active"
  /\ PeerBecomes(l, Unseated(peer[l]))
  /\ UNCHANGED stops

\* POST /groups/:name/join by the agent, with any alias; an active member with
\* that alias is answered at once.
Join(l, a) ==
  /\ l \in Grouped
  /\ Present(l)
  /\ peer[l].seat = "active" => peer[l].alias # a
  /\ PeerBecomes(l, [peer[l] EXCEPT !.seat = "active", !.alias = a])
  /\ UNCHANGED stops

\* POST /groups/:name/rename
Rename(l, a) ==
  /\ peer[l].seat = "active"
  /\ peer[l].alias # a
  /\ PeerBecomes(l, [peer[l] EXCEPT !.alias = a])
  /\ UNCHANGED stops

\* DELETE /peers/:id
Delete(l) ==
  /\ Present(l)
  /\ PeerBecomes(l, Buried(peer[l]))
  /\ UNCHANGED stops

\* sweepExpiredPeers, when the lease lapsed longer ago than the retention.
SweepExpired(l) ==
  /\ peer[l].life = "live"
  /\ PeerBecomes(l, Buried(peer[l]))
  /\ UNCHANGED stops

\* The peer registers without the launch id, as a session resumed in the
\* foreground does.
RegisterElsewhere(l) ==
  /\ peer[l].life # "unknown"
  /\ \E up \in Upserted(peer[l]) : PeerBecomes(l, up)
  /\ UNCHANGED stops

\* archiveSessionApply: the backend is asked to remove the session, and removes
\* it or refuses; either way the peer is archived then, with the seat it has
\* by now.
BeginArchive(l) ==
  /\ peer[l].life = "live"
  /\ stops[l] = "none"
  /\ stops' = [stops EXCEPT ![l] = "reaping"]
  /\ UNCHANGED <<state, work, worker, session, peer, calls, crashes>>

Reaped(l) ==
  /\ stops[l] = "reaping"
  /\ session' \in {session, [session EXCEPT ![l] = "absent"]}
  /\ stops' = [stops EXCEPT ![l] = "reaped"]
  /\ UNCHANGED <<state, work, worker, peer, calls, crashes>>

FinishArchive(l) ==
  /\ stops[l] = "reaped"
  /\ stops' = [stops EXCEPT ![l] = "none"]
  /\ PeerBecomes(l, [peer[l] EXCEPT !.life = IF @ = "live" THEN "archived" ELSE @,
                                    !.seat = IF @ = "active" THEN "reserved" ELSE @])

Moves(l) ==
  \/ Leave(l)
  \/ \E a \in {"launch", "other"} : Join(l, a) \/ Rename(l, a)
  \/ Delete(l)
  \/ SweepExpired(l)
  \/ RegisterElsewhere(l)
  \/ BeginArchive(l)
  \/ Reaped(l)
  \/ FinishArchive(l)

-----------------------------------------------------------------------------
(***************************************************************************)
(* The daemon dies and starts again.  What it held in memory is lost, the  *)
(* command it had given to the backend may still take effect, running work *)
(* goes back to the queue with its attempts, the peers of stopped launches *)
(* are swept, and a target group that is ephemeral is pruned.              *)
(***************************************************************************)
Landed(l) ==
  LET asked(what) == worker.launch = l /\ worker.doing = what /\ worker.reply = "awaited"
  IN  {session[l]}
      \cup (IF asked("add") /\ session[l] = "absent" THEN {"added"} ELSE {})
      \cup (IF asked("start") /\ session[l] = "added" THEN {"started"} ELSE {})
      \cup (IF asked("remove") \/ stops[l] \in {"asked", "reaping"} THEN {"absent"} ELSE {})

\* Mutant of Requeued: rows the dead worker had claimed stay running.
RequeuedNothing(rows) == rows

Requeued(rows) ==
  [l \in Launches |-> [k \in Kinds |->
     IF rows[l][k].status = "running" THEN [rows[l][k] EXCEPT !.status = "queued"]
     ELSE rows[l][k]]]

\* pruneEphemeralGroups: the seats of a pruned group cascade; a launch's group is
\* ephemeral if somebody has created it so before the launch needed it.
Pruned(p) == IF p.seat = "none" THEN p ELSE Unseated(p)

\* The daemon died after it had written states, rows and peers, and restarts.
RestartFrom(states, rows, peers) ==
  /\ crashes < MaxCrashes
  /\ crashes' = crashes + 1
  /\ state' = states
  /\ work' = Requeued(rows)
  /\ \E ephemeral \in SUBSET (Grouped \cap Moved) :
       LET kept(l) == IF l \in ephemeral THEN Pruned(peers[l]) ELSE peers[l]
       IN  peer' = [l \in Launches |->
                      IF states[l] = "stopped" THEN Deactivated(kept(l)) ELSE kept(l)]
  /\ session' \in {s \in [Launches -> {"absent", "added", "started"}] :
                     \A l \in Launches : s[l] \in Landed(l)}
  /\ worker' = Idle
  /\ stops' = [l \in Launches |-> "none"]
  /\ calls' = {}

Restart == RestartFrom(state, work, peer)

-----------------------------------------------------------------------------
Init ==
  /\ state = [l \in Launches |-> "none"]
  /\ work = [l \in Launches |-> [k \in Kinds |-> NoWork]]
  /\ worker = Idle
  /\ session = [l \in Launches |-> "absent"]
  /\ peer = [l \in Launches |-> NoPeer]
  /\ calls = {}
  /\ stops = [l \in Launches |-> "none"]
  /\ crashes = 0

ClaimSome == \E l \in Launches, k \in Kinds : Claim(l, k)

Next ==
  \/ ClaimSome
  \/ Continue
  \/ Answer
  \/ \E l \in Launches :
       \/ Accept(l)
       \/ SendRegister(l)
       \/ Register(l)
       \/ AskStop(l)
       \/ StopAnswer(l)
       \/ StopRecord(l)
  \/ \E l \in Moved : Moves(l)
  \/ Restart

Spec == Init /\ [][Next]_vars

\* The worker polls on a timer, a promise's continuation runs, a command of the
\* backend ends, and a handler that has begun goes on.  Nothing obliges an agent
\* to register or an operator to act.
Fairness ==
  /\ WF_vars(ClaimSome)
  /\ WF_vars(Continue)
  /\ WF_vars(Answer)
  /\ \A l \in Launches :
       WF_vars(Register(l)) /\ WF_vars(StopAnswer(l)) /\ WF_vars(StopRecord(l))
  /\ \A l \in Moved : WF_vars(Reaped(l)) /\ WF_vars(FinishArchive(l))

FairSpec == Spec /\ Fairness

-----------------------------------------------------------------------------
(***************************************************************************)
(* The handlers' statements commit one by one: the daemon may also die     *)
(* between two of them.                                                    *)
(***************************************************************************)

\* launch() wrote the intent and not yet the spawn work.
CrashInAccept(l) ==
  /\ state[l] = "none"
  /\ RestartFrom([state EXCEPT ![l] = "accepted"], work, peer)

\* markSpawnSucceeded moved the state and did not yet enqueue prompt_confirm.
CrashInSpawnSucceeded ==
  LET l == worker.launch
  IN  /\ worker.doing \in {"list", "start", "relist"}
      /\ worker.reply = "yes"
      /\ RestartFrom([state EXCEPT ![l] = After(@, SpawnedEvent(l))], work, peer)

\* failLaunchWork failed the work and the launch was not yet failed.
CrashInWorkFails ==
  LET l == worker.launch
      k == worker.kind
  IN  /\ worker.doing \in {"relist", "confirm"}
      /\ worker.reply = "no"
      /\ work[l][k].attempts >= MaxAttempts(k)
      /\ RestartFrom(state, [work EXCEPT ![l] = Finished(l, k, "failed")], peer)

\* The register was cut after the peer's upsert, after one of the transitions
\* of the reconciliation, or after the join.
CrashInRegister(l) ==
  /\ l \in calls
  /\ \E up \in Upserted(peer[l]) :
       \/ RestartFrom(state, work, [peer EXCEPT ![l] = up])
       \/ /\ state[l] \notin Unreconciled
          /\ RestartFrom([state EXCEPT ![l] = Registered(l)], work, [peer EXCEPT ![l] = up])
       \/ /\ state[l] \notin Unreconciled
          /\ l \in Grouped
          /\ \E p \in {up, Joined(up)} :
               RestartFrom([state EXCEPT ![l] = Reconciling(l)], work, [peer EXCEPT ![l] = p])
       \/ /\ state[l] \notin Unreconciled
          /\ l \in Grouped
          /\ RestartFrom([state EXCEPT ![l] = After(Reconciling(l), "join_succeeded")], work,
                         [peer EXCEPT ![l] = Joined(up)])

CrashNext ==
  \/ Next
  \/ CrashInSpawnSucceeded
  \/ CrashInWorkFails
  \/ \E l \in Launches : CrashInAccept(l) \/ CrashInRegister(l)

CrashSpec == Init /\ [][CrashNext]_vars

-----------------------------------------------------------------------------
(***************************************************************************)
(* Safety invariants                                                       *)
(***************************************************************************)

\* The work that is marked running is the work the worker awaits something for:
\* no row stays claimed by a worker that is gone, and none is worked on twice.
WorkerOwnsRunning ==
  \A l \in Launches, k \in Kinds :
    work[l][k].status = "running" <=> worker.launch = l /\ worker.kind = k

\* A launch that is not spawned yet has spawn work, and one whose prompt waits
\* has prompt work, in the queue or in hand.
UnfinishedHasWork ==
  \A l \in Launches :
    /\ state[l] \in {"accepted", "spawning"} =>
         work[l]["spawn"].status \in {"queued", "running"}
    /\ state[l] = "prompt_waiting" =>
         work[l]["prompt_confirm"].status \in {"queued", "running"}

\* Launches that are not spawned yet, or whose prompt waits, and whose work is
\* neither in hand nor can be claimed: nothing but an agent that registers or an
\* operator's stop moves them on.
Awaited(l) == IF state[l] = "prompt_waiting" THEN "prompt_confirm" ELSE "spawn"
Orphaned ==
  {l \in Launches :
     /\ state[l] \in {"accepted", "spawning", "prompt_waiting"}
     /\ work[l][Awaited(l)].status # "running"
     /\ ~ MayClaim(work[l][Awaited(l)], Awaited(l))}

\* However often the daemon dies, it leaves few launches behind: each restart at
\* most that of the handler that it cut and that of the work in hand.
OrphansAreFew == Cardinality(Orphaned) <= 2 * crashes

\* A launch is given up only when every attempt at some work of it was used.
FailedWasExhausted ==
  \A l \in Launches : state[l] = "failed" =>
    \E k \in Kinds :
      work[l][k].status = "failed" /\ work[l][k].attempts = MaxAttempts(k)

\* A launch is shown as joined or running only once its agent had its seat in the
\* target group, wherever the daemon died in a registration.  It may have lost it
\* since, by a leave, a deletion, an archive or a pruned group, none of which is
\* told to the launch; no registration forgets that it had it.
RunningWasSeated ==
  \A l \in Grouped : state[l] \in {"joined", "running"} => peer[l].seat # "none"

\* What a reader of the launch's state would think: no handler keeps it so.
RunningIsSeated ==
  \A l \in Grouped : state[l] = "running" /\ peer[l].life = "live" => peer[l].seat = "active"

\* What the kernel plan says of restarts: unfinished work is resumed or marked
\* failed, so queued work can still be claimed.
QueuedIsClaimable ==
  \A l \in Launches, k \in Kinds :
    work[l][k].status = "queued" => work[l][k].attempts < MaxAttempts(k)

(***************************************************************************)
(* Action properties                                                       *)
(***************************************************************************)
Rank(s) == CHOOSE i \in 1..14 : Order[i] = s

\* A launch never goes back in the order of LAUNCH_STATES, although worker,
\* register and stop write its state from rows they read at different times.
ProgressIsMonotone ==
  [][\A l \in Launches : Rank(state'[l]) >= Rank(state[l])]_vars

\* No handler leaves a launch without work that can still be done, in whatever
\* states and rows earlier crashes left it: only a restart does, and only to the
\* launch of the handler that it cut and to that of the work in hand, whose last
\* attempt it may have been.
OnlyRestartsOrphan ==
  [][Cardinality(Orphaned' \ Orphaned) <= 2 * (crashes' - crashes)]_vars

SpawnIsOver(l) == work[l]["spawn"].status \in {"done", "failed"}

Life == INSTANCE PeerLife WITH
  Peers      <- Launches,
  life       <- [l \in Launches |-> peer[l].life],
  subscribed <- {}

\* Between handlers, the peers of launches live as other identities do: stops,
\* sweeps and deletions delete them, an archive that awaits the backend archives
\* what is there by then, and only a registration brings them back.
LifeSpec == Life!Spec

\* A stop holds once no spawn work is left: no late answer, retry, registration
\* or restart brings the session or the launch back.
StopHolds ==
  [][\A l \in Launches :
       state[l] = "stopped" /\ session[l] = "absent" /\ SpawnIsOver(l) =>
         state'[l] = "stopped" /\ session'[l] = "absent" /\ SpawnIsOver(l)']_vars

Reconciled(l) == peer'[l].seat = "active" \/ state'[l] = "registered_unjoined"

\* The states from the recorded spawn up to the join, and after one that failed.
Reconcilable ==
  {"spawned", "prompt_waiting", "prompt_accepted", "registered", "reconciling",
   "registered_unjoined"}

\* A registration is not lost: whatever cut registrations, failed joins, leaves and
\* deletions went before, an agent that registers while its launch is between the
\* recorded spawn and the join is in its group afterwards or its launch says that
\* it is not.  (A running launch is not reconciled again, and one that a cut
\* registration left joined does not record that a second join failed.)
RegistrationReconciles ==
  [][\A l \in Grouped :
       Register(l) /\ state[l] \in Reconcilable => Reconciled(l)]_vars

\* What the kernel plan says of prompts and of delayed registrations: a launch
\* that was given up over its prompt still reconciles an agent that registers.
LateRegistrationReconciles ==
  [][\A l \in Grouped :
       Register(l) /\ state[l] \in Reconcilable \cup {"failed"} => Reconciled(l)]_vars

\* What the stop route says it does: a stop is final, and no session is added for
\* a launch that was stopped.
StoppedStaysDown ==
  [][\A l \in Launches :
       state[l] = "stopped" /\ session[l] = "absent" => session'[l] = "absent"]_vars

(***************************************************************************)
(* Liveness                                                                *)
(***************************************************************************)

\* Every accepted launch leaves the worker's hands: its session is up and, for
\* claude, its prompt accepted, or an agent registered, or it failed or was stopped.
EveryLaunchSettles ==
  \A l \in Launches :
    state[l] = "accepted" ~> state[l] \notin {"accepted", "spawning", "prompt_waiting"}

\* A registered agent's launch reaches a final state.
RegisteredSettles ==
  \A l \in Launches : peer[l].life = "live" ~> state[l] \in Terminal

=============================================================================
