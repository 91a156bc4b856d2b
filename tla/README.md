# Verification of synchronize

synchronize is a local daemon (Bun, SQLite) through which coding agents (claude,
codex, pi, letta), a browser user and a command line find each other, sit in
groups, exchange messages, and are launched, archived and resumed.  This
directory holds TLA+ modules that model the daemon's own state machines and those of
the clients that keep state of their own (the adapters of the agents, the letta
runtime, the browser's store), TLC configurations that check them on small instances,
and TLAPS proofs, for every instance, of their safety properties and of the abstract
specifications they implement.

Paths below are relative to `src/src/` unless they start with `docs/`,
`extensions/` or `web/`, which are relative to `src/`.

## The system

One process, the daemon, owns one SQLite file.  Bun runs its handlers on one
thread and `bun:sqlite` is synchronous, so a handler runs without interruption
from one `await` to the next.  What can interleave is therefore: handlers with
the stretches between another handler's awaits (backend commands, probes,
callbacks, language models, files), the timers (launch worker, retention sweep,
summary worker), and the death of the process between any two transactions.  The
same holds inside each client, whose loops and handlers interleave at their own
awaits; between clients and the daemon, an answer is read at one moment and acted on
at a later one.

### Inventory

| Component | State it keeps | Operations | What makes it correct |
|---|---|---|---|
| Identities and groups (`daemon/repo/peers.ts`, `daemon/routes/peers.ts`, `groups.ts`, `daemon/server.ts`) | `peers`, `groups`, `group_members` (with `active`, `member_state`, `left_at`) | register, delete, sweep, stop, join, rename, leave, create | one peer per alias and group; the dead hold nothing; a revived peer gets back what its death took and nothing else; the two columns that say "active" agree |
| Archive (`lifecycle/archive.ts`, `probe.ts`, `daemon/services/archive.ts`, `repo/archive.ts`) | `peers.lifecycle_state`, reserved seats | archive (plan, await, mark), resume (plan, probe, force, launch), reactivation on register | a reserved seat has an owner that can be resumed; archived identities survive sweeps; one resume launches one session |
| Launch kernel (`launch/lifecycle.ts`, `store.ts`, `service.ts`; worker and reconciliation in `daemon/server.ts`) | `launch_intents`, `launch_events`, `launch_work`; the work in the worker's hands | launch, claim, spawn, confirm prompt, retry, give up, register and reconcile, stop, recover on start | no work is lost or run twice; progress only forward; a launch ends; a registration joins its group |
| Session backend (`launch/backend.ts`) | sessions of `aoe` and `tmux`, outside the daemon | list, add, start, remove, stop, show pane | retries are idempotent |
| Push (`daemon/services/subscriptions.ts`, `routes/subscriptions.ts`) | `ctx.subscribers` in memory; `last_cursor`, `delivered_at` | subscribe, unsubscribe, notify (callback awaited), drop on failure | no live push to the dead or archived; cursors only forward; a renewed subscription is not dropped for an old failure |
| Messages and inbox (`daemon/routes/messaging.ts`, `inbox.ts`, `repo/events.ts`) | `events`, `inbox` | direct, group and reply messages, fan-out, read, ack, mark read | each recipient once; read before acked; the pushed are among the recipients |
| Threads and summaries (`repo/threads.ts`, `summarize/index.ts`) | `thread_summaries`; in-flight set of the worker | due scan, await model, overwrite; on-demand route | a summary is never replaced by an older one |
| Activity (`repo/activity*.ts`, `routes/activity.ts`) | awaiting and handled rows | derived by messages, acks and reactions | an answered request is not awaited |
| Daemon start (`client.ts`, `daemon.ts`) | lock directory, discovery file | discover, lock, spawn, wait, break a stale lock, restart | one daemon is started at a time; a call ends, and what it is given has served |
| MCP adapter and pi extension (`mcp/`, `extensions/pi-synchronize/`) | callback server and token, cached peer | subscribe, heartbeat, recover after a lost registration or daemon | an agent that runs is reachable; what was not heard is not marked delivered |
| letta extension (`extensions/letta-synchronize/`) | seen events, queue, current job | poll, enqueue, interrupt, turn, reply, acknowledge | each message gets to the agent; one answer; no acknowledgement before the prompt but for an interrupted job |
| Web client store (`web/src/data/daemon.ts`) | a room's list and cursor; the feed's list, badge and cursor; requests under way | refresh, join, force, deep link, optimistic send, page, flag | what a cursor has passed is shown; the head becomes what the daemon has |
| HTTP routing, command line, remote hosts, configuration, React views | none that outlives a call | parse, format, render | their retries are idempotent |

Components interact in five ways.  Routes share the tables: a peer's row is
written by registration, deletion, sweep, stop and archive; a launch's row by the
worker, the registration and the stop.  The launch worker and the archive service
call the backend and are suspended meanwhile.  Messages reach sessions through
callbacks to subscribers.  Agents call back into the daemon when a session starts.
Browsers read the tables by pages and cursors, when the event stream signals a change.

The hard behaviours, each at its line, are the `hazards` of `PROJECT.json`.  The
first ones we took up are those that cross a suspension or a crash: an archive that
marks after its await, spawn work that returns after a stop, a registration that
overtakes the worker's await, a seat whose owner died or was archived while another
peer took its alias, and a daemon that dies between two statements.  The next ones are
those of the clients: answers of callbacks, language models and pages that come late or
out of order, refreshes that are joined or overtake one another, processes that restart
and must find their way back, and several processes that race for one lock.

## Modules

| Module | What it is |
|---|---|
| `Membership` | identities, lifecycle and seats; every handler that changes them |
| `AliasLedger` | what membership promises about aliases, without tables or flags |
| `PeerLife` | what an identity may live through, and when it may have live push; `Membership`, `Push` and `Launch` implement it |
| `Mailbox` | what the inboxes promise; `Messages` and `Letta` implement it |
| `MembershipLedger` | the refinement mappings: `Membership` implements `AliasLedger` and `PeerLife` |
| `Membership_proofs` | theorems about `Membership`, and that it implements both |
| `Launch` | launch kernel, worker, backend, agents, operator, restarts |
| `Launch_proofs` | theorems about `Launch` |
| `Push` | the daemon's push and the adapters of claude and pi that keep it alive |
| `Messages` | events, inboxes, threads, interaction markers, shared files |
| `Summaries` | the summary worker, requests, and the language model they await |
| `DaemonStart` | clients that find or start the daemon through the file system |
| `Letta` | the letta extension's poll loop, queue and jobs |
| `WebRoom` | one room of the web client's store |
| `Feed` | the web client's activity feed, with the daemon's pages of it |
| `Push_proofs`, `Messages_proofs`, `DaemonStart_proofs`, `Letta_proofs`, `WebRoom_proofs`, `Feed_proofs` | theorems about the module each is named after |
| `MCMembership`, `MCLaunch`, `MCPush`, `MCMessages`, `MCSummaries`, `MCDaemonStart`, `MCFeed` | the model values and symmetry of the instances for TLC |

Every module but the MC and refinement ones has its state, its actions, `Next`, `Spec`,
the fairness its scheduling justifies, and its properties.  They meet in the daemon's
tables and each keeps the part it needs: `Push` has a row's life as `Membership` leaves
it, `Messages` has seats with the boundaries that `Join` and revival give them,
`Summaries` and `Feed` have the events of threads that `Messages` makes flat.  Two of the
meeting points are specifications of their own.  `PeerLife` is what the three modules with a row
of `peers` agree on: each sees another part of the code that changes it, and all three are shown to
stay within it.  `Mailbox` is what `Messages` provides and what `Letta` lives on.  `WebRoom`
and `Letta` need no model values and are run directly.

### Membership

`known`, `deletedAt`, `lifecycle` are columns of `peers`; `seat[g][p]` is the row of
`group_members` with its `member_state`, `active`, `alias` and `left_at`; `subs` is
the key set of `ctx.subscribers`; `reaps` counts the archive requests that are
suspended in their await; `now` is the current millisecond.  `diedIn` is a history
variable that no action reads: the groups a peer sat in when it was last deleted.

| Action | Code |
|---|---|
| `Register` | `upsertPeer` with both reactivations, from the register routes and the browser session |
| `Delete` | `DELETE /peers/:id` |
| `StopSession` | `deactivateStoppedLaunchPeer`, from the stop route and the startup sweep |
| `SweepExpired` | `sweepExpiredPeers`: one transaction over all lapsed peers |
| `BeginArchive`, `FinishArchive` | `archiveSessionApply` before and after its await, with `markPeerArchived` |
| `Join`, `Rename`, `Leave` | the group routes; `TakenOver` is `deactivateWebAliasHolders` |
| `Subscribe`, `DropSubscriber` | the subscription route; the removal after a failed callback |
| `Restart` | memory is lost, `pruneEphemeralGroups` runs |
| `CrashInRegister` | the daemon dies between two statements of `POST /peers/register`, which has no transaction |

Two specifications: in `Spec` the daemon stops between handlers (and inside the
archive's await); `CrashSpec` adds the deaths inside a registration.  `LedgerSpec` is implemented by
`CrashSpec`, `LifeSpec` by `Spec` only: a registration that dies after it cleared `deleted_at` and before
it reset the lifecycle turns a deleted identity that had been archived into an archived one.  The other
handlers write in one transaction, or their statements after an await do.

Simplifications: which leases have lapsed is left open, so any set of live,
unarchived peers other than browser peers may be swept at any time, which is more
than the code does.  The startup sweeps are not forced into `Restart`: `StopSession`
and `SweepExpired` may follow it.  A registration that fails validation changes
nothing and is not modelled.

### Launch

`state` is `launch_intents.state`; `work` the rows of `launch_work` with their
status and attempts; `worker` what the one launch worker awaits, with the reply;
`session` the backend's session of the launch's title; `peer` the launch's peer with
its seat in the target group and the seat's alias (the launch's or another); `calls` the
registrations on their way; `stops` an operator's stop or archive around its await.

| Action | Code |
|---|---|
| `Accept` | `launch()`: intent, event, spawn work |
| `Claim` | `claimNextLaunchWork` and the work up to its first await |
| `Continue` | the worker's stretch after a reply: the `aoe list / add / start / remove / list` ladder of `spawn`, `markSpawnSucceeded`, `failLaunchWork` and the launch's failure |
| `Answer` | the backend carries out the command, or fails; external |
| `SendRegister`, `Register` | the agent's hook; `upsertPeer` and `reconcileDurableLaunch` |
| `AskStop`, `StopAnswer`, `StopRecord` | the stop route before, at and after its await |
| `Leave`, `Join`, `Rename`, `Delete`, `SweepExpired`, `RegisterElsewhere` | the routes and the sweep that move a launch's peer and seat without touching `launch_intents`: by the agent itself, a registration without the launch id, an operator, the retention timer |
| `BeginArchive`, `Reaped`, `FinishArchive` | `archiveSessionApply` before, at and after the await of the backend |
| `Restart` | `recoverLocalLaunchWork`, `sweepStoppedLaunchPeers`, `pruneEphemeralGroups`; commands under way may land |
| `CrashIn...` | the daemon dies between two writes of launch, worker or registration |

`Orphaned` are the launches that wait for work which nobody can claim: only a restart makes one.
`LifeSpec` maps the launches' peers to `PeerLife` (for `Spec`, since a register that is cut and the sweep
of the start that follows are one step of `CrashSpec`).

`transitionLaunch` is the table of `launch/lifecycle.ts`; an event that the table does
not allow leaves the row as it is, as `applyTransition` does after logging.

Simplifications: each launch has its own peer and title (resume, which launches a
known peer again, is planned in a module of its own); an operator has one request, a stop or an
archive, under way for a launch; a seat that was lost, to a leave, to another peer's alias or with a
pruned group, is one value of `seat`; retry back-off is left open, so
a queued row may be due at once or late; a backend command that reports failure has
had no effect, except when the daemon died while it ran; the polling of the tmux pane
is one reply; the preliminary peer registration of the pi extension is part of its one
register call; the in-memory launch path used without a database is left out; two
daemons on one database are not modelled.

### Push

A subscription, with its callback server and token, is a number.  `subscriber` is
`ctx.subscribers`, `calls` the callbacks that `notifySubscribers` awaits, `delivered` and
`cursor` the rows of `inbox` with `delivered_at` and `peers.last_cursor`; `session` and
`stage` are the adapter's own: the subscription it serves and, for the heartbeat and for a
session that starts, the request it awaits.  `heard` is a history variable: the events
the adapter passed on to its agent.

| Action | Code |
|---|---|
| `Publish`, `CallbackReturned` | `notifySubscribers` before and after its await, with the drop on failure |
| `Answer` | the callback server of `mcp/claude-subscription.ts`: the token check, the notification |
| `Beat`, `HeartbeatAnswered`, `SubscribeAnswered`, `RegisterAnswered`, `RestoreAnswered` | `maintainPeer`, request by request, of `mcp/lifecycle.ts` and of the pi extension |
| `Activate`, `ActivateAnswered` | `bridge_register` of claude, `session_start` of pi |
| `Delete`, `Archive`, `Restart` | what the daemon does to the row and to the map |

The two adapters differ where the code does: after a good heartbeat claude's subscribes
again and pi's returns; pi builds a new subscription to recover, claude keeps its own.

`LifeSpec` maps `row` and the keys of `subscriber` to `PeerLife`.

### Messages

`events` is the table, an event's id its place; `member` and `from` are a seat's state and
its history boundary; `inbox` and `acked` the rows of `inbox`; `engaged` the markers of
`peer_thread_interactions`; `sharing` the handlers of a shared file that are suspended.
`group` says whether the group is durable or was pruned, `up` whether the daemon runs.
`pushed` and `cut` are history: what `notifySubscribers` was asked to push to whom, and the rows whose
acknowledgement a death cut off from its marker.

| Action | Code |
|---|---|
| `SendDM`, `SendGroup`, `SendInThread`, `Reply`, `ReplyDM` | the message routes, with fan-out, push targets and the markers they move |
| `React`, `AckEvents`, `AckAll` | reactions and the inbox routes, with `markActivityEventsHandled` |
| `Join`, `Reclaim`, `Leave`, `Rename`, `Archive`, `Revive` | seats with their boundary, and the roster event fanned out; a join that takes over an alias somebody left stores two events |
| `ShareBegin`, `ShareStore`, `ShareNotify`, `ShareFails` | `POST /groups/:name/media` from one await to the next |
| `Die`, `CutMessage`, `CutAck`, `CutAckAll` | the daemon dies: between handlers or in a suspended share, after a message's transaction, after the rows of an acknowledgement or a reaction with the markers written so far |
| `Start`, `Prune` | the daemon starts; `pruneEphemeralGroups` with its cascade on seats, events, inbox rows and markers |

Rows and markers are separate statements that commit one by one.  A handler that runs to its end is one step
(`AckEvents`, `AckAll`, `React`: nothing interleaves, since it awaits nothing), and each place where the daemon may die
inside is an action of its own.  Two routes that differ are kept apart: a group message in a thread acknowledges the root
and the message answered, `POST /reply` acknowledges nothing.  `MailSpec` maps `inbox` and `acked`
to `Mailbox`: what `ShareNotify` does after its await delivers nothing, and a prune takes an event from every
inbox.  `Membership` says which alias a join takes, who is refused, and what a browser, a sweep or a deletion does to the seat
of another; here a seat is left or archived.  A pruned group stays pruned: a group created anew under its name is another one.

### Summaries

`said` counts a thread's messages, `recent` orders the threads, `cold` are those nobody
wrote to lately; `summary` is the row of `thread_summaries`: what it covers and by which
strategy; `ticks` are the worker's runs, each with its rest of the batch and the call it
awaits; `inFlight` and `backoff` are the worker's memory.

| Action | Code |
|---|---|
| `Tick` | `pickEligible` and the batch up to its first await |
| `Summarized`, `SummarizeFails` | `summarizeThread` after the model's answer, and the loop's next thread |
| `Request`, `RequestAnswered`, `RequestFails` | `POST /threads/:root/summary`, which has no in-flight check |
| `Post`, `Cool`, `BackoffEnds`, `Restart` | a message; time; a new worker under the environment's strategy |

### DaemonStart

Each client and each daemon is a process; they share `discovery` and `lock`.  A step is one
file operation, one health check, or one spawn.  `writeJson` truncates the file and then
writes it, so `discovery` may be `Torn`.  The file names a process and a base URL, and a health check asks the
URL: with a fixed `port` (the default) a daemon that has bound and not yet written its file answers for the dead one
that the file names (`SameUrl`, `Answers`).  `served` is history: the daemons that have served since a client's call
began.

| Action | Code |
|---|---|
| `Call`, `CheckFound`, `Recheck`, `CheckAgain`, `Return` | `ensureDaemon` |
| `MakeLock`, `FindOldLock`, `RemoveStale`, `Unlock`, `Age` | `withLaunchLock` and the lock's age |
| `StartDaemon`, `WaitRead`, `WaitHealth`, `Deadline` | `startDaemon`, `waitForDaemon` |
| `Bind`, `Truncate`, `Write` | the daemon's own start |
| `Host`, `HostHealth`, `HostStop`, `HostRemove` | `synchronize host --restart`, which takes no lock |
| `Die`, `Kill` | a daemon or a client ends, between any two steps |

### Letta

`poll` is the poll loop with the page it read; `queue`, `worker`, `current` and `interrupted`
the job loop; `seen` the events it will not enqueue again.  `prompted`, `gaveWay` (its job was
interrupted) and `lost` (its job was over before the prompt got through) are history.

| Action | Code |
|---|---|
| `Poll`, `ReadInbox`, `Ingest`, `PollFails` | `pollLoop`, `pollOnce`, `ingestEvents`, and the daemon's page of unacknowledged rows |
| `StartTurn`, `Prompt`, `EndTurn`, `Reply`, `Ack`, `NextJob` | `processQueue` and `runJob` between their awaits: the report of 'working', the request that takes the prompt to the agent, the turn, the answer |
| `GiveWay` | the request fails or is aborted after the job was interrupted: the loop skips its result and acknowledges the event |
| `StartFails`, `JobFails` | a failure of the report that precedes the turn, which ends the loop; of the prompt, the turn, the reply or the acknowledgement, which ends the job |
| `Deliver`, `Crash` | somebody writes to the agent; the process ends and starts |

`MailSpec` maps `events` and `acked` to a `Mailbox` with one reader.  (The agent's inbox is not pruned here: its group is
durable.)

### WebRoom

`shown` and `queued` are the room's list with the optimistic message, `cursor` is
`roomCursor`, `refresh`, `link` and `send` are the requests under way, each answered at one
step and applied at a later one.  `overlooked` is history: what the cursor passed without its
being in an answer, which the daemon's limits allow; `BeyondPage` says when they allow it: a whole page of
newer events follows it, or the room has more events than a deep link's window holds.

| Action | Code |
|---|---|
| `Open`, `Poll`, `Reset`, `ApplyRefresh`, `FailRefresh` | `refreshRoom` (joined when one is under way) and `applyRoomState` |
| `FollowLink`, `ApplyLink`, `FailLink` | `hydrateDeepLinkTarget` |
| `Send`, `ApplySent`, `FailSend` | `sendMessage` |
| `AnswerRefresh`, `AnswerLink`, `StoreSent` | `buildWebState` after a cursor or around an event; the message route |

### Feed

`shown`, `awaiting`, `count` and `oldest` are the store's `_activity` with its flags, the badge and
`activityOldestCursor`; `pages` and `older` the requests under way; `own` the user's own request.
`known` and `skipped` are history: when the merged head was read, and which events lay between
a full head and the rows that were there before, or between an older page and a list that was
shortened while it was under way.

| Action | Code |
|---|---|
| `Signalled`, `AnswerPage`, `ApplyPage`, `FailPage` | `scheduleInvalidation`'s timer, `GET /activity`, `refreshActivity` |
| `LoadMore`, `ApplyOlder`, `FailOlder` | `loadMoreActivity` and the page's merge below the list |
| `Answer`, `React`, `Acknowledge`, `AcknowledgeAll`, `StoreAck`, `FailAck`, `RefreshAfterOwn` | the user's requests with their optimistic flags, and the forced refresh after each |
| `Post` | an agent writes; external |

## Runs

| Run | Instance | Shows |
|---|---|---|
| `membership_agents` | 2 agents, 2 aliases, a durable and an ephemeral group, 2 timestamps, `Spec` | `PeerLife` is implemented, an alias is held once, reserved seats can be resumed, revival gives back what the death took and earlier leaves stay left |
| `membership_browser` | 1 agent, the local browser peer, another tab, 1 group, 1 timestamp, `CrashSpec` | the alias ledger is implemented, with take-over of "you" and crashes inside a registration |
| `launch_crash` | 1 claude launch with a group, 3 and 5 attempts as in the code, 2 restarts, its peer moved by others too, `CrashSpec` | ownership of work, no early failure, running means once seated, monotone progress, registrations reconcile, only restarts leave a launch without work |
| `launch_two` | a claude and a pi launch, 2 and 1 attempts, no restart, fairness | a stop holds once no spawn work is left, and every launch leaves the worker's hands |
| `push_agent` | 1 agent of either tool, 2 events, 3 sessions, 3 troubles, fairness | `PeerLife` is implemented, what is marked delivered was heard, the cursor names a delivered event, claude's agent becomes reachable again |
| `pi_goes_deaf` | 1 agent, 1 event, 1 session, 1 trouble, fairness | violation: after a restart of the daemon the pi extension never subscribes again |
| `messages` | an agent that moves and a browser that shares files, 3 events, 1 death, a group that the next start prunes | `Mailbox` is implemented with deaths and the prune, pushes match inboxes, threads stay flat, only what a death cut off is acknowledged and awaited, what a peer has handled never awaits it again |
| `summaries` | 2 threads of up to 3 messages, batch of 2, 1 request, 2 troubles, fairness | summaries become complete and the worker rests |
| `daemon_start` | 2 clients, 3 daemons, 2 troubles, fairness | one starter at a time, no call returns a base URL that was not served during it, every call ends |
| `letta` | 3 events, pages of 3, 2 failures, 1 restart, both modes, fairness | no acknowledgement before the prompt but for an interrupted job, one answer, interrupts only for newer messages, every message gets to the agent unless its job ended first |
| `web_room` | 3 events, answers of 2, windows of 1, 1 failure, fairness | what the cursor passed is shown, or was left out of an answer that had no room for it; every other event arrives |
| `feed` | 1 thread, an agent and another browser, 3 events, pages of 1, a list of 2, fairness | paging skips no row, and the head, its flags and the badge settle |

Deadlock is checked wherever the model can always take a step.  It is not in
`Messages.cfg`, where the talking ends at the bound of events and every inbox may be
acknowledged, nor in `DaemonStart.cfg`, where every client's call is over in the end.

### Bounds

**Membership and Launch.**  Two peers and two aliases are what a conflict over an alias
takes; the third peer of `membership_browser` lets an agent hold "you" while two browser
peers contend.  The two groups differ in durability, which the startup pruning tells apart.
Two timestamps are needed to tell a leave before the death from one at the death; with one
timestamp everything falls into the same millisecond, the harder case for `left_at =
deleted_at`.  One archive in flight per peer suffices to let a deletion, a
registration or a new archive overtake it.  The launch run uses the code's own attempt
limits, so that a launch is really exhausted; two restarts cut the same launch twice.
`Moved` names the launches whose peers leave, join, are renamed, deleted, swept or archived: the one of `launch_crash`,
none of `launch_two`, whose properties are about the worker and the stop (the theorem on `StopHolds` has both).
In `launch_two` the limits are smaller: the worker's choice between two launches is the
subject.  `AgentSymmetry` exchanges the two agents only; no property names one, and the
run has no liveness property.

**Push** (`MaxEvents`, `MaxSessions`, `MaxTroubles`).  Agents share nothing but the map,
which is keyed by peer, so one agent is enough.  Two events give callbacks that return out of
order; three subscriptions let the first's late failure meet the second while a third
starts; three troubles make a recovery itself fail.

**Messages** (`MaxEvents`, `Movers`, `Sharers`, `MaxCrashes`, `GroupKinds`).  Three events make a root, a reply and one
that comes between or after; two peers suffice since each property speaks of one peer and one
event, and the mover's boundary, seat and archive matter for its own rows only.  What
`MaxEvents` cuts is the length of a thread, which no handler looks at.  One death may come between any two commits, in
each state that three events reach.  The group of the run is ephemeral: until the daemon dies a durable one does the
same, and starting with a durable one changes nothing but `up`.  What comes after such a start, a second death, and more
peers are for the theorems, which leave `GroupKinds` and `MaxCrashes` open.

**Summaries** (`MaxEvents`, `MaxRequests`, `MaxTroubles`).  Two threads fill a batch; a message
may come while a call is awaited and another after it; the third message exceeds the fallback
limit `BigAt`, which the code has at 50 kB; one request overtakes both ticks.

**DaemonStart** (`MaxDaemons`, `MaxTroubles`).  Two clients race for the lock; three daemons let
each start one besides the one that was there; two troubles kill a lock's owner and a daemon, or
let a client sleep past the lock's age.

**Letta** (`PageLimit`, `MaxEvents`, `MaxFailures`, `MaxCrashes`).  A page (50 rows in the code) holds all the
events of the run: with three messages on it the two that interrupt a job are ingested from one page, and
`EveryMessagePrompts` is checked without its exception; pages of two, where rows get stuck and hide a
message, pass too.  A failure and a restart are each enough to repeat an answer.

**WebRoom** (`Limit`, `Window`, `MaxEvents`, `MaxFailures`).  Answers of two events leave out the third; a
window of the target alone has events on both sides of it.

**Feed** (`Window`, `Cap`, `Earlier`, `MaxEvents`, `MaxPending`).  A page of one row and a list of two, with
two authors, make older pages, cut-off rows and superseded rows; one message is there before the feed opens;
two heads under way overtake one another.  There is one older page at a time (the button does not prevent a
second click, which would ask for the same rows), and it is read when it arrives: between the request and the
answer only `older`'s cursor matters.  Threads are independent of each other but for the order of rows, which
the two authors have already.  An older page that arrives at a list cut off meanwhile takes a larger instance
(3 authors, 3 events there before and a fourth); the theorem covers it.

### Fairness

Each specification assumes weak fairness of what a timer, a promise or an answered request does,
and of nothing else: who registers, writes, archives, kills or fails is left open, and a failure
may happen as often as its bound allows.

`Launch`: the worker's claim (a timer polls), the continuation of a promise, the end of a backend
command (they run with a timeout), and a handler that has begun (register, stop).
`EveryLaunchSettles` holds because attempts run out, although a backend may fail forever.
`launch_two` has no restart: with one, rows whose attempts are used up are recovered as queued and never
claimed (`QueuedIsClaimable`).  Weak fairness of the claim as a whole does not share the
worker evenly between launches; it need not, since each launch has finitely many attempts.

`Push`: the heartbeat timer, the answer to each request of the heartbeat and of a start, the
callback server, and the daemon's continuation after a callback.

`WebRoom`: the poll timer and the answers to refreshes.  `Letta`: the poll timer, its answer, and the
job loop's continuation (a request to the agent succeeds or fails, a turn ends).  `Summaries`: time (threads grow cold, back-offs end), the timer's tick, and the
model's answers: the code puts no timeout on a call, so it is the provider that is assumed to answer or
to refuse.

`DaemonStart`: a client's next step and the ageing of a lock; strong fairness of the deadline, since a
client that waits reads the file again and again, and leaves each time the state in which it looks at
its clock.

`Feed`: the timer that signals arm, on the grounds that heartbeats of any agent are signalled too;
strong fairness of answering and applying a page, because pages are lost without bound and a lost one
disables its answer.  `FeedSettles` is conditional: it is claimed of users who stop asking
(`<>[](own.at = "none")`).

## What disagrees with the documentation

`pi_goes_deaf` states a comment that the code does not keep: the pi extension says its recovery mirrors
the MCP adapter's `maintainPeer` (`extensions/pi-synchronize/src/index.ts`), but it returns after a good
heartbeat, so that a daemon that restarted, and forgot its subscribers, never hears of it again.
`PROJECT.json` quotes it under `findings`.

Others are stated as definitions that no run of the list checks; TLC finds each one violated on
a small instance of its module (for `PageIsStuck`: reached):

| Definition | The code | What says otherwise |
|---|---|---|
| `Membership!ReservedSeatIsResumable` under `CrashSpec` | a death between the statements of a registration leaves a reserved seat whose owner is not archived (`daemon/repo/peers.ts:30`) | `docs/group-sync-integrity.md:176` |
| `Membership!ArchivedIsDark` | an archived identity joins a group (`daemon/routes/groups.ts:145`) | `docs/plans/archive-resume-daemon-refactor-merge-map.md:304` |
| `Launch!QueuedIsClaimable` | restarts use up attempts; the row stays queued and is never claimed (`launch/store.ts:303`) | `docs/plans/launch-lifecycle-kernel.md:42` |
| `Launch!StoppedStaysDown` | the worker, suspended in its listing, adds the session of a launch stopped meanwhile (`launch/service.ts:668`) | `daemon/routes/agent-sessions.ts:145` |
| `Launch!LateRegistrationReconciles` | an agent that registers after the prompt was given up is not joined, nor told unjoined (`daemon/server.ts:1194`) | `docs/plans/launch-lifecycle-kernel.md:380` |
| `Launch!RunningIsSeated` | a launch stays running when its agent leaves, is swept, deleted or archived, and an agent that registers again after a leave, or after a sweep during which another took its alias, is not joined (`daemon/server.ts:1193`) | nothing but the state's name |
| `Launch!RegisteredSettles` | an agent that registers before its spawn is recorded leaves the launch unfinished (`daemon/server.ts:1208`) | `docs/plans/launch-lifecycle-kernel.md:29` |
| `WebRoom!LinkKeepsTail` | a deep link's answer moves the cursor past events beyond its window (`web/src/data/daemon.ts:1284`) | `web/src/data/daemon.ts:1015` |
| `Feed!OneRowPerAuthor` | the merge below a head starts at the head's oldest row, so a superseded row between stays (`web/src/data/daemon.ts:898`) | `web/src/data/activity.test.ts:28` |
| `Feed!TrimmedIsRefetchable` | an older page, asked for below a list that a newer head then cuts off and an overtaken head shortens, is appended all the same: the rows cut off between lie above the cursor and are not asked for again (`web/src/data/daemon.ts:903`) | `web/src/data/daemon.ts:366` |
| `Letta!PageIsStuck` | notices and failed jobs are never acknowledged and fill the page of the inbox (`extensions/letta-synchronize/src/runtime.ts:193`) | `extensions/letta-synchronize/README.md:3` |

`EveryMessagePrompts` of `Letta` holds only up to `PageIsStuck`.  Divergences met while reading, which no
definition states:

* a leave in the very millisecond of a deletion is undone by the next registration,
  against the comment at `daemon/repo/peers.ts:240` (`DiedWith` compares `left_at` and
  `deleted_at` only; `EarlierLeaveStaysLeft` states what does hold);
* `launch()` writes the intent before the work and `markSpawnSucceeded` moves the
  state before it enqueues the prompt's work, against the transactional outbox of
  `docs/plans/launch-lifecycle-kernel.md:57`: `UnfinishedHasWork` fails under `CrashSpec`
  (`CrashInAccept`, `CrashInSpawnSucceeded`) and holds under `Spec`; under `CrashSpec`, `OnlyRestartsOrphan`
  bounds what breaks it;
* after a death between `aoe add` and `aoe session start`, the retry finds a session
  of that title and records the launch as spawned although it was never started,
  against `docs/plans/launch-lifecycle-kernel.md:386`;
* an archived claude session that still runs is reactivated by its next heartbeat (the subscription
  is refused, so it registers), although `daemon/services/archive.ts:100` says that it cannot send until
  it registers again;
* sharing a file checks the sharer before its awaits only, so one who left or was archived meanwhile
  still posts;
* a row that is acknowledged and a thread's marker are written by separate statements: after a death between them the message
  awaits its reader although it is acknowledged (`cut`), against the comment at `daemon/repo/events.ts:192`, which asks callers to
  write both;
* letta acknowledges an interrupted job unanswered: of a burst in interrupt mode only the last is
  answered, and a job whose start fails is lost until the process restarts.  If the interrupt comes while the prompt is on
  the way and that request fails, the event is acknowledged although the agent was never prompted with it
  (`extensions/letta-synchronize/src/runtime.ts:231` skips the result of `remote-session.ts:81`, and line 212 acknowledges);
* on a fixed port a daemon that has just bound answers for a dead one, so that `ensureDaemon` may return the dead daemon's
  discovery, with its process id (`client.ts:67`; the base URL is right), and `host --restart` stops nobody and removes the
  file that the new daemon may have written meanwhile (`cli/commands/host.ts:34`);
* a launch that a cut registration left *joined*, and whose agent has lost its seat by the time it registers again, does not record
  that the second join failed: *joined* has no such edge (`launch/lifecycle.ts:65`);
* a thread whose transcript exceeds 50 kB falls back to `first_last` under the strategy `all`, so the worker
  summarises it again at each tick (`Summaries!Unsettled`);
* nothing polls the feed, although `docs/plans/web-activity-view.md:41` falls back to a poll when the event
  stream drops; a stream that ended cleanly is not opened again.

## Proofs

All theorems hold for any sets of peers, groups, aliases, launches, clients, threads and authors, any limits
and any bounds.  They assume only the assumption on constants that each module declares, and that TLC evaluates on its
run: subsets are subsets, NULL is none of the values, limits are positive numbers.  Three
assumptions say that a bound leaves room for what `Init` has already: `Messages` and `WebRoom` start with
events (`MaxEvents` positive, and at least 2), `DaemonStart` with a daemon (`MaxDaemons` positive).

| Theorem | Of | Property |
|---|---|---|
| `Membership_proofs!TypeCorrect` | `CrashSpec` | `TypeOK` |
| `Membership_proofs!DeliveryBitCorrect` | `CrashSpec` | `DeliveryBitAgrees` |
| `Membership_proofs!AliasUnique` | `CrashSpec` | `AliasHeldOnce` |
| `Membership_proofs!SubscribersLive` | `CrashSpec` | `SubscribersAreLive` |
| `Membership_proofs!DeletedIsSeatless` | `Spec` | `DeletedHoldsNoSeat` |
| `Membership_proofs!ReservedIsResumable` | `Spec` | `ReservedSeatIsResumable` |
| `Membership_proofs!ReservationsEndWithOwners` | `Spec` | `ReservationEndsWithOwner` |
| `Membership_proofs!RevivalRestores` | `Spec` | `RevivalRestoresSeats` |
| `Membership_proofs!EarlierLeavesStay` | `Spec` | `EarlierLeaveStaysLeft` |
| `Membership_proofs!MembershipKeepsLedger` | `CrashSpec` | `LedgerSpec`, the refinement of `AliasLedger` |
| `Membership_proofs!MembershipKeepsLife` | `Spec` | `LifeSpec`, the refinement of `PeerLife` |
| `Launch_proofs!TypeCorrect` | `CrashSpec` | `TypeOK` |
| `Launch_proofs!RunningWorkIsOwned` | `CrashSpec` | `WorkerOwnsRunning` |
| `Launch_proofs!FailureIsExhaustion` | `CrashSpec` | `FailedWasExhausted` |
| `Launch_proofs!RunningMeansWasSeated` | `CrashSpec` | `RunningWasSeated` |
| `Launch_proofs!LaunchesNeverGoBack` | `CrashSpec` | `ProgressIsMonotone` |
| `Launch_proofs!RegistrationsReconcile` | `CrashSpec` | `RegistrationReconciles` |
| `Launch_proofs!WorkAccompaniesLaunch` | `Spec` | `UnfinishedHasWork` |
| `Launch_proofs!OnlyRestartsLeaveBehind` | `CrashSpec` | `OnlyRestartsOrphan` |
| `Launch_proofs!FewAreLeftBehind` | `CrashSpec` | `OrphansAreFew` |
| `Launch_proofs!StopsHold` | `CrashSpec` | `StopHolds` |
| `Launch_proofs!LaunchKeepsLife` | `Spec` | `LifeSpec`, the refinement of `PeerLife` |
| `Push_proofs!TypeCorrect` | `Spec` | `TypeOK` |
| `Push_proofs!DeliveredIsHeard` | `Spec` | `DeliveredWasHeard` |
| `Push_proofs!CursorIsDelivered` | `Spec` | `CursorWasDelivered` |
| `Push_proofs!PushKeepsLife` | `Spec` | `LifeSpec`, the refinement of `PeerLife` |
| `Push_proofs!SubscribersAreLive` | `Spec` | the daemon's map holds live identities only |
| `Messages_proofs!TypeCorrect` | `Spec` | `TypeOK` |
| `Messages_proofs!FlatThreads` | `Spec` | `ThreadsAreFlat` |
| `Messages_proofs!PushedIsAddressed` | `Spec` | `PushedWasAddressed` |
| `Messages_proofs!AckedIsHandled` | `Spec` | `AckedIsNotAwaited` |
| `Messages_proofs!HandledForGood` | `Spec` | `HandledStaysHandled` |
| `Messages_proofs!MessagesKeepMail` | `Spec` | `MailSpec`, the refinement of `Mailbox` |
| `DaemonStart_proofs!TypeCorrect` | `Spec` | `TypeOK` |
| `DaemonStart_proofs!OneStarterAtATime` | `Spec` | `OneStarter` |
| `DaemonStart_proofs!ReturnedUrlHasServed` | `Spec` | `ReturnedHasServed` |
| `Letta_proofs!TypeCorrect` | `Spec` | `TypeOK` |
| `Letta_proofs!AckedIsPrompted` | `Spec` | `AckedWasPrompted` |
| `Letta_proofs!AnsweredOnceALife` | `Spec` | `AnsweredOnce` |
| `Letta_proofs!InterruptedForNewest` | `Spec` | `InterruptedForNewer` |
| `Letta_proofs!LettaKeepsMail` | `Spec` | `MailSpec`, the refinement of `Mailbox` |
| `WebRoom_proofs!TypeCorrect` | `Spec` | `TypeOK` |
| `WebRoom_proofs!PassedEventsAreShown` | `Spec` | `PassedIsShown` |
| `Feed_proofs!TypeCorrect` | `Spec` | `TypeOK` |
| `Feed_proofs!PagesAreComplete` | `Spec` | `PagingSkipsNothing` |

**Membership.**  `CrashInv` is inductive for `CrashSpec`: types, agreement of the delivery
bit, uniqueness of aliases, liveness of subscribers.  Uniqueness is inductive only
because every reactivation asks `Unclaimed`; two seats are given back in one step only
to the same peer in different groups.  For `Spec`, `SeatInv` adds what crashes break:
who has a seat is known, reserved seats have archived owners, deleted peers have none.
The sweep vacates delivering seats only, so that the deleted hold nothing needs that an
unarchived peer has no reserved seat, which is what a crash inside a registration
breaks.  The properties of steps add what a death leaves in the rows (`DeathInv`): a held seat
has no `left_at` (`HeldIsNotLeft`), and the seats a death took carry its time (`DeathIsStamped`), so that
the comparison with `deleted_at` finds them all and no earlier leave.  The refinement of `AliasLedger` needs
uniqueness of aliases, since its state is a holder per alias and not a set of them, and that each handler
serves one peer (`StepServes`): the others keep what they hold or lose it, and only the local browser peer takes
an alias from another.  The refinement of `PeerLife` maps each handler to one of its actions; an archive that comes back
from its await to an identity that was deleted or archived meanwhile is the loss of a subscription
(`FinishedArchives`), a sweep is the end of several lives at once (`BuriedExpire`).

**Launch.**  `Kernel` is inductive for `CrashSpec`.  `RunningWasSeated` is stated of *joined*
launches too, since running is reached from there, and needs that nothing makes a seat one that never was
(`MoveIs`, for leaves, sweeps, deletions and archives);
`FailedWasExhausted` needs ownership of running work, so that finishing a row never
reopens the exhausted one, and that the worker's question fits its kind (`AsksFit`).
The crash actions go through one lemma about a restart from whatever states, rows and
peers a cut handler left (`RestartFromKeeps`).  The transition table is used only through
`AfterIsEdge` and one lemma per event.  `ProgressIsMonotone` is a fact about the edges
(`AfterClimbs`) and about every writer applying events to the row as it is.
`RegistrationReconciles` needs `Unborn`: an agent that registers belongs to an accepted
launch.  `UnfinishedHasWork` needs `Outbox`, which follows the rows of both kinds from the
launch on.

Under `CrashSpec`, where `UnfinishedHasWork` fails, `OnlyRestartsOrphan` says what is left of it.  It is proved
from `RowsInOrder` (there is no prompt work before the launch is past its spawn, and spawn work in hand means that
spawning has begun): every
handler, in whatever state earlier crashes left the rows, hands a launch on only with its work
(`HandlersOrphanNone`), and a restart touches the launch of the cut handler and that of the work in hand
(`RestartsOrphanTwo`).  `OrphansAreFew` sums this up over a behaviour.  `StopHolds` needs that the worker, whose
questions fit its work, asks a stopped launch without spawn work about its prompt only, so that no command that
is under way when the daemon dies can land there.  The refinement of `PeerLife` says of each other
writer of a peer which of its actions it is (`MovesLive`), and of stops and restarts whom they delete.

**Push.**  The bound on subscriptions is not inductive by itself: the pi extension opens one for
each recovery, and a recovery that is owed (the row is gone, a registration is under way) has not
been counted yet.  `Budget` charges each to a trouble spent.  `DeliveredWasHeard` needs that an
answered callback was passed on (`AnsweredWasHeard`), which outlives the subscription it used.  The refinement of
`PeerLife` needs types only: the daemon checks the row in the step that writes the map.  That the map holds live
identities only is then `PeerLife`'s own invariant, proved of the abstract specification (`LifeKeepsTypes`) and carried
over.

**Messages.**  Seven conjuncts stand with the types.  `Contained`: what is acknowledged is in the inbox, what is
in an inbox is stored.  `Emptied`: nobody sits in a pruned group or shares a file there.  `SharedWasAddressed`: the recipients that a suspended share remembers have its event,
which is what `PushedWasAddressed` needs of the step after the await.  `Directed`: a direct message has a peer
to answer to. `HandledStaysHandled` follows since events stored do not change and every marker moves by
maximum.  For `Mailbox`, a handler's insert and its fan-out are one sending (`InsertSends`), its
acknowledgements rows of the inbox (`RowsAcked`); that acknowledging everything takes nothing back needs
`Contained`.  `AckedIsNotAwaited` has the exception `cut`, which the actions of a death fill with exactly the rows whose marker they leave
out: the proof of `DeathStep` is that no other row is left so.  A prune is a `Withdraw` of the group's events, and of no row of
a direct message (`StartServes`).

**Letta.**  `AckedWasPrompted` needs that an acknowledgement is reached only from a prompt that got through or from a job that
gave way (`AtWork`).  `AnsweredOnce` needs where an event is in the life of a process: unseen, queued or unanswered at
work it has an answer to come (`AnsweredLast`), and it has one such place (`QueuedOnce`).
`InterruptedForNewer` needs that what the poll finds is newer than all it saw before: pages are read in order,
so that an older event is seen or acknowledged (`ReadInOrder`), and the loop that puts the page at the head of
the queue keeps the newest first.  For `Mailbox` the job at hand must be a row of the inbox, across restarts:
`QueuedOnce` and `ReadInOrder` say so.

**WebRoom.**  `PassedIsShown` is not inductive: the answer of a refresh is applied over the cursor of another
answer. `SinceIsShown` says that the list has what the refresh's own cursor had passed, `Requests` that no
cursor is ahead of the daemon.  That nothing is overlooked without a full page or window needs what the
answers leave out (`Left`): a refresh's answer is a full page of the newest, a deep link's a full window
(`RefreshIsFull`, `LinkIsFull`), and these stay true as events are added (`BeyondStays`).

**DaemonStart.**  `Recent` follows the discovery file from the read to the health check: it names the daemon read
or one whose base URL was served since the call began, and after an answer it names no other.  Who serves now has served since
every call that has not begun anew (`ServingCounts`), so that an answer proves what the property claims; this gives `ReturnedHasServed`.
`HeldByOwner` says that, until something goes wrong, the lock is there exactly while its owner is between lock and unlock.

**Feed.**  `Answers` says of each answered page that it was complete above its last row when it was read
(`Complete`), and this stays true because an author who writes again supersedes rows and adds none below
`last`.  `Listed` ties the cursor to the list's last row, `Known` the merged head to the events.  The lemmas
before are about the newest rows of a set (`HasMaximum` to `NewestRows`, by well-founded minimality of finite
subsets) and about a list cut to its newest rows.  The property was first stated without the second of its
exceptions; the proof failed at the merge of an older page, and TLC found the behaviour on a larger instance
(`TrimmedIsRefetchable` above).

**Only model-checked:** `Summaries.TypeOK`; and all liveness (`ClaudeStaysReachable`, `EveryLaunchSettles`,
`SummariesSettle`, `EveryCallReturns`, `EveryMessagePrompts`, `EventuallyShown`, `FeedSettles`) with the
violation of `pi_goes_deaf`, since liveness under fairness and ENABLED are out of the prover's reach.  **Only
proved:** `DeliveryBitAgrees`, `DeletedHoldsNoSeat`, `SubscribersAreLive`, `UnfinishedHasWork`,
`OrphansAreFew`, `LifeSpec` of `Launch`, `MailSpec` of `Letta`, and the types of `Membership`, `Launch`,
`Push`, `Messages` and `DaemonStart`, which no run repeats.

## Plan

All modules of the table above exist, and every safety property of the runs but the types of `Summaries` is proved.
What is left:

| Module | Content | Check |
|---|---|---|
| `Resume` | several launches of one peer: `planResume`, the awaits of `stat` and of the probe, forced stop, launch, a stop by an old title, the startup sweep by the latest launch | one run |

## Not modelled

**Resume** (`daemon/services/archive.ts` from `resumeSessionApply` on): `Launch` gives each launch a peer
and a title of its own, which its proofs use; several launches of one peer need a module beside it.  Two hazards
of `PROJECT.json` wait for it.

**Whole components**: routing, authentication and validation, the command line's formatting, remote hosts
(plans of ssh and tmux commands), configuration, profiles and skills, and the React views are I/O, parsing or
rendering without state that outlives a call.  Most of the web client's files are of that kind, which is why
the map covers a small share of the repository's lines: its state machines are in the store, whose room and feed
are modelled.

**Within modelled components**: group creation, descriptions and paths; leases as numbers; removal of
reactions; media files on disk and their index; the query language; `read_at` and the event stream by cursor;
rosters, launches and the entity tag of the web state; schema migrations, which run once and in a
straight line; the codex notifier, which has no state between calls; letta's remote stream and commands;
the mock data of the web client.  `PROJECT.json` lists every component with its status.

## Running

`tlc -workers 2 -config X.cfg M` with the module and configuration of a run in
`PROJECT.json`, `tlapm M_proofs.tla` for the proofs.  The longest runs, `messages`, `summaries` and `launch_two`, take one to
about three minutes each.
