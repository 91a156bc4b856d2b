-------------------------------- MODULE Push --------------------------------
(***************************************************************************)
(* Push delivery between the daemon and the adapters inside the agents'    *)
(* processes.  The daemon posts an event to the subscriber's callback and  *)
(* acts on the answer after the await; the adapters keep their peer and    *)
(* their subscription alive from a heartbeat timer, the MCP adapter of     *)
(* claude in one way, the extension of pi in another.  Every request of an *)
(* adapter is awaited: the daemon may act between any two of its steps,    *)
(* and the heartbeat and the start of a session overlap.                   *)
(*                                                                         *)
(* A subscription (callback server and token) is a number; 0 is none.      *)
(***************************************************************************)
EXTENDS Integers, FiniteSets

CONSTANTS
  Peers,         \* the agents' identities
  MaxEvents,     \* bound: events published
  MaxSessions,   \* bound: subscriptions opened by sessions that start
  MaxTroubles    \* bound: restarts, deletions, archives, failed requests

ASSUME PushAssumption ==
  /\ MaxEvents \in Nat
  /\ MaxSessions \in Nat \ {0}
  /\ MaxTroubles \in Nat

VARIABLES
  tool,        \* peers.tool: claude's adapter or the pi extension
  row,         \* the peer in the daemon's tables: live, archived or deleted
  subscriber,  \* ctx.subscribers: the subscription the daemon knows, per peer
  calls,       \* callbacks that notifySubscribers awaits
  delivered,   \* inbox rows with delivered_at, per peer
  cursor,      \* peers.last_cursor
  published,   \* number of events so far
  session,     \* the subscription whose callback server runs in the process
  opened,      \* number of subscriptions that the process opened so far
  stage,       \* the requests that the adapter awaits, and what they subscribe
  heard,       \* history: events that the adapter passed on to its agent
  troubles     \* restarts and failures so far

vars == <<tool, row, subscriber, calls, delivered, cursor, published,
          session, opened, stage, heard, troubles>>
daemon  == <<tool, row, subscriber, calls, delivered, cursor, published>>
adapter == <<session, opened, stage, heard>>

Events   == 1..MaxEvents
Sessions == 1..(MaxSessions + MaxTroubles)  \* each recovery of pi costs a trouble
Tasks    == {"beat", "start"}
Stages   == {"none", "heartbeat", "subscribe", "register", "restore", "activate"}
Callback == [peer : Peers, event : Events, token : Sessions,
             reply : {"pending", "ok", "failed"}]

TypeOK ==
  /\ tool \in [Peers -> {"claude", "pi"}]
  /\ row \in [Peers -> {"live", "archived", "deleted"}]
  /\ subscriber \in [Peers -> {0} \cup Sessions]
  /\ calls \subseteq Callback
  /\ delivered \in [Peers -> SUBSET Events]
  /\ cursor \in [Peers -> 0..MaxEvents]
  /\ published \in 0..MaxEvents
  /\ session \in [Peers -> {0} \cup Sessions]
  /\ opened \in [Peers -> Sessions]
  /\ stage \in [Peers -> [Tasks -> [at : Stages, token : {0} \cup Sessions]]]
  /\ heard \in [Peers -> SUBSET Events]
  /\ troubles \in 0..MaxTroubles

\* Something goes wrong, at most MaxTroubles times.
Trouble == troubles < MaxTroubles /\ troubles' = troubles + 1

-----------------------------------------------------------------------------
(*                               The daemon                                *)

\* notifySubscribers up to its await: an archived peer is skipped, and one
\* without a subscriber has the inbox only.
NotifySubscribers(ps, e) ==
  calls' = calls \cup
    {[peer |-> p, event |-> e, token |-> subscriber[p], reply |-> "pending"] :
       p \in {q \in ps : row[q] # "archived" /\ subscriber[q] # 0}}

\* A message or a shared file is stored and its recipients are notified.
Publish(ps) ==
  /\ published < MaxEvents
  /\ published' = published + 1
  /\ NotifySubscribers(ps, published + 1)
  /\ UNCHANGED <<tool, row, subscriber, delivered, cursor, adapter, troubles>>

\* Mutant of CallbackReturned: delivered_at is written whatever was answered.
CallbackReturnedUnchecked(c) ==
  /\ c \in calls /\ c.reply # "pending"
  /\ calls' = calls \ {c}
  /\ delivered' = [delivered EXCEPT ![c.peer] = @ \cup {c.event}]
  /\ cursor' = [cursor EXCEPT ![c.peer] = c.event]
  /\ subscriber' = IF c.reply = "ok" THEN subscriber ELSE [subscriber EXCEPT ![c.peer] = 0]
  /\ UNCHANGED <<tool, row, published, adapter, troubles>>

\* Mutant of CallbackReturned: last_cursor is written before the answer is looked at.
CallbackReturnedCursorFirst(c) ==
  /\ c \in calls /\ c.reply # "pending"
  /\ calls' = calls \ {c}
  /\ cursor' = [cursor EXCEPT ![c.peer] = c.event]
  /\ delivered' = IF c.reply = "ok" THEN [delivered EXCEPT ![c.peer] = @ \cup {c.event}]
                  ELSE delivered
  /\ subscriber' = IF c.reply = "ok" THEN subscriber ELSE [subscriber EXCEPT ![c.peer] = 0]
  /\ UNCHANGED <<tool, row, published, adapter, troubles>>

\* The await is over.  A failure removes the subscriber that is there now,
\* whichever it is; a success moves last_cursor to this event, also backwards.
CallbackReturned(c) ==
  /\ c \in calls
  /\ calls' = calls \ {c}
  /\ \/ /\ c.reply = "failed"
        /\ subscriber' = [subscriber EXCEPT ![c.peer] = 0]
        /\ UNCHANGED <<delivered, cursor>>
     \/ /\ c.reply = "ok"
        /\ delivered' = [delivered EXCEPT ![c.peer] = @ \cup {c.event}]
        /\ cursor' = [cursor EXCEPT ![c.peer] = c.event]
        /\ UNCHANGED subscriber
  /\ UNCHANGED <<tool, row, published, adapter, troubles>>

\* DELETE /peers/:id, or the retention sweep.
Delete(p) ==
  /\ Trouble
  /\ row[p] # "deleted"
  /\ row' = [row EXCEPT ![p] = "deleted"]
  /\ subscriber' = [subscriber EXCEPT ![p] = 0]
  /\ UNCHANGED <<tool, calls, delivered, cursor, published, adapter>>

\* The identity is archived while its process still runs.
Archive(p) ==
  /\ Trouble
  /\ row[p] = "live"
  /\ row' = [row EXCEPT ![p] = "archived"]
  /\ subscriber' = [subscriber EXCEPT ![p] = 0]
  /\ UNCHANGED <<tool, calls, delivered, cursor, published, adapter>>

\* The daemon dies and is started again: its map and its awaits are gone.
Restart ==
  /\ Trouble
  /\ subscriber' = [p \in Peers |-> 0]
  /\ calls' = {}
  /\ UNCHANGED <<tool, row, delivered, cursor, published, adapter>>

-----------------------------------------------------------------------------
(*                              The adapters                               *)

Done(p, task) == stage' = [stage EXCEPT ![p][task] = [at |-> "none", token |-> 0]]
Await(p, s) == stage' = [stage EXCEPT ![p]["beat"] = [at |-> s, token |-> 0]]

\* A subscription is requested; the request carries its token.
AwaitSubscription(p, task, s, token) ==
  stage' = [stage EXCEPT ![p][task] = [at |-> s, token |-> token]]

\* The callback server's handler: a request with another subscription's token
\* is refused, or finds no server; passing the event on may fail.
Answer(c) ==
  /\ c \in calls /\ c.reply = "pending"
  /\ \/ /\ c.token = session[c.peer]
        /\ heard' = [heard EXCEPT ![c.peer] = @ \cup {c.event}]
        /\ calls' = (calls \ {c}) \cup {[c EXCEPT !.reply = "ok"]}
        /\ UNCHANGED troubles
     \/ /\ c.token = session[c.peer] => Trouble
        /\ c.token # session[c.peer] => UNCHANGED troubles
        /\ calls' = (calls \ {c}) \cup {[c EXCEPT !.reply = "failed"]}
        /\ UNCHANGED heard
  /\ UNCHANGED <<tool, row, subscriber, delivered, cursor, published, session, opened, stage>>

\* A registration brings a deleted or archived identity back.
Revive(p) == row' = [row EXCEPT ![p] = "live"]

\* The process opens a new subscription (the old one's server is stopped).
OpenSession(p) ==
  /\ opened' = [opened EXCEPT ![p] = @ + 1]
  /\ session' = [session EXCEPT ![p] = opened[p] + 1]

\* A session starts in the process (bridge_register, session_start): the peer is
\* registered, unless this process did so before, a new callback server runs, and
\* the subscription is requested.
Activate(p) ==
  /\ stage[p]["start"].at = "none"
  /\ opened[p] < MaxSessions
  /\ Revive(p) \/ (row[p] # "deleted" /\ UNCHANGED row)
  /\ OpenSession(p)
  /\ AwaitSubscription(p, "start", "activate", opened[p] + 1)
  /\ UNCHANGED <<tool, subscriber, calls, delivered, cursor, published, heard, troubles>>

\* The heartbeat timer calls maintainPeer.
Beat(p) ==
  /\ stage[p]["beat"].at = "none"
  /\ Await(p, "heartbeat")
  /\ UNCHANGED <<daemon, session, opened, heard, troubles>>

\* Mutant of HeartbeatAnswered: claude's adapter is content with the heartbeat.
HeartbeatSuffices(p) ==
  /\ stage[p]["beat"].at = "heartbeat"
  /\ \/ row[p] # "deleted" /\ Done(p, "beat") /\ UNCHANGED troubles
     \/ row[p] = "deleted" /\ Await(p, "register") /\ UNCHANGED troubles
     \/ Trouble /\ Await(p, "register")
  /\ UNCHANGED <<daemon, session, opened, heard>>

\* PATCH /peers/:id/heartbeat: 404 for a deleted peer, accepted for an archived
\* one.  After it, claude's adapter subscribes again and pi's returns.
HeartbeatAnswered(p) ==
  /\ stage[p]["beat"].at = "heartbeat"
  /\ \/ /\ row[p] # "deleted"
        /\ IF tool[p] = "pi" THEN Done(p, "beat")
           ELSE AwaitSubscription(p, "beat", "subscribe", session[p])
        /\ UNCHANGED troubles
     \/ row[p] = "deleted" /\ Await(p, "register") /\ UNCHANGED troubles
     \/ Trouble /\ Await(p, "register")
  /\ UNCHANGED <<daemon, session, opened, heard>>

\* Mutant of Subscribed: an archived identity is not turned away.
SubscribedArchived(p, task) ==
  /\ row[p] # "deleted"
  /\ subscriber' = [subscriber EXCEPT ![p] = stage[p][task].token]
  /\ Done(p, task)

\* POST /subscriptions: 404 for a deleted peer, 409 for an archived one.
Subscribed(p, task) ==
  /\ row[p] = "live"
  /\ subscriber' = [subscriber EXCEPT ![p] = stage[p][task].token]
  /\ Done(p, task)

\* The subscription after a good heartbeat (claude only); refused, the adapter
\* goes on to register the peer again.
SubscribeAnswered(p) ==
  /\ stage[p]["beat"].at = "subscribe"
  /\ \/ Subscribed(p, "beat") /\ UNCHANGED troubles
     \/ /\ row[p] # "live" /\ UNCHANGED troubles
        /\ Await(p, "register") /\ UNCHANGED subscriber
     \/ Trouble /\ Await(p, "register") /\ UNCHANGED subscriber
  /\ UNCHANGED <<tool, row, calls, delivered, cursor, published, session, opened, heard>>

\* Recovery: POST /peers/register with the same peer_id; pi builds a new
\* subscription, claude keeps its own.
RegisterAnswered(p) ==
  /\ stage[p]["beat"].at = "register"
  /\ \/ /\ Revive(p)
        /\ IF tool[p] = "pi"
           THEN OpenSession(p) /\ AwaitSubscription(p, "beat", "restore", opened[p] + 1)
           ELSE /\ UNCHANGED <<session, opened>>
                /\ AwaitSubscription(p, "beat", "restore", session[p])
        /\ UNCHANGED troubles
     \/ Trouble /\ Done(p, "beat") /\ UNCHANGED <<row, session, opened>>
  /\ UNCHANGED <<tool, subscriber, calls, delivered, cursor, published, heard>>

\* The last request of a recovery; a failure is logged.
RestoreAnswered(p) ==
  /\ stage[p]["beat"].at = "restore"
  /\ \/ Subscribed(p, "beat") /\ UNCHANGED troubles
     \/ row[p] # "live" /\ Done(p, "beat") /\ UNCHANGED <<subscriber, troubles>>
     \/ Trouble /\ Done(p, "beat") /\ UNCHANGED subscriber
  /\ UNCHANGED <<tool, row, calls, delivered, cursor, published, session, opened, heard>>

\* The subscription of a session that starts.  When it fails, pi tears the
\* session down and has no callback server; claude's stays for the next heartbeat.
ActivateAnswered(p) ==
  /\ stage[p]["start"].at = "activate"
  /\ \/ Subscribed(p, "start") /\ UNCHANGED <<session, troubles>>
     \/ /\ row[p] # "live" \/ troubles < MaxTroubles
        /\ troubles' = IF row[p] = "live" THEN troubles + 1 ELSE troubles
        /\ session' = IF tool[p] = "pi" THEN [session EXCEPT ![p] = 0] ELSE session
        /\ Done(p, "start")
        /\ UNCHANGED subscriber
  /\ UNCHANGED <<tool, row, calls, delivered, cursor, published, opened, heard>>

-----------------------------------------------------------------------------
\* Every peer is registered and subscribed.
Init ==
  /\ tool \in [Peers -> {"claude", "pi"}]
  /\ row = [p \in Peers |-> "live"]
  /\ subscriber = [p \in Peers |-> 1]
  /\ calls = {}
  /\ delivered = [p \in Peers |-> {}]
  /\ cursor = [p \in Peers |-> 0]
  /\ published = 0
  /\ session = [p \in Peers |-> 1]
  /\ opened = [p \in Peers |-> 1]
  /\ stage = [p \in Peers |-> [task \in Tasks |-> [at |-> "none", token |-> 0]]]
  /\ heard = [p \in Peers |-> {}]
  /\ troubles = 0

Request(p) ==
  \/ HeartbeatAnswered(p) \/ SubscribeAnswered(p) \/ RegisterAnswered(p)
  \/ RestoreAnswered(p)

Next ==
  \/ \E ps \in SUBSET Peers : Publish(ps)
  \/ \E c \in calls : Answer(c) \/ CallbackReturned(c)
  \/ \E p \in Peers : Delete(p) \/ Archive(p) \/ Activate(p) \/ ActivateAnswered(p)
                     \/ Beat(p) \/ Request(p)
  \/ Restart

Spec == Init /\ [][Next]_vars

\* Timers fire, requests and callbacks are answered.  Nothing is said of who
\* publishes, starts a session, archives, deletes or kills the daemon.
Fairness ==
  /\ \A p \in Peers : WF_vars(Beat(p)) /\ WF_vars(Request(p)) /\ WF_vars(ActivateAnswered(p))
  /\ WF_vars(\E c \in calls : Answer(c))
  /\ WF_vars(\E c \in calls : CallbackReturned(c))

FairSpec == Spec /\ Fairness

-----------------------------------------------------------------------------
(*                               Properties                                *)

\* delivered_at is never written for an event that the adapter did not pass on
\* to its agent, through restarts, replaced subscriptions and late answers.
DeliveredWasHeard == \A p \in Peers : delivered[p] \subseteq heard[p]

\* last_cursor always names an event that was delivered, although callbacks
\* that return out of order move it back and forth.
CursorWasDelivered == \A p \in Peers : cursor[p] # 0 => cursor[p] \in delivered[p]

Life == INSTANCE PeerLife WITH
  life       <- row,
  subscribed <- {p \in Peers : subscriber[p] # 0}

\* Whatever the adapter's overlapping requests find when they are answered, only a
\* registration brings an identity back, and none is subscribed to live push
\* that is archived or deleted.
LifeSpec == Life!Spec

\* The process is reachable: the daemon holds the subscription it serves.
Reachable(p) == row[p] = "live" /\ session[p] # 0 /\ subscriber[p] = session[p]

\* Claude's adapter: whatever was lost (a restart of the daemon, a deletion, an
\* archive, a late failure that removed a renewed subscription), once troubles
\* are over the agent is subscribed again and stays so.
ClaudeStaysReachable == \A p \in Peers : tool[p] = "claude" => <>[]Reachable(p)

\* What the comment of the pi extension's recovery says, that it mirrors the MCP
\* adapter's maintainPeer: as long as the process has its callback server and
\* nobody archives it, the daemon comes to hold its subscription again.
PiStaysReachable ==
  \A p \in Peers : tool[p] = "pi" =>
    []<>(Reachable(p) \/ row[p] = "archived" \/ session[p] = 0)
=============================================================================
