----------------------------- MODULE Push_proofs -----------------------------
(***************************************************************************)
(* Theorems about Push, for every set of peers and every bound on events,  *)
(* sessions and troubles.                                                  *)
(***************************************************************************)
EXTENDS Push, TLAPS

USE PushAssumption DEF PushAssumption

-----------------------------------------------------------------------------
(***************************************************************************)
(* Type correctness.  A process may open more subscriptions than sessions  *)
(* start in it, since the pi extension opens one for each recovery; each   *)
(* recovery is owed to a trouble, which the budget counts.                 *)
(***************************************************************************)

\* The row is gone or a registration is under way: a recovery will open a
\* subscription that has not been counted.
Owed(p) == row[p] = "deleted" \/ stage[p]["beat"].at = "register"

Budget(p) ==
  /\ tool[p] = "claude" => opened[p] <= MaxSessions
  /\ tool[p] = "pi" => opened[p] <= MaxSessions + troubles
  /\ tool[p] = "pi" /\ Owed(p) => troubles > 0 /\ opened[p] < MaxSessions + troubles
  /\ tool[p] = "pi" => stage[p]["beat"].at # "subscribe"

Typed == TypeOK /\ \A p \in Peers : Budget(p)

LEMMA TypedInit == Init => Typed
  BY DEF Init, Typed, TypeOK, Budget, Owed, Sessions, Tasks, Stages, Callback, Events

\* The adapter's next request is recorded.
LEMMA StageUpdate ==
  ASSUME TypeOK, NEW p \in Peers, NEW task \in Tasks, NEW s \in Stages,
         NEW token \in {0} \cup Sessions,
         stage' = [stage EXCEPT ![p][task] = [at |-> s, token |-> token]]
  PROVE  /\ stage' \in [Peers -> [Tasks -> [at : Stages, token : {0} \cup Sessions]]]
         /\ \A q \in Peers, k \in Tasks :
              stage'[q][k].at = IF q = p /\ k = task THEN s ELSE stage[q][k].at
  <1> DEFINE r == [at |-> s, token |-> token]
  <1>1. r \in [at : Stages, token : {0} \cup Sessions] /\ r.at = s
    OBVIOUS
  <1>2. stage' = [stage EXCEPT ![p] = [stage[p] EXCEPT ![task] = r]]
    BY DEF TypeOK
  <1> HIDE DEF r
  <1>3. stage' \in [Peers -> [Tasks -> [at : Stages, token : {0} \cup Sessions]]]
    BY <1>1, <1>2 DEF TypeOK
  <1>4. ASSUME NEW q \in Peers, NEW k \in Tasks
        PROVE  stage'[q][k] = IF q = p /\ k = task THEN r ELSE stage[q][k]
    BY <1>2 DEF TypeOK
  <1>5. QED BY <1>1, <1>3, <1>4

\* What a subscription opened by p leaves of the budget.
LEMMA OpenTyped ==
  ASSUME TypeOK, NEW p \in Peers, OpenSession(p), opened[p] < MaxSessions + MaxTroubles
  PROVE  /\ opened[p] + 1 \in Sessions
         /\ opened' \in [Peers -> Sessions]
         /\ session' \in [Peers -> {0} \cup Sessions]
         /\ \A q \in Peers : opened'[q] = IF q = p THEN opened[p] + 1 ELSE opened[q]
  <1>1. opened[p] + 1 \in Sessions
    BY DEF TypeOK, Sessions
  <1>2. QED BY <1>1 DEF TypeOK, OpenSession

LEMMA AdapterTyped ==
  ASSUME Typed, NEW p \in Peers, Beat(p) \/ Request(p) \/ Activate(p) \/ ActivateAnswered(p)
  PROVE  Typed'
  <1> USE DEF Typed
  <1>1. 0 \in {0} \cup Sessions /\ session[p] \in {0} \cup Sessions
        /\ \A k \in Tasks : stage[p][k].token \in {0} \cup Sessions
    BY DEF TypeOK
  <1>2. "beat" \in Tasks /\ "start" \in Tasks
    BY DEF Tasks
  <1>3. {"none", "heartbeat", "subscribe", "register", "restore", "activate"} = Stages
    BY DEF Stages
  <1>4. opened[p] \in Sessions /\ opened[p] \in Nat /\ troubles \in Nat /\ troubles <= MaxTroubles
        /\ tool[p] \in {"claude", "pi"} /\ Budget(p)
    BY DEF TypeOK, Sessions
  <1>5. CASE Beat(p)
    <2>1. stage' = [stage EXCEPT ![p]["beat"] = [at |-> "heartbeat", token |-> 0]]
      BY <1>5 DEF Beat, Await
    <2>2. QED
      BY <1>1, <1>2, <1>3, <1>5, <2>1, StageUpdate DEF Beat, daemon, TypeOK, Budget, Owed
  <1>6. CASE Activate(p)
    <2>1. opened[p] < MaxSessions /\ opened[p] < MaxSessions + MaxTroubles
      BY <1>4, <1>6 DEF Activate
    <2>2. stage' = [stage EXCEPT ![p]["start"] = [at |-> "activate", token |-> opened[p] + 1]]
      BY <1>6 DEF Activate, AwaitSubscription
    <2>3. TypeOK'
      BY <1>1, <1>2, <1>3, <1>6, <2>1, <2>2, OpenTyped, StageUpdate
         DEF Activate, Revive, TypeOK
    <2>4. ASSUME NEW q \in Peers PROVE Budget(q)'
      <3>1. stage'[q]["beat"].at = stage[q]["beat"].at
        BY <1>1, <1>2, <1>3, <2>2, StageUpdate
      <3>2. CASE q = p
        <4>1. opened'[p] = opened[p] + 1 /\ tool' = tool /\ troubles' = troubles
          BY <1>4, <1>6, <2>1, OpenTyped DEF Activate
        <4>2. row'[p] # "deleted"
          BY <1>6 DEF Activate, Revive, TypeOK
        <4>3. QED BY <1>4, <2>1, <3>1, <3>2, <4>1, <4>2 DEF Budget, Owed
      <3>3. CASE q # p
        BY <1>4, <1>6, <2>1, <3>1, <3>3, OpenTyped DEF Activate, Revive, TypeOK, Budget, Owed
      <3>4. QED BY <3>2, <3>3
    <2>5. QED BY <2>3, <2>4
  <1>7. CASE ActivateAnswered(p)
    <2>1. PICK s \in {0} \cup Sessions :
            /\ subscriber' = subscriber \/ subscriber' = [subscriber EXCEPT ![p] = s]
            /\ session' = session \/ session' = [session EXCEPT ![p] = 0]
            /\ stage' = [stage EXCEPT ![p]["start"] = [at |-> "none", token |-> 0]]
            /\ troubles' \in troubles..MaxTroubles
      BY <1>1, <1>2, <1>4, <1>7 DEF ActivateAnswered, Subscribed, Done
    <2>2. subscriber' \in [Peers -> {0} \cup Sessions] /\ session' \in [Peers -> {0} \cup Sessions]
      BY <2>1 DEF TypeOK
    <2>3. stage' \in [Peers -> [Tasks -> [at : Stages, token : {0} \cup Sessions]]]
      BY <1>1, <1>2, <1>3, <2>1, StageUpdate
    <2>4. TypeOK'
      BY <1>4, <1>7, <2>1, <2>2, <2>3 DEF ActivateAnswered, TypeOK
    <2>5. QED
      BY <1>1, <1>2, <1>3, <1>4, <1>7, <2>1, <2>4, StageUpdate
         DEF ActivateAnswered, TypeOK, Budget, Owed, Sessions
  <1>8. CASE HeartbeatAnswered(p)
    <2>1. PICK s \in {"none", "subscribe", "register"}, t \in {0} \cup Sessions :
            /\ stage' = [stage EXCEPT ![p]["beat"] = [at |-> s, token |-> t]]
            /\ s = "subscribe" => tool[p] # "pi"
            /\ \/ troubles' = troubles /\ (s = "register" => row[p] = "deleted")
               \/ troubles' = troubles + 1 /\ troubles < MaxTroubles
      BY <1>1, <1>4, <1>8 DEF HeartbeatAnswered, Done, Await, AwaitSubscription, Trouble
    <2>2. TypeOK'
      BY <1>1, <1>2, <1>3, <1>4, <1>8, <2>1, StageUpdate DEF HeartbeatAnswered, daemon, TypeOK
    <2>3. QED
      BY <1>1, <1>2, <1>3, <1>4, <1>8, <2>1, <2>2, StageUpdate
         DEF HeartbeatAnswered, daemon, TypeOK, Budget, Owed, Sessions
  <1>9. CASE SubscribeAnswered(p)
    <2>1. PICK s \in {"none", "register"}, t \in {0} \cup Sessions :
            /\ stage' = [stage EXCEPT ![p]["beat"] = [at |-> s, token |-> 0]]
            /\ subscriber' = subscriber \/ subscriber' = [subscriber EXCEPT ![p] = t]
            /\ troubles' = troubles \/ (troubles' = troubles + 1 /\ troubles < MaxTroubles)
      BY <1>1, <1>2, <1>4, <1>9 DEF SubscribeAnswered, Subscribed, Done, Await, Trouble
    <2>2. subscriber' \in [Peers -> {0} \cup Sessions]
      BY <2>1 DEF TypeOK
    <2>3. stage' \in [Peers -> [Tasks -> [at : Stages, token : {0} \cup Sessions]]]
      BY <1>1, <1>2, <1>3, <2>1, StageUpdate
    <2>4. TypeOK'
      BY <1>4, <1>9, <2>1, <2>2, <2>3 DEF SubscribeAnswered, TypeOK
    <2>5. QED
      BY <1>1, <1>2, <1>3, <1>4, <1>9, <2>1, <2>4, StageUpdate
         DEF SubscribeAnswered, TypeOK, Budget, Owed, Sessions
  <1>10. CASE RegisterAnswered(p) /\ opened' # opened
    <2>1. /\ opened[p] < MaxSessions + troubles /\ opened[p] < MaxSessions + MaxTroubles
          /\ Revive(p) /\ OpenSession(p) /\ troubles' = troubles
          /\ stage' = [stage EXCEPT ![p]["beat"] = [at |-> "restore", token |-> opened[p] + 1]]
      BY <1>4, <1>10 DEF RegisterAnswered, AwaitSubscription, Budget, Owed, Done, Trouble
    <2>2. TypeOK'
      BY <1>1, <1>2, <1>3, <1>4, <1>10, <2>1, OpenTyped, StageUpdate
         DEF RegisterAnswered, Revive, TypeOK
    <2>3. QED
      BY <1>1, <1>2, <1>3, <1>4, <1>10, <2>1, <2>2, OpenTyped, StageUpdate
         DEF RegisterAnswered, Revive, TypeOK, Budget, Owed
  <1>11. CASE RegisterAnswered(p) /\ opened' = opened
    <2>1. PICK s \in {"none", "restore"}, t \in {0} \cup Sessions :
            /\ stage' = [stage EXCEPT ![p]["beat"] = [at |-> s, token |-> t]]
            /\ troubles' = troubles \/ (troubles' = troubles + 1 /\ troubles < MaxTroubles)
            /\ row' = row \/ (Revive(p) /\ tool[p] = "claude")
            /\ UNCHANGED <<session, opened>>
      <3>1. OpenSession(p) => opened' # opened
        BY <1>4 DEF OpenSession, TypeOK
      <3>2. QED BY <1>1, <1>4, <1>11, <3>1 DEF RegisterAnswered, AwaitSubscription, Done, Trouble
    <2>2. row' \in [Peers -> {"live", "archived", "deleted"}]
      BY <2>1 DEF Revive, TypeOK
    <2>3. stage' \in [Peers -> [Tasks -> [at : Stages, token : {0} \cup Sessions]]]
      BY <1>1, <1>2, <1>3, <2>1, StageUpdate
    <2>4. TypeOK'
      BY <1>4, <1>11, <2>1, <2>2, <2>3 DEF RegisterAnswered, TypeOK
    <2>5. QED
      BY <1>1, <1>2, <1>3, <1>4, <1>11, <2>1, <2>4, StageUpdate
         DEF RegisterAnswered, Revive, TypeOK, Budget, Owed, Sessions
  <1>12. CASE RestoreAnswered(p)
    <2>1. PICK t \in {0} \cup Sessions :
            /\ stage' = [stage EXCEPT ![p]["beat"] = [at |-> "none", token |-> 0]]
            /\ subscriber' = subscriber \/ subscriber' = [subscriber EXCEPT ![p] = t]
            /\ troubles' = troubles \/ (troubles' = troubles + 1 /\ troubles < MaxTroubles)
      BY <1>1, <1>2, <1>4, <1>12 DEF RestoreAnswered, Subscribed, Done, Trouble
    <2>2. subscriber' \in [Peers -> {0} \cup Sessions]
      BY <2>1 DEF TypeOK
    <2>3. stage' \in [Peers -> [Tasks -> [at : Stages, token : {0} \cup Sessions]]]
      BY <1>1, <1>2, <1>3, <2>1, StageUpdate
    <2>4. TypeOK'
      BY <1>4, <1>12, <2>1, <2>2, <2>3 DEF RestoreAnswered, TypeOK
    <2>5. QED
      BY <1>1, <1>2, <1>3, <1>4, <1>12, <2>1, <2>4, StageUpdate
         DEF RestoreAnswered, TypeOK, Budget, Owed, Sessions
  <1>13. QED
    BY <1>5, <1>6, <1>7, <1>8, <1>9, <1>10, <1>11, <1>12 DEF Request

LEMMA TypedStep == Typed /\ [Next]_vars => Typed'
  <1> SUFFICES ASSUME Typed, [Next]_vars PROVE Typed'
    OBVIOUS
  <1> USE DEF Typed, TypeOK
  <1>1. ASSUME NEW ps \in SUBSET Peers, Publish(ps) PROVE Typed'
    <2>1. published + 1 \in Events
      BY <1>1 DEF Publish, Events
    <2>2. calls' \subseteq Callback
      BY <1>1, <2>1 DEF Publish, NotifySubscribers, Callback
    <2>3. QED BY <1>1, <2>1, <2>2 DEF Publish, adapter, Budget, Owed, Events
  <1>2. ASSUME NEW c \in calls, Answer(c) PROVE Typed'
    <2>1. /\ c.peer \in Peers /\ c.event \in Events
          /\ \A r \in {"ok", "failed"} : [c EXCEPT !.reply = r] \in Callback
      BY DEF Callback
    <2>2. calls' \subseteq Callback
      BY <1>2, <2>1 DEF Answer
    <2>3. heard' \in [Peers -> SUBSET Events]
      <3>1. heard[c.peer] \cup {c.event} \in SUBSET Events
        BY <2>1
      <3>2. QED BY <1>2, <2>1, <3>1 DEF Answer
    <2>4. troubles' = troubles \/ (troubles' = troubles + 1 /\ troubles < MaxTroubles)
      BY <1>2 DEF Answer, Trouble
    <2>5. QED BY <1>2, <2>2, <2>3, <2>4 DEF Answer, Budget, Owed, Sessions
  <1>3. ASSUME NEW c \in calls, CallbackReturned(c) PROVE Typed'
    <2>1. c.peer \in Peers /\ c.event \in Events /\ c.event \in 0..MaxEvents
      BY DEF Callback, Events
    <2>2. CASE c.reply = "failed"
      BY <1>3, <2>1, <2>2 DEF CallbackReturned, adapter, Budget, Owed
    <2>3. CASE c.reply = "ok"
      <3>1. delivered' \in [Peers -> SUBSET Events] /\ cursor' \in [Peers -> 0..MaxEvents]
        <4>1. delivered[c.peer] \cup {c.event} \in SUBSET Events
          BY <2>1
        <4>2. /\ delivered' = [delivered EXCEPT ![c.peer] = delivered[c.peer] \cup {c.event}]
              /\ cursor' = [cursor EXCEPT ![c.peer] = c.event]
          BY <1>3, <2>3 DEF CallbackReturned
        <4>3. delivered' \in [Peers -> SUBSET Events]
          BY <2>1, <4>1, <4>2
        <4>4. QED BY <2>1, <4>2, <4>3
      <3>2. QED BY <1>3, <2>1, <2>3, <3>1 DEF CallbackReturned, adapter, Budget, Owed
    <2>4. QED BY <1>3, <2>2, <2>3 DEF CallbackReturned
  <1>4. ASSUME NEW p \in Peers, Delete(p) \/ Archive(p) PROVE Typed'
    <2>1. TypeOK'
      <3>1. /\ row' \in [Peers -> {"live", "archived", "deleted"}]
            /\ subscriber' = [subscriber EXCEPT ![p] = 0]
            /\ troubles' = troubles + 1 /\ troubles < MaxTroubles
        BY <1>4 DEF Delete, Archive, Trouble
      <3>2. QED BY <1>4, <3>1 DEF Delete, Archive, adapter
    <2>2. ASSUME NEW q \in Peers PROVE Budget(q)'
      BY <1>4 DEF Delete, Archive, Trouble, adapter, Budget, Owed, Sessions
    <2>3. QED BY <2>1, <2>2
  <1>5. ASSUME NEW p \in Peers,
               Beat(p) \/ Request(p) \/ Activate(p) \/ ActivateAnswered(p)
        PROVE  Typed'
    BY <1>5, AdapterTyped
  <1>6. CASE Restart
    BY <1>6 DEF Restart, Trouble, adapter, Budget, Owed, Sessions
  <1>7. CASE UNCHANGED vars
    BY <1>7 DEF vars, Budget, Owed
  <1>8. QED
    BY <1>1, <1>2, <1>3, <1>4, <1>5, <1>6, <1>7 DEF Next

\* Every variable keeps its type; above all, the subscriptions that a process opens
\* stay within the sessions that start in it and the troubles it recovers from.
THEOREM TypeCorrect == Spec => []TypeOK
  <1>1. Typed => TypeOK
    BY DEF Typed
  <1>2. QED BY TypedInit, TypedStep, <1>1, PTL DEF Spec

-----------------------------------------------------------------------------
(***************************************************************************)
(* What is marked delivered.  A callback is answered "ok" in the step in   *)
(* which the adapter passes the event on, and what was passed on stays so. *)
(***************************************************************************)

AnsweredWasHeard == \A c \in calls : c.reply = "ok" => c.event \in heard[c.peer]

DeliveryInv == Typed /\ AnsweredWasHeard /\ DeliveredWasHeard /\ CursorWasDelivered

LEMMA DeliveryStep == DeliveryInv /\ [Next]_vars => DeliveryInv'
  <1> SUFFICES ASSUME DeliveryInv, [Next]_vars PROVE DeliveryInv'
    OBVIOUS
  <1> USE DEF DeliveryInv
  <1>1. Typed' /\ TypeOK /\ TypeOK'
    BY TypedStep DEF Typed
  <1> HIDE DEF DeliveryInv
  <1> USE DEF AnsweredWasHeard, DeliveredWasHeard, CursorWasDelivered
  <1>2. ASSUME NEW ps \in SUBSET Peers, Publish(ps) PROVE DeliveryInv'
    BY <1>1, <1>2 DEF DeliveryInv, Publish, NotifySubscribers, adapter
  <1>3. ASSUME NEW c \in calls, Answer(c) PROVE DeliveryInv'
    <2>1. c \in Callback
      BY DEF DeliveryInv, Typed, TypeOK
    <2>2. \A p \in Peers : heard[p] \subseteq heard'[p]
      <3>1. \/ heard' = heard
            \/ heard' = [heard EXCEPT ![c.peer] = heard[c.peer] \cup {c.event}]
        BY <1>3 DEF Answer
      <3>2. heard \in [Peers -> SUBSET Events]
        BY DEF DeliveryInv, Typed, TypeOK
      <3>3. QED BY <3>1, <3>2
    <2>3. AnsweredWasHeard'
      <3>1. ASSUME NEW d \in calls', d.reply = "ok" PROVE d.event \in heard'[d.peer]
        <4>1. CASE d \in calls
          BY <2>2, <3>1, <4>1 DEF DeliveryInv, Typed, TypeOK, Callback
        <4>2. CASE d \notin calls
          <5>1. d = [c EXCEPT !.reply = "ok"] /\ heard' = [heard EXCEPT ![c.peer] = @ \cup {c.event}]
            BY <1>3, <2>1, <3>1, <4>2 DEF Answer, Callback
          <5>2. QED BY <2>1, <5>1 DEF Callback, DeliveryInv, Typed, TypeOK
        <4>3. QED BY <4>1, <4>2
      <3>2. QED BY <3>1
    <2>4. QED BY <1>1, <1>3, <2>2, <2>3 DEF Answer, DeliveryInv
  <1>4. ASSUME NEW c \in calls, CallbackReturned(c) PROVE DeliveryInv'
    <2>1. c.peer \in Peers /\ c.event \in Events
      BY DEF DeliveryInv, Typed, TypeOK, Callback
    <2>2. AnsweredWasHeard'
      BY <1>4 DEF CallbackReturned, adapter, DeliveryInv
    <2>3. CASE c.reply = "failed"
      BY <1>1, <1>4, <2>2, <2>3 DEF CallbackReturned, adapter, DeliveryInv
    <2>4. CASE c.reply = "ok"
      <3>1. \A p \in Peers :
              /\ delivered'[p] = IF p = c.peer THEN delivered[p] \cup {c.event} ELSE delivered[p]
              /\ cursor'[p] = IF p = c.peer THEN c.event ELSE cursor[p]
              /\ heard'[p] = heard[p]
        BY <1>4, <2>1, <2>4 DEF CallbackReturned, adapter, DeliveryInv, Typed, TypeOK
      <3>2. c.event \in heard[c.peer]
        BY <2>4 DEF DeliveryInv
      <3>3. DeliveredWasHeard'
        <4>1. ASSUME NEW p \in Peers PROVE delivered'[p] \subseteq heard'[p]
          <5>1. delivered[p] \subseteq heard[p]
            BY DEF DeliveryInv
          <5>2. CASE p = c.peer
            <6>1. delivered'[p] = delivered[p] \cup {c.event} /\ heard'[p] = heard[p]
              BY <3>1, <5>2
            <6>2. QED BY <3>2, <5>1, <5>2, <6>1
          <5>3. CASE p # c.peer
            BY <3>1, <5>1, <5>3
          <5>4. QED BY <5>2, <5>3
        <4>2. QED BY <4>1
      <3>4. CursorWasDelivered'
        BY <3>1 DEF DeliveryInv
      <3>5. QED BY <1>1, <2>2, <3>3, <3>4 DEF DeliveryInv
    <2>5. QED BY <1>4, <2>3, <2>4 DEF CallbackReturned
  <1>5. ASSUME NEW p \in Peers, Delete(p) \/ Archive(p) PROVE DeliveryInv'
    BY <1>1, <1>5 DEF DeliveryInv, Delete, Archive, adapter
  <1>6. ASSUME NEW p \in Peers,
               Beat(p) \/ Request(p) \/ Activate(p) \/ ActivateAnswered(p)
        PROVE  DeliveryInv'
    <2>1. UNCHANGED <<calls, heard, delivered, cursor>>
      BY <1>6 DEF Beat, Request, Activate, ActivateAnswered, HeartbeatAnswered,
                  SubscribeAnswered, RegisterAnswered, RestoreAnswered, daemon
    <2>2. QED BY <1>1, <2>1 DEF DeliveryInv
  <1>7. CASE Restart
    BY <1>1, <1>7 DEF DeliveryInv, Restart, adapter
  <1>8. CASE UNCHANGED vars
    BY <1>1, <1>8 DEF DeliveryInv, vars
  <1>9. QED
    BY <1>2, <1>3, <1>4, <1>5, <1>6, <1>7, <1>8 DEF Next

LEMMA DeliveryInit == Init => DeliveryInv
  BY TypedInit DEF Init, DeliveryInv, AnsweredWasHeard, DeliveredWasHeard, CursorWasDelivered

\* delivered_at is never written for an event that the adapter did not pass on,
\* whatever restarts, replaced subscriptions and late answers come in between.
THEOREM DeliveredIsHeard == Spec => []DeliveredWasHeard
  <1>1. DeliveryInv => DeliveredWasHeard
    BY DEF DeliveryInv
  <1>2. QED BY DeliveryInit, DeliveryStep, <1>1, PTL DEF Spec

\* last_cursor names an event that was delivered, although callbacks that return
\* out of order move it back and forth.
THEOREM CursorIsDelivered == Spec => []CursorWasDelivered
  <1>1. DeliveryInv => CursorWasDelivered
    BY DEF DeliveryInv
  <1>2. QED BY DeliveryInit, DeliveryStep, <1>1, PTL DEF Spec
-----------------------------------------------------------------------------
(***************************************************************************)
(* Life: Push implements PeerLife.  The adapters' requests overlap, and a  *)
(* callback that failed late removes a subscription that is newer than it: *)
(* for the identity that is one of the losses PeerLife allows.             *)
(***************************************************************************)
Subscribers == {p \in Peers : subscriber[p] # 0}

\* A request that subscribes is answered.
LEMMA SubscribedServes ==
  ASSUME TypeOK, NEW p \in Peers, NEW task, UNCHANGED row, Subscribed(p, task)
  PROVE  Life!Next
  <1> DEFINE token == stage[p][task].token
  <1>1. subscriber' = [subscriber EXCEPT ![p] = token] /\ row[p] = "live"
    BY DEF Subscribed
  <1> HIDE DEF token
  <1>2. CASE token = 0
    <2>1. Subscribers' = Subscribers \ {p} /\ {p} \in SUBSET Peers
      BY <1>1, <1>2 DEF TypeOK, Subscribers
    <2>2. Life!Lose({p})
      BY <2>1 DEF Life!Lose, Subscribers
    <2>3. QED BY <2>1, <2>2 DEF Life!Next
  <1>3. CASE token # 0
    <2>1. Subscribers' = Subscribers \cup {p}
      BY <1>1, <1>3 DEF TypeOK, Subscribers
    <2>2. Life!Subscribe(p)
      BY <1>1, <2>1 DEF Life!Subscribe, Subscribers
    <2>3. QED BY <2>2 DEF Life!Next
  <1>4. QED BY <1>2, <1>3

\* Some subscriptions are dropped and nothing else happens to the identities.
LEMMA DroppedLoses ==
  ASSUME NEW ps \in SUBSET Peers, UNCHANGED row, Subscribers' = Subscribers \ ps
  PROVE  Life!Next
  BY DEF Life!Next, Life!Lose, Subscribers

\* A registration brings the identity back, or finds it live.
LEMMA RevivedRegisters ==
  ASSUME TypeOK, NEW p \in Peers, Revive(p), UNCHANGED subscriber
  PROVE  Life!Next
  <1>1. row' = [q \in Peers |-> IF q \in {p} THEN "live" ELSE row[q]]
    BY DEF TypeOK, Revive
  <1>2. Life!Register(p)
    BY <1>1 DEF Life!Register, Life!Becomes
  <1>3. QED BY <1>2 DEF Life!Next

LEMMA LifeStep ==
  ASSUME TypeOK, [Next]_vars
  PROVE  [Life!Next]_(Life!vars)
  <1>1. ASSUME UNCHANGED <<row, subscriber>> PROVE UNCHANGED Life!vars
    BY <1>1 DEF Life!vars
  <1>2. ASSUME NEW c \in calls, CallbackReturned(c) PROVE [Life!Next]_(Life!vars)
    <2>1. c.peer \in Peers /\ {c.peer} \in SUBSET Peers
      BY DEF TypeOK, Callback
    <2>2. CASE subscriber' = [subscriber EXCEPT ![c.peer] = 0]
      <3>1. Subscribers' = Subscribers \ {c.peer}
        BY <2>1, <2>2 DEF TypeOK, Subscribers
      <3>2. UNCHANGED row
        BY <1>2 DEF CallbackReturned
      <3>3. QED BY <2>1, <3>1, <3>2, DroppedLoses
    <2>3. QED BY <1>1, <1>2, <2>2 DEF CallbackReturned
  <1>3. ASSUME NEW p \in Peers, Delete(p) PROVE Life!Next
    <2>1. row' = [q \in Peers |-> IF q \in {p} THEN "deleted" ELSE row[q]]
      BY <1>3 DEF TypeOK, Delete
    <2>2. Subscribers' = Subscribers \ {p}
      BY <1>3 DEF TypeOK, Delete, Subscribers
    <2>3. row[p] \in {"live", "archived"}
      BY <1>3 DEF TypeOK, Delete
    <2>4. Life!Delete(p)
      BY <2>1, <2>2, <2>3 DEF Life!Delete, Life!Becomes, Subscribers
    <2>5. QED BY <2>4 DEF Life!Next
  <1>4. ASSUME NEW p \in Peers, Archive(p) PROVE Life!Next
    <2>1. row' = [q \in Peers |-> IF q \in {p} THEN "archived" ELSE row[q]]
      BY <1>4 DEF TypeOK, Archive
    <2>2. Subscribers' = Subscribers \ {p}
      BY <1>4 DEF TypeOK, Archive, Subscribers
    <2>3. Life!Archive(p)
      BY <1>4, <2>1, <2>2 DEF Archive, Life!Archive, Life!Becomes, Subscribers
    <2>4. QED BY <2>3 DEF Life!Next
  <1>5. CASE Restart
    <2>1. Subscribers' = Subscribers \ Peers /\ Peers \in SUBSET Peers
      BY <1>5 DEF Restart, Subscribers
    <2>2. QED BY <1>5, <2>1, DroppedLoses DEF Restart
  <1>6. ASSUME NEW p \in Peers, Activate(p) \/ RegisterAnswered(p) PROVE [Life!Next]_(Life!vars)
    <2>1. UNCHANGED subscriber /\ (Revive(p) \/ UNCHANGED row)
      BY <1>6 DEF Activate, RegisterAnswered
    <2>2. QED BY <1>1, <2>1, RevivedRegisters
  <1>7. ASSUME NEW p \in Peers, ActivateAnswered(p) \/ SubscribeAnswered(p) \/ RestoreAnswered(p)
        PROVE  [Life!Next]_(Life!vars)
    <2>1. UNCHANGED row
      BY <1>7 DEF ActivateAnswered, SubscribeAnswered, RestoreAnswered
    <2>2. Subscribed(p, "start") \/ Subscribed(p, "beat") \/ UNCHANGED subscriber
      BY <1>7 DEF ActivateAnswered, SubscribeAnswered, RestoreAnswered
    <2>3. QED BY <1>1, <2>1, <2>2, SubscribedServes
  <1>8. ASSUME NEW c \in calls, Answer(c) PROVE UNCHANGED Life!vars
    BY <1>1, <1>8 DEF Answer
  <1>9. ASSUME NEW p \in Peers, Beat(p) \/ HeartbeatAnswered(p) PROVE UNCHANGED Life!vars
    BY <1>1, <1>9 DEF Beat, HeartbeatAnswered, daemon
  <1>10. ASSUME NEW ps \in SUBSET Peers, Publish(ps) PROVE UNCHANGED Life!vars
    BY <1>1, <1>10 DEF Publish
  <1>11. CASE UNCHANGED vars
    BY <1>1, <1>11 DEF vars
  <1>12. QED
    BY <1>2, <1>3, <1>4, <1>5, <1>6, <1>7, <1>8, <1>9, <1>10, <1>11 DEF Next, Request

LEMMA LifeInit == Init => Life!Init
  BY DEF Init, Life!Init, Life!LiveOnes

\* Push implements the life of an identity: in whatever order the requests of an
\* adapter's heartbeat and of its session start are answered, and whichever callback
\* fails late, only a registration brings an identity back, and the step that
\* archives or deletes it ends its live push.
THEOREM PushKeepsLife == Spec => LifeSpec
  <1>1. Typed /\ [Next]_vars => [Life!Next]_(Life!vars)
    BY LifeStep DEF Typed
  <1>2. QED BY <1>1, LifeInit, TypedInit, TypedStep, PTL DEF Spec, LifeSpec, Life!Spec

\* What PeerLife promises of every implementation.
LEMMA LifeKeepsTypes == Life!Spec => []Life!TypeOK
  <1>1. Life!Init => Life!TypeOK
    BY DEF Life!Init, Life!TypeOK
  <1>2. Life!TypeOK /\ [Life!Next]_(Life!vars) => Life!TypeOK'
    <2> SUFFICES ASSUME Life!TypeOK, [Life!Next]_(Life!vars) PROVE Life!TypeOK'
      OBVIOUS
    <2> USE DEF Life!TypeOK, Life!LiveOnes, Life!Becomes
    <2>1. ASSUME NEW p \in Peers, Life!Register(p) PROVE Life!TypeOK'
      BY <2>1 DEF Life!Register
    <2>2. ASSUME NEW p \in Peers, Life!Archive(p) PROVE Life!TypeOK'
      BY <2>2 DEF Life!Archive
    <2>3. ASSUME NEW p \in Peers, Life!Delete(p) PROVE Life!TypeOK'
      BY <2>3 DEF Life!Delete
    <2>4. ASSUME NEW p \in Peers, Life!Subscribe(p) PROVE Life!TypeOK'
      BY <2>4 DEF Life!Subscribe
    <2>5. ASSUME NEW ps \in SUBSET Peers, Life!Expire(ps) \/ Life!Lose(ps) PROVE Life!TypeOK'
      BY <2>5 DEF Life!Expire, Life!Lose
    <2>6. CASE UNCHANGED Life!vars
      BY <2>6 DEF Life!vars
    <2>7. QED BY <2>1, <2>2, <2>3, <2>4, <2>5, <2>6 DEF Life!Next
  <1>3. QED BY <1>1, <1>2, PTL DEF Life!Spec

\* Through the abstract specification: live push goes to no archived and to no
\* deleted identity, at whatever point of a recovery or of a session's start.
THEOREM SubscribersAreLive == Spec => [](\A p \in Peers : subscriber[p] # 0 => row[p] = "live")
  <1>1. Life!TypeOK => \A p \in Peers : subscriber[p] # 0 => row[p] = "live"
    BY DEF Life!TypeOK, Life!LiveOnes
  <1>2. QED BY <1>1, PushKeepsLife, LifeKeepsTypes, PTL DEF LifeSpec

=============================================================================
