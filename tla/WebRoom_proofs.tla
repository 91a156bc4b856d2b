--------------------------- MODULE WebRoom_proofs ---------------------------
(***************************************************************************)
(* Theorems about WebRoom, for every length of an answer and of a window   *)
(* and every bound on events and failures.                                 *)
(***************************************************************************)
EXTENDS WebRoom, FiniteSetTheorems, TLAPS

USE WebRoomAssumption DEF WebRoomAssumption

-----------------------------------------------------------------------------
(*                         The inductive invariant                         *)

\* No request's answer is ahead of the daemon, and a refresh that goes on from
\* a cursor does not reset.
Requests ==
  /\ cursor <= Latest /\ refresh.since <= Latest /\ refresh.cursor <= Latest
  /\ link.cursor <= Latest
  /\ refresh.reset => refresh.since = 0
  /\ send.at = "answered" => send.event # 0

\* What the refresh under way goes on from: the list still has all that the
\* cursor had passed when the refresh was asked for, although the cursor of a
\* deep link's window may have replaced that cursor by an older one since.
SinceIsShown == \A e \in Here : e <= refresh.since => e \in shown \cup overlooked

\* The cursor passes nothing that is neither in the list nor overlooked.
PassedIsCovered == \A e \in Here : e <= cursor => e \in shown \cup overlooked

Inv == TypeOK /\ Requests /\ SinceIsShown /\ PassedIsCovered

RefreshTyped ==
  refresh' \in [at : States, reset : BOOLEAN, since : 0..MaxEvents,
                cursor : 0..MaxEvents, page : SUBSET Ids]

LEMMA Events ==
  ASSUME TypeOK
  PROVE  /\ Here \subseteq Ids /\ Latest \in 0..MaxEvents
         /\ \A n, es : Last(es, n) \subseteq es /\ First(es, n) \subseteq es
         /\ \A e \in Here : e \in Int /\ e > 0
  BY DEF TypeOK, Here, Latest, Ids, Last, First

\* A new event lies beyond every cursor; the others stay.
LEMMA Appended ==
  ASSUME TypeOK, NEW where \in {"here", "elsewhere"}, Len(events) < MaxEvents,
         events' = Append(events, where)
  PROVE  /\ events' \in Seq({"here", "elsewhere"}) /\ Len(events') <= MaxEvents
         /\ Latest' = Latest + 1
         /\ \A e \in Here' : e \in Here \/ e = Latest + 1
  <1>1. /\ events' \in Seq({"here", "elsewhere"}) /\ Len(events') = Len(events) + 1
        /\ Len(events) \in Nat
    BY DEF TypeOK
  <1>2. \A e \in 1..Len(events) : events'[e] = events[e]
    BY DEF TypeOK
  <1>3. \A e \in 1..Len(events') : e \in 1..Len(events) \/ e = Len(events) + 1
    BY <1>1
  <1>4. QED BY <1>1, <1>2, <1>3 DEF Here, Latest

LEMMA InitInv == Init => Inv
  <1> SUFFICES ASSUME Init PROVE Inv
    OBVIOUS
  <1>1. events \in Seq({"here", "elsewhere"}) /\ Len(events) \in {0, 2}
    <2>1. CASE events = <<>>
      BY <2>1
    <2>2. CASE events = <<"here", "here">>
      BY <2>2
    <2>3. QED BY <2>1, <2>2 DEF Init
  <1>2. refresh \in [at : States, reset : BOOLEAN, since : 0..MaxEvents,
                     cursor : 0..MaxEvents, page : SUBSET Ids]
    BY DEF Init, NoRefresh, States
  <1>3. /\ link \in [at : States, target : 0..MaxEvents, cursor : 0..MaxEvents, page : SUBSET Ids]
        /\ send \in [at : States, event : 0..MaxEvents]
    BY DEF Init, NoLink, NoSend, States
  <1>4. TypeOK
    <2>1. Len(events) <= MaxEvents
      <3>1. MaxEvents \in Nat /\ MaxEvents # 0 /\ MaxEvents # 1
        OBVIOUS
      <3>2. MaxEvents >= 2
        BY <3>1
      <3>3. CASE Len(events) = 0
        BY <3>2, <3>3
      <3>4. CASE Len(events) = 2
        BY <3>2, <3>4
      <3>5. QED BY <1>1, <3>3, <3>4
    <2>2. 0 \in 0..MaxEvents /\ 0 \in 0..MaxFailures
      OBVIOUS
    <2>3. QED BY <1>1, <1>2, <1>3, <2>1, <2>2 DEF Init, TypeOK
  <1>5. \A e \in Here : ~ (e <= 0)
    BY DEF Here
  <1>6. QED BY <1>1, <1>4, <1>5
        DEF Init, Inv, Requests, SinceIsShown, PassedIsCovered, NoRefresh, NoLink, NoSend, Latest

-----------------------------------------------------------------------------
(*                               The actions                               *)

\* A refresh that begins goes on from a cursor that the list has reached.
LEMMA Refreshed ==
  ASSUME Inv, NEW reset \in BOOLEAN, RefreshRoom(reset)
  PROVE  /\ RefreshTyped
         /\ refresh'.since <= Latest /\ refresh'.cursor <= Latest
         /\ refresh'.reset => refresh'.since = 0
         /\ refresh'.since \in {0, cursor, refresh.since}
  <1>1. CASE refresh.at = "none"
    <2> DEFINE since == IF reset THEN 0 ELSE cursor
    <2>1. since \in 0..MaxEvents /\ since <= Latest /\ 0 <= Latest
      BY DEF Inv, TypeOK, Requests, Latest
    <2>2. refresh' = [at |-> "asked", reset |-> reset, since |-> since, cursor |-> 0, page |-> {}]
      BY <1>1 DEF RefreshRoom, NoRefresh
    <2>3. QED BY <2>1, <2>2 DEF RefreshTyped, States
  <1>2. CASE refresh.at # "none"
    BY <1>2 DEF RefreshRoom, RefreshTyped, Inv, TypeOK, Requests
  <1>3. QED BY <1>1, <1>2

\* Steps that write an event.
LEMMA PublishStep ==
  ASSUME Inv, (\E where \in {"here", "elsewhere"} : Publish(where)) \/ StoreSent
  PROVE  Inv'
  <1>1. /\ UNCHANGED <<opened, shown, queued, cursor, refresh, link, overlooked, failures>>
        /\ send' = send \/ send' = [at |-> "answered", event |-> Len(events) + 1]
        /\ Len(events) < MaxEvents
    BY DEF Publish, StoreSent, list
  <1>2. PICK where \in {"here", "elsewhere"} : events' = Append(events, where)
    BY DEF Publish, StoreSent
  <1>3. /\ events' \in Seq({"here", "elsewhere"}) /\ Len(events') <= MaxEvents
        /\ Latest' = Latest + 1 /\ Latest \in 0..MaxEvents
        /\ \A e \in Here' : e \in Here \/ e = Latest + 1
    BY <1>1, <1>2, Appended, Events DEF Inv
  <1>4. Len(events) + 1 \in 0..MaxEvents /\ Len(events) + 1 # 0
    BY <1>1 DEF Inv, TypeOK
  <1>5. send' \in [at : States, event : 0..MaxEvents] /\ (send'.at = "answered" => send'.event # 0)
    BY <1>1, <1>4 DEF Inv, TypeOK, Requests, States
  <1>6. TypeOK'
    BY <1>1, <1>3, <1>5 DEF Inv, TypeOK
  <1>7. cursor \in Int /\ refresh.since \in Int /\ refresh.cursor \in Int /\ link.cursor \in Int
    BY DEF Inv, TypeOK
  <1>8. Requests'
    BY <1>1, <1>3, <1>5, <1>7 DEF Inv, Requests
  <1>9. SinceIsShown' /\ PassedIsCovered'
    BY <1>1, <1>3, <1>7 DEF Inv, Requests, SinceIsShown, PassedIsCovered
  <1>10. QED BY <1>6, <1>8, <1>9 DEF Inv

\* Steps that only ask, answer or give up a request.
LEMMA RequestStep ==
  ASSUME Inv, UNCHANGED <<events, shown, cursor, overlooked>>,
         opened' \in BOOLEAN, queued' \in BOOLEAN, failures' \in 0..MaxFailures,
         RefreshTyped, refresh'.since <= Latest, refresh'.cursor <= Latest,
         refresh'.reset => refresh'.since = 0,
         refresh'.since \in {0, cursor, refresh.since},
         link' \in [at : States, target : 0..MaxEvents, cursor : 0..MaxEvents, page : SUBSET Ids],
         link'.cursor <= Latest,
         send' \in [at : States, event : 0..MaxEvents],
         send'.at = "answered" => send'.event # 0
  PROVE  Inv'
  <1>1. TypeOK'
    BY DEF Inv, TypeOK, RefreshTyped
  <1>2. Here' = Here /\ Latest' = Latest
    BY DEF Here, Latest
  <1>3. Requests' /\ PassedIsCovered'
    BY <1>2 DEF Inv, Requests, PassedIsCovered
  <1>4. SinceIsShown'
    BY <1>2, Events DEF Inv, PassedIsCovered, SinceIsShown
  <1>5. QED BY <1>1, <1>3, <1>4 DEF Inv

\* The parts of the state that most steps leave alone.
LEMMA Unchanged ==
  ASSUME Inv
  PROVE  /\ UNCHANGED refresh => /\ RefreshTyped
                                 /\ refresh'.since <= Latest /\ refresh'.cursor <= Latest
                                 /\ refresh'.reset => refresh'.since = 0
                                 /\ refresh'.since \in {0, cursor, refresh.since}
         /\ UNCHANGED link =>
              /\ link' \in [at : States, target : 0..MaxEvents, cursor : 0..MaxEvents, page : SUBSET Ids]
              /\ link'.cursor <= Latest
         /\ UNCHANGED send => /\ send' \in [at : States, event : 0..MaxEvents]
                              /\ send'.at = "answered" => send'.event # 0
         /\ opened \in BOOLEAN /\ queued \in BOOLEAN /\ failures \in 0..MaxFailures
  BY DEF Inv, TypeOK, Requests, RefreshTyped

LEMMA AskStep ==
  ASSUME Inv, \/ Open \/ Poll \/ Reset \/ AnswerRefresh \/ FailRefresh
              \/ (\E target \in Here : FollowLink(target)) \/ AnswerLink \/ FailLink
              \/ Send \/ FailSend
  PROVE  Inv'
  <1>1. UNCHANGED <<events, shown, cursor, overlooked>>
    BY DEF Open, Poll, Reset, AnswerRefresh, FailRefresh, FollowLink, AnswerLink, FailLink, Send,
       FailSend, list
  <1>2. opened' \in BOOLEAN /\ queued' \in BOOLEAN /\ failures' \in 0..MaxFailures
    <2>1. \/ UNCHANGED failures
          \/ failures < MaxFailures /\ failures' = failures + 1
      BY DEF Open, Poll, Reset, AnswerRefresh, FailRefresh, FollowLink, AnswerLink, FailLink, Send,
         FailSend
    <2>2. opened' \in {opened, TRUE} /\ queued' \in {queued, TRUE, FALSE}
      BY DEF Open, Poll, Reset, AnswerRefresh, FailRefresh, FollowLink, AnswerLink, FailLink, Send,
         FailSend, list
    <2>3. failures \in 0..MaxFailures /\ MaxFailures \in Nat
      BY DEF Inv, TypeOK
    <2>4. failures' \in 0..MaxFailures
      BY <2>1, <2>3
    <2>5. QED BY <2>2, <2>4 DEF Inv, TypeOK
  <1>3. /\ RefreshTyped
        /\ refresh'.since <= Latest /\ refresh'.cursor <= Latest
        /\ refresh'.reset => refresh'.since = 0
        /\ refresh'.since \in {0, cursor, refresh.since}
    <2>1. CASE \E reset \in BOOLEAN : RefreshRoom(reset)
      BY <2>1, Refreshed
    <2>2. CASE UNCHANGED refresh
      BY <2>2, Unchanged
    <2>3. CASE AnswerRefresh
      <3>1. Latest \in 0..MaxEvents /\ After(refresh.since) \subseteq Ids
        BY Events DEF Inv, After
      <3>2. refresh' = [refresh EXCEPT !.at = "answered", !.cursor = Latest, !.page = After(refresh.since)]
        BY <2>3 DEF AnswerRefresh
      <3>3. /\ refresh' \in [at : States, reset : BOOLEAN, since : 0..MaxEvents,
                              cursor : 0..MaxEvents, page : SUBSET Ids]
            /\ refresh'.reset = refresh.reset /\ refresh'.since = refresh.since
            /\ refresh'.cursor = Latest
        BY <3>1, <3>2 DEF Inv, TypeOK, States
      <3>4. QED BY <3>1, <3>3 DEF Inv, Requests, RefreshTyped
    <2>4. CASE FailRefresh
      <3>1. Latest \in 0..MaxEvents
        BY Events DEF Inv
      <3>2. QED BY <2>4, <3>1 DEF FailRefresh, NoRefresh, RefreshTyped, States
    <2>5. QED
      BY <2>1, <2>2, <2>3, <2>4 DEF Open, Poll, Reset, FollowLink, AnswerLink, FailLink, Send, FailSend
  <1>4. /\ link' \in [at : States, target : 0..MaxEvents, cursor : 0..MaxEvents, page : SUBSET Ids]
        /\ link'.cursor <= Latest
    <2>1. Latest \in 0..MaxEvents /\ Here \subseteq Ids
      BY Events DEF Inv
    <2>2. CASE UNCHANGED link
      BY <2>2, Unchanged
    <2>3. CASE \E target \in Here : FollowLink(target)
      <3>1. PICK target \in Here : link' = [NoLink EXCEPT !.at = "asked", !.target = target]
        BY <2>3 DEF FollowLink
      <3>2. link' = [at |-> "asked", target |-> target, cursor |-> 0, page |-> {}]
        BY <3>1 DEF NoLink
      <3>3. target \in 0..MaxEvents
        BY <2>1 DEF Ids
      <3>4. QED BY <2>1, <3>2, <3>3 DEF States
    <2>4. CASE AnswerLink
      <3>1. Around(link.target) \subseteq Ids
        BY Events DEF Inv, Around
      <3>2. link' = [link EXCEPT !.at = "answered", !.cursor = Latest, !.page = Around(link.target)]
        BY <2>4 DEF AnswerLink
      <3>3. /\ link' \in [at : States, target : 0..MaxEvents, cursor : 0..MaxEvents, page : SUBSET Ids]
            /\ link'.cursor = Latest
        BY <2>1, <3>1, <3>2 DEF Inv, TypeOK, States
      <3>4. QED BY <2>1, <3>3
    <2>5. CASE FailLink
      BY <2>1, <2>5 DEF FailLink, NoLink, States
    <2>6. QED
      BY <2>2, <2>3, <2>4, <2>5 DEF Open, Poll, Reset, AnswerRefresh, FailRefresh, Send, FailSend
  <1>5. /\ send' \in [at : States, event : 0..MaxEvents]
        /\ send'.at = "answered" => send'.event # 0
    <2>1. CASE UNCHANGED send
      BY <2>1, Unchanged
    <2>2. CASE Send \/ FailSend
      BY <2>2 DEF Send, FailSend, NoSend, States
    <2>3. QED
      BY <2>1, <2>2 DEF Open, Poll, Reset, AnswerRefresh, FailRefresh, FollowLink, AnswerLink, FailLink
  <1>6. QED BY <1>1, <1>2, <1>3, <1>4, <1>5, RequestStep

\* An answer is applied: what lies between the cursor that it goes on from and
\* its own is in it or overlooked; what lies before was there.
LEMMA Applied ==
  ASSUME Inv, NEW answer, NEW append \in BOOLEAN, NEW passed \in 0..MaxEvents,
         answer.page \subseteq Ids, answer.cursor \in 0..MaxEvents,
         ApplyRoomState(answer, append, passed), UNCHANGED events,
         ~ append => passed = 0,
         \A e \in Here : append /\ e <= passed => e \in shown \cup overlooked
  PROVE  /\ shown' \subseteq Ids /\ overlooked' \subseteq Ids /\ queued' \in BOOLEAN
         /\ cursor' = answer.cursor
         /\ PassedIsCovered'
         /\ append => \A e \in shown \cup overlooked : e \in shown' \cup overlooked'
  <1>1. Here' = Here /\ Here \subseteq Ids /\ \A e \in Here : e \in Int /\ e > 0
    BY Events DEF Inv, Here
  <1>2. /\ shown' = (IF append THEN shown ELSE {}) \cup answer.page
        /\ overlooked' = ((IF append THEN overlooked ELSE {})
                          \cup {e \in Here : passed < e /\ e <= answer.cursor}) \ shown'
        /\ cursor' = answer.cursor /\ queued' = (queued /\ append)
    BY DEF ApplyRoomState
  <1>3. shown' \subseteq Ids /\ overlooked' \subseteq Ids
    BY <1>1, <1>2 DEF Inv, TypeOK
  <1>4. queued' \in BOOLEAN
    BY <1>2
  <1>5. ASSUME NEW e \in Here, e <= answer.cursor PROVE e \in shown' \cup overlooked'
    <2>1. CASE passed < e
      BY <1>2, <1>5, <2>1
    <2>2. CASE ~ (passed < e)
      <3>1. e <= passed /\ append
        BY <1>1, <2>2
      <3>2. e \in shown \cup overlooked
        BY <3>1
      <3>3. QED BY <1>2, <3>1, <3>2
    <2>3. QED BY <2>1, <2>2
  <1>6. PassedIsCovered'
    BY <1>1, <1>2, <1>5 DEF PassedIsCovered
  <1>7. QED BY <1>2, <1>3, <1>4, <1>6

LEMMA ApplyRefreshStep ==
  ASSUME Inv, ApplyRefresh
  PROVE  Inv'
  <1> DEFINE append == ~ refresh.reset /\ refresh.since > 0
  <1>1. /\ ApplyRoomState(refresh, append, refresh.since)
        /\ refresh' = NoRefresh
        /\ UNCHANGED <<events, opened, link, send, failures>>
    BY DEF ApplyRefresh
  <1>2. /\ refresh.page \subseteq Ids /\ refresh.cursor \in 0..MaxEvents
        /\ refresh.since \in 0..MaxEvents /\ append \in BOOLEAN
        /\ ~ append => refresh.since = 0
        /\ \A e \in Here : append /\ e <= refresh.since => e \in shown \cup overlooked
    BY DEF Inv, TypeOK, Requests, SinceIsShown
  <1>3. /\ shown' \subseteq Ids /\ overlooked' \subseteq Ids /\ queued' \in BOOLEAN
        /\ cursor' = refresh.cursor /\ PassedIsCovered'
    <2> HIDE DEF append
    <2>1. QED BY <1>1, <1>2, Applied
  <1>4. RefreshTyped /\ refresh'.since = 0 /\ refresh'.cursor = 0
    BY <1>1 DEF NoRefresh, RefreshTyped, States
  <1>5. TypeOK'
    BY <1>1, <1>2, <1>3, <1>4 DEF Inv, TypeOK, RefreshTyped
  <1>6. Latest' = Latest /\ Latest \in 0..MaxEvents /\ \A e \in Here' : ~ (e <= 0)
    BY <1>1, Events DEF Inv, Latest, Here
  <1>7. Requests'
    BY <1>1, <1>3, <1>4, <1>6 DEF Inv, Requests
  <1>8. SinceIsShown'
    BY <1>4, <1>6 DEF SinceIsShown
  <1>9. QED BY <1>3, <1>5, <1>7, <1>8 DEF Inv

LEMMA ApplyLinkStep ==
  ASSUME Inv, ApplyLink
  PROVE  Inv'
  <1>1. /\ ApplyRoomState(link, TRUE, cursor)
        /\ link' = NoLink
        /\ UNCHANGED <<events, opened, refresh, send, failures>>
    BY DEF ApplyLink
  <1>2. /\ link.page \subseteq Ids /\ link.cursor \in 0..MaxEvents /\ cursor \in 0..MaxEvents
        /\ \A e \in Here : e <= cursor => e \in shown \cup overlooked
    BY DEF Inv, TypeOK, PassedIsCovered
  <1>3. /\ shown' \subseteq Ids /\ overlooked' \subseteq Ids /\ queued' \in BOOLEAN
        /\ cursor' = link.cursor /\ PassedIsCovered'
        /\ \A e \in shown \cup overlooked : e \in shown' \cup overlooked'
    BY <1>1, <1>2, Applied
  <1>4. /\ link' \in [at : States, target : 0..MaxEvents, cursor : 0..MaxEvents, page : SUBSET Ids]
        /\ link'.cursor = 0
    BY <1>1 DEF NoLink, States
  <1>5. TypeOK'
    BY <1>1, <1>2, <1>3, <1>4 DEF Inv, TypeOK
  <1>6. Latest' = Latest /\ Latest \in 0..MaxEvents /\ Here' = Here
    BY <1>1, Events DEF Inv, Latest, Here
  <1>7. Requests'
    BY <1>1, <1>3, <1>4, <1>6 DEF Inv, Requests
  <1>8. SinceIsShown'
    BY <1>1, <1>3, <1>6 DEF Inv, SinceIsShown
  <1>9. QED BY <1>3, <1>5, <1>7, <1>8 DEF Inv

LEMMA ApplySentStep ==
  ASSUME Inv, ApplySent
  PROVE  Inv'
  <1>1. /\ shown' = IF queued THEN shown \cup {send.event} ELSE shown
        /\ overlooked' = overlooked \ shown'
        /\ queued' = FALSE /\ send' = NoSend
        /\ RefreshRoom(FALSE)
        /\ UNCHANGED <<events, opened, cursor, link, failures>>
    BY DEF ApplySent
  <1>2. send.event \in Ids
    BY DEF ApplySent, Inv, TypeOK, Requests, Ids
  <1>3. /\ RefreshTyped
        /\ refresh'.since <= Latest /\ refresh'.cursor <= Latest
        /\ refresh'.reset => refresh'.since = 0
        /\ refresh'.since \in {0, cursor, refresh.since}
    BY <1>1, Refreshed
  <1>4. send' \in [at : States, event : 0..MaxEvents] /\ send'.at = "none"
    BY <1>1 DEF NoSend, States
  <1>5. TypeOK'
    BY <1>1, <1>2, <1>3, <1>4 DEF Inv, TypeOK, RefreshTyped
  <1>6. Here' = Here /\ Latest' = Latest /\ \A e \in Here : ~ (e <= 0)
    BY <1>1, Events DEF Inv, Here, Latest
  <1>7. \A e \in shown \cup overlooked : e \in shown' \cup overlooked'
    BY <1>1
  <1>8. Requests'
    BY <1>1, <1>3, <1>4, <1>6 DEF Inv, Requests
  <1>9. SinceIsShown' /\ PassedIsCovered'
    BY <1>1, <1>3, <1>6, <1>7 DEF Inv, SinceIsShown, PassedIsCovered
  <1>10. QED BY <1>5, <1>8, <1>9 DEF Inv

LEMMA Step ==
  ASSUME Inv, [Next]_vars
  PROVE  Inv'
  <1>1. CASE Next
    BY <1>1, PublishStep, AskStep, ApplyRefreshStep, ApplyLinkStep, ApplySentStep DEF Next
  <1>2. CASE UNCHANGED vars
    <2>1. UNCHANGED <<events, opened, shown, queued, cursor, refresh, link, send, overlooked, failures>>
      BY <1>2 DEF vars
    <2>2. QED BY <2>1, Unchanged, RequestStep
  <1>3. QED BY <1>1, <1>2

LEMMA Invariance == Spec => []Inv
  <1>1. Init => Inv
    BY InitInv
  <1>2. Inv /\ [Next]_vars => Inv'
    BY Step
  <1>3. QED BY <1>1, <1>2, PTL DEF Spec

-----------------------------------------------------------------------------
(*                     What an answer leaves out                           *)

\* The events that an answer passes without holding them are beyond it.
RefreshIsFull ==
  refresh.at = "answered" =>
    \A e \in Here : refresh.since < e /\ e <= refresh.cursor /\ e \notin refresh.page => BeyondPage(e)

LinkIsFull ==
  link.at = "answered" =>
    \A e \in Here : e <= link.cursor /\ e \notin link.page => BeyondPage(e)

\* What is overlooked was left out for want of place, and the target of a deep
\* link is an event of the room.
Left ==
  /\ \A e \in overlooked : e \in Here /\ BeyondPage(e)
  /\ RefreshIsFull /\ LinkIsFull
  /\ link.at # "none" => link.target \in Here

LEMMA HereIsFinite ==
  ASSUME TypeOK
  PROVE  IsFiniteSet(Here)
  <1>1. Len(events) \in Nat
    BY DEF TypeOK
  <1>2. IsFiniteSet(1..Len(events))
    BY <1>1, FS_Interval
  <1>3. Here \subseteq 1..Len(events)
    BY DEF Here
  <1>4. QED BY <1>2, <1>3, FS_Subset

\* The room only gets more events, so that what is beyond an answer stays so.
LEMMA BeyondStays ==
  ASSUME TypeOK, TypeOK', Here \subseteq Here', NEW e, BeyondPage(e)
  PROVE  BeyondPage(e)'
  <1>1. IsFiniteSet(Here) /\ IsFiniteSet(Here')
    <2>1. IsFiniteSet(Here)
      BY HereIsFinite
    <2>2. IsFiniteSet(Here)'
      BY HereIsFinite, PTL
    <2>3. QED BY <2>1, <2>2
  <1> DEFINE A == {f \in Here : f > e}
             B == {f \in Here' : f > e}
             C == Here \ {e}
             D == Here' \ {e}
  <1>2. /\ IsFiniteSet(B) /\ A \subseteq B
        /\ IsFiniteSet(D) /\ C \subseteq D
    BY <1>1, FS_Subset
  <1>3. /\ Cardinality(A) \in Nat /\ Cardinality(B) \in Nat /\ Cardinality(A) <= Cardinality(B)
        /\ Cardinality(C) \in Nat /\ Cardinality(D) \in Nat /\ Cardinality(C) <= Cardinality(D)
    BY <1>2, FS_Subset, FS_CardinalityType
  <1>4. (Cardinality(A) >= Limit \/ Cardinality(C) > Window)
    BY DEF BeyondPage
  <1>5. Cardinality(B) >= Limit \/ Cardinality(D) > Window
    <2> HIDE DEF A, B, C, D
    <2>1. QED BY <1>3, <1>4
  <1>6. QED BY <1>5 DEF BeyondPage

\* A refresh is answered with all that it asked for, or with as much as fits.
LEMMA RefreshAnswer ==
  ASSUME TypeOK, NEW since \in 0..MaxEvents, NEW e \in Here, since < e, e \notin After(since)
  PROVE  BeyondPage(e)
  <1> DEFINE A == {f \in {g \in Here : g > since} : f > e}
             B == {f \in Here : f > e}
  <1>1. IsFiniteSet(Here) /\ \A f \in Here : f \in Int
    BY HereIsFinite, Events
  <1>2. A = B
    BY <1>1
  <1>3. ~ (Cardinality(A) < Limit)
    <2>1. e \in {g \in Here : g > since}
      BY <1>1
    <2>2. QED BY <2>1 DEF After, Last
  <1>4. Cardinality(B) \in Nat
    BY <1>1, FS_Subset, FS_CardinalityType
  <1>5. Cardinality(B) >= Limit
    <2> HIDE DEF A, B
    <2>1. QED BY <1>2, <1>3, <1>4
  <1>6. QED BY <1>5 DEF BeyondPage

\* The window of a deep link holds the room, or is full beside each event that
\* it leaves out: of those before the target, Window + 1 are nearer to it, and of
\* those after it Window are, and the target.
LEMMA LinkAnswer ==
  ASSUME TypeOK, NEW target \in Here, NEW e \in Here, e \notin Around(target)
  PROVE  BeyondPage(e)
  <1>1. IsFiniteSet(Here) /\ \A f \in Here : f \in Int
    BY HereIsFinite, Events
  <1> DEFINE Others == Here \ {e}
  <1>2. IsFiniteSet(Others) /\ Cardinality(Others) \in Nat
    BY <1>1, FS_Subset, FS_CardinalityType
  <1>3. CASE e <= target
    <2> DEFINE A == {f \in {g \in Here : g <= target} : f > e}
    <2>1. A \subseteq Others
      BY <1>1
    <2>2. Cardinality(A) \in Nat /\ Cardinality(A) <= Cardinality(Others)
      BY <1>2, <2>1, FS_Subset, FS_CardinalityType
    <2>3. ~ (Cardinality(A) < Window + 1)
      BY <1>3 DEF Around, Last
    <2>4. Cardinality(Others) > Window
      <3> HIDE DEF A, Others
      <3>1. QED BY <1>2, <2>2, <2>3
    <2>5. QED BY <2>4 DEF BeyondPage
  <1>4. CASE ~ (e <= target)
    <2> DEFINE A == {f \in {g \in Here : g > target} : f < e}
               T == A \cup {target}
    <2>1. T \subseteq Others /\ target \notin A
      BY <1>1, <1>4
    <2>2. IsFiniteSet(T) /\ Cardinality(T) \in Nat /\ Cardinality(T) <= Cardinality(Others)
      BY <1>2, <2>1, FS_Subset, FS_CardinalityType
    <2>3. IsFiniteSet(A) /\ Cardinality(A) \in Nat
      BY <2>2, FS_Subset, FS_CardinalityType
    <2>4. Cardinality(T) = Cardinality(A) + 1
      BY <2>1, <2>3, FS_AddElement
    <2>5. ~ (Cardinality(A) < Window)
      BY <1>1, <1>4 DEF Around, First
    <2>6. Cardinality(Others) > Window
      <3> HIDE DEF A, T, Others
      <3>1. QED BY <1>2, <2>2, <2>3, <2>4, <2>5
    <2>7. QED BY <2>6 DEF BeyondPage
  <1>5. QED BY <1>3, <1>4

\* Every step leaves the events of the room where they are; one that is new lies
\* beyond what has been answered.
LEMMA Grows ==
  ASSUME Inv, [Next]_vars
  PROVE  /\ Here \subseteq Here'
         /\ \A e \in Here' : e \in Here \/ e = Latest + 1
         /\ UNCHANGED events \/ UNCHANGED <<shown, overlooked, refresh, link>>
  <1>1. CASE UNCHANGED events
    BY <1>1 DEF Here
  <1>2. CASE (\E where \in {"here", "elsewhere"} : Publish(where)) \/ StoreSent
    <2>1. PICK where \in {"here", "elsewhere"} : events' = Append(events, where)
      BY <1>2 DEF Publish, StoreSent
    <2>2. Len(events) < MaxEvents /\ UNCHANGED <<shown, overlooked, refresh, link>>
      BY <1>2 DEF Publish, StoreSent, list
    <2>3. \A e \in Here' : e \in Here \/ e = Latest + 1
      BY <2>1, <2>2, Appended DEF Inv
    <2>4. Here \subseteq Here'
      BY <2>1 DEF Here, Inv, TypeOK
    <2>5. QED BY <2>2, <2>3, <2>4
  <1>3. QED
    BY <1>1, <1>2 DEF Next, vars, Open, Poll, Reset, AnswerRefresh, ApplyRefresh, FailRefresh,
       FollowLink, AnswerLink, ApplyLink, FailLink, Send, ApplySent, FailSend

LEMMA InitLeft == Init => Left
  BY DEF Init, Left, RefreshIsFull, LinkIsFull, NoRefresh, NoLink

\* The refreshes: what the next answer leaves out.
LEMMA RefreshLeft ==
  ASSUME Inv, Inv', Left, [Next]_vars
  PROVE  RefreshIsFull'
  <1>1. /\ Here \subseteq Here' /\ \A e \in Here' : e \in Here \/ e = Latest + 1
        /\ UNCHANGED events \/ UNCHANGED <<shown, overlooked, refresh, link>>
    BY Grows
  <1>2. \A e : BeyondPage(e) => BeyondPage(e)'
    BY <1>1, BeyondStays DEF Inv
  <1>3. SUFFICES ASSUME refresh'.at = "answered", NEW e \in Here',
                        refresh'.since < e, e <= refresh'.cursor, e \notin refresh'.page
                 PROVE  BeyondPage(e)'
    BY DEF RefreshIsFull
  <1>4. CASE UNCHANGED refresh
    <2>1. e \in Here
      <3>1. Latest \in 0..MaxEvents /\ refresh.cursor \in 0..MaxEvents /\ refresh.cursor <= Latest
        BY Events DEF Inv, TypeOK, Requests
      <3>2. QED BY <1>1, <1>3, <1>4, <3>1
    <2>2. BeyondPage(e)
      BY <1>3, <1>4, <2>1 DEF Left, RefreshIsFull
    <2>3. QED BY <1>2, <2>2
  <1>5. CASE AnswerRefresh
    <2>1. UNCHANGED events /\ refresh.since \in 0..MaxEvents
      BY <1>5 DEF AnswerRefresh, Inv, TypeOK
    <2>2. refresh'.since = refresh.since /\ refresh'.page = After(refresh.since)
      BY <1>5 DEF AnswerRefresh, Inv, TypeOK
    <2>3. e \in Here
      BY <2>1 DEF Here
    <2>4. BeyondPage(e)
      BY <1>3, <2>1, <2>2, <2>3, RefreshAnswer DEF Inv
    <2>5. QED BY <1>2, <2>4
  <1>6. CASE refresh' = NoRefresh
    BY <1>3, <1>6 DEF NoRefresh
  <1>7. CASE \E reset \in BOOLEAN : RefreshRoom(reset)
    BY <1>3, <1>4, <1>7 DEF RefreshRoom, NoRefresh
  <1>8. QED
    BY <1>4, <1>5, <1>6, <1>7 DEF Next, vars, Publish, Open, Poll, Reset, ApplyRefresh, FailRefresh,
       FollowLink, AnswerLink, ApplyLink, FailLink, Send, StoreSent, ApplySent, FailSend

\* The deep links: the target stays, and what the window leaves out.
LEMMA LinkLeft ==
  ASSUME Inv, Inv', Left, [Next]_vars
  PROVE  LinkIsFull' /\ (link'.at # "none" => link'.target \in Here')
  <1>1. /\ Here \subseteq Here' /\ \A e \in Here' : e \in Here \/ e = Latest + 1
        /\ UNCHANGED events \/ UNCHANGED <<shown, overlooked, refresh, link>>
    BY Grows
  <1>2. \A e : BeyondPage(e) => BeyondPage(e)'
    BY <1>1, BeyondStays DEF Inv
  <1>3. CASE UNCHANGED link
    <2>1. ASSUME link'.at = "answered", NEW e \in Here', e <= link'.cursor, e \notin link'.page
          PROVE  BeyondPage(e)'
      <3>1. e \in Here
        <4>1. Latest \in 0..MaxEvents /\ link.cursor \in 0..MaxEvents /\ link.cursor <= Latest
          BY Events DEF Inv, TypeOK, Requests
        <4>2. QED BY <1>1, <1>3, <2>1, <4>1
      <3>2. BeyondPage(e)
        BY <1>3, <2>1, <3>1 DEF Left, LinkIsFull
      <3>3. QED BY <1>2, <3>2
    <2>2. QED BY <1>1, <1>3, <2>1 DEF Left, LinkIsFull
  <1>4. CASE AnswerLink
    <2>1. /\ UNCHANGED events /\ link.at = "asked"
          /\ link'.target = link.target /\ link'.page = Around(link.target)
      BY <1>4 DEF AnswerLink, Inv, TypeOK
    <2>2. Here' = Here /\ link.target \in Here
      BY <2>1 DEF Here, Left
    <2>3. \A e \in Here : e \notin link'.page => BeyondPage(e)
      BY <2>1, <2>2, LinkAnswer DEF Inv
    <2>4. QED BY <1>2, <2>1, <2>2, <2>3 DEF LinkIsFull
  <1>5. CASE link' = NoLink
    BY <1>5 DEF NoLink, LinkIsFull
  <1>6. CASE \E target \in Here : FollowLink(target)
    BY <1>1, <1>6 DEF FollowLink, NoLink, LinkIsFull
  <1>7. QED
    BY <1>3, <1>4, <1>5, <1>6 DEF Next, vars, Publish, Open, Poll, Reset, AnswerRefresh, ApplyRefresh,
       FailRefresh, ApplyLink, FailLink, Send, StoreSent, ApplySent, FailSend

\* The list: an event becomes overlooked when an answer passes it.
LEMMA ListLeft ==
  ASSUME Inv, Inv', Left, [Next]_vars
  PROVE  \A e \in overlooked' : e \in Here' /\ BeyondPage(e)'
  <1>1. /\ Here \subseteq Here'
        /\ UNCHANGED events \/ UNCHANGED <<shown, overlooked, refresh, link>>
    BY Grows
  <1>2. \A e : BeyondPage(e) => BeyondPage(e)'
    BY <1>1, BeyondStays DEF Inv
  <1>3. SUFFICES ASSUME NEW e \in overlooked', e \notin overlooked
                 PROVE  e \in Here /\ BeyondPage(e)
    BY <1>1, <1>2 DEF Left
  <1>4. CASE ApplyRefresh
    <2>1. /\ refresh.at = "answered"
          /\ ApplyRoomState(refresh, ~ refresh.reset /\ refresh.since > 0, refresh.since)
      BY <1>4 DEF ApplyRefresh
    <2>2. /\ e \in Here /\ refresh.since < e /\ e <= refresh.cursor /\ e \notin refresh.page
      BY <1>3, <2>1 DEF ApplyRoomState
    <2>3. QED BY <2>1, <2>2 DEF Left, RefreshIsFull
  <1>5. CASE ApplyLink
    <2>1. link.at = "answered" /\ ApplyRoomState(link, TRUE, cursor)
      BY <1>5 DEF ApplyLink
    <2>2. e \in Here /\ e <= link.cursor /\ e \notin link.page
      BY <1>3, <2>1 DEF ApplyRoomState
    <2>3. QED BY <2>1, <2>2 DEF Left, LinkIsFull
  <1>6. CASE overlooked' \subseteq overlooked
    BY <1>3, <1>6
  <1>7. QED
    BY <1>4, <1>5, <1>6 DEF Next, vars, list, Publish, Open, Poll, Reset, AnswerRefresh, FailRefresh,
       FollowLink, AnswerLink, FailLink, Send, StoreSent, ApplySent, FailSend

LEMMA LeftOut == Spec => []Left
  <1>1. Init => Left
    BY InitLeft
  <1>2. Inv /\ Inv' /\ Left /\ [Next]_vars => Left'
    BY RefreshLeft, LinkLeft, ListLeft DEF Left
  <1>3. QED BY <1>1, <1>2, Invariance, PTL DEF Spec

-----------------------------------------------------------------------------
(*                                Theorems                                 *)

\* The page's requests and its list keep their types.
THEOREM TypeCorrect == Spec => []TypeOK
  <1>1. Inv => TypeOK
    BY DEF Inv
  <1>2. QED BY <1>1, Invariance, PTL

\* An event that the cursor has passed is in the list, or an answer left it out
\* for want of place, in whatever order answers are applied.
THEOREM PassedEventsAreShown == Spec => []PassedIsShown
  <1>1. Inv /\ Left => PassedIsShown
    BY DEF Inv, Left, PassedIsCovered, PassedIsShown
  <1>2. QED BY <1>1, Invariance, LeftOut, PTL
=============================================================================
