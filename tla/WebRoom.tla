------------------------------ MODULE WebRoom ------------------------------
(***************************************************************************)
(* One room in the web client: the list of messages that the page shows,   *)
(* and the daemon that answers its requests.  The list is filled by        *)
(* refreshes (a timer, server-sent events and several handlers ask for     *)
(* them, one at a time), by a window around the target of a deep link, and *)
(* by the messages that the page sends itself; each answer is read at the  *)
(* daemon at one moment and applied to the list at a later one.            *)
(*                                                                         *)
(* shown stands for the room's messages, its replies and its timeline,     *)
(* which are merged and replaced alike; entries that are there twice are   *)
(* not told apart.                                                         *)
(***************************************************************************)
EXTENDS Integers, Sequences, FiniteSets

CONSTANTS
  Limit,        \* stateLimit: events in the answer to a refresh
  Window,       \* events on either side of a deep link's target
  MaxEvents,    \* bound: events
  MaxFailures   \* bound: requests that fail

ASSUME WebRoomAssumption ==
  /\ Limit \in Nat \ {0}
  /\ Window \in Nat
  /\ MaxEvents \in Nat \ {0, 1}
  /\ MaxFailures \in Nat

VARIABLES
  events,      \* table events: of this room or of another
  opened,      \* the room's snapshot exists
  shown,       \* _messages: the events in the list
  queued,      \* an optimistic message is in the list
  cursor,      \* roomCursor
  refresh,     \* the request in roomRefreshes
  link,        \* the request of hydrateDeepLinkTarget
  send,        \* the request of sendMessage
  overlooked,  \* history: events that the cursor passed without their being in an answer
  failures     \* failed requests so far

vars == <<events, opened, shown, queued, cursor, refresh, link, send, overlooked, failures>>
list == <<shown, queued, cursor, overlooked>>

Ids    == 1..MaxEvents
States == {"none", "asked", "answered"}
NoRefresh == [at |-> "none", reset |-> FALSE, since |-> 0, cursor |-> 0, page |-> {}]
NoLink    == [at |-> "none", target |-> 0, cursor |-> 0, page |-> {}]
NoSend    == [at |-> "none", event |-> 0]

TypeOK ==
  /\ events \in Seq({"here", "elsewhere"}) /\ Len(events) <= MaxEvents
  /\ opened \in BOOLEAN
  /\ shown \subseteq Ids
  /\ queued \in BOOLEAN
  /\ cursor \in 0..MaxEvents
  /\ refresh \in [at : States, reset : BOOLEAN, since : 0..MaxEvents,
                  cursor : 0..MaxEvents, page : SUBSET Ids]
  /\ link \in [at : States, target : 0..MaxEvents, cursor : 0..MaxEvents, page : SUBSET Ids]
  /\ send \in [at : States, event : 0..MaxEvents]
  /\ overlooked \subseteq Ids
  /\ failures \in 0..MaxFailures

-----------------------------------------------------------------------------
(*                               The daemon                                *)

Here       == {e \in 1..Len(events) : events[e] = "here"}
Latest     == Len(events)     \* MAX(event_id), whatever the room
Last(es, n)  == {e \in es : Cardinality({f \in es : f > e}) < n}
First(es, n) == {e \in es : Cardinality({f \in es : f < e}) < n}

\* readWebRoomEvents after a cursor: the newest ones, at most Limit.
After(since) == Last({e \in Here : e > since}, Limit)

\* readGroupAroundWindow
Around(target) ==
  Last({e \in Here : e <= target}, Window + 1) \cup First({e \in Here : e > target}, Window)

\* Somebody writes an event.
Publish(where) ==
  /\ Len(events) < MaxEvents
  /\ events' = Append(events, where)
  /\ UNCHANGED <<opened, list, refresh, link, send, failures>>

AnswerRefresh ==
  /\ refresh.at = "asked"
  /\ refresh' = [refresh EXCEPT !.at = "answered", !.cursor = Latest,
                                !.page = After(refresh.since)]
  /\ UNCHANGED <<events, opened, list, link, send, failures>>

AnswerLink ==
  /\ link.at = "asked"
  /\ link' = [link EXCEPT !.at = "answered", !.cursor = Latest, !.page = Around(link.target)]
  /\ UNCHANGED <<events, opened, list, refresh, send, failures>>

StoreSent ==
  /\ send.at = "asked"
  /\ Len(events) < MaxEvents
  /\ events' = Append(events, "here")
  /\ send' = [at |-> "answered", event |-> Len(events) + 1]
  /\ UNCHANGED <<opened, list, refresh, link, failures>>

-----------------------------------------------------------------------------
(*                                The page                                 *)

\* refreshRoom: a refresh that is under way is joined, whatever it asked for.
RefreshRoom(reset) ==
  IF refresh.at = "none"
  THEN refresh' = [NoRefresh EXCEPT !.at = "asked", !.reset = reset,
                                    !.since = IF reset THEN 0 ELSE cursor]
  ELSE UNCHANGED refresh

\* applyRoomState: the cursor becomes that of the answer; passed is the cursor
\* from which the answer was meant to continue.
ApplyRoomState(answer, append, passed) ==
  /\ shown' = (IF append THEN shown ELSE {}) \cup answer.page
  /\ queued' = (queued /\ append)
  /\ cursor' = answer.cursor
  /\ overlooked' = ((IF append THEN overlooked ELSE {})
                    \cup {e \in Here : passed < e /\ e <= answer.cursor}) \ shown'

\* The room is opened.
Open ==
  /\ ~ opened
  /\ opened' = TRUE
  /\ RefreshRoom(TRUE)
  /\ UNCHANGED <<events, list, link, send, failures>>

\* The poll timer, or the timer that server-sent events arm.
Poll ==
  /\ opened
  /\ refresh.at = "none"
  /\ RefreshRoom(FALSE)
  /\ UNCHANGED <<events, opened, list, link, send, failures>>

\* An agent was spawned, or the archive changed.
Reset ==
  /\ opened
  /\ RefreshRoom(TRUE)
  /\ UNCHANGED <<events, opened, list, link, send, failures>>

\* The answer to a refresh without a cursor replaces the list, any other is merged.
ApplyRefresh ==
  /\ refresh.at = "answered"
  /\ ApplyRoomState(refresh, ~ refresh.reset /\ refresh.since > 0, refresh.since)
  /\ refresh' = NoRefresh
  /\ UNCHANGED <<events, opened, link, send, failures>>

\* Mutant of FailRefresh: the request is forgotten only when it succeeds.
FailRefreshKept ==
  /\ refresh.at # "none" /\ failures < MaxFailures
  /\ failures' = failures + 1
  /\ refresh' = [refresh EXCEPT !.at = "failed"]
  /\ UNCHANGED <<events, opened, list, link, send>>

\* A refresh fails.
FailRefresh ==
  /\ refresh.at # "none" /\ failures < MaxFailures
  /\ failures' = failures + 1
  /\ refresh' = NoRefresh
  /\ UNCHANGED <<events, opened, list, link, send>>

\* hydrateDeepLinkTarget: opens the room, which asks for a refresh, and asks for
\* the window at the same time.
FollowLink(target) ==
  /\ link.at = "none"
  /\ link' = [NoLink EXCEPT !.at = "asked", !.target = target]
  /\ opened' = TRUE
  /\ IF opened THEN UNCHANGED refresh ELSE RefreshRoom(TRUE)
  /\ UNCHANGED <<events, list, send, failures>>

\* The window is merged, and its cursor is taken as the room's.
ApplyLink ==
  /\ link.at = "answered"
  /\ ApplyRoomState(link, TRUE, cursor)
  /\ link' = NoLink
  /\ UNCHANGED <<events, opened, refresh, send, failures>>

FailLink ==
  /\ link.at # "none" /\ failures < MaxFailures
  /\ failures' = failures + 1
  /\ link' = NoLink
  /\ UNCHANGED <<events, opened, list, refresh, send>>

\* sendMessage: the optimistic message is shown.
Send ==
  /\ opened /\ send.at = "none"
  /\ queued' = TRUE
  /\ send' = [NoSend EXCEPT !.at = "asked"]
  /\ UNCHANGED <<events, opened, shown, cursor, overlooked, refresh, link, failures>>

\* Mutant of ApplySent: the cursor moves to the message that was sent.
ApplySentMovesCursor ==
  /\ send.at = "answered"
  /\ shown' = IF queued THEN shown \cup {send.event} ELSE shown
  /\ overlooked' = overlooked \ shown'
  /\ cursor' = send.event
  /\ queued' = FALSE
  /\ send' = NoSend
  /\ RefreshRoom(FALSE)
  /\ UNCHANGED <<events, opened, link, failures>>

\* The answer replaces the optimistic message, if it is still in the list; then
\* the room is refreshed.
ApplySent ==
  /\ send.at = "answered"
  /\ shown' = IF queued THEN shown \cup {send.event} ELSE shown
  /\ overlooked' = overlooked \ shown'
  /\ queued' = FALSE
  /\ send' = NoSend
  /\ RefreshRoom(FALSE)
  /\ UNCHANGED <<events, opened, cursor, link, failures>>

\* The request fails, before or after the daemon stored the message.
FailSend ==
  /\ send.at # "none" /\ failures < MaxFailures
  /\ failures' = failures + 1
  /\ queued' = FALSE
  /\ send' = NoSend
  /\ UNCHANGED <<events, opened, shown, cursor, overlooked, refresh, link>>

-----------------------------------------------------------------------------
Init ==
  /\ events \in {<<>>, <<"here", "here">>}
  /\ opened = FALSE
  /\ shown = {}
  /\ queued = FALSE
  /\ cursor = 0
  /\ refresh = NoRefresh
  /\ link = NoLink
  /\ send = NoSend
  /\ overlooked = {}
  /\ failures = 0

Next ==
  \/ \E where \in {"here", "elsewhere"} : Publish(where)
  \/ Open \/ Poll \/ Reset \/ AnswerRefresh \/ ApplyRefresh \/ FailRefresh
  \/ (\E target \in Here : FollowLink(target)) \/ AnswerLink \/ ApplyLink \/ FailLink
  \/ Send \/ StoreSent \/ ApplySent \/ FailSend

Spec == Init /\ [][Next]_vars

\* The poll timer runs and its requests are answered.
FairSpec == Spec /\ WF_vars(Poll) /\ WF_vars(AnswerRefresh) /\ WF_vars(ApplyRefresh)

-----------------------------------------------------------------------------
(*                               Properties                                *)

\* As many events of the room as an answer holds are newer than e, or the room has
\* more events than the window of a deep link holds beside e.
BeyondPage(e) ==
  \/ Cardinality({f \in Here : f > e}) >= Limit
  \/ Cardinality(Here \ {e}) > Window

\* Whatever the order in which answers of refreshes, deep links and sends are
\* applied, an event that the cursor has passed is in the list, except for those
\* that an answer left out for want of place: a room that fits an answer and a
\* window loses nothing.
PassedIsShown ==
  \A e \in Here : e <= cursor => e \in shown \/ (e \in overlooked /\ BeyondPage(e))

\* With polls, every event of an open room gets into the list or is left out of
\* an answer for want of place, although requests fail, are joined and reset the list.
EventuallyShown ==
  \A e \in Ids : (opened /\ e \in Here) ~> (e \in shown \/ (e \in overlooked /\ BeyondPage(e)))

\* What the comment of hydrateDeepLinkTarget says, that the window is merged so
\* that the latest tail stays present: with answers long enough for the whole
\* room, every event of an open room gets into the list.  No run checks it: an event
\* that lies beyond the window is passed by the cursor of the window's answer.
LinkKeepsTail == \A e \in Ids : (opened /\ e \in Here) ~> (e \in shown)
=============================================================================
