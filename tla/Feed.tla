------------------------------- MODULE Feed -------------------------------
(***************************************************************************)
(* The web client's activity feed: the newest message of each author in    *)
(* each thread, newest first, with a flag for those that await the user.   *)
(* The daemon answers pages of it; the client merges them into one list    *)
(* and remembers the oldest row as the cursor for more.                    *)
(*                                                                         *)
(* Nothing polls the feed.  It is read again when the event stream signals *)
(* a change (a timer gathers signals, and a refresh that is under way is   *)
(* joined) and after the user's own messages, reactions and                *)
(* acknowledgements, whose refreshes are forced and so overlap.  Answers   *)
(* come in any order, and signals are lost while the stream is down.       *)
(*                                                                         *)
(* Direct messages, which await nobody, and rooms are left out; flashing   *)
(* new rows too.  An event's id is its place in the sequence, 0 is null.   *)
(***************************************************************************)
EXTENDS Integers, Sequences, FiniteSets, FiniteSetsExt

CONSTANTS
  Threads, Authors,
  WebAuthors,   \* other browsers: their messages await nobody
  Me,           \* the web peer
  Window,       \* ACTIVITY_WINDOW: rows of a page
  Cap,          \* ACTIVITY_CAP: rows kept in the list
  Earlier,      \* messages there are at the start
  MaxEvents,    \* bound: events
  MaxPending    \* bound: head pages under way; there is one older page at a time

ASSUME FeedAssumption ==
  /\ Me \notin Authors /\ WebAuthors \subseteq Authors
  /\ Window \in Nat \ {0} /\ Cap \in Nat \ {0}
  /\ MaxEvents \in Nat /\ Earlier \in 0..MaxEvents /\ MaxPending \in Nat \ {0}

VARIABLES
  events,     \* table events: the messages, each with its thread and author
  handled,    \* peer_thread_interactions of the web peer
  shown,      \* _activity: the rows in the list
  awaiting,   \* the rows flagged as awaiting the user
  count,      \* _activityAwaiting: the badge
  oldest,     \* activityOldestCursor
  joinable,   \* activityRefresh is not null
  pages,      \* refreshActivity's requests for the head
  older,      \* its request for more: the cursor it was asked with
  own,        \* the user's own request: an acknowledgement, or one that is answered
  known,      \* history: the last event when the applied head was read
  skipped     \* history: events between a page and the list it was merged with

vars == <<events, handled, shown, awaiting, count, oldest, joinable, pages, older,
          own, known, skipped>>
daemon == <<events, handled>>
feed   == <<shown, awaiting, count, oldest, known, skipped>>
asking == <<joinable, pages, older>>

Ids     == 1..MaxEvents
Pending == 1..MaxPending
NoPage  == [at |-> "none", rows |-> {}, awaiting |-> {}, count |-> 0, last |-> 0]
NoOwn   == [at |-> "none", event |-> 0]

TypeOK ==
  /\ events \in Seq([thread : Threads, author : Authors \cup {Me}]) /\ Len(events) <= MaxEvents
  /\ handled \in [Threads -> 0..MaxEvents]
  /\ shown \subseteq Ids /\ Cardinality(shown) <= Cap
  /\ awaiting \subseteq shown
  /\ count \in 0..MaxEvents
  /\ oldest \in 0..MaxEvents
  /\ joinable \in BOOLEAN
  /\ pages \in [Pending -> [at : {"none", "asked", "answered"}, rows : SUBSET Ids,
                            awaiting : SUBSET Ids, count : 0..MaxEvents, last : 0..MaxEvents]]
  /\ older \in 0..MaxEvents
  /\ own \in [at : {"none", "ack", "ack all", "answered"}, event : 0..MaxEvents]
  /\ known \in 0..MaxEvents
  /\ skipped \subseteq Ids

-----------------------------------------------------------------------------
(*                               The daemon                                *)

Stored == 1..Len(events)

\* listActivityPage, activity_rank = 1: an author's newest message in a thread.
Rows == {e \in Stored : /\ events[e].author # Me
                        /\ \A f \in Stored : f > e => events[f] # events[e]}

Awaits(e) == events[e].author \notin WebAuthors \cup {Me} /\ e > handled[events[e].thread]

Newest(es, n) == {e \in es : Cardinality({f \in es : f > e}) < n}
Before(e)     == {r \in Rows : e = 0 \/ r < e}

\* GET /activity/:peer_id
Page(before) ==
  LET rows == Newest(Before(before), Window)
  IN  [at |-> "answered", rows |-> rows,
       awaiting |-> {e \in rows : Awaits(e)},
       count |-> Cardinality({e \in Rows : Awaits(e)}), last |-> Len(events)]

AnswerPage(i) ==
  /\ pages[i].at = "asked"
  /\ pages' = [pages EXCEPT ![i] = Page(0)]
  /\ UNCHANGED <<daemon, feed, joinable, older, own>>

\* An agent writes a message.
Post(t, a) ==
  /\ Len(events) < MaxEvents
  /\ events' = Append(events, [thread |-> t, author |-> a])
  /\ UNCHANGED <<handled, feed, asking, own>>

Furthest(t, e) == [handled EXCEPT ![t] = IF e > @ THEN e ELSE @]
LastAwaiting(t) ==
  Max({0} \cup {e \in Stored : events[e].thread = t /\ Awaits(e)})

-----------------------------------------------------------------------------
(*                         Asking and merging pages                        *)

\* refreshActivity without a cursor: one that is under way is joined, unless the
\* refresh is forced.
RefreshHead(force) ==
  IF joinable /\ ~ force THEN UNCHANGED asking
  ELSE LET free == {i \in Pending : pages[i].at = "none"}
       IN  /\ free # {}
           /\ pages' = [pages EXCEPT ![Min(free)] = [NoPage EXCEPT !.at = "asked"]]
           /\ joinable' = TRUE
           /\ UNCHANGED older

\* Mutant of SetList: the cursor stays behind when rows are cut off.
SetListKeepingCursor(rows, flagged) ==
  /\ shown' = Newest(rows, Cap)
  /\ awaiting' = flagged \cap shown'
  /\ oldest' = IF shown' = {} THEN oldest
               ELSE IF oldest = 0 THEN Min(shown') ELSE Min(shown' \cup {oldest})

\* Mutant of SetList: the flags are not cut off with the rows.
SetListFlagsLeft(rows, flagged) ==
  /\ shown' = Newest(rows, Cap)
  /\ awaiting' = flagged
  /\ oldest' = IF shown' = {} THEN oldest ELSE Min(shown')

\* The list is sorted and cut off; its last row is the cursor for more.
SetList(rows, flagged) ==
  /\ shown' = Newest(rows, Cap)
  /\ awaiting' = flagged \cap shown'
  /\ oldest' = IF shown' = {} THEN oldest ELSE Min(shown')

\* The newest page is merged: what the list has below its last row is kept.
MergeHead(page) ==
  LET bottom == IF page.rows = {} THEN MaxEvents + 1 ELSE Min(page.rows)
      kept   == {e \in shown \ page.rows : e < bottom}
  IN  /\ SetList(page.rows \cup kept, page.awaiting \cup (awaiting \cap kept))
      /\ known' = page.last
      /\ skipped' = (skipped \cup {e \in Stored : known < e /\ e < bottom /\ oldest' < e}) \ shown'

\* An older page is appended: rows of the list are left as they are.  The list may
\* end above the cursor that the page was asked with by now.
MergeOlder(page) ==
  /\ SetList(shown \cup page.rows, awaiting \cup (page.awaiting \ shown))
  /\ skipped' = (skipped \cup {e \in Stored : older <= e /\ e < oldest /\ oldest' < e}) \ shown'
  /\ UNCHANGED known

ApplyPage(i) ==
  /\ pages[i].at = "answered"
  /\ MergeHead(pages[i])
  /\ count' = pages[i].count
  /\ pages' = [pages EXCEPT ![i] = NoPage]
  /\ joinable' = FALSE
  /\ UNCHANGED <<daemon, older, own>>

\* Mutant of FailPage: a refresh that failed can still be joined.
FailPageJoinable(i) ==
  /\ pages[i].at = "asked"
  /\ pages' = [pages EXCEPT ![i] = NoPage]
  /\ UNCHANGED <<daemon, feed, joinable, older, own>>

\* The request fails.  (Reading changes nothing: a lost answer is as a lost request.)
FailPage(i) ==
  /\ pages[i].at = "asked"
  /\ pages' = [pages EXCEPT ![i] = NoPage]
  /\ joinable' = FALSE
  /\ UNCHANGED <<daemon, feed, older, own>>

\* An older page arrives.  It is read when it arrives: one that was read earlier could
\* differ in the badge, until the next head, and in rows below the head.
ApplyOlder ==
  /\ older # 0
  /\ MergeOlder(Page(older))
  /\ count' = Page(older).count
  /\ older' = 0
  /\ UNCHANGED <<daemon, joinable, pages, own>>

FailOlder ==
  /\ older # 0
  /\ older' = 0
  /\ UNCHANGED <<daemon, feed, joinable, pages, own>>

\* scheduleInvalidation's timer: signals of any change set it, which come at any
\* time (heartbeats are signalled too) and may be lost.
Signalled ==
  /\ RefreshHead(FALSE)
  /\ UNCHANGED <<daemon, feed, own>>

\* loadMoreActivity
LoadMore ==
  /\ oldest # 0 /\ older = 0
  /\ older' = oldest
  /\ UNCHANGED <<daemon, feed, joinable, pages, own>>

-----------------------------------------------------------------------------
(*                         What the user does                              *)

Answered == own' = [NoOwn EXCEPT !.at = "answered"]

\* sendMessage in the thread of a row.  (Nothing of the feed changes before the
\* answer, and if it fails.)
Answer(e) ==
  /\ own.at = "none" /\ e \in shown
  /\ Len(events) < MaxEvents
  /\ LET t == events[e].thread
     IN  /\ events' = Append(events, [thread |-> t, author |-> Me])
         /\ handled' = Furthest(t, Len(events) + 1)
  /\ Answered
  /\ UNCHANGED <<feed, asking>>

\* reactToMessage
React(e) ==
  /\ own.at = "none" /\ e \in shown
  /\ handled' = Furthest(events[e].thread, e)
  /\ Answered
  /\ UNCHANGED <<events, feed, asking>>

\* ackActivity: the flag is cleared at once, and the badge counts the list.
Acknowledge(e) ==
  /\ own.at = "none" /\ e \in shown
  /\ own' = [at |-> "ack", event |-> e]
  /\ awaiting' = awaiting \ {e}
  /\ count' = IF e \in awaiting THEN Cardinality(awaiting') ELSE count
  /\ UNCHANGED <<daemon, shown, oldest, known, skipped, asking>>

\* ackAllActivity
AcknowledgeAll ==
  /\ own.at = "none"
  /\ own' = [at |-> "ack all", event |-> 0]
  /\ awaiting' = {}
  /\ count' = 0
  /\ UNCHANGED <<daemon, shown, oldest, known, skipped, asking>>

\* POST /peers/:id/inbox/ack, of one event or of all that await the user.
StoreAck ==
  /\ own.at \in {"ack", "ack all"}
  /\ handled' = IF own.at = "ack" THEN Furthest(events[own.event].thread, own.event)
                ELSE [t \in Threads |-> Max({handled[t], LastAwaiting(t)})]
  /\ Answered
  /\ UNCHANGED <<events, feed, asking>>

\* An acknowledgement's error is dropped.
FailAck ==
  /\ own.at \in {"ack", "ack all"}
  /\ Answered
  /\ UNCHANGED <<daemon, feed, asking>>

\* After the answer the feed is read again, whatever is under way.
RefreshAfterOwn ==
  /\ own.at = "answered"
  /\ own' = NoOwn
  /\ RefreshHead(TRUE)
  /\ UNCHANGED <<daemon, feed>>

-----------------------------------------------------------------------------
\* connect: there may be messages already, and the first page has been asked for.
Init ==
  /\ events \in [1..Earlier -> [thread : Threads, author : Authors]]
  /\ handled = [t \in Threads |-> 0]
  /\ shown = {} /\ awaiting = {} /\ count = 0 /\ oldest = 0
  /\ joinable = TRUE
  /\ older = 0
  /\ pages = [i \in Pending |-> IF i = 1 THEN [NoPage EXCEPT !.at = "asked"] ELSE NoPage]
  /\ own = NoOwn
  /\ known = 0 /\ skipped = {}

Next ==
  \/ \E t \in Threads, a \in Authors : Post(t, a)
  \/ \E i \in Pending : AnswerPage(i) \/ ApplyPage(i) \/ FailPage(i)
  \/ Signalled \/ LoadMore \/ ApplyOlder \/ FailOlder
  \/ \E e \in shown : Answer(e) \/ React(e) \/ Acknowledge(e)
  \/ AcknowledgeAll \/ StoreAck \/ FailAck \/ RefreshAfterOwn

Spec == Init /\ [][Next]_vars

\* A page asked for again and again arrives in the end, timers fire, and some
\* agent's heartbeat is signalled now and then.
FairSpec ==
  /\ Spec
  /\ \A i \in Pending : SF_vars(AnswerPage(i)) /\ SF_vars(ApplyPage(i))
  /\ WF_vars(Signalled)

-----------------------------------------------------------------------------
(*                               Properties                                *)

\* Paging skips nothing: a row of the feed between the cursor and the last head
\* that was merged is in the list, although authors write again, answers overtake
\* one another and rows are cut off; except for the events between a full head and
\* the rows that were there before, and for those between an older page and a list
\* that was cut off, and then shortened by a head that was overtaken, while it was
\* under way.
PagingSkipsNothing ==
  oldest # 0 => \A e \in Rows : oldest <= e /\ e <= known => e \in shown \cup skipped

\* Head rows with their flags, and the badge, as the daemon has them.
Settled ==
  LET head == Newest(Rows, Window)
  IN  /\ count = Cardinality({e \in Rows : Awaits(e)})
      /\ head \subseteq shown
      /\ \A e \in head : e \in awaiting <=> Awaits(e)
      /\ \A e \in shown : e \in Rows \/ e < Min(head)

\* When nobody writes and the user asks for nothing any more, the feed's head, its
\* flags and the badge become what the daemon has, whatever refreshes were joined,
\* failed, overtaken or not signalled, and although the user cleared flags whose
\* acknowledgement then failed.
FeedSettles == <>[](own.at = "none") => <>[]Settled

\* What the client's tests say of the feed (web/src/data/activity.test.ts, on the
\* mock): it shows only the latest message per actor within a thread.
OneRowPerAuthor ==
  \A e, f \in shown : events[e] = events[f] => e = f

\* What a comment says of the rows that are cut off (web/src/data/daemon.ts:366): they
\* are re-fetchable via load-older.
TrimmedIsRefetchable ==
  [][ApplyOlder => \A e \in Rows : oldest' <= e /\ e < oldest => e \in shown']_vars
=============================================================================
