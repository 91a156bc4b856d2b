------------------------------ MODULE Messages ------------------------------
(***************************************************************************)
(* Events, inboxes and threads of one group and the direct messages of its *)
(* peers: what the daemon's handlers write when a message, a reply, a      *)
(* reaction, a roster change or a shared file arrives, when an inbox is    *)
(* read or acknowledged, and whom they hand to the push.                   *)
(*                                                                         *)
(* A handler is one step, except for sharing a file: it checks the member, *)
(* awaits the copy, writes the event, awaits the index files and only then *)
(* notifies.  Where a handler commits in several parts, the daemon may die *)
(* between them: actions of their own say what is left then.  When it      *)
(* starts again it deletes the groups that are not durable, with all that  *)
(* hangs on them.                                                          *)
(*                                                                         *)
(* An event's id is its place in the sequence, which keeps what was        *)
(* deleted: ids are never used again.  The id 0 is NULL.                   *)
(***************************************************************************)
EXTENDS Integers, Sequences, FiniteSets

CONSTANTS
  Peers,      \* the peers
  WebPeers,   \* those whose tool is 'web': their messages await nobody
  None,       \* SQL NULL for a peer
  Movers,     \* bound: the peers whose seats change
  Sharers,    \* bound: the peers who share files
  MaxEvents,  \* bound: events
  MaxCrashes, \* bound: deaths of the daemon
  GroupKinds  \* bound: durable and ephemeral, the groups that are looked at

ASSUME MessagesAssumption ==
  /\ WebPeers \subseteq Peers
  /\ None \notin Peers
  /\ Movers \subseteq Peers /\ Sharers \subseteq Peers
  /\ MaxEvents \in Nat \ {0}
  /\ MaxCrashes \in Nat
  /\ GroupKinds \subseteq {"durable", "ephemeral"}

VARIABLES
  events,    \* table events, and what was in it
  group,     \* the group: durable or ephemeral, or pruned
  member,    \* group_members.member_state, or none
  from,      \* group_members.history_from_event_id
  archived,  \* peers with lifecycle_state archived
  inbox,     \* table inbox: the events of a recipient
  acked,     \* rows with acked_at
  engaged,   \* peer_thread_interactions.last_interaction_event_id, by thread root
  sharing,   \* handlers of POST /groups/:name/media that await something
  pushed,    \* history: what notifySubscribers was asked to push, and to whom
  up,        \* the daemon runs
  crashes,   \* how often it died
  cut        \* history: rows acknowledged by a handler that died before the marker

vars == <<events, group, member, from, archived, inbox, acked, engaged,
          sharing, pushed, up, crashes, cut>>
roster == <<member, from, archived>>
life   == <<group, up, crashes, cut>>

Ids   == 1..MaxEvents
Kinds == {"dm", "group_message", "media_shared", "roster"}
Event == [type : Kinds, sender : Peers, to : Peers \cup {None}, parent : 0..MaxEvents]
Idle  == [at |-> "idle", event |-> 0, to |-> {}]

TypeOK ==
  /\ events \in Seq(Event) /\ Len(events) <= MaxEvents
  /\ group \in {"durable", "ephemeral", "pruned"}
  /\ member \in [Peers -> {"none", "active", "archived", "left"}]
  /\ from \in [Peers -> 0..MaxEvents]
  /\ archived \subseteq Peers
  /\ inbox \in [Peers -> SUBSET Ids]
  /\ acked \in [Peers -> SUBSET Ids]
  /\ engaged \in [Peers -> [Ids -> 0..MaxEvents]]
  /\ sharing \in [Peers -> [at : {"idle", "copying", "indexing"},
                            event : 0..MaxEvents, to : SUBSET Peers]]
  /\ pushed \subseteq Peers \X Ids
  /\ up \in BOOLEAN
  /\ crashes \in 0..MaxCrashes
  /\ cut \subseteq Peers \X Ids

-----------------------------------------------------------------------------
Sent       == 1..Len(events)

\* A pruned group's events are deleted, direct messages belong to no group.
Stored     == {e \in Sent : group = "pruned" => events[e].type = "dm"}
Last       == Len(events) + 1        \* the id that the next insert receives
Active     == {p \in Peers : member[p] = "active"}
Recipients(p) == Active \ {p}
IsMessage(e)  == events[e].type = "group_message"

\* resolveThreadParent: threads have one level.
Root(e) == IF events[e].parent = 0 THEN e ELSE events[e].parent

\* getVisibleEvent: of the group's events those from the member's boundary on,
\* whether or not it is still seated; of direct messages one's own.
Visible(p, e) ==
  IF events[e].type = "dm" THEN p \in {events[e].sender, events[e].to}
  ELSE member[p] # "none" /\ e >= from[p]

\* The Activity feed's flag.
Awaiting(p, e) ==
  /\ IsMessage(e)
  /\ events[e].sender # p /\ events[e].sender \notin WebPeers
  /\ e > engaged[p][Root(e)]

Insert(type, p, q, parent) ==
  /\ Len(events) < MaxEvents
  /\ events' = Append(events, [type |-> type, sender |-> p, to |-> q, parent |-> parent])

Deliver(ps) == inbox' = [p \in Peers |-> IF p \in ps THEN inbox[p] \cup {Last} ELSE inbox[p]]

\* notifySubscribers: archived peers are skipped.
Notify(ps, e) == pushed' = pushed \cup ((ps \ archived) \X {e})

\* Mutant of Engage: the marker follows the latest interaction, not the furthest.
EngageOverwrites(p, marks) ==
  engaged' = [engaged EXCEPT ![p] = [r \in Ids |->
    IF r \in DOMAIN marks THEN marks[r] ELSE @[r]]]

\* recordGroupMessageInteraction, for the threads in the domain of marks: the
\* marker moves forward only.
Engage(p, marks) ==
  engaged' = [engaged EXCEPT ![p] = [r \in Ids |->
    IF r \in DOMAIN marks /\ marks[r] > @[r] THEN marks[r] ELSE @[r]]]

\* The marks that a set of messages leaves: the last one of each thread.
MarksOf(es) ==
  [r \in {Root(e) : e \in es} |-> CHOOSE e \in es : Root(e) = r /\
                                    \A f \in es : Root(f) = r => f <= e]

\* Mutant of Acknowledge: acked_at is written, the thread is not recorded.
AcknowledgeOnly(p, ids) ==
  /\ acked' = [acked EXCEPT ![p] = @ \cup (ids \cap inbox[p])]
  /\ UNCHANGED engaged

\* POST /peers/:id/inbox/ack with ids, and what a reaction does: the rows that
\* exist are acknowledged, and the messages among the ids count as interactions
\* even when they are in no inbox.
Acknowledge(p, ids) ==
  /\ acked' = [acked EXCEPT ![p] = @ \cup (ids \cap inbox[p])]
  /\ Engage(p, MarksOf({e \in ids : IsMessage(e)}))

-----------------------------------------------------------------------------
\* POST /dm, and POST /reply to a direct message.
StoreDM(p, q) ==
  /\ p \notin archived
  /\ Insert("dm", p, q, 0)
  /\ Deliver({q})
  /\ UNCHANGED <<roster, acked, engaged>>

SendDM(p, q) ==
  /\ StoreDM(p, q)
  /\ Notify({q}, Last)
  /\ UNCHANGED sharing

\* computeThreadParticipants
Posters(root, p) == {events[e].sender : e \in {f \in Stored : Root(f) = root}} \ {p}

\* Mutant of PushTargets: former posters are not compared with the roster.
PushTargetsUnfiltered(p, root, mentioned) ==
  IF root = 0 THEN mentioned ELSE Posters(root, p) \cup mentioned

\* In the main channel the mentioned are pushed to, in a thread its posters too;
\* mentions are resolved against the active roster.
PushTargets(p, root, mentioned) ==
  (IF root = 0 THEN mentioned ELSE Posters(root, p) \cup mentioned) \cap Recipients(p)

\* What both routes do with a message to the group: the transaction, and the push.
StorePost(p, root) ==
  /\ p \in Active \ archived
  /\ Insert("group_message", p, None, root)
  /\ Engage(p, [r \in {IF root = 0 THEN Last ELSE root} |-> Last])
  /\ Deliver(Recipients(p))
  /\ UNCHANGED roster

Post(p, root, mentioned) ==
  /\ mentioned \subseteq Recipients(p)
  /\ StorePost(p, root)
  /\ Notify(PushTargets(p, root, mentioned), Last)
  /\ UNCHANGED sharing

\* POST /groups/:name/messages; with in_reply_to, the root and the message
\* answered are acknowledged.
SendGroup(p, mentioned) ==
  /\ Post(p, 0, mentioned)
  /\ UNCHANGED acked

SendInThread(p, e, mentioned) ==
  /\ IsMessage(e)
  /\ Post(p, Root(e), mentioned)
  /\ acked' = [acked EXCEPT ![p] = @ \cup ({Root(e), e} \cap inbox[p])]

\* Mutant of Reply: the thread hangs below the message answered, not below its root.
ReplyBelowTarget(p, e, mentioned) ==
  /\ Visible(p, e) /\ IsMessage(e)
  /\ Post(p, e, mentioned)
  /\ UNCHANGED acked

\* POST /reply to a message of the group: nothing is acknowledged.
Reply(p, e, mentioned) ==
  /\ Visible(p, e) /\ IsMessage(e)
  /\ Post(p, Root(e), mentioned)
  /\ UNCHANGED acked

ReplyDM(p, e) ==
  /\ Visible(p, e) /\ events[e].type = "dm"
  /\ SendDM(p, IF events[e].sender = p THEN events[e].to ELSE events[e].sender)

\* POST /events/:id/reactions: adding one acknowledges the message.  (The
\* reaction's row, and removing it, are left out: nothing else reads them.)
React(p, e) ==
  /\ Visible(p, e) /\ events[e].type \in {"dm", "group_message"}
  /\ IsMessage(e) => p \in Active
  /\ Acknowledge(p, {e})
  /\ UNCHANGED <<events, roster, inbox, sharing, pushed>>

-----------------------------------------------------------------------------
AckEvents(p, ids) ==
  /\ Acknowledge(p, ids)
  /\ UNCHANGED <<events, roster, inbox, sharing, pushed>>

\* The same route without ids: every row, and every thread that awaits p
\* (markAllAwaitingActivityHandled), whether or not p is in the group.
AckAll(p) ==
  /\ acked' = [acked EXCEPT ![p] = inbox[p]]
  /\ Engage(p, MarksOf({e \in Stored : Awaiting(p, e)}))
  /\ UNCHANGED <<events, roster, inbox, sharing, pushed>>

-----------------------------------------------------------------------------
\* fanoutRosterEventToInbox: to the active members, never pushed.
RosterEvent(p) ==
  /\ Insert("roster", p, None, 0)
  /\ Deliver(Recipients(p))
  /\ UNCHANGED <<archived, acked, engaged, sharing, pushed>>

\* joinGroupCore; fresh starts the history at the join.  (Which alias it takes, from
\* whom, and who is refused is for Membership.)
Join(p, fresh) ==
  /\ group # "pruned" /\ member[p] # "active"
  /\ RosterEvent(p)
  /\ member' = [member EXCEPT ![p] = "active"]
  /\ from' = [from EXCEPT ![p] = IF fresh THEN Last ELSE 1]

\* The alias was another peer's, who left: the same transaction first inserts and fans
\* out group_member_alias_reclaimed.
Reclaim(p, fresh) ==
  /\ group # "pruned" /\ member[p] # "active"
  /\ Len(events) + 1 < MaxEvents
  /\ LET notice == [type |-> "roster", sender |-> p, to |-> None, parent |-> 0]
     IN  events' = Append(Append(events, notice), notice)
  /\ inbox' = [q \in Peers |->
       IF q \in Recipients(p) THEN inbox[q] \cup {Last, Last + 1} ELSE inbox[q]]
  /\ member' = [member EXCEPT ![p] = "active"]
  /\ from' = [from EXCEPT ![p] = IF fresh THEN Last + 1 ELSE 1]
  /\ UNCHANGED <<archived, acked, engaged, sharing, pushed>>

Leave(p) ==
  /\ member[p] = "active"
  /\ RosterEvent(p)
  /\ member' = [member EXCEPT ![p] = "left"]
  /\ UNCHANGED from

\* POST /groups/:name/rename: the new alias is announced.
Rename(p) ==
  /\ member[p] = "active"
  /\ RosterEvent(p)
  /\ UNCHANGED <<member, from>>

\* markPeerArchived reserves the seat; a registration gives it back.
Archive(p) ==
  /\ p \notin archived
  /\ archived' = archived \cup {p}
  /\ member' = [member EXCEPT ![p] = IF @ = "active" THEN "archived" ELSE @]
  /\ UNCHANGED <<events, from, inbox, acked, engaged, sharing, pushed>>

Revive(p) ==
  /\ p \in archived
  /\ archived' = archived \ {p}
  /\ member' = [member EXCEPT ![p] = IF @ = "archived" THEN "active" ELSE @]
  /\ UNCHANGED <<events, from, inbox, acked, engaged, sharing, pushed>>

-----------------------------------------------------------------------------
\* POST /groups/:name/media up to the copy of the file.
ShareBegin(p) ==
  /\ sharing[p].at = "idle" /\ p \in Active
  /\ sharing' = [sharing EXCEPT ![p].at = "copying"]
  /\ UNCHANGED <<events, roster, inbox, acked, engaged, pushed>>

\* The copy is there: the row and the event are written, for whoever is active
\* by now, whatever became of the sharer.
ShareStore(p) ==
  /\ sharing[p].at = "copying"
  /\ Insert("media_shared", p, None, 0)
  /\ Deliver(Recipients(p))
  /\ sharing' = [sharing EXCEPT ![p] =
       [at |-> "indexing", event |-> Last, to |-> Recipients(p)]]
  /\ UNCHANGED <<roster, acked, engaged, pushed>>

\* Mutant of ShareNotify: the rows are written when the index files are, for those
\* who are active by then.
ShareNotifyDelivers(p) ==
  /\ sharing[p].at = "indexing"
  /\ inbox' = [q \in Peers |-> IF q \in Recipients(p) THEN inbox[q] \cup {sharing[p].event}
                               ELSE inbox[q]]
  /\ Notify(Recipients(p), sharing[p].event)
  /\ sharing' = [sharing EXCEPT ![p] = Idle]
  /\ UNCHANGED <<events, roster, acked, engaged>>

\* The index files are written: the recipients of then are notified.
ShareNotify(p) ==
  /\ sharing[p].at = "indexing"
  /\ Notify(sharing[p].to, sharing[p].event)
  /\ sharing' = [sharing EXCEPT ![p] = Idle]
  /\ UNCHANGED <<events, roster, inbox, acked, engaged>>

\* A file operation fails: before the event nothing is stored, after it nobody
\* is notified.
ShareFails(p) ==
  /\ sharing[p].at # "idle"
  /\ sharing' = [sharing EXCEPT ![p] = Idle]
  /\ UNCHANGED <<events, roster, inbox, acked, engaged, pushed>>

-----------------------------------------------------------------------------
(*                         The daemon dies and starts                      *)

\* Handlers that await something are gone with it.
Dies ==
  /\ up /\ crashes < MaxCrashes
  /\ up' = FALSE /\ crashes' = crashes + 1
  /\ sharing' = [p \in Peers |-> Idle]
  /\ UNCHANGED <<group, pushed>>

Die == Dies /\ UNCHANGED <<events, roster, inbox, acked, engaged, cut>>

\* It dies after a message's transaction: nobody is pushed to, nothing acknowledged.
CutMessage(p) ==
  /\ Dies
  /\ \/ \E q \in Peers : StoreDM(p, q)
     \/ /\ \/ StorePost(p, 0)
           \/ \E e \in Stored : IsMessage(e) /\ StorePost(p, Root(e))
        /\ UNCHANGED acked
  /\ UNCHANGED cut

\* It dies after the rows of POST /peers/:id/inbox/ack, or of a reaction, are
\* written: the markers are written one by one, and only those of done are.  (With
\* all of them written it is the whole handler, and Die.)
CutAck(p, ids, done) ==
  /\ done # {e \in ids : IsMessage(e)}
  /\ Dies
  /\ acked' = [acked EXCEPT ![p] = @ \cup (ids \cap inbox[p])]
  /\ Engage(p, MarksOf({e \in done : IsMessage(e)}))
  /\ cut' = cut \cup ({p} \X {e \in inbox[p] : Awaiting(p, e) /\ e \in ids \ done})
  /\ UNCHANGED <<events, roster, inbox>>

\* The same without ids: only the markers of some of the threads that await are.
CutAckAll(p, roots) ==
  /\ Dies
  /\ roots \subseteq {Root(e) : e \in {f \in Stored : Awaiting(p, f)}}
  /\ acked' = [acked EXCEPT ![p] = inbox[p]]
  /\ Engage(p, MarksOf({e \in Stored : Awaiting(p, e) /\ Root(e) \in roots}))
  /\ cut' = cut \cup ({p} \X {e \in inbox[p] : Awaiting(p, e) /\ Root(e) \notin roots})
  /\ UNCHANGED <<events, roster, inbox>>

\* pruneEphemeralGroups: the seats, the events, their inbox rows and the markers go
\* with the group.
Prune ==
  LET gone == {e \in Stored : events[e].type # "dm"}
  IN  /\ group' = "pruned"
      /\ member' = [p \in Peers |-> "none"]
      /\ from' = [p \in Peers |-> 0]
      /\ inbox' = [p \in Peers |-> inbox[p] \ gone]
      /\ acked' = [p \in Peers |-> acked[p] \ gone]
      /\ engaged' = [p \in Peers |-> [r \in Ids |-> 0]]

Start ==
  /\ ~ up /\ up' = TRUE
  /\ IF group = "ephemeral" THEN Prune
     ELSE UNCHANGED <<group, member, from, inbox, acked, engaged>>
  /\ UNCHANGED <<events, archived, sharing, pushed, crashes, cut>>

-----------------------------------------------------------------------------
\* Everyone is seated and nothing was said.
Init ==
  /\ events = <<>>
  /\ group \in GroupKinds
  /\ member = [p \in Peers |-> "active"]
  /\ from = [p \in Peers |-> 1]
  /\ archived = {}
  /\ inbox = [p \in Peers |-> {}]
  /\ acked = [p \in Peers |-> {}]
  /\ engaged = [p \in Peers |-> [r \in Ids |-> 0]]
  /\ sharing = [p \in Peers |-> Idle]
  /\ pushed = {}
  /\ up = TRUE /\ crashes = 0 /\ cut = {}

Message(p) ==
  \/ \E q \in Peers : SendDM(p, q)
  \/ \E ms \in SUBSET Peers :
       \/ SendGroup(p, ms)
       \/ \E e \in Stored : SendInThread(p, e, ms) \/ Reply(p, e, ms)
  \/ \E e \in Stored : ReplyDM(p, e) \/ React(p, e)

Inbox(p) ==
  \/ \E ids \in SUBSET Stored \ {{}} : AckEvents(p, ids)
  \/ AckAll(p)

Seat(p)  == p \in Movers /\ ((\E fresh \in BOOLEAN : Join(p, fresh) \/ Reclaim(p, fresh))
                              \/ Leave(p) \/ Rename(p) \/ Archive(p) \/ Revive(p))
Share(p) == p \in Sharers /\ (ShareBegin(p) \/ ShareStore(p) \/ ShareNotify(p) \/ ShareFails(p))

\* A handler that ends.
Handler(p) == up /\ (Message(p) \/ Inbox(p) \/ Seat(p) \/ Share(p)) /\ UNCHANGED life

\* A handler that a death ends.
Cut(p) ==
  /\ crashes < MaxCrashes
  /\ \/ CutMessage(p)
     \/ \E ids \in SUBSET Stored :
          \E done \in SUBSET {e \in ids : IsMessage(e)} : CutAck(p, ids, done)
     \/ \E roots \in SUBSET Stored : CutAckAll(p, roots)

Next == (\E p \in Peers : Handler(p) \/ Cut(p)) \/ Die \/ Start

Spec == Init /\ [][Next]_vars

-----------------------------------------------------------------------------
(*                               Properties                                *)

\* Nobody is pushed an event that is not in his inbox: not a former poster of
\* the thread who left, nor one who joined while a shared file was indexed.
\* (The rows of a pruned group are gone.)
PushedWasAddressed == \A x \in pushed : x[2] \in Stored => x[2] \in inbox[x[1]]

\* A message that its recipient acknowledged does not await him: whoever writes
\* acked_at also moves the thread's marker, unless the daemon dies between the two;
\* and no death makes anything else acknowledged and awaited.
AckedIsNotAwaited ==
  \A p \in Peers : \A e \in acked[p] : Awaiting(p, e) => <<p, e>> \in cut

\* Threads have one level: a reply hangs below a message that is itself no reply.
ThreadsAreFlat ==
  \A e \in Sent : events[e].parent # 0 =>
    /\ events[e].parent < e
    /\ IsMessage(e) /\ IsMessage(events[e].parent)
    /\ events[events[e].parent].parent = 0

Mail == INSTANCE Mailbox WITH sent <- Len(events), rows <- inbox

\* Every handler keeps the promise of the inboxes, and so does every death: an event
\* is delivered in the step that stores it, to whom it is addressed then, although a
\* shared file's recipients are notified after an await; rows are acknowledged for
\* good; and an event that is deleted is deleted from every inbox.
MailSpec == Mail!Spec

\* What does not await a peer any more never awaits it again, whatever older
\* message is reacted to or acknowledged later, and whatever a death cuts off.
HandledStaysHandled ==
  [][\A e \in Stored \cap Stored' : \A p \in Peers :
       Awaiting(p, e)' => Awaiting(p, e)]_vars
=============================================================================
