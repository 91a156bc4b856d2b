--------------------------- MODULE Messages_proofs ---------------------------
(***************************************************************************)
(* Theorems about Messages, for every set of peers, whoever of them writes  *)
(* in the browser, and every number of events.                             *)
(***************************************************************************)
EXTENDS Messages, FiniteSetTheorems, TLAPS

USE MessagesAssumption DEF MessagesAssumption

-----------------------------------------------------------------------------
(*                         Lemmas on the operators                         *)

\* A set of numbers with a bound has a greatest one: of the sets of what lies
\* above an element one is minimal, and it is empty.
LEMMA HasMaximum ==
  ASSUME NEW n \in Nat, NEW S \in SUBSET (1..n), S # {}
  PROVE  \E m \in S : \A k \in S : k <= m
  <1> DEFINE Above(m) == {k \in S : k > m}
             T == {Above(m) : m \in S}
             R == StrictSubsetOrdering(1..n)
  <1>1. IsWellFoundedOn(R, FiniteSubsetsOf(1..n))
    BY FS_StrictSubsetOrderingWellFounded
  <1>2. T \subseteq FiniteSubsetsOf(1..n)
    <2>1. ASSUME NEW m \in S PROVE Above(m) \in SUBSET (1..n) /\ IsFiniteSet(Above(m))
      <3>1. IsFiniteSet(1..n)
        BY FS_Interval
      <3>2. Above(m) \in SUBSET (1..n)
        OBVIOUS
      <3>3. QED BY <3>1, <3>2, FS_Subset
    <2>2. QED BY <2>1 DEF FiniteSubsetsOf
  <1>3. T # {}
    <2>1. PICK m \in S : TRUE
      OBVIOUS
    <2>2. Above(m) \in T
      BY <2>1
    <2>3. QED BY <2>2
  <1>4. \E x \in T : \A y \in T : ~ (<<y, x>> \in R)
    <2> HIDE DEF T, R
    <2> QED BY <1>1, <1>2, <1>3, WFMin
  <1>5. PICK m \in S : \A k \in S : ~ (<<Above(k), Above(m)>> \in R)
    BY <1>4
  <1>6. ASSUME NEW k \in S, k > m PROVE FALSE
    <2> HIDE DEF T, R
    <2>1. Above(k) \subseteq Above(m)
      <3>1. ASSUME NEW j \in S, j > k PROVE j > m
        <4>1. j \in Int /\ k \in Int /\ m \in Int
          OBVIOUS
        <4>2. QED BY <1>6, <3>1, <4>1
      <3>2. QED BY <3>1
    <2>2. k \in Above(m) /\ k \notin Above(k)
      BY <1>6
    <2>3. Above(k) \in SUBSET (1..n) /\ Above(m) \in SUBSET (1..n) /\ Above(k) # Above(m)
      BY <2>2
    <2>4. <<Above(k), Above(m)>> \in R
      BY <2>1, <2>3 DEF R, StrictSubsetOrdering
    <2>5. QED BY <1>5, <2>4
  <1>7. QED BY <1>6

\* A reply's root is a message of its own, and precedes it.
LEMMA RootOfMessage ==
  ASSUME TypeOK, ThreadsAreFlat, NEW e \in Sent
  PROVE  /\ Root(e) \in Sent /\ Root(e) <= e
         /\ events[Root(e)].parent = 0
         /\ IsMessage(e) => IsMessage(Root(e))
  <1>1. events[e] \in Event
    BY DEF TypeOK, Sent
  <1>2. events[e].parent \in 0..MaxEvents
    BY <1>1 DEF Event
  <1>3. QED BY <1>2 DEF ThreadsAreFlat, Root, Sent, IsMessage, TypeOK

\* The marks of a set of messages are its last one of each thread.
LEMMA MarksAreLast ==
  ASSUME TypeOK, NEW es \in SUBSET Sent
  PROVE  /\ \A e \in es : Root(e) \in DOMAIN MarksOf(es) /\ MarksOf(es)[Root(e)] >= e
         /\ \A r \in DOMAIN MarksOf(es) : MarksOf(es)[r] \in es
  <1> DEFINE IsLast(r, e) == Root(e) = r /\ \A f \in es : Root(f) = r => f <= e
  <1>1. ASSUME NEW r, NEW d \in es, Root(d) = r
        PROVE  \E e \in es : IsLast(r, e)
    <2> DEFINE thread == {f \in es : Root(f) = r}
    <2>0. d \in thread /\ thread \in SUBSET Sent
      BY <1>1
    <2>1. thread \in SUBSET (1..Len(events)) /\ thread # {} /\ Len(events) \in Nat
      <3> HIDE DEF thread
      <3> QED BY <2>0 DEF Sent, TypeOK
    <2>2. PICK e \in thread : \A f \in thread : f <= e
      <3> HIDE DEF thread
      <3> QED BY <2>1, HasMaximum
    <2>3. QED BY <2>2
  <1>2. ASSUME NEW r, NEW d \in es, Root(d) = r
        PROVE  MarksOf(es)[r] \in es /\ IsLast(r, MarksOf(es)[r])
    <2>1. MarksOf(es)[r] = CHOOSE e \in es : IsLast(r, e)
      BY <1>2 DEF MarksOf
    <2>2. QED BY <1>1, <1>2, <2>1
  <1>3. DOMAIN MarksOf(es) = {Root(e) : e \in es}
    BY DEF MarksOf
  <1>4. es \subseteq Int
    BY DEF Sent
  <1>5. QED BY <1>2, <1>3, <1>4

\* Interactions move a peer's markers forward, to the marks at least.
LEMMA EngageForward ==
  ASSUME TypeOK, NEW p \in Peers, NEW marks, Engage(p, marks),
         \A r \in DOMAIN marks : marks[r] \in 0..MaxEvents
  PROVE  /\ engaged' \in [Peers -> [Ids -> 0..MaxEvents]]
         /\ \A q \in Peers, r \in Ids : engaged'[q][r] >= engaged[q][r]
         /\ \A r \in Ids \cap DOMAIN marks : engaged'[p][r] >= marks[r]
  <1> DEFINE moved == [r \in Ids |-> IF r \in DOMAIN marks /\ marks[r] > engaged[p][r]
                                       THEN marks[r] ELSE engaged[p][r]]
  <1>1. engaged' = [engaged EXCEPT ![p] = moved]
    BY DEF Engage
  <1>2. \A r \in Ids : engaged[p][r] \in 0..MaxEvents
    BY DEF TypeOK
  <1>3. moved \in [Ids -> 0..MaxEvents]
    BY <1>2
  <1>4. \A r \in Ids : moved[r] >= engaged[p][r] /\ (r \in DOMAIN marks => moved[r] >= marks[r])
    BY <1>2
  <1> HIDE DEF moved
  <1>5. engaged' \in [Peers -> [Ids -> 0..MaxEvents]]
    BY <1>1, <1>3 DEF TypeOK
  <1>6. \A q \in Peers : engaged'[q] = IF q = p THEN moved ELSE engaged[q]
    BY <1>1 DEF TypeOK
  <1>7. \A q \in Peers, r \in Ids : engaged[q][r] >= engaged[q][r]
    BY DEF TypeOK
  <1>8. QED BY <1>4, <1>5, <1>6, <1>7

-----------------------------------------------------------------------------
(*                    What the steps of the handlers do                    *)

\* What is in an inbox is stored, what was acknowledged is in the inbox, and what
\* was pushed was stored once.
Contained ==
  /\ \A p \in Peers : acked[p] \subseteq inbox[p] /\ inbox[p] \subseteq Stored
  /\ \A x \in pushed : x[2] \in Sent

\* A direct message names its recipient.
Directed == \A e \in Sent : events[e].type = "dm" => events[e].to \in Peers

\* The recipients that the sharing of a file remembers over its last await have
\* its event.
SharedWasAddressed ==
  \A p \in Peers : sharing[p].at = "indexing" =>
    \A q \in sharing[p].to : sharing[p].event \in inbox[q]

\* Nobody sits in a pruned group or shares a file there, and nobody shares one
\* while the daemon is down.
Emptied ==
  /\ group = "pruned" => \A p \in Peers : member[p] = "none" /\ sharing[p].at = "idle"
  /\ ~ up => \A p \in Peers : sharing[p].at = "idle"

\* The inductive invariant.
Inv ==
  /\ TypeOK
  /\ Contained
  /\ ThreadsAreFlat
  /\ Directed
  /\ SharedWasAddressed
  /\ Emptied
  /\ PushedWasAddressed
  /\ AckedIsNotAwaited

\* The events stored stay what they are, and the markers move forward.
MarkersOnward ==
  /\ engaged' \in [Peers -> [Ids -> 0..MaxEvents]]
  /\ \A p \in Peers, r \in Ids : engaged'[p][r] >= engaged[p][r]

Onward ==
  /\ Len(events') >= Len(events)
  /\ \A e \in Sent : events'[e] = events[e]
  /\ group' = group
  /\ MarkersOnward

\* New events are direct messages, or reply to nothing, or hang below a message
\* that is itself no reply.
EventsGrow ==
  /\ events' \in Seq(Event) /\ Len(events') >= Len(events) /\ Len(events') <= MaxEvents
  /\ \A e \in Sent : events'[e] = events[e]
  /\ \A e \in Sent' \ Sent :
       /\ events'[e].type = "dm" => events'[e].to \in Peers
       /\ group = "pruned" => events'[e].type = "dm"
       /\ events'[e].parent # 0 =>
            /\ events'[e].type = "group_message" /\ events'[e].parent \in Sent
            /\ IsMessage(events'[e].parent) /\ events[events'[e].parent].parent = 0

\* Rows are added for new events only.
RowsGrow ==
  /\ inbox' \in [Peers -> SUBSET Ids]
  /\ \A p \in Peers : inbox[p] \subseteq inbox'[p] /\ inbox'[p] \subseteq inbox[p] \cup (Sent' \ Sent)

\* The message awaits p after the step.
AwaitsNext(p, e) == Awaiting(p, e)'

\* What a step acknowledges was in the inbox and does not await its reader, unless
\* it was cut short.
AcksHandled ==
  /\ acked' \in [Peers -> SUBSET Ids]
  /\ \A p \in Peers : acked[p] \subseteq acked'[p]
  /\ \A p \in Peers : \A e \in acked'[p] :
       e \in acked[p] \/ (e \in inbox[p] /\ (~ AwaitsNext(p, e) \/ <<p, e>> \in cut'))

\* The files on the way remember what they did, or whom the step delivered to.
SharingKept ==
  /\ sharing' \in [Peers -> [at : {"idle", "copying", "indexing"},
                             event : 0..MaxEvents, to : SUBSET Peers]]
  /\ \A p \in Peers : sharing'[p].at = "indexing" =>
       sharing'[p] = sharing[p] \/ \A q \in sharing'[p].to : sharing'[p].event \in inbox'[q]
  /\ group = "pruned" => \A p \in Peers : sharing'[p].at = "idle"

RosterTyped ==
  /\ member' \in [Peers -> {"none", "active", "archived", "left"}]
  /\ from' \in [Peers -> 0..MaxEvents]
  /\ archived' \subseteq Peers
  /\ group = "pruned" => \A p \in Peers : member'[p] = "none"

PushesKept == \A x \in pushed' : x \in pushed \/ (x \in Peers \X Ids /\ x[2] \in inbox'[x[1]])

\* The group stays; the daemon may die.
Lives ==
  /\ group' = group /\ up' \in BOOLEAN /\ crashes' \in 0..MaxCrashes
  /\ cut \subseteq cut' /\ cut' \subseteq Peers \X Ids
  /\ ~ up' => \A p \in Peers : sharing'[p].at = "idle"

\* Of the events stored before, none changes its thread or its type.
LEMMA OldEventsKept ==
  ASSUME TypeOK, ThreadsAreFlat, Onward, NEW e \in Sent
  PROVE  /\ e \in Sent' /\ (e \in Stored' <=> e \in Stored)
         /\ Root(e)' = Root(e) /\ Root(e) \in Ids
         /\ IsMessage(e)' <=> IsMessage(e)
         /\ \A p \in Peers : ~ Awaiting(p, e) => ~ AwaitsNext(p, e)
  <1>1. events'[e] = events[e]
    BY DEF Onward
  <1>2. Root(e) \in Sent /\ Sent \subseteq Ids /\ e \in Ids
    <2>1. Sent \subseteq Ids
      BY DEF Sent, Ids, TypeOK
    <2>2. QED BY <2>1, RootOfMessage
  <1>3. e \in Sent'
    <2>1. Len(events) \in Nat /\ Len(events') >= Len(events) /\ e \in 1..Len(events)
      BY DEF Onward, Sent, TypeOK
    <2>2. CASE Len(events') \in Int
      BY <2>1, <2>2 DEF Sent
    <2>3. QED BY <2>1, <2>2 DEF Sent
  <1>4. Root(e)' = Root(e) /\ (IsMessage(e)' <=> IsMessage(e))
    BY <1>1 DEF Root, IsMessage
  <1>5. ASSUME NEW p \in Peers, AwaitsNext(p, e) PROVE Awaiting(p, e)
    <2>1. engaged'[p][Root(e)] >= engaged[p][Root(e)]
      BY <1>2 DEF Onward, MarkersOnward
    <2>2. engaged[p][Root(e)] \in Int /\ engaged'[p][Root(e)] \in Int /\ e \in Int
      <3>1. engaged[p][Root(e)] \in 0..MaxEvents /\ engaged'[p][Root(e)] \in 0..MaxEvents
        BY <1>2 DEF TypeOK, Onward, MarkersOnward
      <3>2. QED BY <1>2, <3>1 DEF Ids
    <2>3. QED BY <1>1, <1>4, <1>5, <2>1, <2>2 DEF Awaiting, AwaitsNext
  <1>6. e \in Stored' <=> e \in Stored
    BY <1>1, <1>3 DEF Stored, Onward
  <1>7. QED BY <1>2, <1>3, <1>4, <1>5, <1>6

\* What a handler, or a death, has to keep in order.
LEMMA StepKeeps ==
  ASSUME Inv, EventsGrow, RowsGrow, MarkersOnward, AcksHandled, SharingKept, RosterTyped,
         PushesKept, Lives
  PROVE  Inv' /\ Onward
  <1>1. Onward
    BY DEF EventsGrow, Onward, Lives
  <1>2. Len(events) \in Nat /\ Len(events') \in Nat /\ Sent \subseteq Sent' /\ Sent' \subseteq Ids
    BY DEF EventsGrow, Inv, TypeOK, Sent, Ids
  <1>3. \A e \in Sent : e \in Stored' <=> e \in Stored
    BY <1>1, OldEventsKept DEF Inv
  <1>4. Sent' \ Sent \subseteq Stored'
    BY DEF EventsGrow, Stored, Lives
  <1>5. \A p \in Peers : inbox'[p] \subseteq Stored'
    <2>1. ASSUME NEW p \in Peers, NEW e \in inbox'[p] PROVE e \in Stored'
      <3>1. CASE e \in inbox[p]
        <4>1. e \in Stored /\ e \in Sent
          BY <3>1 DEF Inv, Contained, Stored
        <4>2. QED BY <1>3, <4>1
      <3>2. CASE e \in Sent' \ Sent
        BY <1>4, <3>2
      <3>3. QED BY <3>1, <3>2 DEF RowsGrow
    <2>2. QED BY <2>1
  <1>6. TypeOK'
    <2>1. pushed' \subseteq Peers \X Ids
      BY DEF Inv, TypeOK, PushesKept
    <2>2. events' \in Seq(Event) /\ Len(events') <= MaxEvents
      BY DEF EventsGrow
    <2>3. group' \in {"durable", "ephemeral", "pruned"}
      BY DEF Inv, TypeOK, Lives
    <2>4. QED BY <2>1, <2>2, <2>3
          DEF TypeOK, RowsGrow, MarkersOnward, AcksHandled, SharingKept, RosterTyped, Lives
  <1>7. Contained'
    <2>1. \A p \in Peers : acked'[p] \subseteq inbox'[p]
      BY DEF Inv, Contained, AcksHandled, RowsGrow
    <2>2. ASSUME NEW x \in pushed' PROVE x[2] \in Sent'
      <3>1. CASE x \in pushed
        BY <1>2, <3>1 DEF Inv, Contained
      <3>2. CASE x \in Peers \X Ids /\ x[2] \in inbox'[x[1]]
        BY <1>5, <3>2 DEF Stored
      <3>3. QED BY <3>1, <3>2 DEF PushesKept
    <2>3. QED BY <1>5, <2>1, <2>2 DEF Contained
  <1>8. ThreadsAreFlat'
    <2> SUFFICES ASSUME NEW e \in Sent', events'[e].parent # 0
                 PROVE  /\ events'[e].parent < e
                        /\ IsMessage(e)' /\ events'[events'[e].parent].type = "group_message"
                        /\ events'[events'[e].parent].parent = 0
      BY DEF ThreadsAreFlat, IsMessage
    <2>1. CASE e \in Sent
      <3>1. events'[e] = events[e]
        BY <2>1 DEF EventsGrow
      <3>2. /\ events[e].parent < e
            /\ IsMessage(e) /\ IsMessage(events[e].parent)
            /\ events[events[e].parent].parent = 0
        BY <2>1, <3>1 DEF Inv, ThreadsAreFlat
      <3>3. events[e].parent \in Sent
        <4>1. events[e] \in Event /\ e \in 1..Len(events)
          BY <2>1 DEF Inv, TypeOK, Sent
        <4>2. events[e].parent \in Nat
          BY <4>1 DEF Event
        <4>3. QED BY <1>2, <3>1, <3>2, <4>1, <4>2 DEF Sent
      <3>4. events'[events[e].parent] = events[events[e].parent]
        BY <3>3 DEF EventsGrow
      <3>5. QED BY <3>1, <3>2, <3>4 DEF IsMessage
    <2>2. CASE e \in Sent' \ Sent
      <3>1. /\ events'[e].type = "group_message" /\ events'[e].parent \in Sent
            /\ IsMessage(events'[e].parent) /\ events[events'[e].parent].parent = 0
        BY <2>2 DEF EventsGrow
      <3>2. events'[events'[e].parent] = events[events'[e].parent]
        BY <3>1 DEF EventsGrow
      <3>3. events'[e].parent < e
        BY <1>2, <2>2, <3>1 DEF Sent
      <3>4. QED BY <3>1, <3>2, <3>3 DEF IsMessage
    <2>3. QED BY <2>1, <2>2
  <1>9. Directed'
    BY DEF Inv, Directed, EventsGrow
  <1>10. SharedWasAddressed'
    <2>1. ASSUME NEW s \in Peers, sharing'[s].at = "indexing", NEW r \in sharing'[s].to
          PROVE  sharing'[s].event \in inbox'[r]
      <3>1. r \in Peers
        BY DEF SharingKept
      <3>2. CASE sharing'[s] = sharing[s]
        BY <2>1, <3>1, <3>2 DEF Inv, SharedWasAddressed, RowsGrow
      <3>3. QED BY <2>1, <3>2 DEF SharingKept
    <2>2. QED BY <2>1 DEF SharedWasAddressed
  <1>11. Emptied'
    BY DEF Emptied, Lives, RosterTyped, SharingKept
  <1>12. PushedWasAddressed'
    <2>1. ASSUME NEW x \in pushed', x[2] \in Stored' PROVE x[2] \in inbox'[x[1]]
      <3>1. CASE x \in pushed
        <4>1. x[1] \in Peers /\ x[2] \in Sent
          BY <3>1 DEF Inv, TypeOK, Contained
        <4>2. x[2] \in inbox[x[1]]
          BY <1>3, <2>1, <3>1, <4>1 DEF Inv, PushedWasAddressed
        <4>3. QED BY <4>1, <4>2 DEF RowsGrow
      <3>2. QED BY <3>1 DEF PushesKept
    <2>2. QED BY <2>1 DEF PushedWasAddressed
  <1>13. AckedIsNotAwaited'
    <2>1. ASSUME NEW p \in Peers, NEW e \in acked'[p], AwaitsNext(p, e)
          PROVE  <<p, e>> \in cut'
      <3>1. CASE e \in acked[p]
        <4>1. e \in Sent
          BY <3>1 DEF Inv, Contained, Stored
        <4>2. Awaiting(p, e)
          BY <1>1, <2>1, <4>1, OldEventsKept DEF Inv
        <4>3. QED BY <3>1, <4>2 DEF Inv, AckedIsNotAwaited, Lives
      <3>2. QED BY <2>1, <3>1 DEF AcksHandled
    <2>2. QED BY <2>1 DEF AckedIsNotAwaited, AwaitsNext
  <1>14. QED BY <1>1, <1>6, <1>7, <1>8, <1>9, <1>10, <1>11, <1>12, <1>13 DEF Inv

\* An insert appends one event; the others stay.
LEMMA InsertAppends ==
  ASSUME TypeOK, NEW type \in Kinds, NEW p \in Peers, NEW q \in Peers \cup {None},
         NEW parent \in 0..MaxEvents, Insert(type, p, q, parent)
  PROVE  /\ events' \in Seq(Event) /\ Len(events') = Last /\ Last <= MaxEvents
         /\ \A e \in Sent : events'[e] = events[e]
         /\ events'[Last] = [type |-> type, sender |-> p, to |-> q, parent |-> parent]
         /\ Last \in Ids /\ Last \notin Sent /\ Sent' = Sent \cup {Last}
  <1> DEFINE new == [type |-> type, sender |-> p, to |-> q, parent |-> parent]
  <1>1. new \in Event
    BY DEF Event
  <1>2. events' = Append(events, new) /\ Len(events) < MaxEvents /\ events \in Seq(Event)
    BY DEF Insert, TypeOK
  <1> HIDE DEF new
  <1>3. Len(events) \in Nat
    BY <1>2
  <1>4. events' \in Seq(Event) /\ Len(events') = Last
    BY <1>1, <1>2 DEF Last
  <1>5. \A e \in 1..Len(events) : events'[e] = events[e]
    BY <1>1, <1>2
  <1>6. events'[Len(events) + 1] = new
    BY <1>1, <1>2
  <1>7. QED BY <1>2, <1>3, <1>4, <1>5, <1>6 DEF Sent, Last, Ids, new

\* What an insert that is delivered leaves to show: that its markers and
\* acknowledgements are in order and that it pushes to whom it delivers.
LEMMA InsertStep ==
  ASSUME Inv, NEW type \in Kinds, NEW p \in Peers, NEW q \in Peers \cup {None},
         NEW parent \in 0..MaxEvents, Insert(type, p, q, parent),
         NEW ps \in SUBSET Peers, Deliver(ps),
         parent = 0 \/ /\ type = "group_message"
                       /\ parent \in Sent /\ IsMessage(parent)
                       /\ events[parent].parent = 0,
         type = "dm" => q \in Peers,
         group = "pruned" => type = "dm",
         MarkersOnward, AcksHandled, SharingKept, RosterTyped, Lives,
         pushed' \subseteq pushed \cup (ps \X {Last})
  PROVE  Inv' /\ Onward
  <1>1. /\ events' \in Seq(Event) /\ Len(events') = Last /\ Last <= MaxEvents
        /\ \A e \in Sent : events'[e] = events[e]
        /\ events'[Last] = [type |-> type, sender |-> p, to |-> q, parent |-> parent]
        /\ Last \in Ids /\ Last \notin Sent /\ Sent' = Sent \cup {Last}
    BY InsertAppends DEF Inv
  <1>2. EventsGrow
    <2>1. /\ events'[Last].type = type /\ events'[Last].to = q /\ events'[Last].parent = parent
          /\ Len(events') >= Len(events)
      BY <1>1 DEF Last, Inv, TypeOK
    <2>2. QED BY <1>1, <2>1 DEF EventsGrow
  <1>3. RowsGrow /\ \A r \in ps : Last \in inbox'[r]
    <2>1. inbox \in [Peers -> SUBSET Ids]
      BY DEF Inv, TypeOK
    <2>2. QED BY <1>1, <2>1 DEF Deliver, RowsGrow
  <1>4. PushesKept
    BY <1>1, <1>3 DEF PushesKept
  <1>5. QED BY <1>2, <1>3, <1>4, StepKeeps

\* What a step that stores no event leaves to show.
LEMMA QuietStep ==
  ASSUME Inv, UNCHANGED <<events, inbox>>,
         MarkersOnward, AcksHandled, SharingKept, RosterTyped, Lives,
         \A x \in pushed' : x \in pushed \/ (x \in Peers \X Ids /\ x[2] \in inbox[x[1]])
  PROVE  Inv' /\ Onward
  <1>1. EventsGrow
    BY DEF Inv, TypeOK, EventsGrow, Sent
  <1>2. RowsGrow /\ PushesKept
    BY DEF Inv, TypeOK, RowsGrow, PushesKept
  <1>3. QED BY <1>1, <1>2, StepKeeps

-----------------------------------------------------------------------------
(*                               The actions                               *)

\* The parts of the state that most actions leave alone.
LEMMA Unchanged ==
  ASSUME Inv
  PROVE  /\ UNCHANGED engaged => MarkersOnward
         /\ UNCHANGED acked => AcksHandled
         /\ UNCHANGED sharing => SharingKept
         /\ UNCHANGED roster => RosterTyped
  <1>1. ASSUME NEW s \in Peers, NEW r \in Ids PROVE engaged[s][r] >= engaged[s][r]
    <2>1. engaged[s][r] \in 0..MaxEvents
      BY DEF Inv, TypeOK
    <2>2. QED BY <2>1
  <1>2. UNCHANGED engaged => MarkersOnward
    BY <1>1 DEF Inv, TypeOK, MarkersOnward
  <1>3. ASSUME UNCHANGED acked PROVE AcksHandled
    <2>1. acked' \in [Peers -> SUBSET Ids]
      BY <1>3 DEF Inv, TypeOK
    <2>2. \A s \in Peers : acked'[s] = acked[s]
      BY <1>3
    <2>3. QED BY <2>1, <2>2 DEF AcksHandled
  <1>4. ASSUME UNCHANGED sharing PROVE SharingKept
    <2>1. sharing' \in [Peers -> [at : {"idle", "copying", "indexing"},
                                  event : 0..MaxEvents, to : SUBSET Peers]]
      BY <1>4 DEF Inv, TypeOK
    <2>2. \A s \in Peers : sharing'[s] = sharing[s]
      BY <1>4
    <2>3. group = "pruned" => \A s \in Peers : sharing'[s].at = "idle"
      BY <2>2 DEF Inv, Emptied
    <2>4. QED BY <2>1, <2>2, <2>3 DEF SharingKept
  <1>5. UNCHANGED roster => RosterTyped
    BY DEF Inv, TypeOK, Emptied, RosterTyped, roster
  <1>6. QED BY <1>2, <1>3, <1>4, <1>5

\* The members of a group that is pruned are none.
LEMMA NobodyInPruned ==
  ASSUME Inv
  PROVE  /\ \A p \in Peers : p \in Active \/ sharing[p].at # "idle" => group # "pruned"
         /\ \A p \in Peers : Recipients(p) \in SUBSET Peers
  BY DEF Inv, Emptied, Active, Recipients

\* The id of the next event is above those of the events stored.
LEMMA NextId ==
  ASSUME Inv, Len(events) < MaxEvents
  PROVE  /\ Last \in Ids /\ Last \in 0..MaxEvents
         /\ \A e \in Sent : e < Last /\ e \in Ids
  <1>1. Len(events) \in Nat
    BY DEF Inv, TypeOK
  <1>2. QED BY <1>1 DEF Sent, Last, Ids

\* A step that acknowledges rows of one peer, none of which awaits him after it
\* unless it was cut short.
LEMMA AckRows ==
  ASSUME Inv, NEW p \in Peers, NEW ids,
         acked' = [acked EXCEPT ![p] = @ \cup (ids \cap inbox[p])],
         \A e \in ids \cap inbox[p] : ~ AwaitsNext(p, e) \/ <<p, e>> \in cut'
  PROVE  AcksHandled
  <1>1. acked \in [Peers -> SUBSET Ids] /\ inbox[p] \in SUBSET Ids
    BY DEF Inv, TypeOK
  <1> DEFINE rows == acked[p] \cup (ids \cap inbox[p])
             Right(s, e) == e \in acked[s] \/ (e \in inbox[s] /\ (~ AwaitsNext(s, e) \/ <<s, e>> \in cut'))
  <1>2. acked' = [acked EXCEPT ![p] = rows] /\ rows \in SUBSET Ids
    BY <1>1
  <1>3. acked[p] \subseteq rows /\ \A e \in rows : Right(p, e)
    OBVIOUS
  <1> HIDE DEF rows
  <1>4. acked' \in [Peers -> SUBSET Ids] /\ \A s \in Peers : acked'[s] = IF s = p THEN rows ELSE acked[s]
    BY <1>1, <1>2
  <1>5. ASSUME NEW s \in Peers PROVE acked[s] \subseteq acked'[s] /\ \A e \in acked'[s] : Right(s, e)
    <2>1. CASE s = p
      BY <1>3, <1>4, <2>1
    <2>2. CASE s # p
      BY <1>4, <2>2
    <2>3. QED BY <2>1, <2>2
  <1>6. QED BY <1>4, <1>5 DEF AcksHandled

\* A direct message, whether or not its recipient is notified.
LEMMA StoreDMStep ==
  ASSUME Inv, Lives, SharingKept, NEW p \in Peers, NEW q \in Peers, StoreDM(p, q),
         pushed' \subseteq pushed \cup ({q} \X {Last})
  PROVE  Inv' /\ Onward
  <1>1. /\ Insert("dm", p, q, 0) /\ Deliver({q}) /\ "dm" \in Kinds
        /\ UNCHANGED roster /\ UNCHANGED acked /\ UNCHANGED engaged
    BY DEF StoreDM, Kinds
  <1>2. {q} \in SUBSET Peers /\ 0 \in 0..MaxEvents /\ q \in Peers \cup {None}
    OBVIOUS
  <1>3. MarkersOnward /\ AcksHandled /\ RosterTyped
    BY <1>1, Unchanged
  <1>4. QED BY <1>1, <1>2, <1>3, InsertStep

LEMMA SendDMStep ==
  ASSUME Inv, Lives, NEW p \in Peers, NEW q \in Peers, SendDM(p, q)
  PROVE  Inv' /\ Onward
  <1>1. StoreDM(p, q) /\ UNCHANGED sharing /\ pushed' \subseteq pushed \cup ({q} \X {Last})
    BY DEF SendDM, Notify
  <1>2. QED BY <1>1, Unchanged, StoreDMStep

\* A message to the group: in a thread, the acknowledgements of its root and of
\* the message answered are covered by the sender's own mark.
LEMMA StorePostStep ==
  ASSUME Inv, Lives, SharingKept, NEW p \in Peers, NEW root \in 0..MaxEvents, StorePost(p, root),
         root = 0 \/ (root \in Sent /\ IsMessage(root) /\ events[root].parent = 0),
         acked' = acked \/ \E e \in Sent : /\ IsMessage(e) /\ Root(e) = root
                             /\ acked' = [acked EXCEPT ![p] = @ \cup ({root, e} \cap inbox[p])],
         pushed' \subseteq pushed \cup (Recipients(p) \X {Last})
  PROVE  Inv' /\ Onward
  <1> DEFINE thread == IF root = 0 THEN Last ELSE root
             marks == [r \in {thread} |-> Last]
  <1>1. /\ Insert("group_message", p, None, root) /\ Deliver(Recipients(p))
        /\ "group_message" \in Kinds /\ Recipients(p) \in SUBSET Peers
        /\ UNCHANGED roster
        /\ Engage(p, marks)
        /\ Len(events) < MaxEvents
        /\ group # "pruned"
    BY NobodyInPruned DEF StorePost, Kinds, Insert
  <1>2. /\ Last \in Ids /\ Last \in 0..MaxEvents /\ \A e \in Sent : e < Last /\ e \in Ids
        /\ \A e \in Sent : events'[e] = events[e]
    <2>1. None \in Peers \cup {None}
      OBVIOUS
    <2>2. QED BY <1>1, <2>1, InsertAppends, NextId DEF Inv
  <1>3. /\ MarkersOnward
        /\ \A r \in Ids \cap {thread} : engaged'[p][r] >= Last
    <2>1. \A r \in DOMAIN marks : marks[r] = Last
      OBVIOUS
    <2>2. DOMAIN marks = {thread}
      OBVIOUS
    <2> HIDE DEF marks, thread
    <2>3. QED BY <1>1, <1>2, <2>1, <2>2, EngageForward DEF Inv, MarkersOnward
  <1>4. AcksHandled
    <2>1. CASE acked' = acked
      BY <2>1, Unchanged
    <2>2. ASSUME NEW e \in Sent, IsMessage(e), Root(e) = root,
                 acked' = [acked EXCEPT ![p] = @ \cup ({root, e} \cap inbox[p])]
          PROVE  AcksHandled
      <3>1. root \in Sent /\ Root(root) = root /\ root # 0 /\ root \in Ids
        <4>1. root \in Sent /\ events[root].parent = 0
          BY <2>2, RootOfMessage DEF Inv
        <4>2. root # 0
          BY <4>1 DEF Sent
        <4>3. QED BY <1>2, <4>1, <4>2 DEF Root
      <3>2. ASSUME NEW f \in {root, e} PROVE ~ AwaitsNext(p, f)
        <4>1. Root(f)' = root /\ f \in Sent
          BY <1>2, <2>2, <3>1 DEF Root
        <4>2. engaged'[p][root] >= Last /\ f < Last
          BY <1>2, <1>3, <3>1, <4>1
        <4>3. engaged'[p][root] \in 0..MaxEvents /\ f \in Int /\ Last \in Int
          BY <1>2, <1>3, <3>1, <4>1 DEF Sent, MarkersOnward
        <4>4. QED BY <4>1, <4>2, <4>3 DEF Awaiting, AwaitsNext
      <3>3. \A f \in {root, e} \cap inbox[p] : ~ AwaitsNext(p, f)
        BY <3>2
      <3>4. QED BY <2>2, <3>3, AckRows
    <2>3. QED BY <2>1, <2>2
  <1>5. RosterTyped /\ None \in Peers \cup {None}
    BY <1>1, Unchanged
  <1>6. MarkersOnward
    BY <1>3
  <1> HIDE DEF marks, thread
  <1>7. QED BY <1>1, <1>4, <1>5, <1>6, InsertStep

LEMMA PostStep ==
  ASSUME Inv, Lives, NEW p \in Peers, NEW root \in 0..MaxEvents, NEW ms \in SUBSET Peers,
         Post(p, root, ms),
         root = 0 \/ (root \in Sent /\ IsMessage(root) /\ events[root].parent = 0),
         acked' = acked \/ \E e \in Sent : /\ IsMessage(e) /\ Root(e) = root
                             /\ acked' = [acked EXCEPT ![p] = @ \cup ({root, e} \cap inbox[p])]
  PROVE  Inv' /\ Onward
  <1>1. StorePost(p, root) /\ UNCHANGED sharing /\ pushed' \subseteq pushed \cup (Recipients(p) \X {Last})
    BY DEF Post, Notify, PushTargets
  <1>2. QED BY <1>1, Unchanged, StorePostStep

\* A step that marks a set of messages: none of them awaits the peer after it.
LEMMA MarkedIsHandled ==
  ASSUME Inv, NEW p \in Peers, NEW es \in SUBSET Sent, UNCHANGED events,
         Engage(p, MarksOf(es))
  PROVE  /\ MarkersOnward
         /\ \A e \in es : ~ AwaitsNext(p, e)
  <1> DEFINE marks == MarksOf(es)
  <1>1. /\ \A e \in es : Root(e) \in DOMAIN marks /\ marks[Root(e)] >= e
        /\ \A r \in DOMAIN marks : marks[r] \in 0..MaxEvents
    <2>1. \A e \in Sent : e \in 0..MaxEvents
      BY DEF Inv, TypeOK, Sent
    <2>2. QED BY <2>1, MarksAreLast DEF Inv
  <1>2. Engage(p, marks)
    OBVIOUS
  <1> HIDE DEF marks
  <1>3. /\ MarkersOnward
        /\ \A r \in Ids \cap DOMAIN marks : engaged'[p][r] >= marks[r]
    BY <1>1, <1>2, EngageForward DEF Inv, MarkersOnward
  <1>4. ASSUME NEW e \in es PROVE ~ AwaitsNext(p, e)
    <2>1. Root(e)' = Root(e) /\ e \in Int
      BY DEF Root, Sent
    <2>2. Root(e) \in DOMAIN marks /\ marks[Root(e)] >= e
      BY <1>1
    <2>3. Root(e) \in Ids
      <3>1. Root(e) \in Sent
        BY RootOfMessage DEF Inv
      <3>2. QED BY <3>1 DEF Inv, TypeOK, Sent, Ids
    <2>4. engaged'[p][Root(e)] >= marks[Root(e)]
      BY <1>3, <2>2, <2>3
    <2>5. engaged'[p][Root(e)] \in 0..MaxEvents /\ marks[Root(e)] \in 0..MaxEvents
      BY <1>1, <1>3, <2>2, <2>3 DEF MarkersOnward
    <2>6. ~ (e > engaged'[p][Root(e)])
      BY <2>1, <2>2, <2>4, <2>5
    <2>7. QED BY <2>1, <2>6 DEF Awaiting, AwaitsNext
  <1>5. QED BY <1>3, <1>4

\* The messages acknowledged are marked, whether or not they are in the inbox.
LEMMA AcknowledgeStep ==
  ASSUME Inv, Lives, NEW p \in Peers, NEW ids \in SUBSET Stored,
         Acknowledge(p, ids), UNCHANGED <<events, roster, inbox, sharing, pushed>>
  PROVE  Inv' /\ Onward
  <1> DEFINE es == {e \in ids : IsMessage(e)}
  <1>1. MarkersOnward /\ \A e \in es : ~ AwaitsNext(p, e)
    <2>1. es \in SUBSET Sent /\ Engage(p, MarksOf(es))
      BY DEF Acknowledge, Stored
    <2> HIDE DEF es
    <2>2. QED BY <2>1, MarkedIsHandled
  <1>2. \A e \in ids : ~ AwaitsNext(p, e)
    BY <1>1 DEF Awaiting, AwaitsNext, IsMessage
  <1>3. AcksHandled
    BY <1>2, AckRows DEF Acknowledge
  <1>4. SharingKept /\ RosterTyped
    BY Unchanged
  <1>5. QED BY <1>1, <1>3, <1>4, QuietStep

\* The inbox is acknowledged, and some of what awaits the peer is marked: the rest
\* is recorded as cut short.
LEMMA MarkSome ==
  ASSUME Inv, Lives, NEW p \in Peers, NEW es \in SUBSET Sent, Engage(p, MarksOf(es)),
         NEW ids, acked' = [acked EXCEPT ![p] = @ \cup (ids \cap inbox[p])],
         UNCHANGED <<events, inbox>>,
         \A e \in ids \cap inbox[p] : Awaiting(p, e) => e \in es \/ <<p, e>> \in cut'
  PROVE  MarkersOnward /\ AcksHandled
  <1>1. MarkersOnward /\ \A e \in es : ~ AwaitsNext(p, e)
    BY MarkedIsHandled
  <1>2. Onward
    BY <1>1 DEF Onward, Lives, Inv, TypeOK
  <1>3. ASSUME NEW e \in ids \cap inbox[p] PROVE ~ AwaitsNext(p, e) \/ <<p, e>> \in cut'
    <2>1. e \in Sent
      BY DEF Inv, Contained, Stored
    <2>2. CASE ~ Awaiting(p, e)
      BY <1>2, <2>1, <2>2, OldEventsKept DEF Inv
    <2>3. QED BY <1>1, <1>3, <2>2
  <1>4. QED BY <1>1, <1>3, AckRows

\* The whole inbox is acknowledged, and whatever awaits the peer is marked.
LEMMA AckAllStep ==
  ASSUME Inv, Lives, NEW p \in Peers, AckAll(p)
  PROVE  Inv' /\ Onward
  <1> DEFINE es == {e \in Stored : Awaiting(p, e)}
  <1>1. UNCHANGED <<events, inbox>> /\ UNCHANGED roster /\ UNCHANGED sharing /\ UNCHANGED pushed
    BY DEF AckAll
  <1>2. /\ es \in SUBSET Sent /\ Engage(p, MarksOf(es))
        /\ \A e \in inbox[p] : Awaiting(p, e) => e \in es
    BY DEF AckAll, Stored, Inv, Contained
  <1>3. acked' = [acked EXCEPT ![p] = @ \cup (inbox[p] \cap inbox[p])]
    <2>1. acked[p] \cup (inbox[p] \cap inbox[p]) = inbox[p]
      BY DEF Inv, Contained
    <2>2. QED BY <2>1 DEF AckAll
  <1> HIDE DEF es
  <1>4. MarkersOnward /\ AcksHandled
    BY <1>1, <1>2, <1>3, MarkSome
  <1>5. SharingKept /\ RosterTyped
    BY <1>1, Unchanged
  <1>6. QED BY <1>1, <1>4, <1>5, QuietStep

\* A change of the roster, announced to the members of before.
LEMMA RosterEventStep ==
  ASSUME Inv, Lives, NEW p \in Peers, RosterEvent(p), RosterTyped, group # "pruned"
  PROVE  Inv' /\ Onward
  <1>1. /\ Insert("roster", p, None, 0) /\ Deliver(Recipients(p)) /\ "roster" \in Kinds
        /\ UNCHANGED acked /\ UNCHANGED engaged /\ UNCHANGED sharing
        /\ pushed' \subseteq pushed \cup (Recipients(p) \X {Last})
    BY DEF RosterEvent, Kinds
  <1>2. Recipients(p) \in SUBSET Peers /\ 0 \in 0..MaxEvents /\ None \in Peers \cup {None}
    BY DEF Recipients, Active
  <1>3. MarkersOnward /\ AcksHandled /\ SharingKept
    BY <1>1, Unchanged
  <1>4. QED BY <1>1, <1>2, <1>3, InsertStep

LEMMA TwoAppended ==
  ASSUME NEW S, NEW q \in Seq(S), NEW n \in S, NEW r, r = Append(Append(q, n), n)
  PROVE  /\ r \in Seq(S) /\ Len(r) = Len(q) + 2
         /\ \A e \in 1..Len(q) : r[e] = q[e]
         /\ r[Len(q) + 1] = n /\ r[Len(q) + 2] = n
  <1>1. /\ Append(q, n) \in Seq(S) /\ Len(Append(q, n)) = Len(q) + 1 /\ Len(q) \in Nat
        /\ Append(q, n)[Len(q) + 1] = n
        /\ \A e \in 1..Len(q) : Append(q, n)[e] = q[e]
    OBVIOUS
  <1>2. PICK t \in Seq(S) : t = Append(q, n)
    BY <1>1
  <1>3. /\ r \in Seq(S) /\ Len(r) = Len(t) + 1 /\ r[Len(t) + 1] = n
        /\ \A e \in 1..Len(t) : r[e] = t[e]
    BY <1>2
  <1>4. QED BY <1>1, <1>2, <1>3

\* A join that takes over an alias stores two events, which the members get both.
LEMMA ReclaimStep ==
  ASSUME Inv, Lives, NEW p \in Peers, NEW fresh \in BOOLEAN, Reclaim(p, fresh)
  PROVE  Inv' /\ Onward
  <1> DEFINE notice == [type |-> "roster", sender |-> p, to |-> None, parent |-> 0]
  <1>1. /\ events' = Append(Append(events, notice), notice) /\ Len(events) + 1 < MaxEvents
        /\ events \in Seq(Event) /\ Len(events) \in Nat
    BY DEF Reclaim, Inv, TypeOK
  <1>2. notice \in Event /\ notice.type = "roster" /\ notice.parent = 0
    BY DEF Event, Kinds
  <1> HIDE DEF notice
  <1>4. /\ events' \in Seq(Event) /\ Len(events') = Len(events) + 2
        /\ \A e \in 1..Len(events) : events'[e] = events[e]
        /\ events'[Len(events) + 1] = notice /\ events'[Len(events) + 2] = notice
    BY <1>1, <1>2, TwoAppended
  <1>5. Sent' \ Sent = {Last, Last + 1} /\ Sent' \ Sent \subseteq Ids /\ Last + 1 <= MaxEvents
    BY <1>1, <1>4 DEF Sent, Last, Ids
  <1>6. EventsGrow
    <2>1. \A e \in Sent' \ Sent : events'[e] = notice
      BY <1>4, <1>5, <1>1 DEF Last
    <2>2. Len(events') >= Len(events) /\ Len(events') <= MaxEvents
      BY <1>1, <1>4
    <2>3. \A e \in Sent : events'[e] = events[e]
      BY <1>4 DEF Sent
    <2>4. group # "pruned"
      BY DEF Reclaim
    <2>5. QED BY <1>2, <1>4, <2>1, <2>2, <2>3, <2>4 DEF EventsGrow
  <1>7. RowsGrow
    <2>1. inbox \in [Peers -> SUBSET Ids]
      BY DEF Inv, TypeOK
    <2>2. inbox' = [q \in Peers |-> IF q \in Recipients(p) THEN inbox[q] \cup {Last, Last + 1} ELSE inbox[q]]
      BY DEF Reclaim
    <2>3. QED BY <1>5, <2>1, <2>2 DEF RowsGrow
  <1>8. RosterTyped
    <2>1. (IF fresh THEN Last + 1 ELSE 1) \in 0..MaxEvents
      BY <1>1, <1>5 DEF Last
    <2>2. QED BY <2>1 DEF Reclaim, RosterTyped, Inv, TypeOK
  <1>9. MarkersOnward /\ AcksHandled /\ SharingKept
    BY Unchanged DEF Reclaim
  <1>10. PushesKept
    BY DEF Reclaim, PushesKept
  <1>11. QED BY <1>6, <1>7, <1>8, <1>9, <1>10, StepKeeps

LEMMA SeatStep ==
  ASSUME Inv, Lives, NEW p \in Peers, Seat(p)
  PROVE  Inv' /\ Onward
  <1>1. /\ member \in [Peers -> {"none", "active", "archived", "left"}]
        /\ from \in [Peers -> 0..MaxEvents] /\ archived \subseteq Peers
    BY DEF Inv, TypeOK
  <1>2. ASSUME NEW fresh \in BOOLEAN, Join(p, fresh) PROVE Inv' /\ Onward
    <2>1. RosterEvent(p) /\ UNCHANGED archived /\ Len(events) < MaxEvents
      BY <1>2 DEF Join, RosterEvent, Insert
    <2>2. (IF fresh THEN Last ELSE 1) \in 0..MaxEvents
      BY <2>1, NextId
    <2>3. RosterTyped /\ group # "pruned"
      BY <1>1, <1>2, <2>1, <2>2 DEF Join, RosterTyped
    <2>4. QED BY <2>1, <2>3, RosterEventStep
  <1>3. ASSUME Leave(p) \/ Rename(p) PROVE Inv' /\ Onward
    <2>1. RosterEvent(p) /\ UNCHANGED archived
      BY <1>3 DEF Leave, Rename, RosterEvent
    <2>2. group # "pruned"
      BY <1>3, NobodyInPruned DEF Leave, Rename, Active
    <2>3. RosterTyped
      BY <1>1, <1>3, <2>1, <2>2 DEF Leave, Rename, RosterTyped
    <2>4. QED BY <2>1, <2>2, <2>3, RosterEventStep
  <1>4. ASSUME Archive(p) \/ Revive(p) PROVE Inv' /\ Onward
    <2>1. /\ UNCHANGED events /\ UNCHANGED inbox /\ UNCHANGED acked /\ UNCHANGED engaged
          /\ UNCHANGED sharing /\ UNCHANGED pushed /\ UNCHANGED from
          /\ archived' \subseteq Peers
      BY <1>1, <1>4 DEF Archive, Revive
    <2>2. RosterTyped
      <3>1. member' \in [Peers -> {"none", "active", "archived", "left"}]
        BY <1>1, <1>4 DEF Archive, Revive
      <3>2. group = "pruned" => \A q \in Peers : member'[q] = "none"
        BY <1>1, <1>4 DEF Archive, Revive, Inv, Emptied
      <3>3. QED BY <1>1, <2>1, <3>1, <3>2 DEF RosterTyped
    <2>3. MarkersOnward /\ AcksHandled /\ SharingKept
      BY <2>1, Unchanged
    <2>4. QED BY <2>1, <2>2, <2>3, QuietStep
  <1>5. QED BY <1>2, <1>3, <1>4, ReclaimStep DEF Seat

\* The event is stored and delivered after the copy, and pushed to the same
\* recipients after the index files, whatever the roster has become.
LEMMA ShareStep ==
  ASSUME Inv, Lives, NEW p \in Peers, Share(p)
  PROVE  Inv' /\ Onward
  <1> DEFINE Sharing == [at : {"idle", "copying", "indexing"}, event : 0..MaxEvents, to : SUBSET Peers]
  <1>1. sharing \in [Peers -> Sharing] /\ Idle \in Sharing
    BY DEF Inv, TypeOK, Idle
  <1>2. CASE ShareStore(p)
    <2> DEFINE new == [at |-> "indexing", event |-> Last, to |-> Recipients(p)]
    <2>1. /\ Insert("media_shared", p, None, 0) /\ Deliver(Recipients(p)) /\ "media_shared" \in Kinds
          /\ UNCHANGED acked /\ UNCHANGED engaged /\ UNCHANGED roster
          /\ pushed' \subseteq pushed \cup (Recipients(p) \X {Last})
          /\ sharing' = [sharing EXCEPT ![p] = new] /\ Len(events) < MaxEvents
          /\ group # "pruned"
      BY <1>2, NobodyInPruned DEF ShareStore, Kinds, Insert
    <2>2. Recipients(p) \in SUBSET Peers /\ 0 \in 0..MaxEvents /\ None \in Peers \cup {None}
      BY DEF Recipients, Active
    <2>3. new \in Sharing /\ new.event = Last /\ new.to = Recipients(p)
      BY <2>1, <2>2, NextId
    <2>4. SharingKept
      <3> HIDE DEF new
      <3>0. \A q \in Recipients(p) : Last \in inbox'[q]
        BY <2>1, <2>2 DEF Deliver
      <3>1. sharing' = [sharing EXCEPT ![p] = new] /\ new \in Sharing
        BY <2>1, <2>3
      <3>2. sharing' \in [Peers -> Sharing] /\ \A q \in Peers : sharing'[q] = IF q = p THEN new ELSE sharing[q]
        BY <1>1, <3>1
      <3>3. QED BY <2>1, <2>3, <3>0, <3>2 DEF SharingKept
    <2>5. MarkersOnward /\ AcksHandled /\ RosterTyped
      BY <2>1, Unchanged
    <2>6. QED BY <2>1, <2>2, <2>4, <2>5, InsertStep
  <1>3. CASE ShareBegin(p) \/ ShareNotify(p) \/ ShareFails(p)
    <2>1. /\ UNCHANGED events /\ UNCHANGED inbox /\ UNCHANGED acked /\ UNCHANGED engaged
          /\ UNCHANGED roster
      BY <1>3 DEF ShareBegin, ShareNotify, ShareFails
    <2>2. PICK new \in Sharing : /\ new.at # "indexing" /\ sharing' = [sharing EXCEPT ![p] = new]
                                 /\ group = "pruned" => new.at = "idle"
      <3>1. CASE ShareBegin(p)
        <4>1. [sharing[p] EXCEPT !.at = "copying"] \in Sharing
              /\ [sharing[p] EXCEPT !.at = "copying"].at = "copying"
          BY <1>1
        <4>2. group # "pruned"
          BY <3>1, NobodyInPruned DEF ShareBegin
        <4>3. QED BY <1>1, <3>1, <4>1, <4>2 DEF ShareBegin
      <3>2. CASE ShareNotify(p) \/ ShareFails(p)
        <4>1. sharing' = [sharing EXCEPT ![p] = Idle] /\ Idle.at = "idle"
          BY <3>2 DEF ShareNotify, ShareFails, Idle
        <4>2. QED BY <1>1, <4>1
      <3>3. QED BY <1>3, <3>1, <3>2
    <2>3. /\ sharing' \in [Peers -> Sharing]
          /\ \A q \in Peers : sharing'[q].at = "indexing" => sharing'[q] = sharing[q]
          /\ group = "pruned" => \A q \in Peers : sharing'[q].at = "idle"
      <3> HIDE DEF Sharing
      <3>1. sharing' = [sharing EXCEPT ![p] = new] /\ new \in Sharing /\ sharing \in [Peers -> Sharing]
        BY <1>1, <2>2
      <3>2. sharing' \in [Peers -> Sharing]
        BY <3>1
      <3>3. \A q \in Peers : sharing'[q] = IF q = p THEN new ELSE sharing[q]
        BY <3>1
      <3>4. new.at # "indexing" /\ (group = "pruned" => new.at = "idle")
        BY <2>2
      <3>5. group = "pruned" => \A q \in Peers : sharing[q].at = "idle"
        BY DEF Inv, Emptied
      <3>6. QED BY <3>2, <3>3, <3>4, <3>5
    <2>4. SharingKept
      BY <2>3 DEF SharingKept
    <2>5. MarkersOnward /\ AcksHandled /\ RosterTyped
      BY <2>1, Unchanged
    <2>6. \A x \in pushed' : x \in pushed \/ (x \in Peers \X Ids /\ x[2] \in inbox[x[1]])
      <3>1. CASE ShareNotify(p)
        <4>1. sharing[p].at = "indexing" /\ pushed' = pushed \cup ((sharing[p].to \ archived) \X {sharing[p].event})
          BY <3>1 DEF ShareNotify, Notify
        <4>2. sharing[p].to \in SUBSET Peers /\ \A q \in sharing[p].to : sharing[p].event \in inbox[q]
          BY <1>1, <4>1 DEF Inv, SharedWasAddressed
        <4>3. \A q \in Peers : inbox[q] \subseteq Ids
          BY DEF Inv, TypeOK
        <4>4. QED BY <4>1, <4>2, <4>3
      <3>2. CASE ShareBegin(p) \/ ShareFails(p)
        BY <3>2 DEF ShareBegin, ShareFails
      <3>3. QED BY <1>3, <3>1, <3>2
    <2>7. QED BY <2>1, <2>3, <2>4, <2>5, <2>6, QuietStep
  <1>4. QED BY <1>2, <1>3 DEF Share

\* A message to a thread is posted below the root of what it answers.
LEMMA MessageStep ==
  ASSUME Inv, Lives, NEW p \in Peers, Message(p)
  PROVE  Inv' /\ Onward
  <1>1. ASSUME NEW q \in Peers, SendDM(p, q) PROVE Inv' /\ Onward
    BY <1>1, SendDMStep
  <1>2. ASSUME NEW ms \in SUBSET Peers, SendGroup(p, ms) PROVE Inv' /\ Onward
    <2>1. 0 \in 0..MaxEvents
      OBVIOUS
    <2>2. QED BY <1>2, <2>1, PostStep DEF SendGroup
  <1>3. ASSUME NEW ms \in SUBSET Peers, NEW e \in Stored, SendInThread(p, e, ms) \/ Reply(p, e, ms)
        PROVE  Inv' /\ Onward
    <2>1. /\ IsMessage(e) /\ Post(p, Root(e), ms)
          /\ \/ acked' = acked
             \/ acked' = [acked EXCEPT ![p] = @ \cup ({Root(e), e} \cap inbox[p])]
      BY <1>3 DEF SendInThread, Reply
    <2>2. Root(e) \in Sent /\ IsMessage(Root(e)) /\ events[Root(e)].parent = 0 /\ e \in Sent
      BY <2>1, RootOfMessage DEF Inv, Stored
    <2>3. Root(e) \in 0..MaxEvents
      BY <2>2 DEF Sent, Inv, TypeOK
    <2>4. QED BY <2>1, <2>2, <2>3, PostStep
  <1>4. ASSUME NEW e \in Stored, ReplyDM(p, e) PROVE Inv' /\ Onward
    <2> DEFINE q == IF events[e].sender = p THEN events[e].to ELSE events[e].sender
    <2>1. SendDM(p, q)
      BY <1>4 DEF ReplyDM
    <2>2. q \in Peers
      <3>1. events[e] \in Event /\ events[e].type = "dm"
        BY <1>4 DEF ReplyDM, Inv, TypeOK, Sent, Stored
      <3>2. QED BY <3>1 DEF Inv, Directed, Event, Stored
    <2> HIDE DEF q
    <2>3. QED BY <2>1, <2>2, SendDMStep
  <1>5. ASSUME NEW e \in Stored, React(p, e) PROVE Inv' /\ Onward
    BY <1>5, AcknowledgeStep DEF React
  <1>6. QED BY <1>1, <1>2, <1>3, <1>4, <1>5 DEF Message

LEMMA InboxStep ==
  ASSUME Inv, Lives, NEW p \in Peers, Inbox(p)
  PROVE  Inv' /\ Onward
  BY AcknowledgeStep, AckAllStep DEF Inbox, AckEvents

LEMMA HandlerStep ==
  ASSUME Inv, NEW p \in Peers, Handler(p)
  PROVE  Inv' /\ Onward
  <1>1. up /\ group' = group /\ up' = up /\ crashes' = crashes /\ cut' = cut
    BY DEF Handler, life
  <1>2. Lives
    BY <1>1 DEF Lives, Inv, TypeOK
  <1>3. QED BY <1>2, MessageStep, InboxStep, SeatStep, ShareStep DEF Handler

\* Whatever a handler had committed when the daemon died.
LEMMA DeathStep ==
  ASSUME Inv, Die \/ \E p \in Peers : Cut(p)
  PROVE  Inv' /\ Onward
  <1>1. ASSUME Dies PROVE SharingKept
    <2>1. Idle \in [at : {"idle", "copying", "indexing"}, event : 0..MaxEvents, to : SUBSET Peers]
          /\ Idle.at = "idle"
      BY DEF Idle
    <2>2. sharing' = [p \in Peers |-> Idle]
      BY <1>1 DEF Dies
    <2>3. QED BY <2>1, <2>2 DEF SharingKept
  <1>2. ASSUME Dies, cut \subseteq cut', cut' \subseteq Peers \X Ids PROVE Lives
    <2>1. crashes \in 0..MaxCrashes /\ MaxCrashes \in Nat
      BY MessagesAssumption DEF Inv, TypeOK
    <2>2. up' = FALSE /\ crashes' = crashes + 1 /\ crashes < MaxCrashes /\ group' = group
      BY <1>2 DEF Dies
    <2>3. crashes' \in 0..MaxCrashes
      BY <2>1, <2>2
    <2>4. \A p \in Peers : sharing'[p].at = "idle"
      BY <1>2 DEF Dies, Idle
    <2>5. QED BY <1>2, <2>2, <2>3, <2>4 DEF Lives
  <1>3. ASSUME Die PROVE Inv' /\ Onward
    <2>1. /\ Dies /\ UNCHANGED <<events, inbox>> /\ UNCHANGED roster /\ UNCHANGED acked
          /\ UNCHANGED engaged /\ UNCHANGED pushed /\ UNCHANGED cut
      BY <1>3 DEF Die, Dies
    <2>2. Lives /\ SharingKept
      BY <1>1, <1>2, <2>1 DEF Inv, TypeOK
    <2>3. MarkersOnward /\ AcksHandled /\ RosterTyped
      BY <2>1, Unchanged
    <2>4. QED BY <2>1, <2>2, <2>3, QuietStep
  <1>4. ASSUME NEW p \in Peers, CutMessage(p) PROVE Inv' /\ Onward
    <2>1. Dies /\ UNCHANGED cut /\ UNCHANGED pushed
      BY <1>4 DEF CutMessage, Dies
    <2>2. Lives /\ SharingKept
      BY <1>1, <1>2, <2>1 DEF Inv, TypeOK
    <2>3. ASSUME NEW q \in Peers, StoreDM(p, q) PROVE Inv' /\ Onward
      BY <2>1, <2>2, <2>3, StoreDMStep
    <2>4. ASSUME StorePost(p, 0), acked' = acked PROVE Inv' /\ Onward
      <3>1. 0 \in 0..MaxEvents
        OBVIOUS
      <3>2. QED BY <2>1, <2>2, <2>4, <3>1, StorePostStep
    <2>5. ASSUME NEW e \in Stored, IsMessage(e), StorePost(p, Root(e)), acked' = acked
          PROVE  Inv' /\ Onward
      <3>1. Root(e) \in Sent /\ IsMessage(Root(e)) /\ events[Root(e)].parent = 0
        BY <2>5, RootOfMessage DEF Inv, Stored
      <3>2. Root(e) \in 0..MaxEvents
        BY <3>1 DEF Sent, Inv, TypeOK
      <3>3. QED BY <2>1, <2>2, <2>5, <3>1, <3>2, StorePostStep
    <2>6. QED BY <1>4, <2>3, <2>4, <2>5 DEF CutMessage
  <1>5. ASSUME NEW p \in Peers, NEW es \in SUBSET Sent, NEW ids, NEW rest \in SUBSET inbox[p],
               Dies, Engage(p, MarksOf(es)), cut' = cut \cup ({p} \X rest),
               acked' = [acked EXCEPT ![p] = @ \cup (ids \cap inbox[p])],
               UNCHANGED <<events, roster, inbox>>,
               \A e \in ids \cap inbox[p] : Awaiting(p, e) => e \in es \/ e \in rest
        PROVE  Inv' /\ Onward
    <2>1. cut \subseteq cut' /\ cut' \subseteq Peers \X Ids
      BY <1>5 DEF Inv, TypeOK
    <2>2. Lives /\ SharingKept
      BY <1>1, <1>2, <1>5, <2>1
    <2>3. \A e \in ids \cap inbox[p] : Awaiting(p, e) => e \in es \/ <<p, e>> \in cut'
      BY <1>5
    <2>4. MarkersOnward /\ AcksHandled
      <3>1. UNCHANGED <<events, inbox>> /\ Engage(p, MarksOf(es))
        BY <1>5
      <3>2. acked' = [acked EXCEPT ![p] = @ \cup (ids \cap inbox[p])]
        BY <1>5
      <3>3. QED BY <2>2, <2>3, <3>1, <3>2, MarkSome
    <2>5. RosterTyped /\ UNCHANGED pushed
      BY <1>5, Unchanged DEF Dies
    <2>6. QED BY <1>5, <2>2, <2>4, <2>5, QuietStep
  <1>6. ASSUME NEW p \in Peers, NEW ids \in SUBSET Stored, NEW done \in SUBSET ids, CutAck(p, ids, done)
        PROVE  Inv' /\ Onward
    <2> DEFINE es == {e \in done : IsMessage(e)}
               rest == {e \in inbox[p] : Awaiting(p, e) /\ e \in ids \ done}
    <2>1. /\ es \in SUBSET Sent /\ rest \in SUBSET inbox[p]
          /\ \A e \in ids \cap inbox[p] : Awaiting(p, e) => e \in es \/ e \in rest
      BY DEF Stored, Awaiting
    <2>2. /\ Dies /\ Engage(p, MarksOf(es)) /\ cut' = cut \cup ({p} \X rest)
          /\ acked' = [acked EXCEPT ![p] = @ \cup (ids \cap inbox[p])]
          /\ UNCHANGED <<events, roster, inbox>>
      BY <1>6 DEF CutAck
    <2> HIDE DEF es, rest
    <2>3. QED BY <1>5, <2>1, <2>2
  <1>7. ASSUME NEW p \in Peers, NEW roots \in SUBSET Stored, CutAckAll(p, roots)
        PROVE  Inv' /\ Onward
    <2> DEFINE es == {e \in Stored : Awaiting(p, e) /\ Root(e) \in roots}
               rest == {e \in inbox[p] : Awaiting(p, e) /\ Root(e) \notin roots}
    <2>1. /\ es \in SUBSET Sent /\ rest \in SUBSET inbox[p]
          /\ \A e \in inbox[p] \cap inbox[p] : Awaiting(p, e) => e \in es \/ e \in rest
      BY DEF Stored, Inv, Contained
    <2>2. acked[p] \cup (inbox[p] \cap inbox[p]) = inbox[p]
      BY DEF Inv, Contained
    <2>3. /\ Dies /\ Engage(p, MarksOf(es)) /\ cut' = cut \cup ({p} \X rest)
          /\ acked' = [acked EXCEPT ![p] = @ \cup (inbox[p] \cap inbox[p])]
          /\ UNCHANGED <<events, roster, inbox>>
      BY <1>7, <2>2 DEF CutAckAll
    <2> HIDE DEF es, rest
    <2>4. QED BY <1>5, <2>1, <2>3
  <1>8. QED BY <1>3, <1>4, <1>6, <1>7 DEF Cut

\* What the prune takes away it takes from every table.
LEMMA PruneStep ==
  ASSUME Inv, ~ up, up' = TRUE, Prune, UNCHANGED <<events, archived, sharing, pushed, crashes, cut>>
  PROVE  Inv'
  <1> DEFINE gone == {e \in Stored : events[e].type # "dm"}
  <1>1. /\ group' = "pruned" /\ member' = [p \in Peers |-> "none"] /\ from' = [p \in Peers |-> 0]
        /\ inbox' = [p \in Peers |-> inbox[p] \ gone] /\ acked' = [p \in Peers |-> acked[p] \ gone]
        /\ engaged' = [p \in Peers |-> [r \in Ids |-> 0]]
    BY DEF Prune
  <1>2. Sent' = Sent /\ Stored' = {e \in Sent : events[e].type = "dm"} /\ Stored' \subseteq Stored
        /\ Stored \ gone = Stored' \cap Stored
    BY <1>1 DEF Sent, Stored
  <1> HIDE DEF gone
  <1>3. inbox' \in [Peers -> SUBSET Ids] /\ acked' \in [Peers -> SUBSET Ids]
    BY <1>1 DEF Inv, TypeOK
  <1>4. TypeOK'
    <2>1. engaged' \in [Peers -> [Ids -> 0..MaxEvents]] /\ from' \in [Peers -> 0..MaxEvents]
          /\ member' \in [Peers -> {"none", "active", "archived", "left"}]
      BY <1>1
    <2>2. QED BY <1>1, <1>3, <2>1 DEF Inv, TypeOK
  <1>5. Contained'
    BY <1>1, <1>2 DEF Inv, Contained
  <1>6. ThreadsAreFlat' /\ Directed'
    BY <1>2 DEF Inv, ThreadsAreFlat, Directed, IsMessage
  <1>7. SharedWasAddressed' /\ Emptied'
    BY <1>1 DEF Inv, SharedWasAddressed, Emptied
  <1>8. PushedWasAddressed'
    <2>1. ASSUME NEW x \in pushed, x[2] \in Stored' PROVE x[2] \in inbox'[x[1]]
      <3>1. x[1] \in Peers /\ x[2] \in Stored
        BY <1>2, <2>1 DEF Inv, TypeOK
      <3>2. x[2] \in inbox[x[1]] /\ x[2] \notin gone
        BY <1>2, <2>1, <3>1 DEF Inv, PushedWasAddressed
      <3>3. QED BY <1>1, <3>1, <3>2
    <2>2. QED BY <2>1 DEF PushedWasAddressed
  <1>9. AckedIsNotAwaited'
    <2>1. ASSUME NEW p \in Peers, NEW e \in acked'[p] PROVE ~ AwaitsNext(p, e)
      <3>1. e \in Stored'
        BY <1>5 DEF Contained
      <3>2. ~ IsMessage(e)'
        BY <1>2, <3>1 DEF IsMessage
      <3>3. QED BY <3>2 DEF AwaitsNext, Awaiting
    <2>2. QED BY <2>1 DEF AckedIsNotAwaited, AwaitsNext
  <1>10. QED BY <1>4, <1>5, <1>6, <1>7, <1>8, <1>9 DEF Inv

LEMMA StartStep ==
  ASSUME Inv, Start
  PROVE  /\ Inv'
         /\ Onward \/ (Prune /\ UNCHANGED events)
  <1>1. CASE group = "ephemeral"
    BY <1>1, PruneStep DEF Start
  <1>2. CASE group # "ephemeral"
    <2>1. /\ UNCHANGED <<events, inbox>> /\ UNCHANGED acked /\ UNCHANGED engaged
          /\ UNCHANGED sharing /\ UNCHANGED pushed /\ UNCHANGED roster
          /\ UNCHANGED group /\ up' = TRUE /\ UNCHANGED crashes /\ UNCHANGED cut
      BY <1>2 DEF Start, roster
    <2>2. Lives
      BY <2>1 DEF Lives, Inv, TypeOK
    <2>3. MarkersOnward /\ AcksHandled /\ SharingKept /\ RosterTyped
      BY <2>1, Unchanged
    <2>4. QED BY <2>1, <2>2, <2>3, QuietStep
  <1>3. QED BY <1>1, <1>2

LEMMA Step ==
  ASSUME Inv, [Next]_vars
  PROVE  /\ Inv'
         /\ Onward \/ (Prune /\ UNCHANGED events)
  <1>1. CASE Next
    BY <1>1, HandlerStep, DeathStep, StartStep DEF Next
  <1>2. CASE UNCHANGED vars
    <2>1. /\ UNCHANGED <<events, inbox>> /\ UNCHANGED acked /\ UNCHANGED engaged
          /\ UNCHANGED sharing /\ UNCHANGED pushed /\ UNCHANGED roster
          /\ UNCHANGED group /\ UNCHANGED up /\ UNCHANGED crashes /\ UNCHANGED cut
      BY <1>2 DEF vars, roster
    <2>2. Lives
      BY <2>1 DEF Lives, Inv, TypeOK, Emptied
    <2>3. MarkersOnward /\ AcksHandled /\ SharingKept /\ RosterTyped
      BY <2>1, Unchanged
    <2>4. QED BY <2>1, <2>2, <2>3, QuietStep
  <1>3. QED BY <1>1, <1>2

LEMMA InitInv == Init => Inv
  <1> SUFFICES ASSUME Init PROVE Inv
    OBVIOUS
  <1>1. Sent = {} /\ Stored = {} /\ events \in Seq(Event) /\ Len(events) = 0
    BY DEF Init, Sent, Stored
  <1>2. TypeOK
    <2>1. [r \in Ids |-> 0] \in [Ids -> 0..MaxEvents]
      OBVIOUS
    <2>2. group \in {"durable", "ephemeral", "pruned"} /\ group # "pruned"
      BY DEF Init
    <2>3. QED BY <1>1, <2>1, <2>2 DEF Init, TypeOK, Idle
  <1>3. group # "pruned"
    BY DEF Init
  <1>4. QED BY <1>1, <1>2, <1>3
        DEF Init, Inv, Contained, ThreadsAreFlat, Directed, SharedWasAddressed, Emptied,
            PushedWasAddressed, AckedIsNotAwaited, Idle

LEMMA Invariance == Spec => []Inv
  <1>1. Init => Inv
    BY InitInv
  <1>2. Inv /\ [Next]_vars => Inv'
    BY Step
  <1>3. QED BY <1>1, <1>2, PTL DEF Spec

-----------------------------------------------------------------------------
(*                                Theorems                                 *)

\* Every table keeps its type: no handler writes a row that refers to an event
\* or a peer that does not exist.
THEOREM TypeCorrect == Spec => []TypeOK
  <1>1. Inv => TypeOK
    BY DEF Inv
  <1>2. QED BY <1>1, Invariance, PTL

\* Threads have one level, although POST /reply accepts any message the caller
\* can see.
THEOREM FlatThreads == Spec => []ThreadsAreFlat
  <1>1. Inv => ThreadsAreFlat
    BY DEF Inv
  <1>2. QED BY <1>1, Invariance, PTL

\* Nobody is pushed an event that is not in his inbox, whatever becomes of the
\* roster while a shared file is copied and indexed, and of the daemon.
THEOREM PushedIsAddressed == Spec => []PushedWasAddressed
  <1>1. Inv => PushedWasAddressed
    BY DEF Inv
  <1>2. QED BY <1>1, Invariance, PTL

\* A message that its recipient acknowledged does not await him, unless the daemon
\* died in the handler that wrote the acknowledgement.
THEOREM AckedIsHandled == Spec => []AckedIsNotAwaited
  <1>1. Inv => AckedIsNotAwaited
    BY DEF Inv
  <1>2. QED BY <1>1, Invariance, PTL

\* What does not await a peer any more never awaits it again: no interaction
\* with an older message moves a thread's marker back.
THEOREM HandledForGood == Spec => HandledStaysHandled
  <1> DEFINE Kept == \A e \in Stored \cap Stored' : \A p \in Peers :
                       Awaiting(p, e)' => Awaiting(p, e)
  <1>1. Inv /\ [Next]_vars => Kept
    <2> SUFFICES ASSUME Inv, [Next]_vars, NEW p \in Peers, NEW e \in Stored \cap Stored',
                        ~ Awaiting(p, e)
                 PROVE  ~ AwaitsNext(p, e)
      BY DEF AwaitsNext
    <2>1. CASE Onward
      BY <2>1, OldEventsKept DEF Inv, Stored
    <2>2. CASE Prune /\ UNCHANGED events
      <3>1. group' = "pruned"
        BY <2>2 DEF Prune
      <3>2. events'[e].type = "dm"
        BY <3>1 DEF Stored
      <3>3. QED BY <3>2 DEF AwaitsNext, Awaiting, IsMessage
    <2>3. QED BY <2>1, <2>2, Step
  <1>2. Inv /\ [Next]_vars => [Kept]_vars
    BY <1>1
  <1>3. QED BY <1>2, Invariance, PTL DEF Spec, HandledStaysHandled

-----------------------------------------------------------------------------
(***************************************************************************)
(* The mailbox: the handlers, the deaths and the starts implement Mailbox  *)
(***************************************************************************)
Sends == \/ UNCHANGED <<Len(events), inbox>>
         \/ \E n \in {1, 2} : \E to \in [1..n -> SUBSET Peers] : Mail!Send(n, to)
Acks  == UNCHANGED acked \/ \E p \in Peers : \E es \in SUBSET inbox[p] : Mail!Acknowledge(p, es)

LEMMA Served == Sends /\ Acks => Mail!Next
  BY DEF Sends, Acks, Mail!Next

\* An event that is inserted and delivered is one that is sent.
LEMMA InsertSends ==
  ASSUME Inv, NEW type \in Kinds, NEW p \in Peers, NEW q \in Peers \cup {None},
         NEW parent \in 0..MaxEvents, Insert(type, p, q, parent),
         NEW ps \in SUBSET Peers, Deliver(ps)
  PROVE  Sends
  <1> DEFINE to == [i \in 1..1 |-> ps]
  <1>1. Len(events') = Len(events) + 1
    BY InsertAppends DEF Inv, Last
  <1>2. to \in [1..1 -> SUBSET Peers] /\ 1..1 = {1} /\ to[1] = ps
    OBVIOUS
  <1> HIDE DEF to
  <1>3. \A r \in Peers : {Len(events) + i : i \in {j \in 1..1 : r \in to[j]}}
                            = IF r \in ps THEN {Last} ELSE {}
    BY <1>2 DEF Last
  <1>4. inbox' = [r \in Peers |-> inbox[r] \cup {Len(events) + i : i \in {j \in 1..1 : r \in to[j]}}]
    BY <1>3 DEF Deliver
  <1>5. Mail!Send(1, to)
    BY <1>1, <1>4 DEF Mail!Send
  <1>6. QED BY <1>2, <1>5 DEF Sends

\* Rows of the inbox are acknowledged.
LEMMA RowsAcked ==
  ASSUME NEW p \in Peers, NEW ids, acked' = [acked EXCEPT ![p] = @ \cup (ids \cap inbox[p])]
  PROVE  Acks
  <1> DEFINE es == ids \cap inbox[p]
  <1>1. es \in SUBSET inbox[p] /\ acked' = [acked EXCEPT ![p] = @ \cup es]
    OBVIOUS
  <1> HIDE DEF es
  <1>2. QED BY <1>1 DEF Acks, Mail!Acknowledge

LEMMA MessageServes ==
  ASSUME Inv, NEW p \in Peers, Message(p)
  PROVE  Mail!Next
  <1>1. 0 \in 0..MaxEvents /\ None \in Peers \cup {None} /\ "dm" \in Kinds /\ "group_message" \in Kinds
        /\ Recipients(p) \in SUBSET Peers
    BY DEF Kinds, Recipients, Active
  <1>2. ASSUME NEW q, q \in Peers, SendDM(p, q) PROVE Mail!Next
    <2>1. /\ Insert("dm", p, q, 0) /\ Deliver({q}) /\ q \in Peers \cup {None} /\ {q} \in SUBSET Peers
          /\ UNCHANGED acked
      BY <1>2 DEF SendDM, StoreDM
    <2>2. QED BY <1>1, <2>1, InsertSends, Served DEF Acks
  <1>3. ASSUME NEW root \in 0..MaxEvents, NEW ms \in SUBSET Peers, Post(p, root, ms) PROVE Sends
    <2>1. Insert("group_message", p, None, root) /\ Deliver(Recipients(p))
      BY <1>3 DEF Post, StorePost
    <2>2. QED BY <1>1, <2>1, InsertSends
  <1>4. ASSUME NEW ms \in SUBSET Peers, SendGroup(p, ms) PROVE Mail!Next
    BY <1>1, <1>3, <1>4, Served DEF SendGroup, Acks
  <1>5. ASSUME NEW ms \in SUBSET Peers, NEW e \in Stored, SendInThread(p, e, ms) \/ Reply(p, e, ms)
        PROVE  Mail!Next
    <2>1. Root(e) \in 0..MaxEvents
      <3>1. IsMessage(e)
        BY <1>5 DEF SendInThread, Reply
      <3>2. Root(e) \in Sent
        BY <3>1, RootOfMessage DEF Inv, Stored
      <3>3. QED BY <3>2 DEF Sent, Inv, TypeOK
    <2>2. Post(p, Root(e), ms)
      BY <1>5 DEF SendInThread, Reply
    <2>3. acked' = acked \/ acked' = [acked EXCEPT ![p] = @ \cup ({Root(e), e} \cap inbox[p])]
      BY <1>5 DEF SendInThread, Reply
    <2>4. Acks
      BY <2>3, RowsAcked DEF Acks
    <2>5. QED BY <1>3, <2>1, <2>2, <2>4, Served
  <1>6. ASSUME NEW e \in Stored, ReplyDM(p, e) PROVE Mail!Next
    <2> DEFINE q == IF events[e].sender = p THEN events[e].to ELSE events[e].sender
    <2>1. SendDM(p, q)
      BY <1>6 DEF ReplyDM
    <2>2. q \in Peers
      <3>1. events[e] \in Event /\ events[e].type = "dm"
        BY <1>6 DEF ReplyDM, Inv, TypeOK, Sent, Stored
      <3>2. QED BY <3>1 DEF Inv, Directed, Event, Stored
    <2> HIDE DEF q
    <2>3. QED BY <1>2, <2>1, <2>2
  <1>7. ASSUME NEW e \in Stored, React(p, e) PROVE Mail!Next
    <2>1. acked' = [acked EXCEPT ![p] = @ \cup ({e} \cap inbox[p])] /\ UNCHANGED <<events, inbox>>
      BY <1>7 DEF React, Acknowledge
    <2>2. QED BY <2>1, RowsAcked, Served DEF Sends
  <1>8. QED BY <1>2, <1>4, <1>5, <1>6, <1>7 DEF Message

LEMMA InboxServes ==
  ASSUME Inv, NEW p \in Peers, Inbox(p)
  PROVE  Mail!Next
  <1>1. UNCHANGED <<events, inbox>>
    BY DEF Inbox, AckEvents, AckAll
  <1>2. ASSUME NEW ids, AckEvents(p, ids) PROVE Acks
    BY <1>2, RowsAcked DEF AckEvents, Acknowledge
  <1>3. ASSUME AckAll(p) PROVE Acks
    <2>1. acked[p] \cup (inbox[p] \cap inbox[p]) = inbox[p]
      BY DEF Inv, Contained
    <2>2. acked' = [acked EXCEPT ![p] = @ \cup (inbox[p] \cap inbox[p])]
      BY <1>3, <2>1 DEF AckAll
    <2>3. QED BY <2>2, RowsAcked
  <1>4. QED BY <1>1, <1>2, <1>3, Served DEF Inbox, Sends

\* A join that takes over an alias sends its two events to the same members.
LEMMA ReclaimServes ==
  ASSUME Inv, NEW p \in Peers, NEW fresh \in BOOLEAN, Reclaim(p, fresh)
  PROVE  Sends /\ Acks
  <1> DEFINE to == [i \in 1..2 |-> Recipients(p)]
             notice == [type |-> "roster", sender |-> p, to |-> None, parent |-> 0]
  <1>1. Recipients(p) \in SUBSET Peers
    BY DEF Recipients, Active
  <1>2. to \in [1..2 -> SUBSET Peers] /\ 1..2 = {1, 2} /\ to[1] = Recipients(p) /\ to[2] = Recipients(p)
    BY <1>1
  <1>3. Len(events') = Len(events) + 2 /\ Len(events) \in Nat
    <2>1. /\ events' = Append(Append(events, notice), notice)
          /\ events \in Seq(Event) /\ Len(events) \in Nat
      BY DEF Reclaim, Inv, TypeOK
    <2>2. notice \in Event
      BY DEF Event, Kinds
    <2> HIDE DEF notice
    <2>3. QED BY <2>1, <2>2, TwoAppended
  <1> HIDE DEF to
  <1>4. \A r \in Peers : {Len(events) + i : i \in {j \in 1..2 : r \in to[j]}}
                            = IF r \in Recipients(p) THEN {Last, Last + 1} ELSE {}
    <2>1. Len(events) + 1 = Last /\ Len(events) + 2 = Last + 1
      BY <1>3 DEF Last
    <2>2. QED BY <1>2, <2>1
  <1>5. inbox' = [r \in Peers |-> inbox[r] \cup {Len(events) + i : i \in {j \in 1..2 : r \in to[j]}}]
    BY <1>4 DEF Reclaim
  <1>6. Mail!Send(2, to)
    BY <1>3, <1>5 DEF Mail!Send
  <1>7. Sends
    BY <1>2, <1>6 DEF Sends
  <1>8. QED BY <1>7 DEF Acks, Reclaim

LEMMA SeatServes ==
  ASSUME Inv, NEW p \in Peers, Seat(p)
  PROVE  Mail!Next
  <1>1. ASSUME RosterEvent(p) PROVE Sends /\ Acks
    <2>1. /\ Insert("roster", p, None, 0) /\ Deliver(Recipients(p)) /\ "roster" \in Kinds
          /\ Recipients(p) \in SUBSET Peers /\ None \in Peers \cup {None} /\ 0 \in 0..MaxEvents
          /\ UNCHANGED acked
      BY <1>1 DEF RosterEvent, Kinds, Recipients, Active
    <2>2. QED BY <2>1, InsertSends DEF Acks
  <1>2. ASSUME Archive(p) \/ Revive(p) PROVE Sends /\ Acks
    BY <1>2 DEF Archive, Revive, Sends, Acks
  <1>3. QED BY <1>1, <1>2, ReclaimServes, Served DEF Seat, Join, Leave, Rename

\* The await between an event and its notification delivers nothing.
LEMMA ShareServes ==
  ASSUME Inv, NEW p \in Peers, Share(p)
  PROVE  Mail!Next
  <1>1. ASSUME ShareStore(p) PROVE Sends
    <2>1. /\ Insert("media_shared", p, None, 0) /\ Deliver(Recipients(p)) /\ "media_shared" \in Kinds
          /\ Recipients(p) \in SUBSET Peers /\ None \in Peers \cup {None} /\ 0 \in 0..MaxEvents
      BY <1>1 DEF ShareStore, Kinds, Recipients, Active
    <2>2. QED BY <2>1, InsertSends
  <1>2. ASSUME ShareBegin(p) \/ ShareNotify(p) \/ ShareFails(p) PROVE Sends
    BY <1>2 DEF ShareBegin, ShareNotify, ShareFails, Sends
  <1>3. Acks
    BY DEF Share, ShareBegin, ShareStore, ShareNotify, ShareFails, Acks
  <1>4. QED BY <1>1, <1>2, <1>3, Served DEF Share

\* A death leaves a message that was sent, or rows that were acknowledged.
LEMMA DeathServes ==
  ASSUME Inv, NEW p \in Peers, Cut(p)
  PROVE  Mail!Next
  <1>1. ASSUME CutMessage(p) PROVE Sends /\ Acks
    <2>1. 0 \in 0..MaxEvents /\ None \in Peers \cup {None} /\ "dm" \in Kinds /\ "group_message" \in Kinds
          /\ Recipients(p) \in SUBSET Peers
      BY DEF Kinds, Recipients, Active
    <2>2. ASSUME NEW q \in Peers, StoreDM(p, q) PROVE Sends /\ Acks
      <3>1. /\ Insert("dm", p, q, 0) /\ Deliver({q}) /\ q \in Peers \cup {None} /\ {q} \in SUBSET Peers
            /\ UNCHANGED acked
        BY <2>2 DEF StoreDM
      <3>2. QED BY <2>1, <3>1, InsertSends DEF Acks
    <2>3. ASSUME NEW root \in 0..MaxEvents, StorePost(p, root), acked' = acked PROVE Sends /\ Acks
      <3>1. Insert("group_message", p, None, root) /\ Deliver(Recipients(p))
        BY <2>3 DEF StorePost
      <3>2. QED BY <2>1, <2>3, <3>1, InsertSends DEF Acks
    <2>4. ASSUME NEW e \in Stored, IsMessage(e) PROVE Root(e) \in 0..MaxEvents
      <3>1. Root(e) \in Sent
        BY RootOfMessage DEF Inv, Stored
      <3>2. QED BY <3>1 DEF Sent, Inv, TypeOK
    <2>5. QED BY <1>1, <2>1, <2>2, <2>3, <2>4 DEF CutMessage
  <1>2. ASSUME NEW ids, NEW done, CutAck(p, ids, done) PROVE Sends /\ Acks
    BY <1>2, RowsAcked DEF CutAck, Sends
  <1>3. ASSUME NEW roots, CutAckAll(p, roots) PROVE Sends /\ Acks
    <2>1. acked[p] \cup (inbox[p] \cap inbox[p]) = inbox[p]
      BY DEF Inv, Contained
    <2>2. acked' = [acked EXCEPT ![p] = @ \cup (inbox[p] \cap inbox[p])] /\ UNCHANGED <<events, inbox>>
      BY <1>3, <2>1 DEF CutAckAll
    <2>3. QED BY <2>2, RowsAcked DEF Sends
  <1>4. QED BY <1>1, <1>2, <1>3, Served DEF Cut

\* The prune withdraws the group's events.
LEMMA StartServes ==
  ASSUME Inv, Start
  PROVE  Mail!Next \/ UNCHANGED Mail!vars
  <1> DEFINE gone == {e \in Stored : events[e].type # "dm"}
  <1>1. CASE group = "ephemeral"
    <2>1. /\ UNCHANGED events /\ inbox' = [p \in Peers |-> inbox[p] \ gone]
          /\ acked' = [p \in Peers |-> acked[p] \ gone]
      BY <1>1 DEF Start, Prune
    <2>2. gone \in SUBSET (1..Len(events))
      BY DEF Stored, Sent
    <2> HIDE DEF gone
    <2>3. Mail!Withdraw(gone)
      BY <2>1 DEF Mail!Withdraw
    <2>4. QED BY <2>2, <2>3 DEF Mail!Next
  <1>2. CASE group # "ephemeral"
    BY <1>2 DEF Start, Mail!vars
  <1>3. QED BY <1>1, <1>2

LEMMA MailInit == Init => Mail!Init
  BY DEF Init, Mail!Init

\* The handlers implement the mailbox, and so do the daemon's deaths and starts:
\* whatever the roster becomes between the await that stores a shared file's event
\* and the one before its notification, an event is delivered in the step that
\* stores it and to nobody later, no row is taken back unless its event is deleted
\* with all its rows, and only rows that are there are acknowledged, for good.
THEOREM MessagesKeepMail == Spec => MailSpec
  <1>1. Inv /\ [Next]_vars => [Mail!Next]_(Mail!vars)
    <2>1. ASSUME Inv, NEW p \in Peers, Handler(p) PROVE Mail!Next
      BY <2>1, MessageServes, InboxServes, SeatServes, ShareServes DEF Handler
    <2>2. UNCHANGED vars \/ Die => UNCHANGED Mail!vars
      BY DEF vars, Die, Mail!vars
    <2>3. QED BY <2>1, <2>2, DeathServes, StartServes DEF Next
  <1>2. QED BY <1>1, MailInit, Invariance, PTL DEF Spec, MailSpec, Mail!Spec

=============================================================================
