----------------------------- MODULE Membership -----------------------------
(***************************************************************************)
(* Identities (table peers) and their seats in groups (table               *)
(* group_members), as the daemon's handlers change them: register, delete, *)
(* stop, retention sweep, archive, join, rename, leave, subscribe,         *)
(* restart.  Bun runs the handlers on one thread and bun:sqlite is         *)
(* synchronous, so a handler is one step unless it awaits; archiving awaits *)
(* the backend between its plan and its writes and is two steps.           *)
(*                                                                         *)
(* Timestamps are milliseconds: several handlers may run in one of them,   *)
(* so the clock need not advance between two steps.                        *)
(***************************************************************************)
EXTENDS Integers, FiniteSets

CONSTANTS
  Peers,      \* identities (peer_id)
  Groups,     \* groups (group_id)
  Ephemeral,  \* the groups created with durable = 0, pruned on startup
  Aliases,    \* names a seat may carry
  WebPeers,   \* peers whose tool is 'web'
  LocalWeb,   \* LOCAL_WEB_PEER_ID, the daemon-owned browser peer
  You,        \* the alias "you" that LocalWeb joins under
  None,       \* SQL NULL
  MaxTime,    \* bound: last timestamp of a behaviour
  MaxReaps    \* bound: archive requests in flight for one peer

ASSUME ConstantsAssumption ==
  /\ Ephemeral \subseteq Groups
  /\ WebPeers \subseteq Peers
  /\ MaxTime \in Nat
  /\ MaxReaps \in Nat
  /\ None \notin 0..MaxTime
  /\ None \notin Aliases
  /\ None \notin Peers

VARIABLES
  known,      \* peers that have a row in peers
  deletedAt,  \* peers.deleted_at
  lifecycle,  \* peers.lifecycle_state
  seat,       \* group_members rows, by group and peer
  subs,       \* keys of ctx.subscribers, in memory only
  reaps,      \* archive requests that await the backend, per peer
  now,        \* the current millisecond
  diedIn      \* history: the groups a peer sat in when it was last deleted

vars == <<known, deletedAt, lifecycle, seat, subs, reaps, now, diedIn>>

Time == 0..MaxTime
Row  == [state : {"none", "active", "archived", "left"}, active : BOOLEAN,
         alias : Aliases \cup {None}, leftAt : Time \cup {None}]
NoRow == [state |-> "none", active |-> FALSE, alias |-> None, leftAt |-> None]

TypeOK ==
  /\ known \subseteq Peers
  /\ deletedAt \in [Peers -> Time \cup {None}]
  /\ lifecycle \in [Peers -> {"active", "archived"}]
  /\ seat \in [Groups -> [Peers -> Row]]
  /\ subs \subseteq Peers
  /\ reaps \in [Peers -> 0..MaxReaps]
  /\ now \in Time
  /\ diedIn \in [Peers -> SUBSET Groups]

-----------------------------------------------------------------------------
\* A peer that getPeer finds.
Live(p) == p \in known /\ deletedAt[p] = None

\* A seat covered by the unique index idx_group_members_alias.
Holds(row, a) == row.alias = a /\ row.state \in {"active", "archived"}

\* The seats that hold an alias, and those messages are delivered to.
Occupied   == {s \in Groups \X Peers : seat[s[1]][s[2]].state \in {"active", "archived"}}
Delivering == {s \in Groups \X Peers : seat[s[1]][s[2]].active}

\* Mutant of Unclaimed: only active seats count, as before aliases were reserved.
UnclaimedByActive(g, a, p) ==
  \A q \in Peers \ {p} : ~ (seat[g][q].alias = a /\ seat[g][q].active)

\* No other peer occupies or reserves the alias in the group.
Unclaimed(g, a, p) == \A q \in Peers \ {p} : ~ Holds(seat[g][q], a)

\* UPDATE ... SET active = 0, member_state = 'left', left_at = COALESCE(left_at, t)
Vacated(row, t) ==
  [row EXCEPT !.active = FALSE, !.state = "left",
              !.leftAt = IF row.leftAt = None THEN t ELSE row.leftAt]

Reserved(row) == [row EXCEPT !.active = FALSE, !.state = "archived"]

Seated(row) ==
  [row EXCEPT !.active = TRUE, !.state = "active", !.leftAt = None]

\* The peers in dead are deleted at this instant and leave those of the seats
\* that are theirs; their subscriptions are dropped.
Bury(dead, seats) ==
  /\ deletedAt' = [p \in Peers |-> IF p \in dead THEN now ELSE deletedAt[p]]
  /\ seat' = [g \in Groups |-> [p \in Peers |->
                IF p \in dead /\ <<g, p>> \in seats
                THEN Vacated(seat[g][p], now) ELSE seat[g][p]]]
  /\ diedIn' = [p \in Peers |->
                IF p \in dead THEN {g \in Groups : <<g, p>> \in Occupied} ELSE diedIn[p]]
  /\ subs' = subs \ dead
  /\ UNCHANGED <<known, lifecycle, reaps, now>>

\* softDeletePeerIfPresent: the peer and every seat it has not left.
SoftDelete(p) == Bury({p}, Occupied)

-----------------------------------------------------------------------------
\* Mutant of DiedWith: any seat that was left, whenever it was left.
DiedWithAnyLeave(g, p) ==
  /\ deletedAt[p] # None
  /\ seat[g][p].state = "left"
  /\ Unclaimed(g, seat[g][p].alias, p)

\* Mutant of DiedWith: the time of death is read after the upsert cleared it.
DiedWithCleared(g, p) ==
  /\ seat[g][p].state = "left"
  /\ seat[g][p].leftAt = None
  /\ Unclaimed(g, seat[g][p].alias, p)

\* The seats that a re-registration gives back: those its death vacated
\* (left_at equal to the deleted_at being cleared) and those its archive
\* reserved, unless another peer holds the alias by now.
DiedWith(g, p) ==
  /\ deletedAt[p] # None
  /\ ~ seat[g][p].active
  /\ seat[g][p].state = "left"
  /\ seat[g][p].leftAt = deletedAt[p]
  /\ Unclaimed(g, seat[g][p].alias, p)

ArchivedWith(g, p) ==
  /\ lifecycle[p] = "archived"
  /\ seat[g][p].state = "archived"
  /\ Unclaimed(g, seat[g][p].alias, p)

Reseat(p, returned) ==
  [g \in Groups |-> [q \in Peers |->
     IF q = p /\ g \in returned THEN Seated(seat[g][q]) ELSE seat[g][q]]]

\* POST /agent-sessions/register, POST /peers/register and the browser session.
Register(p) ==
  /\ known' = known \cup {p}
  /\ deletedAt' = [deletedAt EXCEPT ![p] = None]
  /\ lifecycle' = [lifecycle EXCEPT ![p] = "active"]
  /\ seat' = Reseat(p, {g \in Groups : DiedWith(g, p) \/ ArchivedWith(g, p)})
  /\ diedIn' = [diedIn EXCEPT ![p] = {}]
  /\ UNCHANGED <<subs, reaps, now>>

\* DELETE /peers/:id
Delete(p) ==
  /\ Live(p)
  /\ SoftDelete(p)

\* POST /agent-sessions/stop after the backend stopped, and the startup sweep
\* of stopped launches: an archived identity is never deleted this way.
StopSession(p) ==
  /\ Live(p)
  /\ lifecycle[p] # "archived"
  /\ SoftDelete(p)

\* Mutant of SweepExpired: archived identities are not exempt.
SweepAnyone(lapsed) ==
  /\ lapsed # {}
  /\ \A p \in lapsed : Live(p)
  /\ Bury(lapsed, Delivering)

\* sweepExpiredPeers deletes, in one transaction, the peers whose lease lapsed
\* longer ago than the retention; which leases have is left open, except that a
\* web peer's never does.
SweepExpired(lapsed) ==
  /\ lapsed # {}
  /\ \A p \in lapsed : Live(p) /\ lifecycle[p] # "archived"
  /\ Bury(lapsed, Delivering)

-----------------------------------------------------------------------------
\* archiveSessionApply up to its await: the plan is made, the backend is asked
\* to stop (or the process is probed).
BeginArchive(p) ==
  /\ Live(p)
  /\ lifecycle[p] = "active"
  /\ reaps[p] < MaxReaps
  /\ reaps' = [reaps EXCEPT ![p] = @ + 1]
  /\ UNCHANGED <<known, deletedAt, lifecycle, seat, subs, now, diedIn>>

\* Mutant of FinishArchive: the subscriber is left in the map.
FinishArchiveSubscribed(p) ==
  /\ reaps[p] > 0
  /\ reaps' = [reaps EXCEPT ![p] = @ - 1]
  /\ lifecycle' = IF Live(p) THEN [lifecycle EXCEPT ![p] = "archived"] ELSE lifecycle
  /\ seat' = [g \in Groups |-> [q \in Peers |->
                IF q = p /\ seat[g][q].active THEN Reserved(seat[g][q]) ELSE seat[g][q]]]
  /\ UNCHANGED <<known, deletedAt, subs, now, diedIn>>

\* The rest of it, whatever the backend answered: markPeerArchived, then the
\* subscriber is dropped.
FinishArchive(p) ==
  /\ reaps[p] > 0
  /\ reaps' = [reaps EXCEPT ![p] = @ - 1]
  /\ lifecycle' = IF Live(p) THEN [lifecycle EXCEPT ![p] = "archived"] ELSE lifecycle
  /\ seat' = [g \in Groups |-> [q \in Peers |->
                IF q = p /\ seat[g][q].active THEN Reserved(seat[g][q]) ELSE seat[g][q]]]
  /\ subs' = subs \ {p}
  /\ UNCHANGED <<known, deletedAt, now, diedIn>>

-----------------------------------------------------------------------------
\* Mutant of TakenOver: any browser peer takes the alias from any other.
TakenOverByAny(g, p, a) ==
  IF p \in WebPeers /\ a = You
  THEN {q \in WebPeers \ {p} : seat[g][q].alias = a /\ seat[g][q].active}
  ELSE {}

\* The seats that LocalWeb, joining as "you", takes from other web peers.
TakenOver(g, p, a) ==
  IF p = LocalWeb /\ p \in WebPeers /\ a = You
  THEN {q \in WebPeers \ {p} : seat[g][q].alias = a /\ seat[g][q].active}
  ELSE {}

\* POST /groups/:name/join.  A seat that another peer holds or reserves makes
\* the transaction fail.
Join(g, p, a) ==
  LET taken == TakenOver(g, p, a)
  IN  /\ Live(p)
      /\ ~ (seat[g][p].active /\ seat[g][p].alias = a)
      /\ \A q \in Peers \ (taken \cup {p}) : ~ Holds(seat[g][q], a)
      /\ seat' = [seat EXCEPT ![g] = [q \in Peers |->
                    CASE q = p       -> [state |-> "active", active |-> TRUE,
                                         alias |-> a, leftAt |-> None]
                      [] q \in taken -> Vacated(seat[g][q], now)
                      [] OTHER       -> seat[g][q]]]
      /\ UNCHANGED <<known, deletedAt, lifecycle, subs, reaps, now, diedIn>>

\* POST /groups/:name/rename
Rename(g, p, a) ==
  /\ seat[g][p].active
  /\ seat[g][p].alias # a
  /\ Unclaimed(g, a, p)
  /\ seat' = [seat EXCEPT ![g][p].alias = a]
  /\ UNCHANGED <<known, deletedAt, lifecycle, subs, reaps, now, diedIn>>

\* Mutant of Leave: any seat that has not been left, a reserved one included.
LeaveReserved(g, p) ==
  /\ seat[g][p].state \in {"active", "archived"}
  /\ seat' = [seat EXCEPT ![g][p] =
                [@ EXCEPT !.active = FALSE, !.state = "left", !.leftAt = now]]
  /\ UNCHANGED <<known, deletedAt, lifecycle, subs, reaps, now, diedIn>>

\* POST /groups/:name/leave
Leave(g, p) ==
  /\ seat[g][p].active
  /\ seat' = [seat EXCEPT ![g][p] =
                [@ EXCEPT !.active = FALSE, !.state = "left", !.leftAt = now]]
  /\ UNCHANGED <<known, deletedAt, lifecycle, subs, reaps, now, diedIn>>

-----------------------------------------------------------------------------
\* POST /subscriptions
Subscribe(p) ==
  /\ Live(p)
  /\ lifecycle[p] # "archived"
  /\ subs' = subs \cup {p}
  /\ UNCHANGED <<known, deletedAt, lifecycle, seat, reaps, now, diedIn>>

\* notifySubscribers drops a subscriber whose callback failed.
DropSubscriber(p) ==
  /\ p \in subs
  /\ subs' = subs \ {p}
  /\ UNCHANGED <<known, deletedAt, lifecycle, seat, reaps, now, diedIn>>

\* pruneEphemeralGroups: the rows of a pruned group cascade.
Pruned(seats) ==
  [g \in Groups |-> IF g \in Ephemeral THEN [p \in Peers |-> NoRow] ELSE seats[g]]

\* What the daemon keeps only in memory is gone, whether it stopped or
\* crashed; the next start prunes the ephemeral groups, and their seats cascade.
Restart ==
  /\ subs' = {}
  /\ reaps' = [p \in Peers |-> 0]
  /\ seat' = Pruned(seat)
  /\ diedIn' = [p \in Peers |-> diedIn[p] \ Ephemeral]
  /\ UNCHANGED <<known, deletedAt, lifecycle, now>>

Tick ==
  /\ now < MaxTime
  /\ now' = now + 1
  /\ UNCHANGED <<known, deletedAt, lifecycle, seat, subs, reaps, diedIn>>

-----------------------------------------------------------------------------
Init ==
  /\ known = {}
  /\ deletedAt = [p \in Peers |-> None]
  /\ lifecycle = [p \in Peers |-> "active"]
  /\ seat = [g \in Groups |-> [p \in Peers |-> NoRow]]
  /\ subs = {}
  /\ reaps = [p \in Peers |-> 0]
  /\ now = 0
  /\ diedIn = [p \in Peers |-> {}]

PeerStep(p) ==
  \/ Register(p)
  \/ Delete(p)
  \/ StopSession(p)
  \/ BeginArchive(p)
  \/ FinishArchive(p)
  \/ Subscribe(p)
  \/ DropSubscriber(p)

SeatStep(g, p) ==
  \/ \E a \in Aliases : Join(g, p, a)
  \/ \E a \in Aliases : Rename(g, p, a)
  \/ Leave(g, p)

Next ==
  \/ \E p \in Peers : PeerStep(p)
  \/ \E g \in Groups, p \in Peers : SeatStep(g, p)
  \/ \E lapsed \in SUBSET (Peers \ WebPeers) : SweepExpired(lapsed)
  \/ Restart
  \/ Tick

Spec == Init /\ [][Next]_vars

-----------------------------------------------------------------------------
(***************************************************************************)
(* POST /peers/register calls upsertPeer outside a transaction, and each of *)
(* its statements commits on its own: the daemon may die after the row is  *)
(* upserted, after the dead seats are given back, or after the lifecycle   *)
(* is reset, and then it restarts.                                         *)
(***************************************************************************)
CrashInRegister(p) ==
  LET revived == Reseat(p, {g \in Groups : DiedWith(g, p)})
  IN  /\ known' = known \cup {p}
      /\ deletedAt' = [deletedAt EXCEPT ![p] = None]
      /\ \/ UNCHANGED lifecycle /\ seat' = Pruned(seat)
         \/ UNCHANGED lifecycle /\ seat' = Pruned(revived)
         \/ lifecycle' = [lifecycle EXCEPT ![p] = "active"] /\ seat' = Pruned(revived)
      /\ subs' = {}
      /\ reaps' = [q \in Peers |-> 0]
      /\ diedIn' = [q \in Peers |-> IF q = p THEN {} ELSE diedIn[q] \ Ephemeral]
      /\ UNCHANGED now

CrashNext == Next \/ \E p \in Peers : CrashInRegister(p)

CrashSpec == Init /\ [][CrashNext]_vars

-----------------------------------------------------------------------------
(***************************************************************************)
(* Safety invariants                                                       *)
(***************************************************************************)

\* The delivery bit and the lifecycle state of a seat agree: active = 1 exactly
\* when member_state = 'active' (db.ts, migration v12).  Every statement that
\* moves one has to move the other.
DeliveryBitAgrees ==
  \A g \in Groups, p \in Peers : seat[g][p].active <=> seat[g][p].state = "active"

\* An alias is occupied or reserved by at most one peer of a group: no handler
\* relies on the unique index to refuse a reactivation.
AliasHeldOnce ==
  \A g \in Groups, a \in Aliases, p, q \in Peers :
    Holds(seat[g][p], a) /\ Holds(seat[g][q], a) => p = q

\* A deleted identity occupies and reserves no seat: its aliases are free.
DeletedHoldsNoSeat ==
  \A p \in Peers : deletedAt[p] # None => \A g \in Groups : <<g, p>> \notin Occupied

\* A reserved seat belongs to an archived identity that is not deleted, so the
\* advice of the alias_reserved_by_archived error ("resume or delete it to free
\* the seat") can be followed.
ReservedSeatIsResumable ==
  \A g \in Groups, p \in Peers :
    seat[g][p].state = "archived" => Live(p) /\ lifecycle[p] = "archived"

\* Live push goes to no deleted and to no archived identity, although the
\* subscriber map is in memory and the identity's state in the database.
SubscribersAreLive ==
  \A p \in subs : Live(p) /\ lifecycle[p] = "active"

(***************************************************************************)
(* Action properties                                                       *)
(***************************************************************************)
Revived(p) == deletedAt[p] # None /\ deletedAt'[p] = None

\* A peer that registers again after it was deleted or swept sits again in
\* every group it sat in (or held a reserved seat of) when it died, under the
\* same alias, unless another peer took the alias meanwhile.
RevivalRestoresSeats ==
  [][\A p \in Peers : Revived(p) =>
       \A g \in diedIn[p] :
         Unclaimed(g, seat[g][p].alias, p) =>
           seat'[g][p].active /\ seat'[g][p].alias = seat[g][p].alias]_vars

\* A group left in an earlier millisecond than the death stays left.
EarlierLeaveStaysLeft ==
  [][\A p \in Peers : Revived(p) =>
       \A g \in Groups \ diedIn[p] :
         seat'[g][p].active => seat[g][p].leftAt = deletedAt[p]]_vars

\* A reserved seat ends with its owner: it becomes active again for the same
\* peer, or is given up with the identity, or goes with an ephemeral group.
ReservationEndsWithOwner ==
  [][\A g \in Groups, p \in Peers :
       seat[g][p].state = "archived" =>
         \/ seat'[g][p] = seat[g][p]
         \/ seat'[g][p].state = "active"
         \/ deletedAt'[p] # None
         \/ g \in Ephemeral /\ subs' = {}]_vars

\* What the archive design says: an archived membership is inactive for
\* delivery, so an archived identity occupies no active seat.
ArchivedIsDark ==
  \A g \in Groups, p \in Peers :
    Live(p) /\ lifecycle[p] = "archived" => ~ seat[g][p].active

=============================================================================
