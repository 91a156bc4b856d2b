-------------------------- MODULE MembershipLedger --------------------------
(***************************************************************************)
(* What Membership implements.  AliasLedger: an alias belongs to the peer  *)
(* whose seat holds it, and is reserved while that seat is archived.       *)
(* PeerLife: what a peer is, read off its row.                             *)
(***************************************************************************)
EXTENDS Membership

SeatOwner(g, a) ==
  IF \E p \in Peers : Holds(seat[g][p], a)
  THEN CHOOSE p \in Peers : Holds(seat[g][p], a)
  ELSE None

Ledger == INSTANCE AliasLedger WITH
  owner    <- [g \in Groups |-> [a \in Aliases |-> SeatOwner(g, a)]],
  reserved <- [g \in Groups |->
                {a \in Aliases : \E p \in Peers :
                   seat[g][p].alias = a /\ seat[g][p].state = "archived"}]

\* Every handler, the archive that finishes late and the sweeps included, moves
\* aliases only as the ledger allows.
LedgerSpec == Ledger!Spec

LifeOf(p) ==
  CASE p \notin known                                       -> "unknown"
    [] p \in known /\ deletedAt[p] # None                   -> "deleted"
    [] Live(p) /\ lifecycle[p] = "archived"                 -> "archived"
    [] OTHER                                                -> "live"

Life == INSTANCE PeerLife WITH
  life       <- [p \in Peers |-> LifeOf(p)],
  subscribed <- subs

\* Between handlers, an identity is brought back only by a registration, and the
\* step that archives or deletes it drops its subscription, although an archive
\* awaits the backend and the others run meanwhile, and an archived identity may
\* still join groups.
LifeSpec == Life!Spec

=============================================================================
