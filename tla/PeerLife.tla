------------------------------ MODULE PeerLife ------------------------------
(***************************************************************************)
(* What an identity may live through, whatever tables, maps and awaits     *)
(* implement it: it is registered, archived, deleted, and only a           *)
(* registration brings an archived or a deleted one back; and of the live  *)
(* push that an identity may subscribe to while it is live, which it loses *)
(* in the very step that archives or deletes it.                           *)
(***************************************************************************)
CONSTANT Peers

VARIABLES
  life,       \* what the identity is
  subscribed  \* the identities that live push goes to

vars == <<life, subscribed>>

LiveOnes == {p \in Peers : life[p] = "live"}

TypeOK ==
  /\ life \in [Peers -> {"unknown", "live", "archived", "deleted"}]
  /\ subscribed \subseteq LiveOnes

Init ==
  /\ life \in [Peers -> {"unknown", "live"}]
  /\ subscribed \subseteq LiveOnes

Becomes(ps, s) == life' = [p \in Peers |-> IF p \in ps THEN s ELSE life[p]]

\* A first registration, or one that brings the identity back; being subscribed
\* takes a request of its own.
Register(p) ==
  /\ Becomes({p}, "live")
  /\ UNCHANGED subscribed

Archive(p) ==
  /\ life[p] = "live"
  /\ Becomes({p}, "archived")
  /\ subscribed' = subscribed \ {p}

Delete(p) ==
  /\ life[p] \in {"live", "archived"}
  /\ Becomes({p}, "deleted")
  /\ subscribed' = subscribed \ {p}

\* Several live identities are deleted at once; an archived one never expires.
Expire(ps) ==
  /\ ps \subseteq LiveOnes
  /\ Becomes(ps, "deleted")
  /\ subscribed' = subscribed \ ps

Subscribe(p) ==
  /\ life[p] = "live"
  /\ subscribed' = subscribed \cup {p}
  /\ UNCHANGED life

\* Subscribers are dropped.
Lose(ps) ==
  /\ subscribed' = subscribed \ ps
  /\ UNCHANGED life

Next ==
  \/ \E p \in Peers : Register(p) \/ Archive(p) \/ Delete(p) \/ Subscribe(p)
  \/ \E ps \in SUBSET Peers : Expire(ps) \/ Lose(ps)

Spec == Init /\ [][Next]_vars

=============================================================================
