------------------------------ MODULE Mailbox ------------------------------
(***************************************************************************)
(* What the inboxes promise to those who read and those who fill them,     *)
(* whatever events, rosters, awaits and restarts are behind it: an event's *)
(* recipients are chosen once, when it is sent; its rows go away only      *)
(* together, with the event; and what is acknowledged was delivered before *)
(* and stays acknowledged as long as it is there.                          *)
(***************************************************************************)
EXTENDS Naturals

CONSTANTS Peers

VARIABLES
  sent,   \* the number of events, which are numbered as they are sent
  rows,   \* the events delivered to each peer
  acked   \* those that the peer acknowledged

vars == <<sent, rows, acked>>

TypeOK ==
  /\ sent \in Nat
  /\ rows \in [Peers -> SUBSET (1..sent)]
  /\ acked \in [Peers -> SUBSET (1..sent)]
  /\ \A p \in Peers : acked[p] \subseteq rows[p]

Init ==
  /\ sent = 0
  /\ rows = [p \in Peers |-> {}]
  /\ acked = [p \in Peers |-> {}]

\* The next n events go to these peers, and never to another one.
Send(n, to) ==
  /\ sent' = sent + n
  /\ rows' = [p \in Peers |-> rows[p] \cup {sent + i : i \in {j \in 1..n : p \in to[j]}}]

\* A peer acknowledges some of the rows that it has by now.
Acknowledge(p, es) ==
  /\ es \subseteq rows[p]
  /\ acked' = [acked EXCEPT ![p] = @ \cup es]

\* Events are deleted, from every inbox.
Withdraw(es) ==
  /\ rows' = [p \in Peers |-> rows[p] \ es]
  /\ acked' = [p \in Peers |-> acked[p] \ es]
  /\ UNCHANGED sent

\* An answer is sent and what it answers acknowledged in one step; a join that takes
\* over an alias sends two events.
Next ==
  \/ /\ \/ UNCHANGED <<sent, rows>>
        \/ \E n \in {1, 2} : \E to \in [1..n -> SUBSET Peers] : Send(n, to)
     /\ UNCHANGED acked \/ \E p \in Peers : \E es \in SUBSET rows[p] : Acknowledge(p, es)
  \/ \E es \in SUBSET (1..sent) : Withdraw(es)

Spec == Init /\ [][Next]_vars

=============================================================================
