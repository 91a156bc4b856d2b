----------------------------- MODULE AliasLedger -----------------------------
(***************************************************************************)
(* What group membership promises about names, whatever tables and flags   *)
(* implement it: in each group an alias belongs to at most one peer; it    *)
(* passes from one peer to another only by being given up first, in an     *)
(* earlier step; and while its owner is archived the alias is reserved,    *)
(* which nobody else can end.  The one exception is the local browser      *)
(* peer, which takes the alias You from another browser peer directly.     *)
(***************************************************************************)
CONSTANTS Peers, Groups, Aliases, WebPeers, LocalWeb, You, None

VARIABLES
  owner,    \* owner[g][a]: the peer the alias belongs to, or None
  reserved  \* reserved[g]: the aliases whose owner is archived

vars == <<owner, reserved>>

TypeOK ==
  /\ owner \in [Groups -> [Aliases -> Peers \cup {None}]]
  /\ reserved \in [Groups -> SUBSET Aliases]

Init ==
  /\ owner = [g \in Groups |-> [a \in Aliases |-> None]]
  /\ reserved = [g \in Groups |-> {}]

\* What may happen to one alias of one group in a step.
Keep(g, a) ==
  /\ owner'[g][a] = owner[g][a]
  /\ a \in reserved'[g] <=> a \in reserved[g]

Claim(g, a, p) ==
  /\ owner[g][a] = None
  /\ owner'[g][a] = p
  /\ a \notin reserved'[g]

Release(g, a) ==
  /\ owner'[g][a] = None
  /\ a \notin reserved'[g]

Reserve(g, a) ==
  /\ owner[g][a] # None
  /\ owner'[g][a] = owner[g][a]
  /\ a \in reserved'[g]

Resume(g, a, p) ==
  /\ owner[g][a] = p
  /\ owner'[g][a] = p
  /\ a \notin reserved'[g]

TakeOver(g, a, p) ==
  /\ a = You
  /\ p = LocalWeb
  /\ owner[g][a] \in WebPeers
  /\ a \notin reserved[g]
  /\ owner'[g][a] = p
  /\ a \notin reserved'[g]

\* A step serves one peer p: only p may gain an alias or end a reservation of
\* its own.  It may touch several groups at once, and p may exchange one alias
\* for another, but no peer ends up with two aliases of a group.
Next ==
  /\ \E p \in Peers : \A g \in Groups, a \in Aliases :
       \/ Keep(g, a)
       \/ Claim(g, a, p)
       \/ Release(g, a)
       \/ Reserve(g, a)
       \/ Resume(g, a, p)
       \/ TakeOver(g, a, p)
  /\ \A g \in Groups, a, b \in Aliases :
       owner'[g][a] = owner'[g][b] /\ owner'[g][a] # None => a = b

Spec == Init /\ [][Next]_vars

=============================================================================
