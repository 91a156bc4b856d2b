-------------------------- MODULE Membership_proofs --------------------------
(***************************************************************************)
(* Theorems about Membership, for every set of peers, groups and aliases   *)
(* and every bound on the clock and on the archives in flight.             *)
(***************************************************************************)
EXTENDS MembershipLedger, TLAPS

USE ConstantsAssumption DEF ConstantsAssumption

-----------------------------------------------------------------------------
(***************************************************************************)
(* Type correctness                                                        *)
(***************************************************************************)

LEMMA RowOperatorsTyped ==
  /\ NoRow \in Row
  /\ \A row \in Row : Seated(row) \in Row /\ Reserved(row) \in Row
  /\ \A row \in Row, t \in Time : Vacated(row, t) \in Row
  BY DEF Vacated, Seated, Reserved, NoRow, Row

LEMMA BuryTyped ==
  ASSUME TypeOK, NEW dead \in SUBSET Peers, NEW seats, Bury(dead, seats)
  PROVE  TypeOK'
  BY RowOperatorsTyped DEF TypeOK, Bury

LEMMA ReseatTyped ==
  ASSUME TypeOK, NEW p \in Peers, NEW returned
  PROVE  Reseat(p, returned) \in [Groups -> [Peers -> Row]]
  BY RowOperatorsTyped DEF TypeOK, Reseat

LEMMA PrunedTyped ==
  ASSUME NEW seats \in [Groups -> [Peers -> Row]]
  PROVE  Pruned(seats) \in [Groups -> [Peers -> Row]]
  BY RowOperatorsTyped DEF Pruned

LEMMA TypeStep == TypeOK /\ [CrashNext]_vars => TypeOK'
  <1> SUFFICES ASSUME TypeOK, [CrashNext]_vars PROVE TypeOK'
    OBVIOUS
  <1>1. ASSUME NEW p \in Peers, Register(p) PROVE TypeOK'
    BY <1>1, ReseatTyped DEF TypeOK, Register
  <1>2. ASSUME NEW p \in Peers, Delete(p) \/ StopSession(p) PROVE TypeOK'
    BY <1>2, BuryTyped DEF Delete, StopSession, SoftDelete
  <1>3. ASSUME NEW lapsed \in SUBSET (Peers \ WebPeers), SweepExpired(lapsed) PROVE TypeOK'
    BY <1>3, BuryTyped DEF SweepExpired
  <1>4. ASSUME NEW p \in Peers, BeginArchive(p) PROVE TypeOK'
    BY <1>4 DEF TypeOK, BeginArchive
  <1>5. ASSUME NEW p \in Peers, FinishArchive(p) PROVE TypeOK'
    <2>1. seat' \in [Groups -> [Peers -> Row]]
      BY <1>5, RowOperatorsTyped DEF TypeOK, FinishArchive
    <2>2. reaps[p] - 1 \in 0..MaxReaps
      BY <1>5 DEF TypeOK, FinishArchive
    <2>3. reaps' \in [Peers -> 0..MaxReaps]
      BY <1>5, <2>2 DEF TypeOK, FinishArchive
    <2>4. QED BY <1>5, <2>1, <2>3 DEF TypeOK, FinishArchive
  <1>6. ASSUME NEW g \in Groups, NEW p \in Peers, NEW a \in Aliases, Join(g, p, a)
        PROVE TypeOK'
    <2> DEFINE newRow == [state |-> "active", active |-> TRUE, alias |-> a, leftAt |-> None]
    <2>1. newRow \in Row
      BY DEF Row
    <2>2. ASSUME NEW q \in Peers
          PROVE  (CASE q = p -> newRow
                    [] q \in TakenOver(g, p, a) -> Vacated(seat[g][q], now)
                    [] OTHER -> seat[g][q]) \in Row
      BY <2>1, RowOperatorsTyped DEF TypeOK, TakenOver
    <2>3. seat' \in [Groups -> [Peers -> Row]]
      BY <1>6, <2>2 DEF TypeOK, Join
    <2>4. QED BY <1>6, <2>3 DEF TypeOK, Join
  <1>7. ASSUME NEW g \in Groups, NEW p \in Peers, NEW a \in Aliases, Rename(g, p, a)
        PROVE TypeOK'
    <2> DEFINE newRow == [seat[g][p] EXCEPT !.alias = a]
    <2>1. newRow \in Row
      <3>1. seat[g][p] \in Row /\ a \in Aliases \cup {None}
        BY DEF TypeOK
      <3>2. QED BY <3>1 DEF Row
    <2>2. seat' = [seat EXCEPT ![g] = [seat[g] EXCEPT ![p] = newRow]]
      BY <1>7 DEF TypeOK, Rename
    <2> HIDE DEF newRow
    <2>3. seat' \in [Groups -> [Peers -> Row]]
      BY <2>1, <2>2 DEF TypeOK
    <2>4. QED BY <1>7, <2>3 DEF TypeOK, Rename
  <1>8. ASSUME NEW g \in Groups, NEW p \in Peers, Leave(g, p) PROVE TypeOK'
    <2> DEFINE newRow == [seat[g][p] EXCEPT !.active = FALSE, !.state = "left", !.leftAt = now]
    <2>1. newRow \in Row
      <3>1. seat[g][p] \in Row /\ now \in Time
        BY DEF TypeOK
      <3>2. QED BY <3>1 DEF Row
    <2>2. seat' = [seat EXCEPT ![g] = [seat[g] EXCEPT ![p] = newRow]]
      BY <1>8 DEF TypeOK, Leave
    <2> HIDE DEF newRow
    <2>3. seat' \in [Groups -> [Peers -> Row]]
      BY <2>1, <2>2 DEF TypeOK
    <2>4. QED BY <1>8, <2>3 DEF TypeOK, Leave
  <1>9. ASSUME NEW p \in Peers, Subscribe(p) \/ DropSubscriber(p) PROVE TypeOK'
    BY <1>9 DEF TypeOK, Subscribe, DropSubscriber
  <1>10. CASE Restart
    BY <1>10, PrunedTyped DEF TypeOK, Restart
  <1>11. CASE Tick
    BY <1>11 DEF TypeOK, Tick, Time
  <1>12. ASSUME NEW p \in Peers, CrashInRegister(p) PROVE TypeOK'
    BY <1>12, ReseatTyped, PrunedTyped DEF TypeOK, CrashInRegister
  <1>13. CASE UNCHANGED vars
    BY <1>13 DEF TypeOK, vars
  <1>14. QED
    BY <1>1, <1>2, <1>3, <1>4, <1>5, <1>6, <1>7, <1>8, <1>9, <1>10, <1>11, <1>12, <1>13
       DEF CrashNext, Next, PeerStep, SeatStep

LEMMA TypeInit == Init => TypeOK
  BY RowOperatorsTyped DEF Init, TypeOK, Time

\* Every variable keeps its type, also when the daemon dies inside a register.
THEOREM TypeCorrect == CrashSpec => []TypeOK
  <1>1. QED BY TypeInit, TypeStep, PTL DEF CrashSpec

-----------------------------------------------------------------------------
(***************************************************************************)
(* The delivery bit, the uniqueness of aliases and the subscribers: these  *)
(* survive a crash inside a register.                                      *)
(***************************************************************************)

\* What each step does to a row, in the terms the invariants use.
LEMMA RowOperatorsAgree ==
  /\ ~ NoRow.active /\ NoRow.state = "none"
  /\ \A row \in Row :
       /\ Seated(row).active /\ Seated(row).state = "active" /\ Seated(row).alias = row.alias
       /\ ~ Reserved(row).active /\ Reserved(row).state = "archived"
       /\ Reserved(row).alias = row.alias
  /\ \A row \in Row, t \in Time : ~ Vacated(row, t).active /\ Vacated(row, t).state = "left"
  BY DEF Vacated, Seated, Reserved, NoRow, Row

LEMMA DeliveryBitStep ==
  TypeOK /\ DeliveryBitAgrees /\ [CrashNext]_vars => DeliveryBitAgrees'
  <1> SUFFICES ASSUME TypeOK, DeliveryBitAgrees, [CrashNext]_vars,
                      NEW g \in Groups, NEW q \in Peers
               PROVE  seat'[g][q].active <=> seat'[g][q].state = "active"
    BY DEF DeliveryBitAgrees
  <1> DEFINE Agrees(row) == row.active <=> row.state = "active"
  <1>a. Agrees(seat[g][q]) /\ seat[g][q] \in Row /\ now \in Time
    BY DEF DeliveryBitAgrees, TypeOK
  <1>1. ASSUME NEW p \in Peers, Register(p) PROVE Agrees(seat'[g][q])
    BY <1>1, <1>a, RowOperatorsAgree DEF Register, Reseat
  <1>2. ASSUME NEW dead, NEW seats, Bury(dead, seats) PROVE Agrees(seat'[g][q])
    BY <1>2, <1>a, RowOperatorsAgree DEF Bury
  <1>3. ASSUME NEW p \in Peers, FinishArchive(p) PROVE Agrees(seat'[g][q])
    BY <1>3, <1>a, RowOperatorsAgree DEF FinishArchive
  <1>4. ASSUME NEW h \in Groups, NEW p \in Peers, NEW a \in Aliases, Join(h, p, a)
        PROVE  Agrees(seat'[g][q])
    BY <1>4, <1>a, RowOperatorsAgree DEF Join, TypeOK
  <1>5. ASSUME NEW h \in Groups, NEW p \in Peers, NEW a \in Aliases, Rename(h, p, a)
        PROVE  Agrees(seat'[g][q])
    BY <1>5, <1>a DEF Rename, TypeOK, Row
  <1>6. ASSUME NEW h \in Groups, NEW p \in Peers, Leave(h, p) PROVE Agrees(seat'[g][q])
    BY <1>6, <1>a DEF Leave, TypeOK, Row
  <1>7. CASE Restart
    BY <1>7, <1>a, RowOperatorsAgree DEF Restart, Pruned
  <1>8. ASSUME NEW p \in Peers, CrashInRegister(p) PROVE Agrees(seat'[g][q])
    BY <1>8, <1>a, RowOperatorsAgree DEF CrashInRegister, Pruned, Reseat
  <1>9. ASSUME UNCHANGED seat PROVE Agrees(seat'[g][q])
    BY <1>9, <1>a
  <1>10. QED
    BY <1>1, <1>2, <1>3, <1>4, <1>5, <1>6, <1>7, <1>8, <1>9
       DEF CrashNext, Next, PeerStep, SeatStep, Delete, StopSession, SoftDelete,
           SweepExpired, BeginArchive, Subscribe, DropSubscriber, Tick, vars

\* Steps that only free aliases preserve their uniqueness.
LEMMA FewerHolders ==
  ASSUME AliasHeldOnce,
         \A g \in Groups, q \in Peers, a \in Aliases :
           Holds(seat'[g][q], a) => Holds(seat[g][q], a)
  PROVE  AliasHeldOnce'
  BY DEF AliasHeldOnce

\* So do steps in which one peer gains aliases that nobody else holds.
LEMMA OneMoreHolder ==
  ASSUME AliasHeldOnce, NEW p \in Peers,
         \A g \in Groups, q \in Peers \ {p}, a \in Aliases :
           Holds(seat'[g][q], a) => Holds(seat[g][q], a),
         \A g \in Groups, q \in Peers \ {p}, a \in Aliases :
           ~ (Holds(seat'[g][p], a) /\ Holds(seat'[g][q], a))
  PROVE  AliasHeldOnce'
  BY DEF AliasHeldOnce

\* A peer is given back its seats in some groups, where nobody else holds the alias;
\* rows of other groups than kept are deleted.
Returnable(p, returned) == \A g \in returned \cap Groups : Unclaimed(g, seat[g][p].alias, p)

ReseatIn(kept, p, returned) ==
  \A g \in Groups, q \in Peers :
    seat'[g][q] = IF g \in kept THEN Reseat(p, returned)[g][q] ELSE NoRow

LEMMA ReseatHolders ==
  ASSUME TypeOK, AliasHeldOnce, NEW p \in Peers, NEW returned, NEW kept,
         Returnable(p, returned), ReseatIn(kept, p, returned)
  PROVE  AliasHeldOnce'
  <1> USE DEF Returnable, ReseatIn
  <1>1. ASSUME NEW g \in Groups, NEW q \in Peers \ {p}, NEW a \in Aliases,
               Holds(seat'[g][q], a)
        PROVE  g \in kept /\ seat'[g][q] = seat[g][q]
    <2>1. g \in kept
      <3>1. NoRow.state # "active" /\ NoRow.state # "archived"
        BY RowOperatorsAgree
      <3>2. seat'[g][q].state \in {"active", "archived"}
        BY <1>1 DEF Holds
      <3>3. QED BY <3>1, <3>2
    <2>2. seat'[g][q] = seat[g][q]
      BY <2>1 DEF Reseat
    <2>3. QED BY <2>1, <2>2
  <1>2. ASSUME NEW g \in Groups, NEW q \in Peers \ {p}, NEW a \in Aliases,
               Holds(seat'[g][p], a), Holds(seat'[g][q], a)
        PROVE  FALSE
    <2>1. seat[g][p] \in Row /\ Holds(seat[g][q], a) /\ g \in kept
      BY <1>1, <1>2 DEF TypeOK
    <2>2. CASE g \in returned
      <3>1. seat'[g][p] = Seated(seat[g][p])
        BY <2>1, <2>2 DEF Reseat
      <3>2. seat[g][p].alias = a
        BY <1>2, <2>1, <3>1, RowOperatorsAgree DEF Holds
      <3>3. QED BY <2>1, <2>2, <3>2 DEF Unclaimed
    <2>3. CASE g \notin returned
      <3>1. seat'[g][p] = seat[g][p]
        BY <2>1, <2>3 DEF Reseat
      <3>2. QED BY <1>2, <2>1, <3>1 DEF AliasHeldOnce
    <2>4. QED BY <2>2, <2>3
  <1>3. QED BY <1>1, <1>2, OneMoreHolder

LEMMA AliasStep ==
  TypeOK /\ DeliveryBitAgrees /\ AliasHeldOnce /\ [CrashNext]_vars => AliasHeldOnce'
  <1> SUFFICES ASSUME TypeOK, DeliveryBitAgrees, AliasHeldOnce, [CrashNext]_vars
               PROVE  AliasHeldOnce'
    OBVIOUS
  <1>a. \A g \in Groups, q \in Peers : seat[g][q] \in Row
    BY DEF TypeOK
  <1>1. ASSUME NEW p \in Peers, Register(p) PROVE AliasHeldOnce'
    <2> DEFINE returned == {g \in Groups : DiedWith(g, p) \/ ArchivedWith(g, p)}
    <2>1. \A g \in returned : Unclaimed(g, seat[g][p].alias, p)
      BY DEF DiedWith, ArchivedWith
    <2>2. seat' = Reseat(p, returned)
      BY <1>1 DEF Register
    <2> HIDE DEF returned
    <2>3. ReseatIn(Groups, p, returned)
      BY <2>2 DEF ReseatIn
    <2>4. Returnable(p, returned)
      BY <2>1 DEF Returnable
    <2>5. QED BY <2>3, <2>4, ReseatHolders
  <1>2. ASSUME NEW dead, NEW seats, Bury(dead, seats) PROVE AliasHeldOnce'
    <2>1. ASSUME NEW g \in Groups, NEW q \in Peers, NEW a \in Aliases, Holds(seat'[g][q], a)
          PROVE  Holds(seat[g][q], a)
      <3>1. seat[g][q] \in Row /\ now \in Time
        BY DEF TypeOK
      <3>2. QED BY <1>2, <2>1, <3>1, RowOperatorsAgree DEF Bury, Holds
    <2>2. QED BY <2>1, FewerHolders
  <1>3. ASSUME NEW p \in Peers, FinishArchive(p) PROVE AliasHeldOnce'
    <2>1. ASSUME NEW g \in Groups, NEW q \in Peers, NEW a \in Aliases, Holds(seat'[g][q], a)
          PROVE  Holds(seat[g][q], a)
      BY <1>3, <1>a, <2>1, RowOperatorsAgree DEF FinishArchive, Holds, DeliveryBitAgrees
    <2>2. QED BY <2>1, FewerHolders
  <1>4. ASSUME NEW h \in Groups, NEW p \in Peers, NEW b \in Aliases, Join(h, p, b)
        PROVE  AliasHeldOnce'
    <2>1. ASSUME NEW g \in Groups, NEW q \in Peers \ {p}, NEW a \in Aliases,
                 Holds(seat'[g][q], a)
          PROVE  seat'[g][q] = seat[g][q] /\ (g = h => q \notin TakenOver(h, p, b))
      <3>1. seat[g][q] \in Row /\ now \in Time
        BY DEF TypeOK
      <3>2. CASE g # h
        BY <1>4, <3>2 DEF Join, TypeOK
      <3>3. CASE g = h /\ q \in TakenOver(h, p, b)
        <4>1. seat'[g][q] = Vacated(seat[g][q], now)
          BY <1>4, <3>3 DEF Join, TypeOK
        <4>2. QED BY <2>1, <3>1, <4>1, RowOperatorsAgree DEF Holds
      <3>4. CASE g = h /\ q \notin TakenOver(h, p, b)
        BY <1>4, <3>4 DEF Join, TypeOK
      <3>5. QED BY <3>2, <3>3, <3>4
    <2>2. ASSUME NEW g \in Groups, NEW q \in Peers \ {p}, NEW a \in Aliases,
                 Holds(seat'[g][p], a), Holds(seat'[g][q], a)
          PROVE  FALSE
      <3>1. Holds(seat[g][q], a) /\ (g = h => q \notin TakenOver(h, p, b))
        BY <2>1, <2>2
      <3>2. CASE g # h
        BY <1>4, <2>2, <3>1, <3>2 DEF Join, TypeOK, AliasHeldOnce
      <3>3. CASE g = h
        <4> DEFINE newRow == [state |-> "active", active |-> TRUE, alias |-> b, leftAt |-> None]
        <4>a. newRow.alias = b
          OBVIOUS
        <4>b. seat' = [seat EXCEPT ![h] = [o \in Peers |->
                         CASE o = p                     -> newRow
                           [] o \in TakenOver(h, p, b) -> Vacated(seat[h][o], now)
                           [] OTHER                     -> seat[h][o]]]
          BY <1>4 DEF Join
        <4> HIDE DEF newRow
        <4>c. seat'[h][p] = newRow
          BY <4>b DEF TypeOK, TakenOver
        <4>1. seat'[h][p].alias = b
          BY <4>a, <4>c
        <4>2. Holds(seat[h][q], b)
          BY <2>2, <3>1, <3>3, <4>1 DEF Holds
        <4>3. QED BY <1>4, <3>1, <3>3, <4>2 DEF Join
      <3>4. QED BY <3>2, <3>3
    <2>3. QED BY <2>1, <2>2, OneMoreHolder
  <1>5. ASSUME NEW h \in Groups, NEW p \in Peers, NEW b \in Aliases, Rename(h, p, b)
        PROVE  AliasHeldOnce'
    <2>1. ASSUME NEW g \in Groups, NEW q \in Peers, <<g, q>> # <<h, p>>
          PROVE  seat'[g][q] = seat[g][q]
      BY <1>5, <2>1 DEF Rename, TypeOK
    <2>2. seat'[h][p].alias = b
      BY <1>5, <1>a DEF Rename, TypeOK, Row
    <2>3. ASSUME NEW g \in Groups, NEW q \in Peers \ {p}, NEW a \in Aliases,
                 Holds(seat'[g][p], a), Holds(seat'[g][q], a)
          PROVE  FALSE
      <3>1. CASE g # h
        BY <2>1, <2>3, <3>1 DEF AliasHeldOnce
      <3>2. CASE g = h
        BY <1>5, <2>1, <2>2, <2>3, <3>2 DEF Rename, Unclaimed, Holds
      <3>3. QED BY <3>1, <3>2
    <2>4. QED BY <2>1, <2>3, OneMoreHolder
  <1>6. ASSUME NEW h \in Groups, NEW p \in Peers, Leave(h, p) PROVE AliasHeldOnce'
    <2>1. ASSUME NEW g \in Groups, NEW q \in Peers, NEW a \in Aliases, Holds(seat'[g][q], a)
          PROVE  Holds(seat[g][q], a)
      <3>1. CASE g = h /\ q = p
        BY <1>6, <1>a, <2>1, <3>1 DEF Leave, Holds, TypeOK, Row
      <3>2. CASE ~ (g = h /\ q = p)
        BY <1>6, <2>1, <3>2 DEF Leave, TypeOK
      <3>3. QED BY <3>1, <3>2
    <2>2. QED BY <2>1, FewerHolders
  <1>7. CASE Restart
    BY <1>7, RowOperatorsAgree, FewerHolders DEF Restart, Pruned, Holds
  <1>8. ASSUME NEW p \in Peers, CrashInRegister(p) PROVE AliasHeldOnce'
    <2> DEFINE returned == {g \in Groups : DiedWith(g, p)}
    <2>1. \A g \in returned : Unclaimed(g, seat[g][p].alias, p)
      BY DEF DiedWith
    <2>2. CASE seat' = Pruned(seat)
      BY <2>2, RowOperatorsAgree, FewerHolders DEF Pruned, Holds
    <2>3. CASE seat' = Pruned(Reseat(p, returned))
      <3> DEFINE kept == Groups \ Ephemeral
      <3>1. ReseatIn(kept, p, returned)
        BY <2>3 DEF Pruned, ReseatIn
      <3>2. Returnable(p, returned)
        BY <2>1 DEF Returnable
      <3> HIDE DEF returned, kept
      <3>3. QED BY <3>1, <3>2, ReseatHolders
    <2>4. QED BY <1>8, <2>2, <2>3 DEF CrashInRegister
  <1>9. ASSUME UNCHANGED seat PROVE AliasHeldOnce'
    BY <1>9, FewerHolders
  <1>10. QED
    BY <1>1, <1>2, <1>3, <1>4, <1>5, <1>6, <1>7, <1>8, <1>9
       DEF CrashNext, Next, PeerStep, SeatStep, Delete, StopSession, SoftDelete,
           SweepExpired, BeginArchive, Subscribe, DropSubscriber, Tick, vars

LEMMA SubscribersStep ==
  TypeOK /\ SubscribersAreLive /\ [CrashNext]_vars => SubscribersAreLive'
  <1> SUFFICES ASSUME TypeOK, SubscribersAreLive, [CrashNext]_vars PROVE SubscribersAreLive'
    OBVIOUS
  <1>1. ASSUME NEW p \in Peers, Register(p) PROVE SubscribersAreLive'
    BY <1>1 DEF Register, SubscribersAreLive, Live, TypeOK
  <1>2. ASSUME NEW dead \in SUBSET Peers, NEW seats, Bury(dead, seats)
        PROVE  SubscribersAreLive'
    BY <1>2 DEF Bury, SubscribersAreLive, Live, TypeOK
  <1>3. ASSUME NEW p \in Peers, FinishArchive(p) PROVE SubscribersAreLive'
    BY <1>3 DEF FinishArchive, SubscribersAreLive, Live, TypeOK
  <1>4. ASSUME NEW p \in Peers, Subscribe(p) \/ DropSubscriber(p) PROVE SubscribersAreLive'
    <2>1. Live(p) => lifecycle[p] \in {"active", "archived"}
      BY DEF TypeOK
    <2>2. subs' \subseteq subs \/ (subs' = subs \cup {p} /\ Live(p) /\ lifecycle[p] = "active")
      BY <1>4, <2>1 DEF Subscribe, DropSubscriber
    <2>3. UNCHANGED <<known, deletedAt, lifecycle>>
      BY <1>4 DEF Subscribe, DropSubscriber
    <2>4. QED BY <2>2, <2>3 DEF SubscribersAreLive, Live
  <1>5. ASSUME subs' = {} PROVE SubscribersAreLive'
    BY <1>5 DEF SubscribersAreLive
  <1>6. ASSUME UNCHANGED <<subs, known, deletedAt, lifecycle>> PROVE SubscribersAreLive'
    BY <1>6 DEF SubscribersAreLive, Live
  <1>7. QED
    BY <1>1, <1>2, <1>3, <1>4, <1>5, <1>6
       DEF CrashNext, Next, PeerStep, SeatStep, Delete, StopSession, SoftDelete, SweepExpired,
           BeginArchive, Join, Rename, Leave, Restart, Tick, CrashInRegister, vars

CrashInv == TypeOK /\ DeliveryBitAgrees /\ AliasHeldOnce /\ SubscribersAreLive

LEMMA CrashInvInit == Init => CrashInv
  BY TypeInit, RowOperatorsAgree
     DEF Init, CrashInv, DeliveryBitAgrees, AliasHeldOnce, Holds, SubscribersAreLive

LEMMA CrashInvInvariant == CrashSpec => []CrashInv
  <1>1. CrashInv /\ [CrashNext]_vars => CrashInv'
    BY TypeStep, DeliveryBitStep, AliasStep, SubscribersStep DEF CrashInv
  <1>2. QED BY CrashInvInit, <1>1, PTL DEF CrashSpec

\* The delivery bit of a seat is on exactly when its lifecycle state is active,
\* whatever handlers ran and wherever a register crashed: no message goes to a
\* reserved or a vacated seat.
THEOREM DeliveryBitCorrect == CrashSpec => []DeliveryBitAgrees
  <1>1. CrashInv => DeliveryBitAgrees
    BY DEF CrashInv
  <1>2. QED BY CrashInvInvariant, <1>1, PTL

\* No two peers of a group ever hold one alias: what joins, renames, takeovers
\* and re-registrations do between them never meets the unique index.
THEOREM AliasUnique == CrashSpec => []AliasHeldOnce
  <1>1. CrashInv => AliasHeldOnce
    BY DEF CrashInv
  <1>2. QED BY CrashInvInvariant, <1>1, PTL

\* The in-memory subscribers stay within the live, unarchived identities of the
\* database, across deletes, sweeps, archives that await, and restarts.
THEOREM SubscribersLive == CrashSpec => []SubscribersAreLive
  <1>1. CrashInv => SubscribersAreLive
    BY DEF CrashInv
  <1>2. QED BY CrashInvInvariant, <1>1, PTL

-----------------------------------------------------------------------------
(***************************************************************************)
(* What holds as long as no register is cut in two.  That a deleted        *)
(* identity holds no seat and that a reserved seat has a live archived     *)
(* owner need each other: the retention sweep vacates delivering seats     *)
(* only, and an archive may finish after its peer was deleted.             *)
(***************************************************************************)

\* A row of group_members has an owner in peers and an alias.
RowsAreOwned ==
  \A g \in Groups, p \in Peers :
    seat[g][p].state # "none" => p \in known /\ seat[g][p].alias \in Aliases

LEMMA RowsAreOwnedStep ==
  TypeOK /\ DeliveryBitAgrees /\ RowsAreOwned /\ [Next]_vars => RowsAreOwned'
  <1> SUFFICES ASSUME TypeOK, DeliveryBitAgrees, RowsAreOwned, [Next]_vars,
                      NEW g \in Groups, NEW q \in Peers, seat'[g][q].state # "none"
               PROVE  q \in known' /\ seat'[g][q].alias \in Aliases
    BY DEF RowsAreOwned
  <1>a. seat[g][q] \in Row /\ now \in Time
    BY DEF TypeOK
  <1>b. seat[g][q].state # "none" => q \in known /\ seat[g][q].alias \in Aliases
    BY DEF RowsAreOwned
  <1>c. seat[g][q].active => seat[g][q].state # "none"
    BY DEF DeliveryBitAgrees
  <1>d. known \subseteq known'
    BY DEF Next, PeerStep, SeatStep, Register, Delete, StopSession, SoftDelete, SweepExpired, Bury,
           BeginArchive, FinishArchive, Subscribe, DropSubscriber, Join, Rename, Leave, Restart,
           Tick, vars
  <1> DEFINE Goal == q \in known' /\ seat'[g][q].alias \in Aliases
  <1>1. ASSUME NEW p \in Peers, Register(p) PROVE Goal
    <2>1. CASE seat'[g][q] = seat[g][q]
      BY <1>b, <1>d, <2>1
    <2>2. CASE seat'[g][q] # seat[g][q]
      <3>1. q = p /\ seat'[g][q] = Seated(seat[g][q]) /\ (DiedWith(g, q) \/ ArchivedWith(g, q))
        BY <1>1, <2>2 DEF Register, Reseat
      <3>2. seat[g][q].state # "none"
        BY <3>1 DEF DiedWith, ArchivedWith
      <3>3. QED BY <1>a, <1>b, <1>d, <3>1, <3>2, RowOperatorsAgree
    <2>3. QED BY <2>1, <2>2
  <1>2. ASSUME NEW dead \in SUBSET Peers, NEW seats, Bury(dead, seats),
               \A h \in Groups, p \in dead : <<h, p>> \in seats => seat[h][p].state # "none"
        PROVE  Goal
    <2>1. CASE seat'[g][q] = seat[g][q]
      BY <1>b, <1>d, <2>1
    <2>2. CASE seat'[g][q] # seat[g][q]
      <3>1. seat'[g][q] = Vacated(seat[g][q], now) /\ seat[g][q].state # "none"
        BY <1>2, <2>2 DEF Bury
      <3>2. seat'[g][q].alias = seat[g][q].alias
        BY <1>a, <3>1 DEF Vacated, Row
      <3>3. QED BY <1>b, <1>d, <3>1, <3>2
    <2>3. QED BY <2>1, <2>2
  <1>3. ASSUME NEW p \in Peers, FinishArchive(p) PROVE Goal
    <2>1. \/ seat'[g][q] = seat[g][q]
          \/ seat'[g][q] = Reserved(seat[g][q]) /\ seat[g][q].active
      BY <1>3 DEF FinishArchive
    <2>2. QED BY <1>a, <1>b, <1>c, <1>d, <2>1, RowOperatorsAgree
  <1>4. ASSUME NEW h \in Groups, NEW p \in Peers, NEW b \in Aliases, Join(h, p, b) PROVE Goal
    <2> DEFINE newRow == [state |-> "active", active |-> TRUE, alias |-> b, leftAt |-> None]
    <2>1. newRow.alias = b
      OBVIOUS
    <2>2. seat' = [seat EXCEPT ![h] = [o \in Peers |->
                     CASE o = p                     -> newRow
                       [] o \in TakenOver(h, p, b) -> Vacated(seat[h][o], now)
                       [] OTHER                     -> seat[h][o]]]
      BY <1>4 DEF Join
    <2> HIDE DEF newRow
    <2>3. \/ seat'[g][q] = seat[g][q]
          \/ q = p /\ seat'[g][q] = newRow
          \/ seat[g][q].active /\ seat'[g][q] = Vacated(seat[g][q], now)
      BY <2>2 DEF TypeOK, TakenOver
    <2>4. Vacated(seat[g][q], now).alias = seat[g][q].alias
      BY <1>a DEF Vacated, Row
    <2>5. QED BY <1>4, <1>b, <1>c, <1>d, <2>1, <2>3, <2>4 DEF Join, Live
  <1>5. ASSUME NEW h \in Groups, NEW p \in Peers, NEW b \in Aliases, Rename(h, p, b) PROVE Goal
    <2>1. CASE g = h /\ q = p
      <3>1. seat'[g][q].alias = b
        BY <1>5, <1>a, <2>1 DEF Rename, TypeOK, Row
      <3>2. seat[g][q].active
        BY <1>5, <2>1 DEF Rename
      <3>3. QED BY <1>b, <1>c, <1>d, <3>1, <3>2
    <2>2. CASE ~ (g = h /\ q = p)
      <3>1. seat'[g][q] = seat[g][q]
        BY <1>5, <2>2 DEF Rename, TypeOK
      <3>2. QED BY <1>b, <1>d, <3>1
    <2>3. QED BY <2>1, <2>2
  <1>6. ASSUME NEW h \in Groups, NEW p \in Peers, Leave(h, p) PROVE Goal
    <2>1. CASE g = h /\ q = p
      <3>1. seat'[g][q].alias = seat[g][q].alias
        BY <1>6, <1>a, <2>1 DEF Leave, TypeOK, Row
      <3>2. seat[g][q].active
        BY <1>6, <2>1 DEF Leave
      <3>3. QED BY <1>b, <1>c, <1>d, <3>1, <3>2
    <2>2. CASE ~ (g = h /\ q = p)
      <3>1. seat'[g][q] = seat[g][q]
        BY <1>6, <2>2 DEF Leave, TypeOK
      <3>2. QED BY <1>b, <1>d, <3>1
    <2>3. QED BY <2>1, <2>2
  <1>7. CASE Restart
    <2>1. seat'[g][q] = NoRow \/ seat'[g][q] = seat[g][q]
      BY <1>7 DEF Restart, Pruned
    <2>2. QED BY <1>b, <1>d, <2>1, RowOperatorsAgree
  <1>8. ASSUME UNCHANGED seat PROVE Goal
    BY <1>8, <1>b, <1>d
  <1>9. \A p \in Peers : SoftDelete(p) => Goal
    BY <1>2 DEF SoftDelete, Occupied
  <1>10. \A lapsed \in SUBSET (Peers \ WebPeers) : SweepExpired(lapsed) => Goal
    BY <1>2 DEF SweepExpired, Delivering, DeliveryBitAgrees
  <1>11. QED
    BY <1>1, <1>3, <1>4, <1>5, <1>6, <1>7, <1>8, <1>9, <1>10
       DEF Next, PeerStep, SeatStep, Delete, StopSession, BeginArchive, Subscribe,
           DropSubscriber, Tick, vars

SeatInv ==
  /\ TypeOK
  /\ DeliveryBitAgrees
  /\ AliasHeldOnce
  /\ RowsAreOwned
  /\ DeletedHoldsNoSeat
  /\ ReservedSeatIsResumable

\* A deleted identity holds no seat of any kind, and only a live archived
\* identity reserves one.
Tidy ==
  \A g \in Groups, p \in Peers :
    /\ deletedAt[p] # None => <<g, p>> \notin Occupied
    /\ seat[g][p].state = "archived" => Live(p) /\ lifecycle[p] = "archived"

LEMMA TidyStep == SeatInv /\ [Next]_vars => Tidy'
  <1> SUFFICES ASSUME SeatInv, [Next]_vars, NEW g \in Groups, NEW q \in Peers
               PROVE  /\ deletedAt'[q] # None => <<g, q>> \notin Occupied'
                      /\ seat'[g][q].state = "archived" => Live(q)' /\ lifecycle'[q] = "archived"
    BY DEF Tidy
  <1> DEFINE Taken(row) == row.state \in {"active", "archived"}
             Goal == /\ deletedAt'[q] # None => ~ Taken(seat'[g][q])
                     /\ seat'[g][q].state = "archived" =>
                          q \in known' /\ deletedAt'[q] = None /\ lifecycle'[q] = "archived"
  <1>a. /\ TypeOK
        /\ seat[g][q] \in Row /\ now \in Time
        /\ deletedAt[q] # None => ~ Taken(seat[g][q])
        /\ seat[g][q].state = "archived" =>
             q \in known /\ deletedAt[q] = None /\ lifecycle[q] = "archived"
        /\ seat[g][q].active <=> seat[g][q].state = "active"
        /\ seat[g][q].state # "none" => q \in known /\ seat[g][q].alias \in Aliases
    <2>1. TypeOK /\ seat[g][q] \in Row /\ now \in Time
      BY DEF SeatInv, TypeOK
    <2>2. deletedAt[q] # None => ~ Taken(seat[g][q])
      BY DEF SeatInv, DeletedHoldsNoSeat, Occupied
    <2>3. seat[g][q].state = "archived" =>
             q \in known /\ deletedAt[q] = None /\ lifecycle[q] = "archived"
      BY DEF SeatInv, ReservedSeatIsResumable, Live
    <2>4. seat[g][q].active <=> seat[g][q].state = "active"
      BY DEF SeatInv, DeliveryBitAgrees
    <2>5. seat[g][q].state # "none" => q \in known /\ seat[g][q].alias \in Aliases
      BY DEF SeatInv, RowsAreOwned
    <2>6. QED BY <2>1, <2>2, <2>3, <2>4, <2>5
  <1>1. ASSUME NEW p \in Peers, Register(p) PROVE Goal
    <2>1. CASE q # p
      BY <1>1, <1>a, <2>1 DEF Register, Reseat, TypeOK
    <2>2. CASE q = p
      <3>1. deletedAt'[q] = None
        BY <1>1, <1>a, <2>2 DEF Register, TypeOK
      <3>2. CASE seat[g][q].state = "archived"
        <4>1. \A o \in Peers \ {q} : ~ Holds(seat[g][o], seat[g][q].alias)
          BY <1>a, <3>2 DEF SeatInv, AliasHeldOnce, Holds
        <4>2. ArchivedWith(g, q)
          BY <1>a, <3>2, <4>1 DEF ArchivedWith, Unclaimed
        <4>3. seat'[g][q] = Seated(seat[g][q])
          BY <1>1, <2>2, <4>2 DEF Register, Reseat
        <4>4. seat'[g][q].state = "active"
          BY <1>a, <4>3, RowOperatorsAgree
        <4>5. QED BY <3>1, <4>4
      <3>3. CASE seat[g][q].state # "archived"
        <4>1. seat'[g][q] = seat[g][q] \/ seat'[g][q] = Seated(seat[g][q])
          BY <1>1 DEF Register, Reseat
        <4>2. seat'[g][q].state # "archived"
          BY <1>a, <3>3, <4>1, RowOperatorsAgree
        <4>3. QED BY <3>1, <4>2
      <3>4. QED BY <3>2, <3>3
    <2>3. QED BY <2>1, <2>2
  <1>2. ASSUME NEW dead \in SUBSET Peers, NEW seats, Bury(dead, seats),
               q \in dead => (Taken(seat[g][q]) => <<g, q>> \in seats)
        PROVE  Goal
    <2>1. CASE q \in dead /\ <<g, q>> \in seats
      <3>1. seat'[g][q] = Vacated(seat[g][q], now)
        BY <1>2, <2>1 DEF Bury
      <3>2. seat'[g][q].state = "left"
        BY <1>a, <3>1, RowOperatorsAgree
      <3>3. QED BY <3>2
    <2>2. CASE q \in dead /\ <<g, q>> \notin seats
      BY <1>2, <1>a, <2>2 DEF Bury
    <2>3. CASE q \notin dead
      BY <1>2, <1>a, <2>3 DEF Bury
    <2>4. QED BY <2>1, <2>2, <2>3
  <1>3. ASSUME NEW p \in Peers, FinishArchive(p) PROVE Goal
    <2>1. CASE q = p /\ seat[g][q].active
      <3>1. q \in known /\ deletedAt[q] = None
        BY <1>a, <2>1
      <3>2. QED BY <1>3, <1>a, <2>1, <3>1 DEF FinishArchive, Live, TypeOK
    <2>2. CASE ~ (q = p /\ seat[g][q].active)
      BY <1>3, <1>a, <2>2 DEF FinishArchive, TypeOK
    <2>3. QED BY <2>1, <2>2
  <1>4. ASSUME NEW h \in Groups, NEW p \in Peers, NEW b \in Aliases, Join(h, p, b) PROVE Goal
    <2> DEFINE newRow == [state |-> "active", active |-> TRUE, alias |-> b, leftAt |-> None]
    <2>1. newRow.state = "active"
      OBVIOUS
    <2>2. seat' = [seat EXCEPT ![h] = [o \in Peers |->
                     CASE o = p                     -> newRow
                       [] o \in TakenOver(h, p, b) -> Vacated(seat[h][o], now)
                       [] OTHER                     -> seat[h][o]]]
      BY <1>4 DEF Join
    <2> HIDE DEF newRow
    <2>3. \/ seat'[g][q] = seat[g][q]
          \/ q = p /\ seat'[g][q] = newRow
          \/ seat'[g][q] = Vacated(seat[g][q], now)
      BY <1>a, <2>2 DEF TypeOK, TakenOver
    <2>4. Vacated(seat[g][q], now).state = "left"
      BY <1>a, RowOperatorsAgree
    <2>5. Live(p) /\ UNCHANGED <<known, deletedAt, lifecycle>>
      BY <1>4 DEF Join
    <2>6. QED BY <1>a, <2>1, <2>3, <2>4, <2>5 DEF Live
  <1>5. ASSUME NEW h \in Groups, NEW p \in Peers, NEW b \in Aliases, Rename(h, p, b) PROVE Goal
    <2>1. seat'[g][q].state = seat[g][q].state
      BY <1>5, <1>a DEF Rename, TypeOK, Row
    <2>2. QED BY <1>5, <1>a, <2>1 DEF Rename
  <1>6. ASSUME NEW h \in Groups, NEW p \in Peers, Leave(h, p) PROVE Goal
    <2>1. seat'[g][q] = seat[g][q] \/ seat'[g][q].state = "left"
      BY <1>6, <1>a DEF Leave, TypeOK, Row
    <2>2. QED BY <1>6, <1>a, <2>1 DEF Leave
  <1>7. ASSUME Restart PROVE Goal
    <2>1. seat'[g][q] = NoRow \/ seat'[g][q] = seat[g][q]
      BY <1>7 DEF Restart, Pruned
    <2>2. QED BY <1>7, <1>a, <2>1, RowOperatorsAgree DEF Restart
  <1>8. ASSUME UNCHANGED <<known, deletedAt, lifecycle, seat>> PROVE Goal
    BY <1>8, <1>a
  <1>9. \A p \in Peers : SoftDelete(p) => Goal
    BY <1>2 DEF SoftDelete, Occupied
  <1>10. \A lapsed \in SUBSET (Peers \ WebPeers) : SweepExpired(lapsed) => Goal
    <2> SUFFICES ASSUME NEW lapsed \in SUBSET (Peers \ WebPeers), SweepExpired(lapsed)
                 PROVE  Goal
      OBVIOUS
    <2>1. q \in lapsed => (Taken(seat[g][q]) => <<g, q>> \in Delivering)
      BY <1>a DEF SweepExpired, Delivering
    <2>2. QED BY <1>2, <2>1 DEF SweepExpired
  <1>11. Goal
    BY <1>1, <1>3, <1>4, <1>5, <1>6, <1>7, <1>8, <1>9, <1>10
       DEF Next, PeerStep, SeatStep, Delete, StopSession, BeginArchive, Subscribe,
           DropSubscriber, Tick, vars
  <1>12. QED BY <1>11 DEF Occupied, Live

LEMMA SeatInvInvariant == Spec => []SeatInv
  <1>1. Init => SeatInv
    BY TypeInit, RowOperatorsAgree
       DEF Init, SeatInv, DeliveryBitAgrees, AliasHeldOnce, Holds, RowsAreOwned,
           DeletedHoldsNoSeat, ReservedSeatIsResumable
  <1>2. [Next]_vars => [CrashNext]_vars
    BY DEF CrashNext
  <1>3. SeatInv /\ [Next]_vars => SeatInv'
    BY <1>2, TypeStep, DeliveryBitStep, AliasStep, RowsAreOwnedStep, TidyStep
       DEF SeatInv, Tidy, DeletedHoldsNoSeat, ReservedSeatIsResumable
  <1>4. QED BY <1>1, <1>3, PTL DEF Spec

\* While registers are not cut in two, a deleted identity neither occupies nor
\* reserves an alias, although the retention sweep vacates delivering seats
\* only and an archive may finish after its peer was deleted.
THEOREM DeletedIsSeatless == Spec => []DeletedHoldsNoSeat
  <1>1. SeatInv => DeletedHoldsNoSeat
    BY DEF SeatInv
  <1>2. QED BY SeatInvInvariant, <1>1, PTL

\* Every reserved seat has a live archived owner, so that "resume or delete it
\* to free the seat" is always possible.
THEOREM ReservedIsResumable == Spec => []ReservedSeatIsResumable
  <1>1. SeatInv => ReservedSeatIsResumable
    BY DEF SeatInv
  <1>2. QED BY SeatInvInvariant, <1>1, PTL

-----------------------------------------------------------------------------
(***************************************************************************)
(* Death and revival, as properties of steps.  They rest on what a death   *)
(* leaves in the rows: a seat that is held has no left_at, so the seats    *)
(* that a death vacates carry the very time of the death, and nothing      *)
(* changes a dead peer's seat but a pruned group.                          *)
(***************************************************************************)
HeldIsNotLeft ==
  \A g \in Groups, p \in Peers :
    seat[g][p].state \in {"active", "archived"} => seat[g][p].leftAt = None

DeathIsStamped ==
  \A p \in Peers : deletedAt[p] # None =>
    \A g \in diedIn[p] : seat[g][p].state = "left" /\ seat[g][p].leftAt = deletedAt[p]

\* What becomes of the seat of a peer in a step: what the invariants and the
\* properties of this section have to know of it.
SeatMoves(g, q) ==
  \/ seat'[g][q] = seat[g][q]
  \/ /\ seat'[g][q].state = "active" /\ seat'[g][q].leftAt = None
     /\ Live(q) \/ deletedAt'[q] = None
  \/ /\ seat[g][q].active
     /\ seat'[g][q].state \in {"active", "archived"} /\ seat'[g][q].leftAt = seat[g][q].leftAt
  \/ seat[g][q].active /\ seat'[g][q].state = "left" /\ deletedAt[q] = None
  \/ seat[g][q].state \in {"active", "archived"} /\ seat'[g][q].state = "left" /\ deletedAt'[q] # None
  \/ seat'[g][q] = NoRow /\ g \in Ephemeral /\ subs' = {} /\ g \notin diedIn'[q]

LEMMA RowTimes ==
  \A row \in Row :
    /\ Seated(row).leftAt = None /\ Reserved(row).leftAt = row.leftAt
    /\ \A t \in Time : row.leftAt = None => Vacated(row, t).leftAt = t
  BY DEF Seated, Reserved, Vacated, Row

LEMMA SeatMovesStep ==
  ASSUME SeatInv, [Next]_vars, NEW g \in Groups, NEW q \in Peers
  PROVE  SeatMoves(g, q)
  <1>a. /\ TypeOK /\ seat[g][q] \in Row /\ now \in Time
        /\ seat[g][q].active <=> seat[g][q].state = "active"
    BY DEF SeatInv, TypeOK, DeliveryBitAgrees
  <1>b. seat[g][q].active => deletedAt[q] = None
    BY <1>a DEF SeatInv, DeletedHoldsNoSeat, Occupied
  <1>1. ASSUME NEW p \in Peers, Register(p) PROVE SeatMoves(g, q)
    <2>1. \/ seat'[g][q] = seat[g][q]
          \/ q = p /\ seat'[g][q] = Seated(seat[g][q])
      BY <1>1 DEF Register, Reseat
    <2>2. deletedAt'[p] = None
      BY <1>1, <1>a DEF Register, TypeOK
    <2>3. QED BY <1>a, <2>1, <2>2, RowOperatorsAgree, RowTimes DEF SeatMoves
  <1>2. ASSUME NEW dead \in SUBSET Peers, NEW seats, Bury(dead, seats),
               \A h \in Groups, p \in dead :
                 <<h, p>> \in seats => seat[h][p].state \in {"active", "archived"}
        PROVE  SeatMoves(g, q)
    <2>1. \/ seat'[g][q] = seat[g][q]
          \/ q \in dead /\ <<g, q>> \in seats /\ seat'[g][q] = Vacated(seat[g][q], now)
      BY <1>2 DEF Bury
    <2>2. q \in dead => deletedAt'[q] # None
      BY <1>2, <1>a DEF Bury, Time
    <2>3. QED BY <1>2, <1>a, <2>1, <2>2, RowOperatorsAgree DEF SeatMoves
  <1>3. ASSUME NEW p \in Peers, FinishArchive(p) PROVE SeatMoves(g, q)
    <2>1. \/ seat'[g][q] = seat[g][q]
          \/ seat[g][q].active /\ seat'[g][q] = Reserved(seat[g][q])
      BY <1>3 DEF FinishArchive
    <2>2. QED BY <1>a, <2>1, RowOperatorsAgree, RowTimes DEF SeatMoves
  <1>4. ASSUME NEW h \in Groups, NEW p \in Peers, NEW b \in Aliases, Join(h, p, b)
        PROVE  SeatMoves(g, q)
    <2> DEFINE newRow == [state |-> "active", active |-> TRUE, alias |-> b, leftAt |-> None]
    <2>1. newRow.state = "active" /\ newRow.leftAt = None
      OBVIOUS
    <2>2. seat' = [seat EXCEPT ![h] = [o \in Peers |->
                     CASE o = p                     -> newRow
                       [] o \in TakenOver(h, p, b) -> Vacated(seat[h][o], now)
                       [] OTHER                     -> seat[h][o]]]
      BY <1>4 DEF Join
    <2> HIDE DEF newRow
    <2>3. \/ seat'[g][q] = seat[g][q]
          \/ q = p /\ seat'[g][q] = newRow
          \/ seat[g][q].active /\ seat'[g][q] = Vacated(seat[g][q], now)
      BY <1>a, <2>2 DEF TypeOK, TakenOver
    <2>4. Live(p)
      BY <1>4 DEF Join
    <2>5. QED BY <1>a, <1>b, <2>1, <2>3, <2>4, RowOperatorsAgree DEF SeatMoves
  <1>5. ASSUME NEW h \in Groups, NEW p \in Peers, NEW b \in Aliases, Rename(h, p, b)
        PROVE  SeatMoves(g, q)
    <2>1. CASE g = h /\ q = p
      <3>1. seat[g][q].active /\ UNCHANGED deletedAt
        BY <1>5, <2>1 DEF Rename
      <3>2. seat'[g][q].state = seat[g][q].state /\ seat'[g][q].leftAt = seat[g][q].leftAt
        BY <1>5, <1>a, <2>1 DEF Rename, TypeOK, Row
      <3>3. QED BY <1>a, <1>b, <3>1, <3>2 DEF SeatMoves
    <2>2. CASE ~ (g = h /\ q = p)
      BY <1>5, <1>a, <2>2 DEF Rename, TypeOK, SeatMoves
    <2>3. QED BY <2>1, <2>2
  <1>6. ASSUME NEW h \in Groups, NEW p \in Peers, Leave(h, p) PROVE SeatMoves(g, q)
    <2>1. \/ seat'[g][q] = seat[g][q]
          \/ seat[g][q].active /\ seat'[g][q].state = "left"
      BY <1>6, <1>a DEF Leave, TypeOK, Row
    <2>2. QED BY <1>b, <2>1 DEF SeatMoves
  <1>7. CASE Restart
    <2>1. (seat'[g][q] = NoRow /\ g \in Ephemeral) \/ seat'[g][q] = seat[g][q]
      BY <1>7 DEF Restart, Pruned
    <2>2. subs' = {} /\ (g \in Ephemeral => g \notin diedIn'[q])
      BY <1>7 DEF Restart
    <2>3. QED BY <2>1, <2>2 DEF SeatMoves
  <1>8. ASSUME UNCHANGED seat PROVE SeatMoves(g, q)
    BY <1>8 DEF SeatMoves
  <1>9. \A p \in Peers : SoftDelete(p) => SeatMoves(g, q)
    BY <1>2 DEF SoftDelete, Occupied
  <1>10. \A lapsed \in SUBSET (Peers \ WebPeers) : SweepExpired(lapsed) => SeatMoves(g, q)
    <2> SUFFICES ASSUME NEW lapsed \in SUBSET (Peers \ WebPeers), SweepExpired(lapsed)
                 PROVE  SeatMoves(g, q)
      OBVIOUS
    <2>1. \A h \in Groups, p \in lapsed : <<h, p>> \in Delivering => seat[h][p].state = "active"
      BY DEF Delivering, SeatInv, DeliveryBitAgrees
    <2>2. QED BY <1>2, <2>1 DEF SweepExpired
  <1>11. QED
    BY <1>1, <1>3, <1>4, <1>5, <1>6, <1>7, <1>8, <1>9, <1>10
       DEF Next, PeerStep, SeatStep, Delete, StopSession, BeginArchive, Subscribe,
           DropSubscriber, Tick, vars

\* A reserved seat ends with its owner: nobody else's join, rename, leave, takeover
\* or sweep ends it.
THEOREM ReservationsEndWithOwners == Spec => ReservationEndsWithOwner
  <1> DEFINE A == \A g \in Groups, p \in Peers :
       seat[g][p].state = "archived" =>
         \/ seat'[g][p] = seat[g][p]
         \/ seat'[g][p].state = "active"
         \/ deletedAt'[p] # None
         \/ g \in Ephemeral /\ subs' = {}
  <1>1. SeatInv /\ [Next]_vars => A
    <2> SUFFICES ASSUME SeatInv, [Next]_vars, NEW g \in Groups, NEW p \in Peers,
                        seat[g][p].state = "archived"
                 PROVE  \/ seat'[g][p] = seat[g][p]
                        \/ seat'[g][p].state = "active"
                        \/ deletedAt'[p] # None
                        \/ g \in Ephemeral /\ subs' = {}
      OBVIOUS
    <2>1. SeatMoves(g, p) /\ ~ seat[g][p].active
      BY SeatMovesStep DEF SeatInv, DeliveryBitAgrees
    <2>2. QED BY <2>1 DEF SeatMoves
  <1>2. SeatInv /\ [Next]_vars => [A]_vars
    BY <1>1
  <1>3. QED BY <1>2, SeatInvInvariant, PTL DEF Spec, ReservationEndsWithOwner

LEMMA HeldIsNotLeftStep ==
  ASSUME SeatInv, HeldIsNotLeft, [Next]_vars
  PROVE  HeldIsNotLeft'
  <1> SUFFICES ASSUME NEW g \in Groups, NEW p \in Peers, seat'[g][p].state \in {"active", "archived"}
               PROVE  seat'[g][p].leftAt = None
    BY DEF HeldIsNotLeft
  <1>1. SeatMoves(g, p)
    BY SeatMovesStep
  <1>2. seat[g][p].state \in {"active", "archived"} => seat[g][p].leftAt = None
    BY DEF HeldIsNotLeft
  <1>3. seat[g][p].active => seat[g][p].state = "active"
    BY DEF SeatInv, DeliveryBitAgrees
  <1>4. QED BY <1>1, <1>2, <1>3, RowOperatorsAgree DEF SeatMoves

\* What a step does to a peer's death: it stays, or a register ends it, or the
\* peer dies now and leaves the seats it holds.
DeathMoves(p) ==
  \/ deletedAt'[p] = deletedAt[p] /\ diedIn'[p] \subseteq diedIn[p]
  \/ deletedAt'[p] = None /\ Register(p)
  \/ /\ diedIn'[p] = {g \in Groups : <<g, p>> \in Occupied}
     /\ deletedAt'[p] = now
     /\ \A g \in diedIn'[p] : seat'[g][p] = Vacated(seat[g][p], now)

LEMMA DeathMovesStep ==
  ASSUME SeatInv, [Next]_vars, NEW p \in Peers
  PROVE  DeathMoves(p)
  <1>a. TypeOK
    BY DEF SeatInv
  <1>1. ASSUME NEW o \in Peers, Register(o) PROVE DeathMoves(p)
    <2>1. /\ deletedAt'[p] = IF p = o THEN None ELSE deletedAt[p]
          /\ diedIn'[p] = IF p = o THEN {} ELSE diedIn[p]
      BY <1>1, <1>a DEF Register, TypeOK
    <2>2. CASE p = o
      BY <1>1, <2>1, <2>2 DEF DeathMoves
    <2>3. CASE p # o
      BY <2>1, <2>3 DEF DeathMoves
    <2>4. QED BY <2>2, <2>3
  <1>2. ASSUME NEW dead \in SUBSET Peers, NEW seats, Bury(dead, seats),
               \A h \in Groups, o \in dead : <<h, o>> \in Occupied => <<h, o>> \in seats
        PROVE  DeathMoves(p)
    <2>1. CASE p \notin dead
      BY <1>2, <1>a, <2>1 DEF Bury, TypeOK, DeathMoves
    <2>2. CASE p \in dead
      <3>1. diedIn'[p] = {g \in Groups : <<g, p>> \in Occupied} /\ deletedAt'[p] = now
        BY <1>2, <2>2 DEF Bury
      <3>2. ASSUME NEW g \in diedIn'[p] PROVE seat'[g][p] = Vacated(seat[g][p], now)
        <4>1. g \in Groups /\ <<g, p>> \in seats
          BY <1>2, <2>2, <3>1
        <4>2. QED BY <1>2, <2>2, <4>1 DEF Bury
      <3>3. QED BY <3>1, <3>2 DEF DeathMoves
    <2>3. QED BY <2>1, <2>2
  <1>3. ASSUME UNCHANGED <<deletedAt, diedIn>> PROVE DeathMoves(p)
    BY <1>3 DEF DeathMoves
  <1>4. CASE Restart
    BY <1>4 DEF Restart, DeathMoves
  <1>5. \A o \in Peers : SoftDelete(o) => DeathMoves(p)
    BY <1>2 DEF SoftDelete
  <1>6. \A lapsed \in SUBSET (Peers \ WebPeers) : SweepExpired(lapsed) => DeathMoves(p)
    <2> SUFFICES ASSUME NEW lapsed \in SUBSET (Peers \ WebPeers), SweepExpired(lapsed)
                 PROVE  DeathMoves(p)
      OBVIOUS
    <2>1. ASSUME NEW h \in Groups, NEW o \in lapsed, <<h, o>> \in Occupied
          PROVE  <<h, o>> \in Delivering
      <3>1. seat[h][o].state \in {"active", "archived"} /\ lifecycle[o] # "archived" /\ o \in Peers
        BY <2>1 DEF SweepExpired, Occupied
      <3>2. seat[h][o].active
        BY <3>1 DEF SeatInv, ReservedSeatIsResumable, DeliveryBitAgrees
      <3>3. QED BY <3>1, <3>2 DEF Delivering
    <2>2. QED BY <1>2, <2>1 DEF SweepExpired
  <1>7. QED
    BY <1>1, <1>3, <1>4, <1>5, <1>6
       DEF Next, PeerStep, SeatStep, Delete, StopSession, BeginArchive, FinishArchive, Subscribe,
           DropSubscriber, Join, Rename, Leave, Tick, vars

LEMMA DeathIsStampedStep ==
  ASSUME SeatInv, HeldIsNotLeft, DeathIsStamped, [Next]_vars
  PROVE  DeathIsStamped'
  <1> SUFFICES ASSUME NEW p \in Peers, deletedAt'[p] # None, NEW g \in diedIn'[p]
               PROVE  seat'[g][p].state = "left" /\ seat'[g][p].leftAt = deletedAt'[p]
    BY DEF DeathIsStamped
  <1>1. DeathMoves(p)
    BY DeathMovesStep
  <1>2. g \in Groups
    <2>1. TypeOK'
      BY TypeStep DEF SeatInv, CrashNext
    <2>2. QED BY <2>1 DEF TypeOK
  <1>3. SeatMoves(g, p)
    BY <1>2, SeatMovesStep
  <1>4. CASE deletedAt'[p] = deletedAt[p] /\ diedIn'[p] \subseteq diedIn[p]
    <2>1. seat[g][p].state = "left" /\ seat[g][p].leftAt = deletedAt[p] /\ ~ seat[g][p].active
      BY <1>2, <1>4 DEF DeathIsStamped, SeatInv, DeliveryBitAgrees
    <2>2. ~ Live(p)
      BY <1>4 DEF Live
    <2>3. seat'[g][p] = seat[g][p]
      BY <1>3, <1>4, <2>1, <2>2 DEF SeatMoves
    <2>4. QED BY <1>4, <2>1, <2>3
  <1>5. CASE /\ diedIn'[p] = {h \in Groups : <<h, p>> \in Occupied}
             /\ deletedAt'[p] = now
             /\ \A h \in diedIn'[p] : seat'[h][p] = Vacated(seat[h][p], now)
    <2>1. seat[g][p] \in Row /\ now \in Time
      BY <1>2 DEF SeatInv, TypeOK
    <2>2. seat[g][p].leftAt = None
      BY <1>2, <1>5 DEF Occupied, HeldIsNotLeft
    <2>3. Vacated(seat[g][p], now).state = "left" /\ Vacated(seat[g][p], now).leftAt = now
      BY <2>1, <2>2, RowOperatorsAgree, RowTimes
    <2>4. QED BY <1>5, <2>3
  <1>6. QED BY <1>1, <1>4, <1>5 DEF DeathMoves

DeathInv == SeatInv /\ HeldIsNotLeft /\ DeathIsStamped

LEMMA DeathInvInvariant == Spec => []DeathInv
  <1>1. Init => HeldIsNotLeft /\ DeathIsStamped
    BY DEF Init, HeldIsNotLeft, DeathIsStamped, NoRow
  <1>2. SeatInv /\ HeldIsNotLeft /\ DeathIsStamped /\ [Next]_vars => HeldIsNotLeft' /\ DeathIsStamped'
    BY HeldIsNotLeftStep, DeathIsStampedStep
  <1>3. QED BY <1>1, <1>2, SeatInvInvariant, PTL DEF Spec, DeathInv

\* A peer whose death ends registers again.
LEMMA RevivedRegisters ==
  ASSUME SeatInv, [Next]_vars, NEW p \in Peers, Revived(p)
  PROVE  Register(p) /\ deletedAt[p] # None
  <1>1. DeathMoves(p) /\ deletedAt[p] # None /\ deletedAt'[p] = None
    BY DeathMovesStep DEF Revived
  <1>2. now # None
    BY DEF SeatInv, TypeOK, Time
  <1>3. QED BY <1>1, <1>2 DEF DeathMoves

\* Who registers again after it was deleted or swept is given back every seat that it
\* held when it died and whose alias nobody took, although other peers joined, left,
\* were archived and died meanwhile.
THEOREM RevivalRestores == Spec => RevivalRestoresSeats
  <1> DEFINE A == \A p \in Peers : Revived(p) =>
       \A g \in diedIn[p] :
         Unclaimed(g, seat[g][p].alias, p) =>
           seat'[g][p].active /\ seat'[g][p].alias = seat[g][p].alias
  <1>1. DeathInv /\ [Next]_vars => A
    <2> SUFFICES ASSUME DeathInv, [Next]_vars, NEW p \in Peers, Revived(p), NEW g \in diedIn[p],
                        Unclaimed(g, seat[g][p].alias, p)
                 PROVE  seat'[g][p].active /\ seat'[g][p].alias = seat[g][p].alias
      OBVIOUS
    <2>1. SeatInv /\ DeathIsStamped
      BY DEF DeathInv
    <2>2. Register(p) /\ deletedAt[p] # None
      BY <2>1, RevivedRegisters
    <2>3. g \in Groups /\ seat[g][p] \in Row
      BY <2>1 DEF SeatInv, TypeOK
    <2>4. seat[g][p].state = "left" /\ seat[g][p].leftAt = deletedAt[p] /\ ~ seat[g][p].active
      BY <2>1, <2>2, <2>3 DEF DeathIsStamped, SeatInv, DeliveryBitAgrees
    <2>5. DiedWith(g, p)
      BY <2>2, <2>4 DEF DiedWith
    <2>6. seat'[g][p] = Seated(seat[g][p])
      BY <2>2, <2>3, <2>5 DEF Register, Reseat
    <2>7. QED BY <2>3, <2>6, RowOperatorsAgree
  <1>2. DeathInv /\ [Next]_vars => [A]_vars
    BY <1>1
  <1>3. QED BY <1>2, DeathInvInvariant, PTL DEF Spec, RevivalRestoresSeats

\* It is given back no seat that it left in another millisecond than it died in: a
\* seat it still reserves cannot be there, and one it left carries the time.
THEOREM EarlierLeavesStay == Spec => EarlierLeaveStaysLeft
  <1> DEFINE A == \A p \in Peers : Revived(p) =>
       \A g \in Groups \ diedIn[p] :
         seat'[g][p].active => seat[g][p].leftAt = deletedAt[p]
  <1>1. SeatInv /\ [Next]_vars => A
    <2> SUFFICES ASSUME SeatInv, [Next]_vars, NEW p \in Peers, Revived(p), NEW g \in Groups,
                        seat'[g][p].active
                 PROVE  seat[g][p].leftAt = deletedAt[p]
      OBVIOUS
    <2>1. Register(p) /\ deletedAt[p] # None
      BY RevivedRegisters
    <2>2. ~ seat[g][p].active /\ seat[g][p].state # "archived"
      BY <2>1 DEF SeatInv, DeletedHoldsNoSeat, DeliveryBitAgrees, Occupied
    <2>3. seat'[g][p] # seat[g][p]
      BY <2>2
    <2>4. DiedWith(g, p)
      BY <2>1, <2>2, <2>3 DEF Register, Reseat, ArchivedWith
    <2>5. QED BY <2>4 DEF DiedWith
  <1>2. SeatInv /\ [Next]_vars => [A]_vars
    BY <1>1
  <1>3. QED BY <1>2, SeatInvInvariant, PTL DEF Spec, EarlierLeaveStaysLeft

-----------------------------------------------------------------------------
(***************************************************************************)
(* The ledger of aliases: each handler serves one peer, and moves aliases  *)
(* only as AliasLedger lets a step do it.                                  *)
(***************************************************************************)

\* While aliases are held once, the holder of one is its owner in the ledger.
LEMMA OwnerHolds ==
  ASSUME AliasHeldOnce, NEW g \in Groups, NEW a \in Aliases
  PROVE  /\ \A p \in Peers : Holds(seat[g][p], a) <=> SeatOwner(g, a) = p
         /\ SeatOwner(g, a) = None <=> \A p \in Peers : ~ Holds(seat[g][p], a)
         /\ SeatOwner(g, a) \in Peers \cup {None}
  <1>1. \A p, q \in Peers : Holds(seat[g][p], a) /\ Holds(seat[g][q], a) => p = q
    BY DEF AliasHeldOnce
  <1>2. CASE \E p \in Peers : Holds(seat[g][p], a)
    <2>1. SeatOwner(g, a) \in Peers /\ Holds(seat[g][SeatOwner(g, a)], a)
      BY <1>2 DEF SeatOwner
    <2>2. QED BY <1>1, <2>1
  <1>3. CASE ~ \E p \in Peers : Holds(seat[g][p], a)
    <2>1. SeatOwner(g, a) = None
      BY <1>3 DEF SeatOwner
    <2>2. QED BY <1>3, <2>1
  <1>4. QED BY <1>2, <1>3

LEMMA OwnerHoldsNext ==
  ASSUME AliasHeldOnce', NEW g \in Groups, NEW a \in Aliases
  PROVE  /\ \A p \in Peers : Holds(seat'[g][p], a) <=> SeatOwner(g, a)' = p
         /\ SeatOwner(g, a)' = None <=> \A p \in Peers : ~ Holds(seat'[g][p], a)
         /\ SeatOwner(g, a)' \in Peers \cup {None}
  <1>1. \A p, q \in Peers : Holds(seat'[g][p], a) /\ Holds(seat'[g][q], a) => p = q
    BY DEF AliasHeldOnce
  <1>2. CASE \E p \in Peers : Holds(seat'[g][p], a)
    <2>1. SeatOwner(g, a)' \in Peers /\ Holds(seat'[g][SeatOwner(g, a)'], a)
      BY <1>2 DEF SeatOwner
    <2>2. QED BY <1>1, <2>1
  <1>3. CASE ~ \E p \in Peers : Holds(seat'[g][p], a)
    <2>1. SeatOwner(g, a)' = None
      BY <1>3 DEF SeatOwner
    <2>2. QED BY <1>3, <2>1
  <1>4. QED BY <1>2, <1>3

\* The alias is reserved in the ledger.
SeatReserves(g, a) == \E p \in Peers : seat[g][p].alias = a /\ seat[g][p].state = "archived"

\* What a handler that serves p does to the rows of a group: others keep what they
\* hold or lose it; p reserves only what it held, and takes from others what the
\* local browser peer may.
Serves(p) ==
  \A g \in Groups, a \in Aliases :
    /\ \A q \in Peers \ {p} : Holds(seat'[g][q], a) => seat'[g][q] = seat[g][q]
    /\ seat'[g][p].state = "archived" /\ seat'[g][p].alias = a => Holds(seat[g][p], a)
    /\ \A q \in Peers \ {p} :
         Holds(seat'[g][p], a) /\ Holds(seat[g][q], a) =>
           a = You /\ p = LocalWeb /\ q \in WebPeers /\ seat[g][q].state = "active"

\* What the ledger lets a step that serves p do to an alias.
Moves(g, a, p) ==
  \/ Ledger!Keep(g, a) \/ Ledger!Claim(g, a, p) \/ Ledger!Release(g, a) \/ Ledger!Reserve(g, a)
  \/ Ledger!Resume(g, a, p) \/ Ledger!TakeOver(g, a, p)

LEMMA ServedMoves ==
  ASSUME AliasHeldOnce, AliasHeldOnce', NEW p \in Peers, Serves(p), NEW g \in Groups, NEW a \in Aliases
  PROVE  Moves(g, a, p)
  <1> DEFINE was == SeatOwner(g, a)
             is  == SeatOwner(g, a)'
             reservedNow  == SeatReserves(g, a)
             reservedNext == SeatReserves(g, a)'
  <1>1. /\ \A q \in Peers : Holds(seat[g][q], a) <=> was = q
        /\ was = None <=> \A q \in Peers : ~ Holds(seat[g][q], a)
        /\ was \in Peers \cup {None}
    BY OwnerHolds
  <1>2. /\ \A q \in Peers : Holds(seat'[g][q], a) <=> is = q
        /\ is = None <=> \A q \in Peers : ~ Holds(seat'[g][q], a)
        /\ is \in Peers \cup {None}
    BY OwnerHoldsNext
  <1>3. reservedNow <=> \E q \in Peers : was = q /\ seat[g][q].state = "archived"
    BY <1>1 DEF SeatReserves, Holds
  <1>4. reservedNext <=> \E q \in Peers : is = q /\ seat'[g][q].state = "archived"
    BY <1>2 DEF SeatReserves, Holds
  <1>5. /\ \A q \in Peers \ {p} : is = q => seat'[g][q] = seat[g][q]
        /\ is = p /\ seat'[g][p].state = "archived" => was = p
        /\ \A q \in Peers \ {p} :
             is = p /\ was = q => a = You /\ p = LocalWeb /\ q \in WebPeers /\ seat[g][q].state = "active"
    BY <1>1, <1>2 DEF Serves, Holds
  <1>6. \A q \in Peers \ {p} : is = q => was = q
    BY <1>1, <1>2, <1>5
  <1> HIDE DEF was, is, reservedNow, reservedNext
  <1>7. \/ is = was /\ (reservedNext <=> reservedNow)
        \/ was = None /\ is = p /\ ~ reservedNext
        \/ is = None /\ ~ reservedNext
        \/ was # None /\ is = was /\ reservedNext
        \/ was = p /\ is = p /\ ~ reservedNext
        \/ a = You /\ p = LocalWeb /\ was \in WebPeers /\ ~ reservedNow /\ is = p /\ ~ reservedNext
    <2>1. CASE is = None
      BY <1>4, <2>1
    <2>2. CASE is \in Peers \ {p}
      BY <1>3, <1>4, <1>5, <1>6, <2>2
    <2>3. CASE is = p
      BY <1>1, <1>3, <1>4, <1>5, <2>3
    <2>4. QED BY <1>2, <2>1, <2>2, <2>3
  <1>8. QED
    BY <1>7 DEF was, is, reservedNow, reservedNext, SeatReserves, Moves, Ledger!Keep, Ledger!Claim, Ledger!Release,
                Ledger!Reserve, Ledger!Resume, Ledger!TakeOver

\* Each handler serves a peer: rows change hands in one way only, the local browser
\* peer's join.
LEMMA StepServes ==
  ASSUME CrashInv, [CrashNext]_vars, Peers # {}
  PROVE  \E p \in Peers : Serves(p)
  <1>a. TypeOK /\ DeliveryBitAgrees /\ AliasHeldOnce
        /\ \A g \in Groups, q \in Peers : seat[g][q] \in Row /\ now \in Time
    BY DEF CrashInv, TypeOK
  <1>b. ~ (NoRow.state \in {"active", "archived"})
    BY RowOperatorsAgree
  <1>c. ASSUME NEW g \in Groups, NEW a \in Aliases, NEW p \in Peers, NEW q \in Peers \ {p},
               Holds(seat[g][p], a), Holds(seat[g][q], a)
        PROVE  FALSE
    BY <1>a, <1>c DEF AliasHeldOnce
  \* Rows that only lose aliases: any peer is served.
  <1>1. ASSUME \A g \in Groups, q \in Peers :
                 seat'[g][q] = seat[g][q] \/ ~ (seat'[g][q].state \in {"active", "archived"})
        PROVE  \E p \in Peers : Serves(p)
    <2>1. PICK p \in Peers : TRUE
      OBVIOUS
    <2>2. \A g \in Groups, q \in Peers, a \in Aliases :
            Holds(seat'[g][q], a) => seat'[g][q] = seat[g][q]
      BY <1>1 DEF Holds
    <2>3. \A g \in Groups, a \in Aliases :
            seat'[g][p].state = "archived" /\ seat'[g][p].alias = a => Holds(seat'[g][p], a)
      BY DEF Holds
    <2>4. Serves(p)
      BY <1>c, <2>2, <2>3 DEF Serves
    <2>5. QED BY <2>4
  \* The peer served takes no alias that another holds.
  <1>2. ASSUME NEW p \in Peers,
               \A g \in Groups, q \in Peers \ {p} :
                 seat'[g][q] = seat[g][q] \/ ~ (seat'[g][q].state \in {"active", "archived"}),
               \A g \in Groups :
                 \/ seat'[g][p] = seat[g][p]
                 \/ ~ (seat'[g][p].state \in {"active", "archived"})
                 \/ seat'[g][p] = Seated(seat[g][p]) /\ Unclaimed(g, seat[g][p].alias, p)
                 \/ seat'[g][p] = Reserved(seat[g][p]) /\ seat[g][p].state = "active"
                 \/ /\ seat'[g][p].state = "active"
                    /\ \A a \in Aliases : seat'[g][p].alias = a => Unclaimed(g, a, p)
        PROVE  Serves(p)
    <2> SUFFICES ASSUME NEW g \in Groups, NEW a \in Aliases
                 PROVE  /\ \A q \in Peers \ {p} : Holds(seat'[g][q], a) => seat'[g][q] = seat[g][q]
                        /\ seat'[g][p].state = "archived" /\ seat'[g][p].alias = a => Holds(seat[g][p], a)
                        /\ \A q \in Peers \ {p} : ~ (Holds(seat'[g][p], a) /\ Holds(seat[g][q], a))
      BY DEF Serves
    <2>1. \A q \in Peers \ {p} : Holds(seat'[g][q], a) => seat'[g][q] = seat[g][q]
      BY <1>2 DEF Holds
    <2>2. CASE seat'[g][p] = seat[g][p]
      BY <1>c, <2>1, <2>2 DEF Holds
    <2>3. CASE ~ (seat'[g][p].state \in {"active", "archived"})
      BY <2>1, <2>3 DEF Holds
    <2>4. CASE seat'[g][p] = Seated(seat[g][p]) /\ Unclaimed(g, seat[g][p].alias, p)
      <3>1. seat'[g][p].state = "active" /\ seat'[g][p].alias = seat[g][p].alias
        BY <1>a, <2>4, RowOperatorsAgree
      <3>2. QED BY <2>1, <2>4, <3>1 DEF Holds, Unclaimed
    <2>5. CASE seat'[g][p] = Reserved(seat[g][p]) /\ seat[g][p].state = "active"
      <3>1. seat'[g][p].alias = seat[g][p].alias
        BY <1>a, <2>5, RowOperatorsAgree
      <3>2. Holds(seat'[g][p], a) => Holds(seat[g][p], a)
        BY <2>5, <3>1 DEF Holds
      <3>3. seat'[g][p].alias = a => Holds(seat[g][p], a)
        BY <2>5, <3>1 DEF Holds
      <3>4. QED BY <1>c, <2>1, <3>2, <3>3
    <2>6. CASE /\ seat'[g][p].state = "active"
               /\ \A b \in Aliases : seat'[g][p].alias = b => Unclaimed(g, b, p)
      BY <2>1, <2>6 DEF Holds, Unclaimed
    <2>7. QED BY <1>2, <2>2, <2>3, <2>4, <2>5, <2>6
  <1>3. ASSUME NEW p \in Peers, Register(p) PROVE Serves(p)
    <2>1. \A g \in Groups, q \in Peers \ {p} : seat'[g][q] = seat[g][q]
      BY <1>3 DEF Register, Reseat
    <2>2. ASSUME NEW g \in Groups
          PROVE  \/ seat'[g][p] = seat[g][p]
                 \/ seat'[g][p] = Seated(seat[g][p]) /\ Unclaimed(g, seat[g][p].alias, p)
      BY <1>3 DEF Register, Reseat, DiedWith, ArchivedWith
    <2>3. QED BY <1>2, <2>1, <2>2
  <1>4. ASSUME NEW dead, NEW seats, Bury(dead, seats) PROVE \E p \in Peers : Serves(p)
    <2>1. \A g \in Groups, q \in Peers :
            seat'[g][q] = seat[g][q] \/ seat'[g][q] = Vacated(seat[g][q], now)
      BY <1>4 DEF Bury
    <2>2. QED BY <1>1, <1>a, <2>1, RowOperatorsAgree
  <1>5. ASSUME NEW p \in Peers, FinishArchive(p) PROVE Serves(p)
    <2>1. \A g \in Groups, q \in Peers :
            \/ seat'[g][q] = seat[g][q]
            \/ q = p /\ seat'[g][q] = Reserved(seat[g][q]) /\ seat[g][q].state = "active"
      BY <1>5, <1>a DEF FinishArchive, DeliveryBitAgrees
    <2>2. QED BY <1>2, <2>1
  <1>6. ASSUME NEW h \in Groups, NEW p \in Peers, NEW b \in Aliases, Join(h, p, b) PROVE Serves(p)
    <2> DEFINE newRow == [state |-> "active", active |-> TRUE, alias |-> b, leftAt |-> None]
               taken  == TakenOver(h, p, b)
    <2>1. newRow.state = "active" /\ newRow.alias = b
      OBVIOUS
    <2>2. seat' = [seat EXCEPT ![h] = [o \in Peers |->
                     CASE o = p     -> newRow
                       [] o \in taken -> Vacated(seat[h][o], now)
                       [] OTHER       -> seat[h][o]]]
      BY <1>6 DEF Join
    <2>3. /\ p \notin taken /\ taken \subseteq Peers
          /\ \A q \in taken : b = You /\ p = LocalWeb /\ q \in WebPeers /\ seat[h][q].state = "active"
      BY <1>a DEF TakenOver, DeliveryBitAgrees
    <2>4. \A q \in Peers \ (taken \cup {p}) : ~ Holds(seat[h][q], b)
      BY <1>6 DEF Join
    <2> HIDE DEF newRow, taken
    <2>5. /\ \A g \in Groups \ {h} : seat'[g] = seat[g]
          /\ seat'[h][p] = newRow
          /\ \A q \in Peers \ {p} : \/ seat'[h][q] = seat[h][q]
                                    \/ q \in taken /\ seat'[h][q] = Vacated(seat[h][q], now)
      BY <1>a, <2>2, <2>3 DEF TypeOK
    <2>6. ASSUME NEW g \in Groups, NEW a \in Aliases
          PROVE  /\ \A q \in Peers \ {p} : Holds(seat'[g][q], a) => seat'[g][q] = seat[g][q]
                 /\ seat'[g][p].state = "archived" /\ seat'[g][p].alias = a => Holds(seat[g][p], a)
                 /\ \A q \in Peers \ {p} :
                      Holds(seat'[g][p], a) /\ Holds(seat[g][q], a) =>
                        a = You /\ p = LocalWeb /\ q \in WebPeers /\ seat[g][q].state = "active"
      <3>1. CASE g # h
        BY <1>c, <2>5, <3>1 DEF Holds
      <3>2. CASE g = h
        <4>1. \A q \in Peers \ {p} : Holds(seat'[g][q], a) => seat'[g][q] = seat[g][q]
          BY <1>a, <2>5, <3>2, RowOperatorsAgree DEF Holds
        <4>2. seat'[g][p].state = "active" /\ seat'[g][p].alias = b
          BY <2>1, <2>5, <3>2
        <4>3. ASSUME NEW q \in Peers \ {p}, Holds(seat'[g][p], a), Holds(seat[g][q], a)
              PROVE  a = You /\ p = LocalWeb /\ q \in WebPeers /\ seat[g][q].state = "active"
          <5>1. a = b
            BY <4>2, <4>3 DEF Holds
          <5>2. q \in taken
            BY <2>4, <3>2, <4>3, <5>1
          <5>3. QED BY <2>3, <3>2, <5>1, <5>2
        <4>4. QED BY <4>1, <4>2, <4>3
      <3>3. QED BY <3>1, <3>2
    <2>7. QED BY <2>6 DEF Serves
  <1>7. ASSUME NEW h \in Groups, NEW p \in Peers, NEW b \in Aliases, Rename(h, p, b) PROVE Serves(p)
    <2>1. \A g \in Groups, q \in Peers : <<g, q>> # <<h, p>> => seat'[g][q] = seat[g][q]
      BY <1>7, <1>a DEF Rename, TypeOK
    <2>2. seat'[h][p].state = "active" /\ seat'[h][p].alias = b /\ Unclaimed(h, b, p)
      BY <1>7, <1>a DEF Rename, TypeOK, Row, DeliveryBitAgrees
    <2>3. QED BY <1>2, <2>1, <2>2
  <1>8. ASSUME NEW h \in Groups, NEW p \in Peers, Leave(h, p) PROVE \E o \in Peers : Serves(o)
    <2>1. \A g \in Groups, q \in Peers : seat'[g][q] = seat[g][q] \/ seat'[g][q].state = "left"
      BY <1>8, <1>a DEF Leave, TypeOK, Row
    <2>2. QED BY <1>1, <2>1
  <1>9. CASE Restart
    <2>1. \A g \in Groups, q \in Peers : seat'[g][q] = seat[g][q] \/ seat'[g][q] = NoRow
      BY <1>9 DEF Restart, Pruned
    <2>2. QED BY <1>1, <1>b, <2>1
  <1>10. ASSUME NEW p \in Peers, CrashInRegister(p) PROVE Serves(p)
    <2> DEFINE revived == Reseat(p, {g \in Groups : DiedWith(g, p)})
    <2>1. \A g \in Groups, q \in Peers :
            \/ revived[g][q] = seat[g][q]
            \/ q = p /\ revived[g][q] = Seated(seat[g][q]) /\ Unclaimed(g, seat[g][q].alias, q)
      BY DEF Reseat, DiedWith
    <2>2. seat' = Pruned(seat) \/ seat' = Pruned(revived)
      BY <1>10 DEF CrashInRegister
    <2> HIDE DEF revived
    <2>3. \A g \in Groups, q \in Peers :
            seat'[g][q] = NoRow \/ seat'[g][q] = seat[g][q] \/ seat'[g][q] = revived[g][q]
      BY <2>2 DEF Pruned
    <2>4. \A g \in Groups, q \in Peers \ {p} : seat'[g][q] = NoRow \/ seat'[g][q] = seat[g][q]
      BY <2>1, <2>3
    <2>5. \A g \in Groups :
            \/ seat'[g][p] = NoRow \/ seat'[g][p] = seat[g][p]
            \/ seat'[g][p] = Seated(seat[g][p]) /\ Unclaimed(g, seat[g][p].alias, p)
      BY <2>1, <2>3
    <2>6. QED BY <1>2, <1>b, <2>4, <2>5
  <1>11. ASSUME UNCHANGED seat PROVE \E p \in Peers : Serves(p)
    BY <1>1, <1>11
  <1>12. QED
    BY <1>3, <1>4, <1>5, <1>6, <1>7, <1>8, <1>9, <1>10, <1>11
       DEF CrashNext, Next, PeerStep, SeatStep, Delete, StopSession, SoftDelete,
           SweepExpired, BeginArchive, Subscribe, DropSubscriber, Tick, vars

LEMMA LedgerInit == Init => Ledger!Init
  <1> SUFFICES ASSUME Init PROVE Ledger!Init
    OBVIOUS
  <1>1. \A g \in Groups, q \in Peers : seat[g][q] = NoRow
    BY DEF Init
  <1>2. \A g \in Groups, a \in Aliases : SeatOwner(g, a) = None
    BY <1>1, RowOperatorsAgree DEF SeatOwner, Holds
  <1>3. \A g \in Groups, a \in Aliases : ~ SeatReserves(g, a)
    BY <1>1, RowOperatorsAgree DEF SeatReserves
  <1>4. QED BY <1>2, <1>3 DEF Ledger!Init, SeatReserves

LEMMA LedgerStep ==
  ASSUME CrashInv, CrashInv', [CrashNext]_vars
  PROVE  [Ledger!Next]_(Ledger!vars)
  <1>1. CASE Peers = {}
    <2>1. \A g \in Groups, a \in Aliases : SeatOwner(g, a)' = SeatOwner(g, a)
      BY <1>1 DEF SeatOwner
    <2>2. QED BY <1>1, <2>1 DEF Ledger!vars
  <1>2. CASE Peers # {}
    <2>1. AliasHeldOnce /\ AliasHeldOnce'
      BY DEF CrashInv
    <2>2. PICK p \in Peers : Serves(p)
      BY <1>2, StepServes
    <2>3. \A g \in Groups, a \in Aliases : Moves(g, a, p)
      BY <2>1, <2>2, ServedMoves
    <2>4. ASSUME NEW g \in Groups, NEW a \in Aliases, NEW b \in Aliases,
                 SeatOwner(g, a)' = SeatOwner(g, b)', SeatOwner(g, a)' # None
          PROVE  a = b
      <3>1. PICK q \in Peers : Holds(seat'[g][q], a)
        BY <2>1, <2>4, OwnerHoldsNext
      <3>2. Holds(seat'[g][q], b)
        BY <2>1, <2>4, <3>1, OwnerHoldsNext
      <3>3. QED BY <3>1, <3>2 DEF Holds
    <2>5. Ledger!Next
      BY <2>2, <2>3, <2>4 DEF Ledger!Next, Moves
    <2>6. QED BY <2>5
  <1>3. QED BY <1>1, <1>2

\* Membership implements the ledger of aliases: whatever handlers do, and wherever a
\* register is cut in two, an alias changes hands only by being given up first, or by
\* the local browser peer's takeover, and nobody but its owner ends a reservation.
THEOREM MembershipKeepsLedger == CrashSpec => LedgerSpec
  <1>1. CrashInv /\ CrashInv' /\ [CrashNext]_vars => [Ledger!Next]_(Ledger!vars)
    BY LedgerStep
  <1>2. QED BY <1>1, LedgerInit, CrashInvInvariant, PTL DEF CrashSpec, LedgerSpec, Ledger!Spec

-----------------------------------------------------------------------------
(***************************************************************************)
(* Life: Membership implements PeerLife, as long as the daemon stops       *)
(* between two handlers.  A register cut short by a crash has cleared      *)
(* deleted_at and not yet the lifecycle, so it turns a deleted identity    *)
(* that had been archived into an archived one: CrashSpec is no            *)
(* implementation.                                                         *)
(***************************************************************************)

\* What the row of a peer says of it.
LEMMA LifeCases ==
  \A p \in Peers :
    /\ p \notin known => LifeOf(p) = "unknown"
    /\ p \in known /\ deletedAt[p] # None => LifeOf(p) = "deleted"
    /\ Live(p) /\ lifecycle[p] = "archived" => LifeOf(p) = "archived"
    /\ Live(p) /\ lifecycle[p] # "archived" => LifeOf(p) = "live"
  BY DEF LifeOf, Live

LEMMA LifeCasesNext ==
  \A p \in Peers :
    /\ p \notin known' => LifeOf(p)' = "unknown"
    /\ p \in known' /\ deletedAt'[p] # None => LifeOf(p)' = "deleted"
    /\ p \in known' /\ deletedAt'[p] = None /\ lifecycle'[p] = "archived" => LifeOf(p)' = "archived"
    /\ p \in known' /\ deletedAt'[p] = None /\ lifecycle'[p] # "archived" => LifeOf(p)' = "live"
  BY DEF LifeOf, Live

\* The row is all that it depends on.
LEMMA SameRowSameLife ==
  ASSUME NEW p \in Peers, (p \in known') <=> (p \in known),
         deletedAt'[p] = deletedAt[p], lifecycle'[p] = lifecycle[p]
  PROVE  LifeOf(p)' = LifeOf(p)
  BY DEF LifeOf, Live

LEMMA LifeInit == Init => Life!Init
  BY DEF Init, Life!Init, Life!LiveOnes, LifeOf

\* Live identities of one step are buried together.
LEMMA BuriedExpire ==
  ASSUME TypeOK, NEW dead \in SUBSET Peers, NEW seats,
         \A p \in dead : LifeOf(p) = "live", Bury(dead, seats)
  PROVE  Life!Expire(dead)
  <1>1. \A p \in Peers \ dead : LifeOf(p)' = LifeOf(p)
    BY SameRowSameLife DEF TypeOK, Bury
  <1>2. \A p \in dead : LifeOf(p)' = "deleted"
    <2> TAKE p \in dead
    <2>1. p \in Peers /\ p \in known
      BY LifeCases
    <2>2. known' = known /\ deletedAt'[p] = now
      BY <2>1 DEF Bury
    <2>3. now # None
      BY DEF TypeOK, Time
    <2>4. QED BY <2>1, <2>2, <2>3, LifeCasesNext
  <1>3. QED BY <1>1, <1>2 DEF Life!Expire, Life!Becomes, Life!LiveOnes, Bury

\* One identity, archived or not, is buried.
LEMMA BuriedDelete ==
  ASSUME TypeOK, NEW p \in Peers, Live(p), SoftDelete(p)
  PROVE  Life!Delete(p)
  <1>1. \A q \in Peers \ {p} : LifeOf(q)' = LifeOf(q)
    BY SameRowSameLife DEF TypeOK, SoftDelete, Bury
  <1>2. LifeOf(p) \in {"live", "archived"}
    BY LifeCases
  <1>3. LifeOf(p)' = "deleted"
    <2>1. p \in known' /\ deletedAt'[p] = now
      BY DEF SoftDelete, Bury, Live
    <2>2. now # None
      BY DEF TypeOK, Time
    <2>3. QED BY <2>1, <2>2, LifeCasesNext
  <1>4. QED BY <1>1, <1>2, <1>3 DEF Life!Delete, Life!Becomes, SoftDelete, Bury

LEMMA RegisteredLives ==
  ASSUME TypeOK, NEW p \in Peers, Register(p)
  PROVE  Life!Register(p)
  <1>1. \A q \in Peers \ {p} : LifeOf(q)' = LifeOf(q)
    BY SameRowSameLife DEF TypeOK, Register
  <1>2. LifeOf(p)' = "live"
    BY LifeCasesNext DEF TypeOK, Register
  <1>3. QED BY <1>1, <1>2 DEF Life!Register, Life!Becomes, Register

\* An archive that comes back finds the identity live and archives it, or finds it
\* deleted, archived or registered again and drops its subscription all the same.
LEMMA FinishedArchives ==
  ASSUME TypeOK, NEW p \in Peers, FinishArchive(p)
  PROVE  Life!Archive(p) \/ Life!Lose({p})
  <1>1. \A q \in Peers \ {p} : LifeOf(q)' = LifeOf(q)
    BY SameRowSameLife DEF TypeOK, FinishArchive
  <1>2. CASE Live(p) /\ lifecycle[p] # "archived"
    <2>1. LifeOf(p) = "live" /\ LifeOf(p)' = "archived"
      BY <1>2, LifeCases, LifeCasesNext DEF TypeOK, FinishArchive, Live
    <2>2. QED BY <1>1, <2>1 DEF Life!Archive, Life!Becomes, FinishArchive
  <1>3. CASE ~ (Live(p) /\ lifecycle[p] # "archived")
    <2>1. LifeOf(p)' = LifeOf(p)
      <3>1. lifecycle'[p] = lifecycle[p]
        BY <1>3 DEF TypeOK, FinishArchive
      <3>2. QED BY <3>1, SameRowSameLife DEF FinishArchive
    <2>2. QED BY <1>1, <2>1 DEF Life!Lose, FinishArchive
  <1>4. QED BY <1>2, <1>3

LEMMA LifeStep ==
  ASSUME TypeOK, [Next]_vars
  PROVE  [Life!Next]_(Life!vars)
  <1>1. ASSUME NEW p \in Peers, Register(p) PROVE Life!Next
    BY <1>1, RegisteredLives DEF Life!Next
  <1>2. ASSUME NEW p \in Peers, Delete(p) \/ StopSession(p) PROVE Life!Next
    BY <1>2, BuriedDelete DEF Delete, StopSession, Life!Next
  <1>3. ASSUME NEW p \in Peers, FinishArchive(p) PROVE Life!Next
    <2>1. {p} \in SUBSET Peers
      OBVIOUS
    <2>2. QED BY <1>3, <2>1, FinishedArchives DEF Life!Next
  <1>4. ASSUME NEW p \in Peers, Subscribe(p) PROVE Life!Next
    <2>1. LifeOf(p) = "live"
      BY <1>4, LifeCases DEF Subscribe
    <2>2. \A q \in Peers : LifeOf(q)' = LifeOf(q)
      BY <1>4, SameRowSameLife DEF Subscribe
    <2>3. Life!Subscribe(p)
      BY <1>4, <2>1, <2>2 DEF Life!Subscribe, Subscribe
    <2>4. QED BY <2>3 DEF Life!Next
  <1>5. ASSUME NEW ps \in SUBSET Peers, subs' = subs \ ps, UNCHANGED <<known, deletedAt, lifecycle>>
        PROVE  Life!Next
    <2>1. \A q \in Peers : LifeOf(q)' = LifeOf(q)
      BY <1>5, SameRowSameLife
    <2>2. Life!Lose(ps)
      BY <1>5, <2>1 DEF Life!Lose
    <2>3. QED BY <2>2 DEF Life!Next
  <1>6. ASSUME NEW p \in Peers, DropSubscriber(p) PROVE Life!Next
    <2>1. {p} \in SUBSET Peers
      OBVIOUS
    <2>2. QED BY <1>5, <1>6, <2>1 DEF DropSubscriber
  <1>7. CASE Restart
    <2>1. Peers \in SUBSET Peers /\ subs' = subs \ Peers
      BY <1>7 DEF Restart, TypeOK
    <2>2. QED BY <1>5, <1>7, <2>1 DEF Restart
  <1>8. ASSUME NEW lapsed \in SUBSET (Peers \ WebPeers), SweepExpired(lapsed) PROVE Life!Next
    <2>1. \A p \in lapsed : LifeOf(p) = "live"
      BY <1>8, LifeCases DEF SweepExpired
    <2>2. lapsed \in SUBSET Peers
      OBVIOUS
    <2>3. QED BY <1>8, <2>1, <2>2, BuriedExpire DEF SweepExpired, Life!Next
  <1>9. ASSUME UNCHANGED <<known, deletedAt, lifecycle, subs>> PROVE UNCHANGED Life!vars
    <2>1. \A q \in Peers : LifeOf(q)' = LifeOf(q)
      BY <1>9, SameRowSameLife
    <2>2. QED BY <1>9, <2>1 DEF Life!vars
  <1>10. QED
    BY <1>1, <1>2, <1>3, <1>4, <1>6, <1>7, <1>8, <1>9
       DEF Next, PeerStep, SeatStep, BeginArchive, Join, Rename, Leave, Tick, vars

\* Membership implements the life of an identity: although an archive awaits the
\* backend while other handlers run, and an archived or deleted identity may still ask
\* for this or that, only a registration brings one back, and the step that archives or
\* deletes an identity ends its live push.
THEOREM MembershipKeepsLife == Spec => LifeSpec
  <1>1. SeatInv /\ [Next]_vars => [Life!Next]_(Life!vars)
    BY LifeStep DEF SeatInv
  <1>2. QED BY <1>1, LifeInit, SeatInvInvariant, PTL DEF Spec, LifeSpec, Life!Spec

=============================================================================
