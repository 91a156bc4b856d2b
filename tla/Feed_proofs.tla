----------------------------- MODULE Feed_proofs -----------------------------
(***************************************************************************)
(* Theorems about Feed, for every set of threads and authors, every length *)
(* of a page and of the list, and every bound on events and requests.      *)
(***************************************************************************)
EXTENDS Feed, FiniteSetTheorems, TLAPS

USE FeedAssumption DEF FeedAssumption

-----------------------------------------------------------------------------
(*                         The inductive invariant                         *)

\* What an answered page says of the events there were when it was read: of the
\* feed's rows it leaves out none above its last.
Complete(rows, last) ==
  /\ rows \subseteq 1..last
  /\ \A e \in Rows, r \in rows : r <= e /\ e <= last => e \in rows

Answers ==
  \A i \in Pending :
    pages[i].at = "answered" => /\ pages[i].last <= Len(events)
                                /\ pages[i].awaiting \subseteq pages[i].rows
                                /\ Complete(pages[i].rows, pages[i].last)

\* The list shows events of the daemon, and the cursor is its last row.
Listed ==
  /\ shown \subseteq Stored
  /\ shown = {} => oldest = 0
  /\ shown # {} => oldest \in shown /\ \A e \in shown : oldest <= e

\* What the user acknowledges is an event of the daemon, and so is what a merged
\* head was read after; more is asked for below a list that has rows.
Known ==
  /\ known <= Len(events)
  /\ own.at = "ack" => own.event \in Stored
  /\ older # 0 => shown # {}

Inv == TypeOK /\ Answers /\ Listed /\ Known /\ PagingSkipsNothing

-----------------------------------------------------------------------------
(*                       The newest rows of a list                         *)

\* A set of numbers with a bound has a greatest one: of the sets of what lies
\* above an element one is minimal, and it is empty.
LEMMA HasMaximum ==
  ASSUME NEW n \in Nat, NEW S \in SUBSET (1..n), S # {}
  PROVE  \E m \in S : \A k \in S : k <= m
  <1> DEFINE Above(m) == {k \in S : k > m}
             T == {Above(m) : m \in S}
             R == StrictSubsetOrdering(1..n)
  <1>1. IsWellFoundedOn(R, FiniteSubsetsOf(1..n))
    BY FS_StrictSubsetOrderingWellFounded
  <1>2. T \subseteq FiniteSubsetsOf(1..n)
    <2>1. ASSUME NEW m \in S PROVE Above(m) \in SUBSET (1..n) /\ IsFiniteSet(Above(m))
      <3>1. IsFiniteSet(1..n)
        BY FS_Interval
      <3>2. Above(m) \in SUBSET (1..n)
        OBVIOUS
      <3>3. QED BY <3>1, <3>2, FS_Subset
    <2>2. QED BY <2>1 DEF FiniteSubsetsOf
  <1>3. T # {}
    OBVIOUS
  <1>4. \E x \in T : \A y \in T : ~ (<<y, x>> \in R)
    <2> HIDE DEF T, R
    <2> QED BY <1>1, <1>2, <1>3, WFMin
  <1>5. PICK m \in S : \A k \in S : ~ (<<Above(k), Above(m)>> \in R)
    BY <1>4
  <1>6. ASSUME NEW k \in S, k > m PROVE FALSE
    <2> HIDE DEF T, R
    <2>1. Above(k) \subseteq Above(m)
      <3>1. ASSUME NEW j \in S, j > k PROVE j > m
        <4>1. j \in Int /\ k \in Int /\ m \in Int
          OBVIOUS
        <4>2. QED BY <1>6, <3>1, <4>1
      <3>2. QED BY <3>1
    <2>2. k \in Above(m) /\ k \notin Above(k)
      BY <1>6
    <2>3. Above(k) \in SUBSET (1..n) /\ Above(m) \in SUBSET (1..n) /\ Above(k) # Above(m)
      BY <2>2
    <2>4. <<Above(k), Above(m)>> \in R
      BY <2>1, <2>3 DEF R, StrictSubsetOrdering
    <2>5. QED BY <1>5, <2>4
  <1>7. QED BY <1>6

\* So it has a least one, and Min and Max are what they are called.
LEMMA HasExtremes ==
  ASSUME NEW n \in Nat, NEW S \in SUBSET (0..n), S # {}
  PROVE  /\ Min(S) \in S /\ \A k \in S : Min(S) <= k
         /\ Max(S) \in S /\ \A k \in S : k <= Max(S)
  <1>1. \E m \in S : \A k \in S : m <= k
    <2> DEFINE T == {n + 1 - k : k \in S}
    <2>1. T \in SUBSET (1..(n + 1)) /\ T # {} /\ n + 1 \in Nat
      <3>1. \A k \in S : k \in 0..n
        OBVIOUS
      <3>2. \A k \in 0..n : n + 1 - k \in 1..(n + 1)
        OBVIOUS
      <3>3. T \subseteq 1..(n + 1)
        BY <3>1, <3>2
      <3>4. T # {}
        OBVIOUS
      <3>5. QED BY <3>3, <3>4
    <2>2. PICK t \in T : \A u \in T : u <= t
      <3> HIDE DEF T
      <3> QED BY <2>1, HasMaximum
    <2>3. PICK m \in S : t = n + 1 - m
      OBVIOUS
    <2>4. ASSUME NEW k \in S PROVE m <= k
      <3>1. n + 1 - k <= n + 1 - m
        BY <2>2, <2>3
      <3>2. QED BY <3>1
    <2>5. QED BY <2>4
  <1>2. \E m \in S : \A k \in S : k <= m
    <2> DEFINE T == {k + 1 : k \in S}
    <2>1. T \in SUBSET (1..(n + 1)) /\ T # {} /\ n + 1 \in Nat
      <3>1. \A k \in S : k \in 0..n
        OBVIOUS
      <3>2. \A k \in 0..n : k + 1 \in 1..(n + 1)
        OBVIOUS
      <3>3. T \subseteq 1..(n + 1)
        BY <3>1, <3>2
      <3>4. T # {}
        OBVIOUS
      <3>5. QED BY <3>3, <3>4
    <2>2. PICK t \in T : \A u \in T : u <= t
      <3> HIDE DEF T
      <3> QED BY <2>1, HasMaximum
    <2>3. PICK m \in S : t = m + 1
      OBVIOUS
    <2>4. ASSUME NEW k \in S PROVE k <= m
      <3>1. k + 1 <= m + 1
        BY <2>2, <2>3
      <3>2. QED BY <3>1
    <2>5. QED BY <2>4
  <1>3. \E m \in S : \A k \in S : m >= k
    BY <1>2
  <1>4. QED BY <1>1, <1>3 DEF Min, Max

\* The n newest of a set: whatever is newer than one of them is one of them too.
LEMMA NewestRows ==
  ASSUME NEW S \in SUBSET Ids, NEW n \in Nat \ {0}
  PROVE  /\ Newest(S, n) \subseteq S
         /\ S # {} => Newest(S, n) # {}
         /\ \A e \in Newest(S, n), g \in S : e <= g => g \in Newest(S, n)
         /\ IsFiniteSet(Newest(S, n)) /\ Cardinality(Newest(S, n)) <= n
  <1> DEFINE N == Newest(S, n)
             Above(e) == {f \in S : f > e}
  <1>1. N \subseteq S /\ N = {e \in S : Cardinality(Above(e)) < n}
    BY DEF Newest
  <1>0. MaxEvents \in Nat /\ S \subseteq 1..MaxEvents /\ N \subseteq 1..MaxEvents
    BY <1>1 DEF Ids
  <1>2. /\ IsFiniteSet(S) /\ IsFiniteSet(N)
        /\ \A e \in S : /\ IsFiniteSet(Above(e)) /\ Cardinality(Above(e)) \in Nat
    <2>1. IsFiniteSet(Ids)
      BY FS_Interval DEF Ids
    <2>2. ASSUME NEW T \in SUBSET Ids PROVE IsFiniteSet(T) /\ Cardinality(T) \in Nat
      <3>1. IsFiniteSet(T)
        BY <2>1, FS_Subset
      <3>2. QED BY <3>1, FS_CardinalityType
    <2>3. QED BY <1>1, <2>2
  <1>3. ASSUME NEW e \in N, NEW g \in S, e <= g PROVE g \in N
    <2>1. Above(g) \in SUBSET Above(e)
      <3>1. ASSUME NEW f \in S, f > g PROVE f > e
        BY <1>0, <1>1, <1>3, <3>1
      <3>2. QED BY <3>1
    <2>2. Cardinality(Above(g)) <= Cardinality(Above(e))
      <3>1. e \in S
        BY <1>1
      <3> HIDE DEF Above
      <3> QED BY <1>2, <2>1, <3>1, FS_Subset
    <2>3. Cardinality(Above(e)) < n
      BY <1>1
    <2>4. Cardinality(Above(e)) \in Nat /\ Cardinality(Above(g)) \in Nat
      BY <1>1, <1>2
    <2> HIDE DEF Above, N
    <2>5. QED BY <1>1, <2>2, <2>3, <2>4
  <1>4. ASSUME S # {} PROVE N # {}
    <2>1. PICK m \in S : \A k \in S : k <= m
      BY <1>4, HasMaximum DEF Ids
    <2>2. Above(m) = {}
      <3>1. ASSUME NEW f \in S, f > m PROVE FALSE
        <4>1. f \in Int /\ m \in Int
          BY <1>0
        <4>2. f <= m
          BY <2>1
        <4>3. QED BY <3>1, <4>1, <4>2
      <3>2. QED BY <3>1
    <2>3. Cardinality(Above(m)) = 0
      BY <2>2, FS_EmptySet
    <2>4. QED BY <1>1, <2>3
  <1>5. Cardinality(N) <= n
    <2>1. CASE N = {}
      <3>1. Cardinality(N) = 0
        BY <2>1, FS_EmptySet
      <3>2. QED BY <3>1
    <2>2. CASE N # {}
      <3>1. N \in SUBSET (0..MaxEvents)
        <4> HIDE DEF N
        <4> QED BY <1>0
      <3>2. PICK m \in N : \A k \in N : m <= k
        <4> HIDE DEF N
        <4> QED BY <2>2, <3>1, HasExtremes
      <3>3. N \ {m} \in SUBSET Above(m)
        <4>1. ASSUME NEW e \in N, e # m PROVE e \in S /\ e > m
          <5>1. e \in Int /\ m \in Int /\ e \in S
            BY <1>0, <1>1, <3>2, <4>1
          <5>2. m <= e
            BY <3>2, <4>1
          <5>3. QED BY <4>1, <5>1, <5>2
        <4>2. QED BY <4>1
      <3>4. /\ Cardinality(N \ {m}) <= Cardinality(Above(m)) /\ IsFiniteSet(N \ {m})
        BY <1>1, <1>2, <3>3, FS_Subset
      <3>5. Cardinality(N \ {m}) = Cardinality(N) - 1
        BY <1>2, FS_RemoveElement
      <3>6. Cardinality(N) \in Nat /\ Cardinality(Above(m)) \in Nat /\ Cardinality(Above(m)) < n
        BY <1>1, <1>2, FS_CardinalityType
      <3> HIDE DEF N, Above
      <3>7. QED BY <3>4, <3>5, <3>6
    <2>3. QED BY <2>1, <2>2
  <1>6. QED BY <1>1, <1>2, <1>3, <1>4, <1>5

-----------------------------------------------------------------------------
(*                            Merging a page                               *)

\* What the list is after it was sorted and cut off.
LEMMA ListSet ==
  ASSUME NEW rows \in SUBSET Ids, NEW flagged, SetList(rows, flagged)
  PROVE  /\ shown' \subseteq rows /\ shown' \subseteq Ids
         /\ IsFiniteSet(shown') /\ Cardinality(shown') <= Cap
         /\ awaiting' \subseteq shown'
         /\ rows # {} => shown' # {}
         /\ shown' = {} => oldest' = oldest
         /\ shown' # {} => oldest' \in shown' /\ \A e \in shown' : oldest' <= e
         /\ shown' # {} => \A e \in rows : oldest' <= e => e \in shown'
  <1>1. /\ shown' = Newest(rows, Cap) /\ awaiting' \subseteq shown'
        /\ oldest' = IF shown' = {} THEN oldest ELSE Min(shown')
    BY DEF SetList
  <1>2. /\ shown' \subseteq rows /\ (rows # {} => shown' # {})
        /\ \A e \in shown', g \in rows : e <= g => g \in shown'
        /\ IsFiniteSet(shown') /\ Cardinality(shown') <= Cap
    BY <1>1, NewestRows
  <1>3. ASSUME shown' # {} PROVE oldest' \in shown' /\ \A e \in shown' : oldest' <= e
    <2>1. shown' \in SUBSET (0..MaxEvents) /\ MaxEvents \in Nat
      BY <1>2 DEF Ids
    <2>2. Min(shown') \in shown' /\ \A e \in shown' : Min(shown') <= e
      BY <1>3, <2>1, HasExtremes
    <2>3. QED BY <1>1, <1>3, <2>2
  <1>4. QED BY <1>1, <1>2, <1>3

\* Of the list's facts an action keeps those whose variables it leaves alone.
LEMMA RowsOfSameEvents ==
  ASSUME UNCHANGED events
  PROVE  Rows' = Rows /\ Stored' = Stored
  BY DEF Rows, Stored

LEMMA ZeroIsNone == 0 \in 0..MaxEvents
  OBVIOUS

\* Typing of numbers that are compared below.
LEMMA Numbers ==
  ASSUME TypeOK
  PROVE  /\ MaxEvents \in Nat /\ Len(events) \in Nat /\ Len(events) <= MaxEvents
         /\ Rows \subseteq Stored /\ Stored \subseteq Ids /\ Ids \subseteq Int
         /\ \A e \in Ids : 0 < e /\ e <= MaxEvents
         /\ oldest \in Int /\ older \in Int /\ known \in Int
         /\ shown \subseteq Ids /\ awaiting \subseteq shown /\ skipped \subseteq Ids
  <1>1. MaxEvents \in Nat /\ Len(events) \in Nat /\ Len(events) <= MaxEvents
    <2>1. events \in Seq([thread : Threads, author : Authors \cup {Me}]) /\ Len(events) <= MaxEvents
      BY DEF TypeOK
    <2>2. Len(events) \in Nat
      BY <2>1
    <2>3. QED BY <2>1, <2>2
  <1>2. Stored \subseteq Ids /\ Ids \subseteq Int /\ \A e \in Ids : 0 < e /\ e <= MaxEvents
    BY <1>1 DEF Stored, Ids
  <1>3. oldest \in 0..MaxEvents /\ older \in 0..MaxEvents /\ known \in 0..MaxEvents
        /\ shown \subseteq Ids /\ awaiting \subseteq shown /\ skipped \subseteq Ids
    BY DEF TypeOK
  <1>4. Rows \subseteq Stored
    BY DEF Rows
  <1>5. oldest \in Int /\ older \in Int /\ known \in Int
    BY <1>3
  <1>6. QED BY <1>1, <1>2, <1>3, <1>4, <1>5

LEMMA HeadMerged ==
  ASSUME Inv, NEW i \in Pending, pages[i].at = "answered", MergeHead(pages[i]), UNCHANGED events
  PROVE  /\ shown' \subseteq Ids /\ IsFiniteSet(shown') /\ Cardinality(shown') <= Cap
         /\ awaiting' \subseteq shown' /\ oldest' \in 0..MaxEvents
         /\ known' = pages[i].last /\ known' <= Len(events) /\ skipped' \subseteq Ids
         /\ shown # {} => shown' # {}
         /\ Listed' /\ PagingSkipsNothing'
  <1> DEFINE rows   == pages[i].rows
             last   == pages[i].last
             bottom == IF rows = {} THEN MaxEvents + 1 ELSE Min(rows)
             kept   == {e \in shown \ rows : e < bottom}
  <1>1. /\ SetList(rows \cup kept, pages[i].awaiting \cup (awaiting \cap kept))
        /\ known' = last
        /\ skipped' = (skipped \cup {e \in Stored : known < e /\ e < bottom /\ oldest' < e}) \ shown'
    BY DEF MergeHead
  <1>2. last \in 0..MaxEvents /\ last <= Len(events) /\ rows \subseteq 1..last
        /\ \A e \in Rows, r \in rows : r <= e /\ e <= last => e \in rows
    BY DEF Inv, TypeOK, Answers, Complete
  <1>3. TypeOK
    BY DEF Inv
  <1>4. rows \subseteq Stored /\ kept \subseteq shown /\ shown \subseteq Stored
    <2>1. 1..last \subseteq Stored
      BY <1>2, <1>3, Numbers DEF Stored
    <2>2. QED BY <1>2, <2>1 DEF Inv, Listed
  <1>5. \/ rows = {} /\ bottom = MaxEvents + 1
        \/ rows # {} /\ bottom \in rows /\ \A r \in rows : bottom <= r
    <2>1. ASSUME rows # {} PROVE bottom \in rows /\ \A r \in rows : bottom <= r
      <3>1. rows \in SUBSET (0..MaxEvents) /\ MaxEvents \in Nat
        BY <1>2
      <3>2. Min(rows) \in rows /\ \A r \in rows : Min(rows) <= r
        BY <2>1, <3>1, HasExtremes
      <3>3. QED BY <2>1, <3>2
    <2>2. QED BY <2>1
  <1>6. \A e \in kept : e < bottom
    OBVIOUS
  <1>7. \A e \in shown : e \in rows \/ e \in kept \/ ~ (e < bottom)
    OBVIOUS
  <1> DEFINE merged == rows \cup kept
  <1>8. merged \subseteq Stored /\ SetList(merged, pages[i].awaiting \cup (awaiting \cap kept))
    BY <1>1, <1>4
  <1>9. merged \in SUBSET Ids
    BY <1>3, <1>8, Numbers
  <1>10. merged = {} => shown = {}
    <2>1. ASSUME rows = {}, kept = {}, NEW e \in shown PROVE FALSE
      <3>1. e < bottom
        BY <1>3, <1>5, <2>1, Numbers
      <3>2. QED BY <1>7, <2>1, <3>1
    <2>2. QED BY <2>1
  <1>11. \A e \in kept : e \in merged /\ e \in shown
    BY <1>4
  <1>12. \A e \in merged : e \in rows \/ e \in kept
    OBVIOUS
  <1>13. \A e \in rows : e \in merged
    OBVIOUS
  <1> HIDE DEF rows, last, bottom, kept, merged
  <1>14. /\ shown' \subseteq merged /\ shown' \subseteq Ids
         /\ IsFiniteSet(shown') /\ Cardinality(shown') <= Cap
         /\ awaiting' \subseteq shown'
         /\ merged # {} => shown' # {}
         /\ shown' = {} => oldest' = oldest
         /\ shown' # {} => oldest' \in shown' /\ \A e \in shown' : oldest' <= e
         /\ shown' # {} => \A e \in merged : oldest' <= e => e \in shown'
    BY <1>8, <1>9, ListSet
  <1>15. shown' = {} => oldest' = 0
    BY <1>10, <1>14 DEF Inv, Listed
  <1>16. oldest' \in 0..MaxEvents
    <2>1. shown' # {} => oldest' \in Ids
      BY <1>14
    <2>2. QED BY <1>15, <2>1 DEF Ids
  <1>17. Listed'
    BY <1>8, <1>14, <1>15, RowsOfSameEvents DEF Listed
  <1>18. skipped' \subseteq Ids
    BY <1>1, <1>3, Numbers
  <1>19. PagingSkipsNothing'
    <2> SUFFICES ASSUME oldest' # 0, NEW e \in Rows, oldest' <= e, e <= known'
                 PROVE  e \in shown' \/ e \in skipped'
      BY RowsOfSameEvents DEF PagingSkipsNothing
    <2>1. shown' # {} /\ oldest' \in shown' /\ oldest' \in Int /\ e \in Int /\ e \in Stored /\ known \in Int
      BY <1>3, <1>14, <1>15, <1>16, Numbers
    <2>2. bottom \in Int
      <3>1. rows \subseteq Ids
        BY <1>9, <1>13
      <3>2. QED BY <1>3, <1>5, <3>1, Numbers
    <2>3. CASE ~ (e < bottom)
      <3>1. bottom \in rows
        BY <1>3, <1>5, <2>1, <2>3, Numbers
      <3>2. e \in rows
        BY <1>1, <1>2, <2>1, <2>2, <2>3, <3>1
      <3>3. QED BY <1>13, <1>14, <2>1, <3>2
    <2>4. CASE e < bottom /\ known < e
      <3>1. e = oldest' \/ oldest' < e
        BY <2>1
      <3>2. QED BY <1>1, <2>1, <2>4, <3>1
    <2>5. CASE e < bottom /\ ~ (known < e)
      <3>1. oldest' \in kept
        <4>1. oldest' < bottom
          BY <2>1, <2>2, <2>5
        <4>2. oldest' \notin rows
          BY <1>5, <1>9, <1>13, <2>1, <2>2, <4>1
        <4>3. QED BY <1>12, <1>14, <2>1, <4>2
      <3>2. oldest' \in shown /\ oldest \in shown /\ oldest <= oldest'
        BY <1>11, <3>1 DEF Inv, Listed
      <3>3. oldest # 0 /\ oldest <= e /\ e <= known
        <4>1. oldest \in Ids /\ oldest \in Int /\ oldest > 0
          BY <1>3, <3>2, Numbers
        <4>2. QED BY <2>1, <2>5, <3>2, <4>1
      <3>4. e \in shown \/ e \in skipped
        BY <3>3 DEF Inv, PagingSkipsNothing
      <3>5. CASE e \in shown
        BY <1>7, <1>11, <1>13, <1>14, <2>1, <2>5, <3>5
      <3>6. CASE e \in skipped
        BY <1>1, <3>6
      <3>7. QED BY <3>4, <3>5, <3>6
    <2>6. QED BY <2>3, <2>4, <2>5
  <1>20. known' = pages[i].last /\ known' <= Len(events)
    BY <1>1, <1>2 DEF last
  <1>21. shown # {} => shown' # {}
    BY <1>10, <1>14
  <1>22. QED BY <1>21, <1>14, <1>16, <1>17, <1>18, <1>19, <1>20

\* An older page is read when it is merged.
LEMMA OlderMerged ==
  ASSUME Inv, older # 0, MergeOlder(Page(older)), UNCHANGED events
  PROVE  /\ shown' \subseteq Ids /\ IsFiniteSet(shown') /\ Cardinality(shown') <= Cap
         /\ awaiting' \subseteq shown' /\ oldest' \in 0..MaxEvents
         /\ known' = known /\ skipped' \subseteq Ids
         /\ Listed' /\ PagingSkipsNothing'
  <1> DEFINE rows   == Newest(Before(older), Window)
             merged == shown \cup rows
  <1>1. /\ SetList(merged, awaiting \cup (Page(older).awaiting \ shown))
        /\ known' = known
        /\ skipped' = (skipped \cup {e \in Stored : older <= e /\ e < oldest /\ oldest' < e}) \ shown'
    BY DEF MergeOlder, Page
  <1>2. TypeOK
    BY DEF Inv
  <1>3. Before(older) = {r \in Rows : r < older}
    BY DEF Before
  <1>4. Before(older) \in SUBSET Ids /\ Window \in Nat \ {0}
    BY <1>2, <1>3, Numbers
  <1>5. /\ rows \subseteq Before(older)
        /\ \A e \in rows, g \in Before(older) : e <= g => g \in rows
    BY <1>4, NewestRows
  <1>6. merged \subseteq Stored /\ merged \in SUBSET Ids
    <2>1. rows \subseteq Stored /\ shown \subseteq Stored /\ Stored \subseteq Ids
      BY <1>2, <1>3, <1>5, Numbers DEF Inv, Listed
    <2>2. QED BY <2>1
  <1>7. \A e \in merged : e \in shown \/ e \in rows
    OBVIOUS
  <1>8. (\A e \in shown : e \in merged) /\ \A e \in rows : e \in merged
    OBVIOUS
  <1> HIDE DEF rows, merged
  <1>9. /\ shown' \subseteq merged /\ shown' \subseteq Ids
        /\ IsFiniteSet(shown') /\ Cardinality(shown') <= Cap
        /\ awaiting' \subseteq shown'
        /\ merged # {} => shown' # {}
        /\ shown' = {} => oldest' = oldest
        /\ shown' # {} => oldest' \in shown' /\ \A e \in shown' : oldest' <= e
        /\ shown' # {} => \A e \in merged : oldest' <= e => e \in shown'
    BY <1>1, <1>6, ListSet
  <1>10. shown' = {} => oldest' = 0
    <2>1. shown' = {} => shown = {}
      BY <1>8, <1>9
    <2>2. QED BY <1>9, <2>1 DEF Inv, Listed
  <1>11. oldest' \in 0..MaxEvents
    <2>1. shown' # {} => oldest' \in Ids
      BY <1>9
    <2>2. QED BY <1>10, <2>1 DEF Ids
  <1>12. Listed'
    BY <1>6, <1>9, <1>10, RowsOfSameEvents DEF Listed
  <1>13. skipped' \subseteq Ids
    BY <1>1, <1>2, Numbers
  <1>14. PagingSkipsNothing'
    <2> SUFFICES ASSUME oldest' # 0, NEW e \in Rows, oldest' <= e, e <= known
                 PROVE  e \in shown' \/ e \in skipped'
      BY <1>1, RowsOfSameEvents DEF PagingSkipsNothing
    <2>1. /\ shown' # {} /\ oldest' \in shown' /\ oldest' \in Int /\ e \in Int /\ e \in Stored
          /\ oldest \in Int /\ older \in Int
      BY <1>2, <1>9, <1>10, <1>11, Numbers
    <2>2. CASE oldest # 0 /\ oldest <= e
      <3>1. e \in shown \/ e \in skipped
        BY <2>2 DEF Inv, PagingSkipsNothing
      <3>2. CASE e \in shown
        BY <1>8, <1>9, <2>1, <3>2
      <3>3. CASE e \in skipped
        BY <1>1, <3>3
      <3>4. QED BY <3>1, <3>2, <3>3
    <2>3. CASE ~ (oldest # 0 /\ oldest <= e)
      <3>1. oldest' \in rows
        <4>1. ASSUME oldest' \in shown PROVE FALSE
          <5>1. oldest \in Ids /\ oldest <= oldest'
            BY <1>2, <4>1, Numbers DEF Inv, Listed
          <5>2. 0 < oldest
            BY <1>2, <5>1, Numbers
          <5>3. QED BY <2>1, <2>3, <5>1, <5>2
        <4>2. QED BY <1>7, <1>9, <2>1, <4>1
      <3>2. CASE e < older
        BY <1>3, <1>5, <1>8, <1>9, <2>1, <3>1, <3>2
      <3>3. CASE older <= e /\ shown # {}
        <4>1. e < oldest
          <5>1. oldest \in Ids
            BY <1>2, <3>3, Numbers DEF Inv, Listed
          <5>2. oldest # 0
            BY <1>2, <5>1, Numbers
          <5>3. QED BY <2>1, <2>3, <5>2
        <4>2. e = oldest' \/ oldest' < e
          BY <2>1
        <4>3. QED BY <1>1, <2>1, <3>3, <4>1, <4>2
      <3>4. shown # {}
        BY DEF Inv, Known
      <3>5. QED BY <2>1, <3>2, <3>3, <3>4
    <2>4. QED BY <2>2, <2>3
  <1>15. QED BY <1>1, <1>9, <1>11, <1>12, <1>13, <1>14

-----------------------------------------------------------------------------
(*                         The steps of the feed                           *)

\* The daemon's answers stay complete: a row of the feed that is not newer than the
\* answer was a row when it was read.
LEMMA AnswersKept ==
  ASSUME TypeOK, Answers, \A e \in Rows' : e <= Len(events) => e \in Rows,
         Len(events)' >= Len(events), Len(events)' \in Int, UNCHANGED pages
  PROVE  Answers'
  <1> SUFFICES ASSUME NEW i \in Pending, pages[i].at = "answered"
               PROVE  /\ pages[i].last <= Len(events)'
                      /\ pages[i].awaiting \subseteq pages[i].rows
                      /\ Complete(pages[i].rows, pages[i].last)'
    BY DEF Answers
  <1>1. /\ pages[i].last \in Int /\ pages[i].last <= Len(events) /\ Len(events) \in Int
        /\ pages[i].awaiting \subseteq pages[i].rows /\ Complete(pages[i].rows, pages[i].last)
    <2>1. pages[i].last \in 0..MaxEvents
      BY DEF TypeOK
    <2>2. Len(events) \in Int
      BY Numbers
    <2>3. QED BY <2>1, <2>2 DEF Answers
  <1>2. pages[i].last <= Len(events)'
    BY <1>1
  <1>3. \A e \in Rows' : e \in Stored' /\ e \in Int
    BY DEF Rows, Stored
  <1>4. \A e \in Rows' : e <= pages[i].last => e \in Rows
    BY <1>1, <1>3
  <1>5. Complete(pages[i].rows, pages[i].last)'
    BY <1>1, <1>4 DEF Complete
  <1>6. QED BY <1>1, <1>2, <1>5

\* A message is written: of the older ones none becomes a row of the feed.
Written ==
  /\ events' \in Seq([thread : Threads, author : Authors \cup {Me}])
  /\ Len(events') = Len(events) + 1 /\ Len(events') <= MaxEvents
  /\ Stored \subseteq Stored'
  /\ \A e \in Rows' : e <= Len(events) => e \in Rows

LEMMA AppendIsWritten ==
  ASSUME Inv, NEW t \in Threads, NEW a \in Authors \cup {Me}, Len(events) < MaxEvents,
         events' = Append(events, [thread |-> t, author |-> a])
  PROVE  Written
  <1>1. events \in Seq([thread : Threads, author : Authors \cup {Me}])
    BY DEF Inv, TypeOK
  <1>2. /\ events' \in Seq([thread : Threads, author : Authors \cup {Me}])
        /\ Len(events) \in Nat /\ Len(events') = Len(events) + 1
        /\ \A e \in 1..Len(events) : events'[e] = events[e]
    <2> DEFINE m == [thread |-> t, author |-> a]
    <2>1. m \in [thread : Threads, author : Authors \cup {Me}] /\ events' = Append(events, m)
      OBVIOUS
    <2> HIDE DEF m
    <2>2. QED BY <1>1, <2>1
  <1>3. Len(events') <= MaxEvents
    BY <1>2
  <1>4. Stored \subseteq Stored'
    BY <1>2 DEF Stored
  <1>5. ASSUME NEW e \in Rows', e <= Len(events) PROVE e \in Rows
    <2>1. /\ e \in 1..Len(events') /\ events'[e].author # Me
          /\ \A f \in 1..Len(events') : f > e => events'[f] # events'[e]
      BY DEF Rows, Stored
    <2>2. e \in 1..Len(events)
      BY <1>2, <1>5, <2>1
    <2>3. \A f \in 1..Len(events) : f \in 1..Len(events')
      BY <1>2
    <2>4. QED BY <1>2, <2>1, <2>2, <2>3 DEF Rows, Stored
  <1>6. QED BY <1>2, <1>3, <1>4, <1>5 DEF Written

\* What is known of the user's request after a step.
OwnKept ==
  /\ own' \in [at : {"none", "ack", "ack all", "answered"}, event : 0..MaxEvents]
  /\ own'.at = "ack" => own' = own

LEMMA WrittenKeeps ==
  ASSUME Inv, Written, OwnKept, UNCHANGED <<feed, asking>>, handled' \in [Threads -> 0..MaxEvents]
  PROVE  Inv'
  <1>1. /\ UNCHANGED <<shown, awaiting, count, oldest, known, skipped, joinable, pages, older>>
    BY DEF feed, asking
  <1>2. /\ events' \in Seq([thread : Threads, author : Authors \cup {Me}])
        /\ Len(events') = Len(events) + 1 /\ Len(events') <= MaxEvents
        /\ Stored \subseteq Stored'
        /\ \A e \in Rows' : e <= Len(events) => e \in Rows
    BY DEF Written
  <1>3. Len(events) \in Nat /\ known \in Int
    BY Numbers DEF Inv
  <1>10. Len(events') = Len(events) + 1
    BY <1>2
  <1>11. Len(events') \in Nat /\ Len(events') >= Len(events) /\ known \in Int /\ Len(events) \in Nat
    BY <1>3, <1>10
  <1>4. TypeOK'
    BY <1>1, <1>2 DEF Inv, TypeOK, OwnKept
  <1>5. Answers'
    <2>1. Len(events)' >= Len(events) /\ Len(events)' \in Int
      BY <1>11
    <2>2. QED BY <1>1, <1>2, <2>1, AnswersKept DEF Inv
  <1>6. Listed'
    BY <1>1, <1>2 DEF Inv, Listed
  <1>7. Known'
    <2>1. known <= Len(events) /\ (own.at = "ack" => own.event \in Stored) /\ (older # 0 => shown # {})
      BY DEF Inv, Known
    <2>2. known <= Len(events')
      BY <1>11, <2>1
    <2>3. QED BY <1>1, <1>2, <2>1, <2>2 DEF Known, OwnKept
  <1>8. PagingSkipsNothing'
    <2> SUFFICES ASSUME oldest # 0, NEW e \in Rows', oldest <= e, e <= known
                 PROVE  e \in shown \cup skipped
      BY <1>1 DEF PagingSkipsNothing
    <2>1. known <= Len(events)
      BY DEF Inv, Known
    <2>2. e \in 1..Len(events')
      BY DEF Rows, Stored
    <2>3. e <= Len(events)
      BY <1>11, <2>1, <2>2
    <2>4. e \in Rows
      BY <1>2, <2>3
    <2>5. QED BY <2>4 DEF Inv, PagingSkipsNothing
  <1>9. QED BY <1>4, <1>5, <1>6, <1>7, <1>8 DEF Inv

\* What the web peer has handled only moves within the events there can be.
LEMMA FurthestTyped ==
  ASSUME TypeOK, NEW t \in Threads, NEW e \in 0..MaxEvents
  PROVE  Furthest(t, e) \in [Threads -> 0..MaxEvents]
  BY DEF Furthest, TypeOK

LEMMA AllHandledTyped ==
  ASSUME TypeOK, NEW t \in Threads
  PROVE  Max({handled[t], LastAwaiting(t)}) \in 0..MaxEvents
  <1> DEFINE awaited == {0} \cup {e \in Stored : events[e].thread = t /\ Awaits(e)}
  <1>1. MaxEvents \in Nat /\ Stored \subseteq 0..MaxEvents /\ handled[t] \in 0..MaxEvents
    <2>1. Stored \subseteq Ids /\ MaxEvents \in Nat
      BY Numbers
    <2>2. Ids \subseteq 0..MaxEvents
      BY DEF Ids
    <2>3. handled[t] \in 0..MaxEvents
      BY DEF TypeOK
    <2>4. QED BY <2>1, <2>2, <2>3
  <1>2. awaited \in SUBSET (0..MaxEvents) /\ awaited # {}
    <2>1. 0 \in 0..MaxEvents
      BY <1>1
    <2>2. QED BY <1>1, <2>1
  <1>3. Max(awaited) \in awaited
    <2> HIDE DEF awaited
    <2> QED BY <1>1, <1>2, HasExtremes
  <1>4. LastAwaiting(t) = Max(awaited)
    BY DEF LastAwaiting
  <1> HIDE DEF awaited
  <1>5. LastAwaiting(t) \in 0..MaxEvents
    BY <1>2, <1>3, <1>4
  <1>6. {handled[t], LastAwaiting(t)} \in SUBSET (0..MaxEvents)
    BY <1>1, <1>5
  <1>7. Max({handled[t], LastAwaiting(t)}) \in {handled[t], LastAwaiting(t)}
    BY <1>1, <1>6, HasExtremes
  <1>8. QED BY <1>6, <1>7

LEMMA CountOfIds ==
  ASSUME NEW S \in SUBSET Ids
  PROVE  Cardinality(S) \in 0..MaxEvents
  <1>1. IsFiniteSet(Ids) /\ Cardinality(Ids) = MaxEvents
    <2>1. 1 \in Int /\ MaxEvents \in Int /\ (1 > MaxEvents => MaxEvents = 0) /\ MaxEvents - 1 + 1 = MaxEvents
      OBVIOUS
    <2>2. QED BY <2>1, FS_Interval DEF Ids
  <1>2. IsFiniteSet(S) /\ Cardinality(S) <= Cardinality(Ids)
    BY <1>1, FS_Subset
  <1>3. Cardinality(S) \in Nat
    BY <1>2, FS_CardinalityType
  <1>4. QED BY <1>1, <1>2, <1>3

\* A page that the daemon reads; the newest one is complete.
PageTyped(p) ==
  p \in [at : {"none", "asked", "answered"}, rows : SUBSET Ids,
         awaiting : SUBSET Ids, count : 0..MaxEvents, last : 0..MaxEvents]

LEMMA PageRead ==
  ASSUME TypeOK, NEW before
  PROVE  /\ PageTyped(Page(before)) /\ Page(before).at = "answered"
         /\ Page(before).last = Len(events) /\ Page(before).awaiting \subseteq Page(before).rows
         /\ Page(before).count \in 0..MaxEvents
         /\ before = 0 => Complete(Page(before).rows, Len(events))
  <1> DEFINE rows  == Newest(Before(before), Window)
             await == {e \in rows : Awaits(e)}
             awaiters == {e \in Rows : Awaits(e)}
  <1>1. Page(before) = [at |-> "answered", rows |-> rows, awaiting |-> await,
                        count |-> Cardinality(awaiters), last |-> Len(events)]
    BY DEF Page
  <1>2. Before(before) \in SUBSET Rows /\ (before = 0 => Before(before) = Rows)
    BY DEF Before
  <1>3. /\ Rows \subseteq Stored /\ Stored \subseteq Ids
        /\ Len(events) \in Nat /\ Len(events) <= MaxEvents /\ MaxEvents \in Nat
    BY Numbers
  <1>4. Before(before) \in SUBSET Ids
    BY <1>2, <1>3
  <1>5. /\ rows \subseteq Before(before)
        /\ \A e \in rows, g \in Before(before) : e <= g => g \in rows
    BY <1>4, NewestRows
  <1>6. Cardinality(awaiters) \in 0..MaxEvents
    <2>1. awaiters \in SUBSET Ids
      BY <1>3
    <2> HIDE DEF awaiters
    <2>2. QED BY <2>1, CountOfIds
  <1>7. await \subseteq rows /\ rows \subseteq Ids /\ rows \subseteq Rows
    BY <1>2, <1>3, <1>5
  <1>8. before = 0 => Complete(rows, Len(events))
    <2>1. rows \subseteq 1..Len(events)
      BY <1>3, <1>7 DEF Stored
    <2>2. QED BY <1>2, <1>5, <2>1 DEF Complete
  <1>9. Len(events) \in 0..MaxEvents
    BY <1>3
  <1> HIDE DEF rows, await, awaiters
  <1>10. QED BY <1>1, <1>6, <1>7, <1>8, <1>9 DEF PageTyped

\* The pages under way after one of them has changed.
LEMMA PageSet ==
  ASSUME Inv, UNCHANGED events, NEW i \in Pending, NEW p, PageTyped(p), pages' = [pages EXCEPT ![i] = p],
         p.at = "answered" => /\ p.last <= Len(events) /\ p.awaiting \subseteq p.rows
                              /\ Complete(p.rows, p.last)
  PROVE  /\ Answers'
         /\ pages' \in [Pending -> [at : {"none", "asked", "answered"}, rows : SUBSET Ids,
                                    awaiting : SUBSET Ids, count : 0..MaxEvents, last : 0..MaxEvents]]
  <1>1. /\ pages' \in [Pending -> [at : {"none", "asked", "answered"}, rows : SUBSET Ids,
                                   awaiting : SUBSET Ids, count : 0..MaxEvents, last : 0..MaxEvents]]
        /\ \A j \in Pending : pages'[j] = IF j = i THEN p ELSE pages[j]
    BY DEF Inv, TypeOK, PageTyped
  <1>2. Answers'
    <2> SUFFICES ASSUME NEW j \in Pending, pages'[j].at = "answered"
                 PROVE  /\ pages'[j].last <= Len(events)
                        /\ pages'[j].awaiting \subseteq pages'[j].rows
                        /\ Complete(pages'[j].rows, pages'[j].last)
      BY RowsOfSameEvents DEF Answers, Complete
    <2>1. CASE j = i
      BY <1>1, <2>1
    <2>2. CASE j # i
      BY <1>1, <2>2 DEF Inv, Answers
    <2>3. QED BY <2>1, <2>2
  <1>3. QED BY <1>1, <1>2

LEMMA HeadAsked ==
  ASSUME Inv, UNCHANGED events, NEW force \in BOOLEAN, RefreshHead(force)
  PROVE  /\ Answers' /\ joinable' \in BOOLEAN /\ UNCHANGED older
         /\ pages' \in [Pending -> [at : {"none", "asked", "answered"}, rows : SUBSET Ids,
                                    awaiting : SUBSET Ids, count : 0..MaxEvents, last : 0..MaxEvents]]
  <1>1. CASE UNCHANGED asking
    BY <1>1, RowsOfSameEvents DEF asking, Inv, TypeOK, Answers, Complete
  <1>2. CASE ~ UNCHANGED asking
    <2> DEFINE free == {i \in Pending : pages[i].at = "none"}
    <2>1. /\ free # {} /\ pages' = [pages EXCEPT ![Min(free)] = [NoPage EXCEPT !.at = "asked"]]
          /\ joinable' = TRUE /\ UNCHANGED older
      BY <1>2 DEF RefreshHead
    <2>2. free \in SUBSET (0..MaxPending) /\ MaxPending \in Nat /\ free \subseteq Pending
      BY DEF Pending
    <2>3. Min(free) \in free
      <3> HIDE DEF free
      <3> QED BY <2>1, <2>2, HasExtremes
    <2>4. PageTyped([NoPage EXCEPT !.at = "asked"]) /\ [NoPage EXCEPT !.at = "asked"].at # "answered"
      BY DEF PageTyped, NoPage
    <2>5. PICK p : p = [NoPage EXCEPT !.at = "asked"]
      OBVIOUS
    <2>6. PICK i \in Pending : i = Min(free)
      BY <2>2, <2>3
    <2> HIDE DEF free
    <2>7. pages' = [pages EXCEPT ![i] = p] /\ PageTyped(p) /\ p.at # "answered"
      BY <2>1, <2>4, <2>5, <2>6
    <2>8. QED BY <2>1, <2>7, PageSet
  <1>3. QED BY <1>1, <1>2

\* The list, its cursor and the pages stay what they are.
LEMMA AskedKeeps ==
  ASSUME Inv, UNCHANGED <<events, shown, oldest, known, skipped>>, Answers',
         awaiting' \subseteq shown, count' \in 0..MaxEvents, joinable' \in BOOLEAN,
         pages' \in [Pending -> [at : {"none", "asked", "answered"}, rows : SUBSET Ids,
                                 awaiting : SUBSET Ids, count : 0..MaxEvents, last : 0..MaxEvents]],
         older' \in {older, oldest, 0}, handled' \in [Threads -> 0..MaxEvents],
         own' \in [at : {"none", "ack", "ack all", "answered"}, event : 0..MaxEvents],
         own'.at = "ack" => own'.event \in Stored
  PROVE  Inv'
  <1>1. Rows' = Rows /\ Stored' = Stored
    BY RowsOfSameEvents
  <1>2. older' \in 0..MaxEvents
    BY ZeroIsNone DEF Inv, TypeOK
  <1>3. TypeOK'
    BY <1>2 DEF Inv, TypeOK
  <1>4. Listed'
    BY <1>1 DEF Inv, Listed
  <1>5. Known'
    BY <1>1 DEF Inv, Listed, Known
  <1>6. PagingSkipsNothing'
    BY <1>1 DEF Inv, PagingSkipsNothing
  <1>7. QED BY <1>3, <1>4, <1>5, <1>6 DEF Inv

LEMMA SameAnswers ==
  ASSUME Inv, UNCHANGED <<events, pages>>
  PROVE  Answers'
  BY RowsOfSameEvents DEF Inv, Answers, Complete

LEMMA PostStep ==
  ASSUME Inv, NEW t \in Threads, NEW a \in Authors, Post(t, a)
  PROVE  Inv'
  <1>1. Written
    BY AppendIsWritten DEF Post
  <1>2. UNCHANGED <<feed, asking>> /\ OwnKept /\ handled' \in [Threads -> 0..MaxEvents]
    BY DEF Post, OwnKept, Inv, TypeOK
  <1>3. QED BY <1>1, <1>2, WrittenKeeps

LEMMA PageStep ==
  ASSUME Inv, NEW i \in Pending, AnswerPage(i) \/ FailPage(i)
  PROVE  Inv'
  <1>1. /\ UNCHANGED <<events, shown, oldest, known, skipped>>
        /\ UNCHANGED <<awaiting, count, older, handled, own>>
        /\ joinable' \in BOOLEAN
    BY DEF AnswerPage, FailPage, daemon, feed, Inv, TypeOK
  <1>2. /\ Answers'
        /\ pages' \in [Pending -> [at : {"none", "asked", "answered"}, rows : SUBSET Ids,
                                   awaiting : SUBSET Ids, count : 0..MaxEvents, last : 0..MaxEvents]]
    <2>1. CASE AnswerPage(i)
      <3>1. PICK p : p = Page(0)
        OBVIOUS
      <3>2. /\ PageTyped(p) /\ p.last = Len(events) /\ p.awaiting \subseteq p.rows
            /\ Complete(p.rows, p.last)
        BY <3>1, PageRead DEF Inv
      <3>3. pages' = [pages EXCEPT ![i] = p] /\ p.last <= Len(events)
        BY <2>1, <3>1, <3>2, Numbers DEF AnswerPage, Inv
      <3>4. QED BY <1>1, <3>2, <3>3, PageSet
    <2>2. CASE FailPage(i)
      <3>1. PageTyped(NoPage) /\ NoPage.at # "answered" /\ pages' = [pages EXCEPT ![i] = NoPage]
        BY <2>2 DEF FailPage, PageTyped, NoPage
      <3>2. QED BY <1>1, <3>1, PageSet
    <2>3. QED BY <2>1, <2>2
  <1>3. QED BY <1>1, <1>2, AskedKeeps DEF Inv, TypeOK, Known

LEMMA ApplyPageStep ==
  ASSUME Inv, NEW i \in Pending, ApplyPage(i)
  PROVE  Inv'
  <1>1. /\ pages[i].at = "answered" /\ MergeHead(pages[i]) /\ UNCHANGED <<events, handled, older, own>>
        /\ count' = pages[i].count /\ pages' = [pages EXCEPT ![i] = NoPage] /\ joinable' = FALSE
    BY DEF ApplyPage, daemon
  <1>2. /\ shown' \subseteq Ids /\ IsFiniteSet(shown') /\ Cardinality(shown') <= Cap
        /\ awaiting' \subseteq shown' /\ oldest' \in 0..MaxEvents
        /\ known' = pages[i].last /\ known' <= Len(events) /\ skipped' \subseteq Ids
        /\ shown # {} => shown' # {}
        /\ Listed' /\ PagingSkipsNothing'
    BY <1>1, HeadMerged
  <1>3. PageTyped(NoPage) /\ NoPage.at # "answered"
    BY DEF PageTyped, NoPage
  <1>4. /\ Answers'
        /\ pages' \in [Pending -> [at : {"none", "asked", "answered"}, rows : SUBSET Ids,
                                   awaiting : SUBSET Ids, count : 0..MaxEvents, last : 0..MaxEvents]]
    BY <1>1, <1>3, PageSet
  <1>5. count' \in 0..MaxEvents /\ known' \in 0..MaxEvents
    BY <1>1, <1>2 DEF Inv, TypeOK
  <1>6. TypeOK'
    BY <1>1, <1>2, <1>4, <1>5 DEF Inv, TypeOK
  <1>7. Known'
    BY <1>1, <1>2, RowsOfSameEvents DEF Inv, Known
  <1>8. QED BY <1>2, <1>4, <1>6, <1>7 DEF Inv

LEMMA ApplyOlderStep ==
  ASSUME Inv, ApplyOlder
  PROVE  Inv'
  <1>1. /\ older # 0 /\ MergeOlder(Page(older)) /\ UNCHANGED <<events, handled, joinable, pages, own>>
        /\ count' = Page(older).count /\ older' = 0
    BY DEF ApplyOlder, daemon
  <1>2. /\ shown' \subseteq Ids /\ IsFiniteSet(shown') /\ Cardinality(shown') <= Cap
        /\ awaiting' \subseteq shown' /\ oldest' \in 0..MaxEvents
        /\ known' = known /\ skipped' \subseteq Ids
        /\ Listed' /\ PagingSkipsNothing'
    BY <1>1, OlderMerged
  <1>3. Answers'
    BY <1>1, SameAnswers
  <1>4. count' \in 0..MaxEvents
    BY <1>1, PageRead DEF Inv
  <1>5. TypeOK'
    <2>1. older' \in 0..MaxEvents
      BY <1>1
    <2>2. QED BY <1>1, <1>2, <1>4, <2>1 DEF Inv, TypeOK
  <1>6. Known'
    BY <1>1, <1>2, RowsOfSameEvents DEF Inv, Known
  <1>7. QED BY <1>2, <1>3, <1>5, <1>6 DEF Inv

LEMMA AskStep ==
  ASSUME Inv, Signalled \/ LoadMore \/ FailOlder \/ RefreshAfterOwn
  PROVE  Inv'
  <1>1. /\ UNCHANGED <<events, shown, oldest, known, skipped>>
        /\ UNCHANGED <<awaiting, count, handled>>
    BY DEF Signalled, LoadMore, FailOlder, RefreshAfterOwn, daemon, feed
  <1>2. /\ Answers' /\ joinable' \in BOOLEAN /\ older' \in {older, oldest, 0}
        /\ pages' \in [Pending -> [at : {"none", "asked", "answered"}, rows : SUBSET Ids,
                                   awaiting : SUBSET Ids, count : 0..MaxEvents, last : 0..MaxEvents]]
    <2>1. CASE Signalled \/ RefreshAfterOwn
      BY <1>1, <2>1, HeadAsked DEF Signalled, RefreshAfterOwn
    <2>2. CASE LoadMore \/ FailOlder
      BY <1>1, <2>2, SameAnswers DEF LoadMore, FailOlder, Inv, TypeOK
    <2>3. QED BY <2>1, <2>2
  <1>3. /\ own' \in [at : {"none", "ack", "ack all", "answered"}, event : 0..MaxEvents]
        /\ own'.at = "ack" => own'.event \in Stored
    <2>1. CASE UNCHANGED own
      BY <2>1 DEF Inv, TypeOK, Known
    <2>2. CASE own' = NoOwn
      BY <2>2 DEF NoOwn
    <2>3. QED BY <2>1, <2>2 DEF Signalled, LoadMore, FailOlder, RefreshAfterOwn
  <1>4. QED BY <1>1, <1>2, <1>3, AskedKeeps DEF Inv, TypeOK

-----------------------------------------------------------------------------
(*                         What the user does                              *)

\* A row of the list names an event with its thread.
LEMMA RowOfList ==
  ASSUME Inv, NEW e \in Stored
  PROVE  e \in 0..MaxEvents /\ events[e].thread \in Threads
  <1>1. Stored \subseteq Ids /\ Ids \subseteq 0..MaxEvents
    BY Numbers DEF Inv, Ids
  <1>2. events \in Seq([thread : Threads, author : Authors \cup {Me}]) /\ e \in 1..Len(events)
    BY DEF Inv, TypeOK, Stored
  <1>3. events[e] \in [thread : Threads, author : Authors \cup {Me}]
    <2> DEFINE M == [thread : Threads, author : Authors \cup {Me}]
    <2>1. events \in Seq(M) /\ e \in 1..Len(events)
      BY <1>2
    <2> HIDE DEF M
    <2>2. events[e] \in M
      BY <2>1
    <2>3. QED BY <2>2 DEF M
  <1>4. QED BY <1>1, <1>3

LEMMA AnsweredTyped ==
  ASSUME Answered
  PROVE  /\ own' \in [at : {"none", "ack", "ack all", "answered"}, event : 0..MaxEvents]
         /\ own'.at = "answered"
  BY ZeroIsNone DEF Answered, NoOwn

LEMMA AnswerStep ==
  ASSUME Inv, NEW e \in shown, Answer(e)
  PROVE  Inv'
  <1>1. e \in Stored
    BY DEF Inv, Listed
  <1>2. PICK t \in Threads : t = events[e].thread
    BY <1>1, RowOfList
  <1>3. /\ Len(events) < MaxEvents /\ events' = Append(events, [thread |-> t, author |-> Me])
        /\ handled' = Furthest(t, Len(events) + 1) /\ Answered /\ UNCHANGED <<feed, asking>>
    BY <1>2 DEF Answer
  <1>4. Written
    BY <1>3, AppendIsWritten
  <1>5. Len(events) + 1 \in 0..MaxEvents
    BY <1>3, Numbers DEF Inv
  <1>6. handled' \in [Threads -> 0..MaxEvents]
    BY <1>3, <1>5, FurthestTyped DEF Inv
  <1>7. OwnKept
    BY <1>3, AnsweredTyped DEF OwnKept
  <1>8. QED BY <1>3, <1>4, <1>6, <1>7, WrittenKeeps

LEMMA OwnStep ==
  ASSUME Inv, \/ \E e \in shown : React(e) \/ Acknowledge(e)
              \/ AcknowledgeAll \/ StoreAck \/ FailAck
  PROVE  Inv'
  <1>1. /\ UNCHANGED <<events, shown, oldest, known, skipped>>
        /\ UNCHANGED <<joinable, pages, older>>
    BY DEF React, Acknowledge, AcknowledgeAll, StoreAck, FailAck, daemon, feed, asking
  <1> DEFINE Kept ==
               /\ awaiting' \subseteq shown /\ count' \in 0..MaxEvents
               /\ handled' \in [Threads -> 0..MaxEvents]
               /\ own' \in [at : {"none", "ack", "ack all", "answered"}, event : 0..MaxEvents]
               /\ own'.at = "ack" => own'.event \in Stored
  <1>2. Kept
    <2>1. ASSUME NEW e \in shown, React(e) PROVE Kept
      <3>1. e \in Stored
        BY DEF Inv, Listed
      <3>2. e \in 0..MaxEvents /\ events[e].thread \in Threads
        BY <3>1, RowOfList
      <3>3. handled' \in [Threads -> 0..MaxEvents]
        BY <2>1, <3>2, FurthestTyped DEF React, Inv
      <3>4. Answered /\ UNCHANGED <<awaiting, count>>
        BY <2>1 DEF React, feed
      <3>5. QED BY <3>3, <3>4, AnsweredTyped DEF Inv, TypeOK
    <2>2. ASSUME NEW e \in shown, Acknowledge(e) PROVE Kept
      <3>1. e \in Stored /\ e \in 0..MaxEvents
        BY RowOfList DEF Inv, Listed
      <3>2. /\ awaiting' = awaiting \ {e} /\ own' = [at |-> "ack", event |-> e]
            /\ count' = IF e \in awaiting THEN Cardinality(awaiting') ELSE count
            /\ UNCHANGED handled
        BY <2>2 DEF Acknowledge, daemon
      <3>3. awaiting' \in SUBSET Ids
        BY <3>2, Numbers DEF Inv
      <3>4. Cardinality(awaiting') \in 0..MaxEvents
        BY <3>3, CountOfIds
      <3>5. QED BY <3>1, <3>2, <3>4 DEF Inv, TypeOK
    <2>3. CASE AcknowledgeAll
      <3>1. awaiting' = {} /\ count' = 0 /\ own' = [at |-> "ack all", event |-> 0] /\ UNCHANGED handled
        BY <2>3 DEF AcknowledgeAll, daemon
      <3>2. QED BY <3>1, ZeroIsNone DEF Inv, TypeOK
    <2>4. CASE StoreAck
      <3>1. Answered /\ UNCHANGED <<awaiting, count>>
        BY <2>4 DEF StoreAck, feed
      <3>2. handled' \in [Threads -> 0..MaxEvents]
        <4>1. CASE own.at = "ack"
          <5>1. own.event \in Stored
            BY <4>1 DEF Inv, Known
          <5>2. own.event \in 0..MaxEvents /\ events[own.event].thread \in Threads
            BY <5>1, RowOfList
          <5>3. QED BY <2>4, <4>1, <5>2, FurthestTyped DEF StoreAck, Inv
        <4>2. CASE own.at # "ack"
          BY <2>4, <4>2, AllHandledTyped DEF StoreAck, Inv
        <4>3. QED BY <4>1, <4>2
      <3>3. QED BY <3>1, <3>2, AnsweredTyped DEF Inv, TypeOK
    <2>5. CASE FailAck
      <3>1. Answered /\ UNCHANGED <<awaiting, count, handled>>
        BY <2>5 DEF FailAck, feed, daemon
      <3>2. QED BY <3>1, AnsweredTyped DEF Inv, TypeOK
    <2>6. QED BY <2>1, <2>2, <2>3, <2>4, <2>5
  <1>3. Answers'
    BY <1>1, SameAnswers
  <1>4. QED BY <1>1, <1>2, <1>3, AskedKeeps DEF Inv, TypeOK

-----------------------------------------------------------------------------
(*                              The theorems                               *)

LEMMA InitInv == Init => Inv
  <1> SUFFICES ASSUME Init PROVE Inv
    OBVIOUS
  <1>1. events \in Seq([thread : Threads, author : Authors \cup {Me}]) /\ Len(events) = Earlier
    <2>1. Earlier \in Nat /\ events \in [1..Earlier -> [thread : Threads, author : Authors]]
      BY DEF Init
    <2>2. events \in [1..Earlier -> [thread : Threads, author : Authors \cup {Me}]]
      BY <2>1
    <2> DEFINE M == [thread : Threads, author : Authors \cup {Me}]
    <2>3. events \in [1..Earlier -> M] /\ Earlier \in Nat
      BY <2>1, <2>2
    <2> HIDE DEF M
    <2>4. events \in Seq(M) /\ Len(events) = Earlier
      BY <2>3
    <2>5. QED BY <2>4 DEF M
  <1>2. pages \in [Pending -> [at : {"none", "asked", "answered"}, rows : SUBSET Ids,
                               awaiting : SUBSET Ids, count : 0..MaxEvents, last : 0..MaxEvents]]
        /\ \A i \in Pending : pages[i].at # "answered"
    <2>1. PageTyped(NoPage) /\ PageTyped([NoPage EXCEPT !.at = "asked"])
          /\ NoPage.at # "answered" /\ [NoPage EXCEPT !.at = "asked"].at # "answered"
      BY DEF PageTyped, NoPage
    <2>2. QED BY <2>1 DEF Init, PageTyped
  <1>3. own \in [at : {"none", "ack", "ack all", "answered"}, event : 0..MaxEvents] /\ own.at # "ack"
    BY DEF Init, NoOwn
  <1>4. Cardinality(shown) <= Cap /\ shown = {}
    <2>1. shown = {}
      BY DEF Init
    <2>2. QED BY <2>1, FS_EmptySet
  <1>5. TypeOK
    <2>1. Earlier <= MaxEvents /\ 0 \in 0..MaxEvents
      OBVIOUS
    <2>2. handled \in [Threads -> 0..MaxEvents]
      BY <2>1 DEF Init
    <2>3. Len(events) <= MaxEvents
      BY <1>1, <2>1
    <2>4. QED BY <1>1, <1>2, <1>3, <1>4, <2>1, <2>2, <2>3 DEF Init, TypeOK
  <1>6. Answers
    BY <1>2 DEF Answers
  <1>7. Listed /\ Known /\ PagingSkipsNothing
    <2>1. 0 <= Len(events)
      BY <1>1
    <2>2. QED BY <1>3, <2>1 DEF Init, Listed, Known, PagingSkipsNothing
  <1>8. QED BY <1>5, <1>6, <1>7 DEF Inv

LEMMA NextStep ==
  ASSUME Inv, [Next]_vars
  PROVE  Inv'
  <1>1. CASE Next
    BY <1>1, PostStep, PageStep, ApplyPageStep, ApplyOlderStep, AskStep, AnswerStep, OwnStep DEF Next
  <1>2. CASE UNCHANGED vars
    <2>1. UNCHANGED <<events, handled, shown, awaiting, count, oldest, joinable, pages, older, own,
                      known, skipped>>
      BY <1>2 DEF vars
    <2>2. QED BY <2>1, SameAnswers, AskedKeeps DEF Inv, TypeOK, Known
  <1>3. QED BY <1>1, <1>2

LEMMA Invariance == Spec => []Inv
  <1>1. Init => Inv
    BY InitInv
  <1>2. Inv /\ [Next]_vars => Inv'
    BY NextStep
  <1>3. QED BY <1>1, <1>2, PTL DEF Spec

\* The list has no more rows than it may, its flags are of rows it shows, and the
\* badge, the cursor and the pages under way are typed.
THEOREM TypeCorrect == Spec => []TypeOK
  <1>1. Inv => TypeOK
    BY DEF Inv
  <1>2. QED BY <1>1, Invariance, PTL

\* Whatever heads overtake one another while authors write again and rows are cut
\* off, paging skips none but what PagingSkipsNothing names.
THEOREM PagesAreComplete == Spec => []PagingSkipsNothing
  <1>1. Inv => PagingSkipsNothing
    BY DEF Inv
  <1>2. QED BY <1>1, Invariance, PTL
=============================================================================
