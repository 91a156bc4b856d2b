---------------------------- MODULE Letta_proofs ----------------------------
(***************************************************************************)
(* Theorems about Letta, for every page size and every bound on events,    *)
(* failures and crashes.                                                   *)
(***************************************************************************)
EXTENDS Letta, FiniteSetTheorems, TLAPS

USE LettaAssumption DEF LettaAssumption

-----------------------------------------------------------------------------
(*                            Queues of events                             *)

Elements(q) == {q[i] : i \in 1..Len(q)}
Distinct(q) == \A i, j \in 1..Len(q) : q[i] = q[j] => i = j

LEMMA JoinedQueue ==
  ASSUME NEW q \in Seq(Ids), NEW r \in Seq(Ids), Distinct(q), Distinct(r),
         \A e \in Elements(r) : e \notin Elements(q)
  PROVE  /\ q \o r \in Seq(Ids) /\ Distinct(q \o r)
         /\ Elements(q \o r) = Elements(q) \cup Elements(r)
         /\ q # <<>> => q \o r # <<>> /\ (q \o r)[1] = q[1]
  <1>1. /\ q \o r \in Seq(Ids) /\ Len(q \o r) = Len(q) + Len(r)
        /\ Len(q) \in Nat /\ Len(r) \in Nat
    OBVIOUS
  <1>2. \A i \in 1..Len(q) : (q \o r)[i] = q[i]
    OBVIOUS
  <1>3. \A i \in 1..Len(r) : (q \o r)[Len(q) + i] = r[i]
    OBVIOUS
  <1>4. \A i \in 1..Len(q \o r) : i \in 1..Len(q) \/ \E j \in 1..Len(r) : i = Len(q) + j
    <2>1. ASSUME NEW i \in 1..Len(q \o r), i \notin 1..Len(q)
          PROVE  i - Len(q) \in 1..Len(r) /\ i = Len(q) + (i - Len(q))
      BY <1>1, <2>1
    <2>2. QED BY <2>1
  <1>5. Elements(q \o r) = Elements(q) \cup Elements(r)
    <2>1. ASSUME NEW e \in Elements(q \o r) PROVE e \in Elements(q) \cup Elements(r)
      BY <1>2, <1>3, <1>4 DEF Elements
    <2>2. ASSUME NEW e \in Elements(q) PROVE e \in Elements(q \o r)
      BY <1>1, <1>2 DEF Elements
    <2>3. ASSUME NEW e \in Elements(r) PROVE e \in Elements(q \o r)
      <3>1. PICK j \in 1..Len(r) : e = r[j]
        BY DEF Elements
      <3>2. Len(q) + j \in 1..Len(q \o r)
        BY <1>1
      <3>3. QED BY <1>3, <3>1, <3>2 DEF Elements
    <2>4. QED BY <2>1, <2>2, <2>3
  <1>6. Distinct(q \o r)
    <2> SUFFICES ASSUME NEW i \in 1..Len(q \o r), NEW j \in 1..Len(q \o r), (q \o r)[i] = (q \o r)[j]
                 PROVE  i = j
      BY DEF Distinct
    <2>1. \A k \in 1..Len(q), l \in 1..Len(r) : q[k] # r[l]
      BY DEF Elements
    <2>2. CASE i \in 1..Len(q) /\ j \in 1..Len(q)
      BY <1>2, <2>2 DEF Distinct
    <2>3. CASE i \in 1..Len(q) /\ \E k \in 1..Len(r) : j = Len(q) + k
      BY <1>2, <1>3, <2>1, <2>3
    <2>4. CASE j \in 1..Len(q) /\ \E k \in 1..Len(r) : i = Len(q) + k
      BY <1>2, <1>3, <2>1, <2>4
    <2>5. CASE (\E k \in 1..Len(r) : i = Len(q) + k) /\ (\E k \in 1..Len(r) : j = Len(q) + k)
      BY <1>3, <2>5 DEF Distinct
    <2>6. QED BY <1>4, <2>2, <2>3, <2>4, <2>5
  <1>7. ASSUME q # <<>> PROVE q \o r # <<>> /\ (q \o r)[1] = q[1]
    <2>1. Len(q) > 0
      BY <1>7
    <2>2. QED BY <1>1, <1>2, <2>1
  <1>8. QED BY <1>1, <1>5, <1>6, <1>7

LEMMA ShortenedQueue ==
  ASSUME NEW q \in Seq(Ids), q # <<>>, Distinct(q)
  PROVE  /\ Tail(q) \in Seq(Ids) /\ Distinct(Tail(q))
         /\ Head(q) \in Ids
         /\ Elements(q) = {Head(q)} \cup Elements(Tail(q))
         /\ Head(q) \notin Elements(Tail(q))
  <1>1. /\ Len(q) \in Nat /\ Len(q) > 0 /\ Head(q) = q[1] /\ Head(q) \in Ids
        /\ Tail(q) \in Seq(Ids) /\ Len(Tail(q)) = Len(q) - 1
    OBVIOUS
  <1>2. \A i \in 1..Len(Tail(q)) : Tail(q)[i] = q[i + 1] /\ i + 1 \in 1..Len(q)
    BY <1>1
  <1>3. Distinct(Tail(q))
    BY <1>2 DEF Distinct
  <1>4. Head(q) \notin Elements(Tail(q))
    <2>1. 1 \in 1..Len(q)
      BY <1>1
    <2>2. \A i \in 1..Len(Tail(q)) : Tail(q)[i] # q[1]
      BY <1>2, <2>1 DEF Distinct
    <2>3. QED BY <1>1, <2>2 DEF Elements
  <1>5. Elements(q) = {Head(q)} \cup Elements(Tail(q))
    <2>1. ASSUME NEW e \in Elements(q) PROVE e \in {Head(q)} \cup Elements(Tail(q))
      <3>1. PICK i \in 1..Len(q) : e = q[i]
        BY DEF Elements
      <3>2. CASE i = 1
        BY <1>1, <3>1, <3>2
      <3>3. CASE i # 1
        <4>1. i - 1 \in 1..Len(Tail(q)) /\ (i - 1) + 1 = i
          BY <1>1, <3>3
        <4>2. Tail(q)[i - 1] = e
          BY <1>2, <3>1, <4>1
        <4>3. QED BY <4>1, <4>2 DEF Elements
      <3>4. QED BY <3>2, <3>3
    <2>2. ASSUME NEW e \in {Head(q)} \cup Elements(Tail(q)) PROVE e \in Elements(q)
      <3>1. 1 \in 1..Len(q)
        BY <1>1
      <3>2. QED BY <1>1, <1>2, <3>1 DEF Elements
    <2>3. QED BY <2>1, <2>2
  <1>6. QED BY <1>1, <1>3, <1>4, <1>5

-----------------------------------------------------------------------------
(*                           The jobs of a page                            *)

\* A set of numbers with a bound has a greatest one: of the sets of what lies
\* above an element one is minimal, and it is empty.
LEMMA HasMaximum ==
  ASSUME NEW n \in Nat, NEW S \in SUBSET (1..n), S # {}
  PROVE  \E m \in S : \A k \in S : k <= m
  <1> DEFINE Above(m) == {k \in S : k > m}
             T == {Above(m) : m \in S}
             R == StrictSubsetOrdering(1..n)
  <1>1. IsWellFoundedOn(R, FiniteSubsetsOf(1..n))
    BY FS_StrictSubsetOrderingWellFounded
  <1>2. T \subseteq FiniteSubsetsOf(1..n)
    <2>1. ASSUME NEW m \in S PROVE Above(m) \in SUBSET (1..n) /\ IsFiniteSet(Above(m))
      <3>1. IsFiniteSet(1..n)
        BY FS_Interval
      <3>2. Above(m) \in SUBSET (1..n)
        OBVIOUS
      <3>3. QED BY <3>1, <3>2, FS_Subset
    <2>2. QED BY <2>1 DEF FiniteSubsetsOf
  <1>3. T # {}
    OBVIOUS
  <1>4. \E x \in T : \A y \in T : ~ (<<y, x>> \in R)
    <2> HIDE DEF T, R
    <2> QED BY <1>1, <1>2, <1>3, WFMin
  <1>5. PICK m \in S : \A k \in S : ~ (<<Above(k), Above(m)>> \in R)
    BY <1>4
  <1>6. ASSUME NEW k \in S, k > m PROVE FALSE
    <2> HIDE DEF T, R
    <2>1. Above(k) \subseteq Above(m)
      <3>1. ASSUME NEW j \in S, j > k PROVE j > m
        <4>1. j \in Int /\ k \in Int /\ m \in Int
          OBVIOUS
        <4>2. QED BY <1>6, <3>1, <4>1
      <3>2. QED BY <3>1
    <2>2. k \in Above(m) /\ k \notin Above(k)
      BY <1>6
    <2>3. Above(k) \in SUBSET (1..n) /\ Above(m) \in SUBSET (1..n) /\ Above(k) # Above(m)
      BY <2>2
    <2>4. <<Above(k), Above(m)>> \in R
      BY <2>1, <2>3 DEF R, StrictSubsetOrdering
    <2>5. QED BY <1>5, <2>4
  <1>7. QED BY <1>6

\* It has an enumeration in ascending order: a minimal set without one would get
\* one from that of all its elements but the greatest.
Ascending(s) == \A i, j \in DOMAIN s : i < j => s[i] < s[j]
Sorted(t)    == \E s \in [1..Cardinality(t) -> t] : Ascending(s)

LEMMA HasAscending ==
  ASSUME NEW n \in Nat, NEW ms \in SUBSET (1..n)
  PROVE  Sorted(ms)
  <1> DEFINE Bad == {t \in SUBSET (1..n) : ~ Sorted(t)}
             R == StrictSubsetOrdering(1..n)
  <1>1. IsFiniteSet(1..n)
    BY FS_Interval
  <1>2. \A t \in SUBSET (1..n) : IsFiniteSet(t) /\ Cardinality(t) \in Nat
    BY <1>1, FS_Subset, FS_CardinalityType
  <1>3. SUFFICES ASSUME Bad # {} PROVE FALSE
    OBVIOUS
  <1>4. PICK t \in Bad : \A u \in Bad : ~ (<<u, t>> \in R)
    <2>1. IsWellFoundedOn(R, FiniteSubsetsOf(1..n))
      BY FS_StrictSubsetOrderingWellFounded
    <2>2. Bad \subseteq FiniteSubsetsOf(1..n)
      BY <1>2 DEF FiniteSubsetsOf
    <2> HIDE DEF Bad, R
    <2>3. QED BY <1>3, <2>1, <2>2, WFMin
  <1>5. CASE t = {}
    <2> DEFINE s == [i \in 1..0 |-> 0]
    <2>1. Cardinality(t) = 0
      BY <1>5, FS_EmptySet
    <2>2. s \in [1..Cardinality(t) -> t] /\ Ascending(s)
      BY <2>1 DEF Ascending
    <2>3. QED BY <2>2 DEF Sorted
  <1>6. CASE t # {}
    <2>1. PICK m \in t : \A k \in t : k <= m
      BY <1>6, HasMaximum
    <2> DEFINE u == t \ {m}
               c == Cardinality(u)
    <2>2. Cardinality(t) = c + 1 /\ c \in Nat
      BY <1>2, FS_RemoveElement
    <2>3. <<u, t>> \in R
      BY DEF StrictSubsetOrdering
    <2>4. PICK s \in [1..c -> u] : Ascending(s)
      BY <1>4, <2>3 DEF Sorted
    <2> DEFINE r == [i \in 1..(c + 1) |-> IF i <= c THEN s[i] ELSE m]
    <2>5. \A i \in 1..c : s[i] \in t /\ s[i] < m
      <3>1. ASSUME NEW i \in 1..c PROVE s[i] \in t /\ s[i] < m
        <4>1. s[i] \in u
          BY <2>4
        <4>2. t \subseteq Int
          BY DEF Bad
        <4>3. s[i] \in Int /\ m \in Int /\ s[i] # m /\ s[i] \in t
          BY <4>1, <4>2
        <4>4. QED BY <2>1, <4>3
      <3>2. QED BY <3>1
    <2> HIDE DEF u, c, Bad, R
    <2>6. r \in [1..(c + 1) -> t]
      BY <2>2, <2>5
    <2>7. ASSUME NEW i \in 1..(c + 1), NEW j \in 1..(c + 1), i < j PROVE r[i] < r[j]
      <3>1. i \in 1..c /\ r[i] = s[i]
        BY <2>2, <2>7
      <3>2. CASE j <= c
        <4>1. j \in 1..c /\ r[j] = s[j]
          BY <2>2, <3>2
        <4>2. QED BY <2>4, <2>7, <3>1, <4>1 DEF Ascending
      <3>3. CASE ~ (j <= c)
        BY <2>5, <3>1, <3>3
      <3>4. QED BY <3>2, <3>3
    <2>8. r \in [1..Cardinality(t) -> t] /\ Ascending(r)
      BY <2>2, <2>6, <2>7 DEF Ascending
    <2>9. Sorted(t)
      <3> HIDE DEF r
      <3>1. QED BY <2>8 DEF Sorted
    <2>10. QED BY <2>9 DEF Bad
  <1>7. QED BY <1>5, <1>6

\* The jobs of a page are its messages that were not seen, the oldest first.
LEMMA JobsOfPage ==
  ASSUME TypeOK, poll.page \subseteq Stored
  PROVE  /\ Jobs(poll.page) \in Seq(Ids) /\ Distinct(Jobs(poll.page))
         /\ Elements(Jobs(poll.page)) \subseteq poll.page \ seen
         /\ \A i \in 1..Len(Jobs(poll.page)) : Jobs(poll.page)[1] <= Jobs(poll.page)[i]
  <1> DEFINE ms == {e \in poll.page \ seen : events[e] = "message"}
             c == Cardinality(ms)
             s == Jobs(poll.page)
  <1>1. ms \in SUBSET (1..Len(events)) /\ Len(events) \in Nat /\ ms \subseteq Ids
    BY DEF TypeOK, Stored, Ids
  <1>2. c \in Nat
    <2>1. IsFiniteSet(1..Len(events))
      BY <1>1, FS_Interval
    <2>2. IsFiniteSet(ms)
      BY <1>1, <2>1, FS_Subset
    <2>3. QED BY <2>2, FS_CardinalityType
  <1>3. s \in [1..c -> ms] /\ Ascending(s)
    <2>1. Sorted(ms)
      BY <1>1, HasAscending
    <2>2. s = CHOOSE r \in [1..c -> ms] : Ascending(r)
      BY DEF Jobs, Ascending
    <2> HIDE DEF s
    <2>3. QED BY <2>1, <2>2 DEF Sorted
  <1> HIDE DEF s, c
  <1>4. s \in Seq(Ids) /\ Len(s) = c
    BY <1>1, <1>2, <1>3
  <1>5. \A i, j \in 1..c : i < j => s[i] < s[j]
    BY <1>3 DEF Ascending
  <1>6. \A i \in 1..c : s[i] \in ms /\ s[i] \in Int
    BY <1>1, <1>3 DEF Ids
  <1>7. Distinct(s)
    <2>1. ASSUME NEW i \in 1..c, NEW j \in 1..c, i < j PROVE s[i] # s[j]
      BY <1>5, <1>6, <2>1
    <2>2. ASSUME NEW i \in 1..c, NEW j \in 1..c, i # j PROVE i < j \/ j < i
      BY <1>2, <2>2
    <2>3. QED BY <1>4, <2>1, <2>2 DEF Distinct
  <1>8. Elements(s) \subseteq poll.page \ seen
    BY <1>4, <1>6 DEF Elements
  <1>9. ASSUME NEW i \in 1..c PROVE s[1] <= s[i]
    <2>1. 1 \in 1..c /\ (i = 1 \/ 1 < i)
      BY <1>2
    <2>2. QED BY <1>5, <1>6, <2>1
  <1>10. QED BY <1>4, <1>7, <1>8, <1>9 DEF s

-----------------------------------------------------------------------------
(*                         The inductive invariant                         *)

\* The process works on an event, of which the agent was told before it answers and,
\* unless the job was interrupted, before the event is acknowledged.
AtWork ==
  /\ worker \in {"working", "sending", "turn", "reply", "ack"} => current # 0
  /\ worker \in {"turn", "reply"} => current \in prompted
  /\ worker = "ack" => current \in prompted \cup gaveWay
  /\ interrupted => current # 0 /\ mode = "interrupt" /\ current \in gaveWay

\* What was seen and what is on the page is older than what is neither, unless
\* that is acknowledged: pages are read from the oldest open row on.
ReadInOrder ==
  /\ seen \subseteq Stored /\ poll.page \subseteq Stored
  /\ \A e \in seen, f \in Stored : f < e => f \in seen \cup acked
  /\ \A e \in poll.page, f \in Stored : f < e => f \in poll.page \cup seen \cup acked
  /\ poll.page \cap acked \subseteq seen

\* An event has one place: the queue or the job at hand.
QueuedOnce ==
  /\ Distinct(queue) /\ Elements(queue) \subseteq seen
  /\ current \in {0} \cup seen
  /\ current \notin Elements(queue)

\* In the life of a process an event is answered when its job is over.
AnsweredLast ==
  /\ AnsweredOnce
  /\ \A e \in Ids \ seen : answers[e] <= crashes
  /\ \A e \in Elements(queue) : answers[e] <= crashes
  /\ worker \in {"working", "sending", "turn", "reply"} => answers[current] <= crashes

Inv ==
  /\ TypeOK
  /\ AtWork
  /\ ReadInOrder
  /\ QueuedOnce
  /\ AckedWasPrompted
  /\ AnsweredLast
  /\ InterruptedForNewer

LEMMA InitInv == Init => Inv
  <1> SUFFICES ASSUME Init PROVE Inv
    OBVIOUS
  <1>1. Elements(queue) = {} /\ Distinct(queue) /\ queue \in Seq(Ids) /\ queue = <<>>
    BY DEF Init, Elements, Distinct
  <1>2. TypeOK
    <2>1. poll \in [at : {"none", "asked", "read", "abort"}, page : SUBSET Ids]
      BY DEF Init, NoPoll
    <2>2. events \in Seq({"message", "notice"}) /\ Len(events) <= MaxEvents
      BY DEF Init
    <2>3. answers \in [Ids -> Nat]
      BY DEF Init
    <2>4. worker \in Stages /\ current \in {0} \cup Ids /\ interrupted \in BOOLEAN
      BY DEF Init, Stages
    <2>5. failures \in 0..MaxFailures /\ crashes \in 0..MaxCrashes
      BY DEF Init
    <2>6. QED BY <1>1, <2>1, <2>2, <2>3, <2>4, <2>5 DEF Init, TypeOK
  <1>3. QED
    BY <1>1, <1>2 DEF Init, Inv, AtWork, ReadInOrder, QueuedOnce, AckedWasPrompted, AnsweredLast,
       AnsweredOnce, InterruptedForNewer, NoPoll

-----------------------------------------------------------------------------
(*                               The actions                               *)

LEMMA DeliverStep ==
  ASSUME Inv, NEW kind \in {"message", "notice"}, Deliver(kind)
  PROVE  Inv'
  <1>1. /\ events' \in Seq({"message", "notice"}) /\ Len(events') = Len(events) + 1
        /\ Len(events) \in Nat /\ Len(events') <= MaxEvents
    BY DEF Inv, TypeOK, Deliver
  <1>2. Stored \subseteq Stored' /\ \A f \in Stored' \ Stored, e \in Stored : ~ (f < e)
    BY <1>1 DEF Stored
  <1>3. UNCHANGED <<mode, acked, answers, poll, seen, queue, worker, current, interrupted,
                    prompted, gaveWay, lost, failures, crashes>>
    BY DEF Deliver, job, past
  <1>4. TypeOK'
    BY <1>1, <1>3 DEF Inv, TypeOK
  <1>5. ReadInOrder'
    BY <1>2, <1>3 DEF Inv, ReadInOrder
  <1>6. QED
    BY <1>3, <1>4, <1>5 DEF Inv, AtWork, QueuedOnce, AckedWasPrompted, AnsweredLast, AnsweredOnce,
       InterruptedForNewer

\* A page begins with the oldest row that is not acknowledged and leaves out none.
LEMMA PageInOrder ==
  ASSUME TypeOK
  PROVE  /\ Page \subseteq Stored \ acked
         /\ \A e \in Page, f \in Stored : f < e => f \in Page \cup acked
  <1> DEFINE open == Stored \ acked
             before(e) == {f \in open : f < e}
  <1>1. Page = {e \in open : Cardinality(before(e)) < PageLimit}
    BY DEF Page
  <1>2. Len(events) \in Nat /\ open \in SUBSET (1..Len(events))
    BY DEF TypeOK, Stored
  <1>3. \A e \in open : IsFiniteSet(before(e)) /\ Cardinality(before(e)) \in Nat
    <2>1. IsFiniteSet(1..Len(events))
      BY <1>2, FS_Interval
    <2>2. ASSUME NEW e \in open PROVE IsFiniteSet(before(e))
      <3>1. before(e) \in SUBSET (1..Len(events))
        BY <1>2
      <3>2. QED BY <2>1, <3>1, FS_Subset
    <2>3. QED BY <2>2, FS_CardinalityType
  <1>4. ASSUME NEW e \in Page, NEW f \in open, f < e PROVE f \in Page
    <2>1. e \in open /\ Cardinality(before(e)) < PageLimit
      BY <1>1
    <2>2. before(f) \subseteq before(e)
      <3>1. ASSUME NEW g \in open, g < f PROVE g < e
        <4>1. g \in Int /\ f \in Int /\ e \in Int
          BY <1>2, <2>1
        <4>2. QED BY <1>4, <3>1, <4>1
      <3>2. QED BY <3>1
    <2>3. Cardinality(before(f)) <= Cardinality(before(e))
      BY <1>3, <2>1, <2>2, FS_Subset
    <2>4. Cardinality(before(f)) \in Nat /\ Cardinality(before(e)) \in Nat
      BY <1>3, <2>1
    <2>5. Cardinality(before(f)) < PageLimit
      BY <2>1, <2>3, <2>4
    <2>6. QED BY <1>1, <2>5
  <1>5. QED BY <1>1, <1>4

LEMMA PollStep ==
  ASSUME Inv, Poll \/ ReadInbox \/ PollFails
  PROVE  Inv'
  <1>1. /\ UNCHANGED <<mode, events, acked, answers, seen, queue, worker, current, interrupted,
                       prompted, gaveWay, lost, crashes>>
        /\ failures' \in 0..MaxFailures
    BY DEF Poll, ReadInbox, PollFails, Fail, daemon, job, past, Inv, TypeOK
  <1>2. poll' = [poll EXCEPT !.at = "asked"] \/ poll' = [at |-> "read", page |-> Page] \/ poll' = NoPoll
    BY DEF Poll, ReadInbox, PollFails
  <1>3. Page \subseteq Stored \ acked /\ \A e \in Page, f \in Stored : f < e => f \in Page \cup acked
    BY PageInOrder DEF Inv
  <1>4. Stored \subseteq Ids
    BY DEF Inv, TypeOK, Stored, Ids
  <1>5. poll' \in [at : {"none", "asked", "read", "abort"}, page : SUBSET Ids]
        /\ poll'.page \in {poll.page, Page, {}}
    BY <1>2, <1>3, <1>4 DEF Inv, TypeOK, NoPoll
  <1>6. TypeOK'
    BY <1>1, <1>5 DEF Inv, TypeOK
  <1>7. ReadInOrder'
    BY <1>1, <1>3, <1>5 DEF Inv, ReadInOrder, Stored
  <1>8. QED
    BY <1>1, <1>6, <1>7 DEF Inv, AtWork, QueuedOnce, AckedWasPrompted, AnsweredLast, AnsweredOnce,
       InterruptedForNewer

\* A job is taken from the jobs that wait, or there is none.
LEMMA TakenJob ==
  ASSUME NEW jobs \in Seq(Ids), Distinct(jobs), TakeJob(jobs)
  PROVE  /\ queue' \in Seq(Ids) /\ Distinct(queue') /\ Elements(queue') \subseteq Elements(jobs)
         /\ current' \in {0} \cup Elements(jobs) /\ current' \notin Elements(queue')
         /\ worker' \in {"none", "working"} /\ interrupted' = FALSE
         /\ worker' = "working" => current' \in Elements(jobs)
  <1>1. CASE jobs = <<>>
    <2>1. queue' = jobs /\ current' = 0 /\ worker' = "none" /\ interrupted' = FALSE
      BY <1>1 DEF TakeJob
    <2>2. Elements(jobs) = {}
      BY <1>1 DEF Elements
    <2>3. QED BY <2>1, <2>2
  <1>2. CASE jobs # <<>>
    <2>1. worker' = "working" /\ queue' = Tail(jobs) /\ current' = Head(jobs) /\ interrupted' = FALSE
      BY <1>2 DEF TakeJob
    <2>2. /\ Tail(jobs) \in Seq(Ids) /\ Distinct(Tail(jobs))
          /\ Elements(jobs) = {Head(jobs)} \cup Elements(Tail(jobs))
          /\ Head(jobs) \notin Elements(Tail(jobs))
      BY <1>2, ShortenedQueue
    <2>3. QED BY <2>1, <2>2
  <1>3. QED BY <1>1, <1>2

\* The parts of the invariant that a step of the poll loop's page shows.
LEMMA IngestStep ==
  ASSUME Inv, Ingest
  PROVE  Inv'
  <1> DEFINE jobs == Jobs(poll.page)
             seized == mode = "interrupt" /\ worker # "none" /\ current # 0 /\ jobs # <<>>
  <1>1. /\ jobs \in Seq(Ids) /\ Distinct(jobs)
        /\ Elements(jobs) \subseteq poll.page \ seen
        /\ \A i \in 1..Len(jobs) : jobs[1] <= jobs[i]
    BY JobsOfPage DEF Inv, ReadInOrder
  <1>2. UNCHANGED <<mode, events, acked, answers, prompted, lost, failures, crashes>>
    BY DEF Ingest, daemon
  <1>3. CASE seized
    <2> DEFINE first == jobs[1]
    <2>1. /\ seen' = seen \cup {e \in poll.page : e <= first}
          /\ interrupted' = TRUE /\ gaveWay' = gaveWay \cup {current}
          /\ queue' = <<first>> \o queue
          /\ poll' = [at |-> "abort", page |-> {e \in poll.page : e > first}]
          /\ UNCHANGED <<worker, current>>
      BY <1>3 DEF Ingest, IngestEvents
    <2>2. first \in Ids /\ first \in Elements(jobs) /\ first \in poll.page /\ first \notin seen
      <3>1. Len(jobs) \in Nat /\ Len(jobs) > 0
        BY <1>1, <1>3
      <3>2. QED BY <1>1, <3>1 DEF Elements
    <2> HIDE DEF jobs, first
    \* whatever was seen before is older: the row that interrupts is the newest
    <2>3. \A e \in seen : e < first
      <3>1. ASSUME NEW e \in seen PROVE e < first
        <4>1. first \in Stored /\ e \in Stored /\ first \in Int /\ e \in Int /\ e # first
          BY <2>2 DEF Inv, ReadInOrder, Stored, Ids
        <4>2. CASE first < e
          <5>1. first \in acked
            BY <2>2, <4>1, <4>2 DEF Inv, ReadInOrder
          <5>2. QED BY <2>2, <5>1 DEF Inv, ReadInOrder
        <4>3. QED BY <4>1, <4>2
      <3>2. QED BY <3>1
    <2>4. /\ queue' \in Seq(Ids) /\ Distinct(queue')
          /\ Elements(queue') = {first} \cup Elements(queue)
          /\ queue' # <<>> /\ queue'[1] = first
      <3>1. <<first>> \in Seq(Ids) /\ Distinct(<<first>>) /\ Elements(<<first>>) = {first}
            /\ <<first>> # <<>> /\ <<first>>[1] = first
        BY <2>2 DEF Distinct, Elements
      <3>2. \A e \in Elements(queue) : e \notin Elements(<<first>>)
        BY <2>2, <3>1 DEF Inv, QueuedOnce
      <3>3. queue \in Seq(Ids) /\ Distinct(queue)
        BY DEF Inv, TypeOK, QueuedOnce
      <3>4. QED BY <2>1, <3>1, <3>2, <3>3, JoinedQueue
    <2>5. seen' \subseteq Stored /\ seen' \subseteq Ids /\ first \in seen' /\ seen \subseteq seen'
      <3>1. first <= first
        BY <2>2 DEF Ids
      <3>2. QED BY <2>1, <2>2, <3>1 DEF Inv, ReadInOrder, TypeOK
    <2>6. TypeOK'
      <3>1. poll' \in [at : {"none", "asked", "read", "abort"}, page : SUBSET Ids]
        BY <2>1 DEF Inv, TypeOK
      <3>2. interrupted' \in BOOLEAN /\ gaveWay' \subseteq Ids
        BY <1>3, <2>1 DEF Inv, TypeOK
      <3>3. UNCHANGED <<worker, current>>
        BY <2>1
      <3>4. QED BY <1>2, <2>4, <2>5, <3>1, <3>2, <3>3 DEF Inv, TypeOK
    <2>7. ReadInOrder'
      <3>1. poll'.page = {e \in poll.page : e > first} /\ Stored' = Stored
        BY <1>2, <2>1 DEF Stored
      <3>2. \A e \in poll.page : e \in Int
        BY DEF Inv, TypeOK, Ids
      <3>3. first \in Int
        BY <2>2 DEF Ids
      <3>4. ASSUME NEW e \in seen', NEW f \in Stored, f < e PROVE f \in seen' \cup acked
        <4>1. CASE e \in seen
          BY <2>1, <3>4, <4>1 DEF Inv, ReadInOrder
        <4>2. CASE e \in poll.page /\ e <= first
          <5>1. f \in poll.page \cup seen \cup acked
            BY <3>4, <4>2 DEF Inv, ReadInOrder
          <5>2. f \in poll.page => f <= first
            BY <3>2, <3>3, <3>4, <4>2
          <5>3. QED BY <2>1, <5>1, <5>2
        <4>3. QED BY <2>1, <4>1, <4>2
      <3>5. ASSUME NEW e \in poll'.page, NEW f \in Stored, f < e PROVE f \in poll'.page \cup seen' \cup acked
        <4>1. f \in poll.page \cup seen \cup acked
          BY <3>1, <3>5 DEF Inv, ReadInOrder
        <4>2. f \in poll.page => f <= first \/ f > first
          BY <3>2, <3>3
        <4>3. QED BY <2>1, <3>1, <4>1, <4>2
      <3>6. poll'.page \cap acked \subseteq seen' /\ poll'.page \subseteq Stored
        BY <2>1, <3>1 DEF Inv, ReadInOrder
      <3>7. QED BY <1>2, <2>5, <3>1, <3>4, <3>5, <3>6 DEF ReadInOrder
    <2>8. QueuedOnce'
      <3>1. current \in {0} \cup seen /\ current \notin Elements(queue) /\ Elements(queue) \subseteq seen
        BY DEF Inv, QueuedOnce
      <3>2. current # first
        BY <2>2, <3>1 DEF Ids
      <3>3. current' = current
        BY <2>1
      <3>4. QED BY <2>4, <2>5, <3>1, <3>2, <3>3 DEF QueuedOnce
    <2>9. AtWork'
      BY <1>2, <1>3, <2>1 DEF Inv, AtWork
    <2>10. AnsweredLast'
      <3>1. \A e \in Ids \ seen' : answers[e] <= crashes
        BY <2>5 DEF Inv, AnsweredLast
      <3>2. answers[first] <= crashes
        BY <2>2 DEF Inv, AnsweredLast
      <3>3. QED BY <1>2, <2>1, <2>4, <3>1, <3>2 DEF Inv, AnsweredLast, AnsweredOnce
    <2>11. InterruptedForNewer'
      <3>1. queue'[1] > current'
        <4>1. current \in seen
          BY <1>3 DEF Inv, QueuedOnce
        <4>2. current < first /\ current \in Int /\ first \in Int
          BY <2>2, <2>3, <4>1 DEF Inv, TypeOK, Ids
        <4>3. QED BY <2>1, <2>4, <4>2
      <3>2. ASSUME NEW i \in DOMAIN queue' PROVE queue'[i] <= queue'[1]
        <4>1. queue'[i] \in Elements(queue')
          BY <2>4 DEF Elements
        <4>2. queue'[i] \in seen \/ queue'[i] = first
          BY <2>4, <4>1 DEF Inv, QueuedOnce
        <4>3. queue'[i] \in Ids /\ first \in Ids
          BY <2>2, <2>4
        <4>4. QED BY <2>3, <2>4, <4>2, <4>3 DEF Ids
      <3>3. QED BY <2>4, <3>1, <3>2 DEF InterruptedForNewer
    <2>12. QED
      BY <1>2, <2>1, <2>6, <2>7, <2>8, <2>9, <2>10, <2>11 DEF Inv, AckedWasPrompted
  <1>4. CASE ~ seized
    <2> DEFINE all == queue \o jobs
    <2>1. seen' = seen \cup poll.page /\ poll' = NoPoll /\ ProcessQueue(all) /\ UNCHANGED gaveWay
      BY <1>4 DEF Ingest, IngestEvents
    <2>2. /\ all \in Seq(Ids) /\ Distinct(all) /\ Elements(all) = Elements(queue) \cup Elements(jobs)
          /\ queue # <<>> => all # <<>> /\ all[1] = queue[1]
      <3>1. \A e \in Elements(jobs) : e \notin Elements(queue)
        BY <1>1 DEF Inv, QueuedOnce
      <3>2. queue \in Seq(Ids) /\ Distinct(queue)
        BY DEF Inv, TypeOK, QueuedOnce
      <3> HIDE DEF jobs
      <3>3. QED BY <1>1, <3>1, <3>2, JoinedQueue
    <2>3. /\ Elements(all) \subseteq seen' /\ seen' \subseteq Ids /\ seen' \subseteq Stored /\ seen \subseteq seen'
          /\ \A e \in Elements(all) : answers[e] <= crashes
      <3>1. \A e \in Elements(jobs) : e \in Ids \ seen
        BY <1>1 DEF Inv, TypeOK
      <3> HIDE DEF jobs, all
      <3>2. QED BY <1>1, <2>1, <2>2, <3>1 DEF Inv, TypeOK, ReadInOrder, QueuedOnce, AnsweredLast
    <2>4. ReadInOrder'
      <3>1. poll'.page = {} /\ Stored' = Stored
        BY <1>2, <2>1 DEF NoPoll, Stored
      <3>2. QED BY <1>2, <2>1, <2>3, <3>1 DEF Inv, ReadInOrder
    <2>5. poll' \in [at : {"none", "asked", "read", "abort"}, page : SUBSET Ids]
      BY <2>1 DEF NoPoll
    <2>6. CASE worker = "none" /\ all # <<>>
      <3>1. TakeJob(all)
        BY <2>1, <2>6 DEF ProcessQueue
      <3> HIDE DEF all, jobs
      <3>2. /\ queue' \in Seq(Ids) /\ Distinct(queue') /\ Elements(queue') \subseteq Elements(all)
            /\ current' \in {0} \cup Elements(all) /\ current' \notin Elements(queue')
            /\ worker' \in {"none", "working"} /\ interrupted' = FALSE
            /\ worker' = "working" => current' \in Elements(all)
        BY <2>2, <3>1, TakenJob
      <3>3. current' \in {0} \cup Ids /\ (worker' = "working" => current' # 0)
        BY <2>3, <3>2 DEF Ids
      <3>4. TypeOK'
        BY <1>2, <2>1, <2>3, <2>5, <3>2, <3>3 DEF Inv, TypeOK, Stages
      <3>5. QueuedOnce'
        BY <2>3, <3>2 DEF QueuedOnce
      <3>6. AnsweredLast'
        BY <1>2, <2>3, <3>2 DEF Inv, AnsweredLast, AnsweredOnce
      <3>7. AtWork' /\ InterruptedForNewer' /\ AckedWasPrompted'
        BY <1>2, <2>1, <3>2, <3>3 DEF Inv, AtWork, InterruptedForNewer, AckedWasPrompted
      <3>8. QED BY <2>4, <3>4, <3>5, <3>6, <3>7 DEF Inv
    <2>7. CASE ~ (worker = "none" /\ all # <<>>)
      <3>1. queue' = all /\ UNCHANGED <<worker, current, interrupted>>
        BY <2>1, <2>7 DEF ProcessQueue
      <3>2. interrupted => jobs = <<>>
        BY <1>4, <2>2, <2>7 DEF Inv, AtWork, InterruptedForNewer
      <3>3. interrupted => queue' = queue
        BY <3>1, <3>2 DEF Inv, TypeOK
      <3> HIDE DEF all, jobs
      <3>4. TypeOK'
        BY <1>2, <2>1, <2>2, <2>3, <2>5, <3>1 DEF Inv, TypeOK
      <3>5. QueuedOnce'
        <4>1. current \notin Elements(all)
          BY <1>1, <2>2 DEF Inv, QueuedOnce, TypeOK, Ids
        <4>2. QED BY <2>2, <2>3, <3>1, <4>1 DEF Inv, QueuedOnce
      <3>6. AnsweredLast'
        BY <1>2, <2>3, <3>1 DEF Inv, AnsweredLast, AnsweredOnce
      <3>7. AtWork' /\ InterruptedForNewer' /\ AckedWasPrompted'
        BY <1>2, <2>1, <3>1, <3>3 DEF Inv, AtWork, InterruptedForNewer, AckedWasPrompted
      <3>8. QED BY <2>4, <3>4, <3>5, <3>6, <3>7 DEF Inv
    <2>8. QED BY <2>6, <2>7
  <1>5. QED BY <1>3, <1>4

\* The worker goes on with the job at hand, or is done with it.
LEMMA JobStep ==
  ASSUME Inv, StartTurn \/ Prompt \/ GiveWay \/ StartFails \/ EndTurn \/ Reply \/ Ack \/ JobFails
  PROVE  Inv'
  <1>1. /\ UNCHANGED <<mode, events, poll, seen, queue, gaveWay, crashes>>
        /\ worker \in {"working", "sending", "turn", "reply", "ack"}
        /\ worker' \in Stages /\ failures' \in 0..MaxFailures
    BY DEF StartTurn, Prompt, GiveWay, StartFails, EndTurn, Reply, Ack, JobFails, Goto, Finish, Fail,
       daemon, past, Stages, Inv, TypeOK
  <1>2. current \in Ids /\ current \in seen /\ current \notin Elements(queue)
    BY <1>1 DEF Inv, TypeOK, AtWork, QueuedOnce
  <1>3. \/ UNCHANGED <<current, interrupted>>
        \/ current' = 0 /\ interrupted' = FALSE /\ worker' = "idle"
    BY DEF StartTurn, Prompt, GiveWay, StartFails, EndTurn, Reply, Ack, JobFails, Goto, Finish
  <1>4. /\ acked' \in {acked, acked \cup {current}}
        /\ acked' # acked => worker = "ack"
    BY DEF StartTurn, Prompt, GiveWay, StartFails, EndTurn, Reply, Ack, JobFails, daemon
  <1>5. prompted' \in {prompted, prompted \cup {current}} /\ lost' \in {lost, lost \cup {current}}
    BY DEF StartTurn, Prompt, GiveWay, StartFails, EndTurn, Reply, Ack, JobFails, Lose, past
  <1>6. \/ answers' = answers
        \/ /\ worker = "reply" /\ worker' \in {"ack", "idle"}
           /\ answers' = [answers EXCEPT ![current] = @ + 1]
    BY DEF StartTurn, Prompt, GiveWay, StartFails, EndTurn, Reply, Ack, JobFails, Goto, Finish, daemon
  <1>7. /\ worker' \in {"sending", "turn", "reply", "ack"} => UNCHANGED current
        /\ worker' \in {"turn", "reply"} => current \in prompted'
        /\ worker' = "ack" => current \in prompted' \cup gaveWay
    BY DEF StartTurn, Prompt, GiveWay, StartFails, EndTurn, Reply, Ack, JobFails, Goto, Finish, past,
       Inv, AtWork
  <1>8. worker' \in {"working", "sending", "turn", "reply"} =>
          UNCHANGED answers /\ worker \in {"working", "sending", "turn", "reply"}
    BY DEF StartTurn, Prompt, GiveWay, StartFails, EndTurn, Reply, Ack, JobFails, Goto, Finish, daemon
  <1>9. /\ answers' \in [Ids -> Nat]
        /\ \A e \in Ids : answers'[e] = answers[e]
                          \/ (e = current /\ answers[e] <= crashes /\ answers'[e] = answers[e] + 1)
    <2>1. CASE answers' = answers
      BY <2>1 DEF Inv, TypeOK
    <2>2. CASE worker = "reply" /\ answers' = [answers EXCEPT ![current] = @ + 1]
      <3>1. answers[current] <= crashes /\ answers \in [Ids -> Nat]
        BY <2>2 DEF Inv, AnsweredLast, TypeOK
      <3>2. QED BY <1>2, <2>2, <3>1
    <2>3. QED BY <1>6, <2>1, <2>2
  <1>10. TypeOK'
    BY <1>1, <1>2, <1>3, <1>4, <1>5, <1>9 DEF Inv, TypeOK
  <1>11. AtWork'
    BY <1>1, <1>2, <1>3, <1>7 DEF Inv, AtWork
  <1>12. ReadInOrder'
    BY <1>1, <1>2, <1>4 DEF Inv, ReadInOrder, Stored
  <1>13. QueuedOnce'
    BY <1>1, <1>3 DEF Inv, QueuedOnce, TypeOK, Ids
  <1>14. AckedWasPrompted'
    BY <1>1, <1>4, <1>5 DEF Inv, AtWork, AckedWasPrompted
  <1>15. AnsweredLast'
    <2>1. \A e \in Ids : answers[e] \in Nat /\ answers'[e] \in Nat
      BY <1>9 DEF Inv, TypeOK
    <2>2. crashes \in Nat
      BY DEF Inv, TypeOK
    <2>3. \A e \in Ids : answers'[e] <= 1 + crashes
      BY <1>9, <2>1, <2>2 DEF Inv, AnsweredLast, AnsweredOnce
    <2>4. \A e \in Ids \ seen : answers'[e] <= crashes
      BY <1>2, <1>9 DEF Inv, AnsweredLast
    <2>5. \A e \in Elements(queue) : answers'[e] <= crashes
      <3>1. ASSUME NEW e \in Elements(queue) PROVE e \in Ids /\ e # current
        BY <1>2 DEF Inv, TypeOK, QueuedOnce
      <3>2. \A e \in Elements(queue) : answers'[e] = answers[e]
        BY <1>9, <3>1
      <3>3. QED BY <3>2 DEF Inv, AnsweredLast
    <2>6. worker' \in {"working", "sending", "turn", "reply"} => answers'[current'] <= crashes
      BY <1>3, <1>8 DEF Inv, AnsweredLast
    <2>7. QED BY <1>1, <2>3, <2>4, <2>5, <2>6 DEF AnsweredLast, AnsweredOnce
  <1>16. InterruptedForNewer'
    BY <1>1, <1>3 DEF Inv, InterruptedForNewer
  <1>17. QED
    BY <1>10, <1>11, <1>12, <1>13, <1>14, <1>15, <1>16 DEF Inv

LEMMA NextJobStep ==
  ASSUME Inv, NextJob
  PROVE  Inv'
  <1>1. UNCHANGED <<mode, events, acked, answers, poll, seen, prompted, gaveWay, lost, failures, crashes>>
    BY DEF NextJob, daemon, past
  <1>2. queue \in Seq(Ids) /\ Distinct(queue) /\ Elements(queue) \subseteq seen /\ seen \subseteq Ids
    BY DEF Inv, TypeOK, QueuedOnce
  <1>3. /\ queue' \in Seq(Ids) /\ Distinct(queue') /\ Elements(queue') \subseteq Elements(queue)
        /\ current' \in {0} \cup Elements(queue) /\ current' \notin Elements(queue')
        /\ worker' \in {"none", "working"} /\ interrupted' = FALSE
        /\ worker' = "working" => current' \in Elements(queue)
    BY <1>2, TakenJob DEF NextJob
  <1>4. current' \in {0} \cup Ids /\ (worker' = "working" => current' # 0)
    BY <1>2, <1>3 DEF Ids
  <1>5. TypeOK'
    BY <1>1, <1>3, <1>4 DEF Inv, TypeOK, Stages
  <1>6. ReadInOrder'
    BY <1>1 DEF Inv, ReadInOrder, Stored
  <1>7. QueuedOnce' /\ AnsweredLast'
    BY <1>1, <1>2, <1>3 DEF Inv, QueuedOnce, AnsweredLast, AnsweredOnce
  <1>8. AtWork' /\ AckedWasPrompted' /\ InterruptedForNewer'
    BY <1>1, <1>3, <1>4 DEF Inv, AtWork, AckedWasPrompted, InterruptedForNewer
  <1>9. QED BY <1>5, <1>6, <1>7, <1>8 DEF Inv

\* The process forgets what it has seen; every event may be answered once more.
LEMMA CrashStep ==
  ASSUME Inv, Crash
  PROVE  Inv'
  <1>1. /\ UNCHANGED <<mode, events, acked, answers, prompted, gaveWay, lost, failures>>
        /\ crashes' = crashes + 1 /\ crashes' \in 0..MaxCrashes /\ crashes \in Nat
        /\ poll' = NoPoll /\ seen' = {} /\ queue' = <<>>
        /\ worker' = "none" /\ current' = 0 /\ interrupted' = FALSE
    BY DEF Crash, daemon, past, Inv, TypeOK
  <1>2. /\ Elements(queue') = {} /\ Distinct(queue') /\ queue' \in Seq(Ids)
        /\ poll'.page = {} /\ poll' \in [at : {"none", "asked", "read", "abort"}, page : SUBSET Ids]
    BY <1>1 DEF Elements, Distinct, NoPoll
  <1>3. TypeOK'
    BY <1>1, <1>2 DEF Inv, TypeOK, Stages
  <1>4. ReadInOrder' /\ QueuedOnce' /\ AtWork' /\ AckedWasPrompted' /\ InterruptedForNewer'
    BY <1>1, <1>2 DEF Inv, ReadInOrder, QueuedOnce, AtWork, AckedWasPrompted, InterruptedForNewer
  <1>5. AnsweredLast'
    <2>1. \A e \in Ids : answers[e] \in Nat /\ answers[e] <= 1 + crashes
      BY DEF Inv, TypeOK, AnsweredLast, AnsweredOnce
    <2>2. \A e \in Ids : answers'[e] <= crashes' /\ answers'[e] <= 1 + crashes'
      BY <1>1, <2>1
    <2>3. QED BY <1>1, <1>2, <2>2 DEF AnsweredLast, AnsweredOnce
  <1>6. QED BY <1>3, <1>4, <1>5 DEF Inv

LEMMA Step ==
  ASSUME Inv, [Next]_vars
  PROVE  Inv'
  <1>1. CASE Next
    BY <1>1, DeliverStep, PollStep, IngestStep, JobStep, NextJobStep, CrashStep DEF Next, Working
  <1>2. CASE UNCHANGED vars
    BY <1>2 DEF vars, daemon, job, past, Inv, TypeOK, AtWork, ReadInOrder, Stored, QueuedOnce,
       AckedWasPrompted, AnsweredLast, AnsweredOnce, InterruptedForNewer
  <1>3. QED BY <1>1, <1>2

LEMMA Invariance == Spec => []Inv
  <1>1. Init => Inv
    BY InitInv
  <1>2. Inv /\ [Next]_vars => Inv'
    BY Step
  <1>3. QED BY <1>1, <1>2, PTL DEF Spec

-----------------------------------------------------------------------------
(*                                Theorems                                 *)

\* The runtime's variables and the inbox keep their types.
THEOREM TypeCorrect == Spec => []TypeOK
  <1>1. Inv => TypeOK
    BY DEF Inv
  <1>2. QED BY <1>1, Invariance, PTL

\* An event is acknowledged only after the agent was prompted with it, or after its
\* job was interrupted for a newer message.
THEOREM AckedIsPrompted == Spec => []AckedWasPrompted
  <1>1. Inv => AckedWasPrompted
    BY DEF Inv
  <1>2. QED BY <1>1, Invariance, PTL

\* The runtime answers an event once in the life of a process.
THEOREM AnsweredOnceALife == Spec => []AnsweredOnce
  <1>1. Inv => AnsweredOnce
    BY DEF Inv, AnsweredLast
  <1>2. QED BY <1>1, Invariance, PTL

\* A job is interrupted only in favour of the newest message, which is next.
THEOREM InterruptedForNewest == Spec => []InterruptedForNewer
  <1>1. Inv => InterruptedForNewer
    BY DEF Inv
  <1>2. QED BY <1>1, Invariance, PTL

-----------------------------------------------------------------------------
(***************************************************************************)
(* The mailbox: the inbox that the runtime reads and writes is a Mailbox   *)
(* with one reader, which is what Messages is shown to implement.          *)
(***************************************************************************)
LEMMA MailInit == Init => Mail!Init
  <1> SUFFICES ASSUME Init PROVE Mail!Init
    OBVIOUS
  <1>1. Len(events) = 0 /\ Stored = {} /\ acked = {}
    BY DEF Init, Stored
  <1>2. QED BY <1>1 DEF Mail!Init

LEMMA DeliverSends ==
  ASSUME Inv, NEW kind \in {"message", "notice"}, Deliver(kind)
  PROVE  Mail!Next
  <1>1. events \in Seq({"message", "notice"}) /\ events' = Append(events, kind) /\ UNCHANGED acked
    BY DEF Deliver, Inv, TypeOK
  <1>2. Len(events') = Len(events) + 1 /\ Len(events) \in Nat
    BY <1>1
  <1>3. Stored' = Stored \cup {Len(events) + 1}
    BY <1>2 DEF Stored
  <1> DEFINE to == [i \in 1..1 |-> {"agent"}]
  <1>4. to \in [1..1 -> SUBSET {"agent"}] /\ 1..1 = {1} /\ to[1] = {"agent"}
    OBVIOUS
  <1> HIDE DEF to
  <1>5. {Len(events) + i : i \in {j \in 1..1 : "agent" \in to[j]}} = {Len(events) + 1}
    BY <1>4
  <1>6. [p \in {"agent"} |-> Stored'] =
        [p \in {"agent"} |-> [q \in {"agent"} |-> Stored][p]
                               \cup {Len(events) + i : i \in {j \in 1..1 : p \in to[j]}}]
    BY <1>3, <1>5
  <1>7. Mail!Send(1, to)
    BY <1>2, <1>6 DEF Mail!Send
  <1>8. QED BY <1>1, <1>4, <1>7 DEF Mail!Next

\* The event at hand is a row of the inbox.
LEMMA AckServes ==
  ASSUME Inv, Ack
  PROVE  Mail!Next
  <1>1. current \in Stored
    BY DEF Inv, Ack, AtWork, QueuedOnce, ReadInOrder
  <1>2. acked' = acked \cup {current} /\ UNCHANGED <<events, Stored>>
    BY DEF Ack, Stored
  <1>3. Mail!Acknowledge("agent", {current})
    BY <1>1, <1>2 DEF Mail!Acknowledge
  <1>4. {current} \in SUBSET [p \in {"agent"} |-> Stored]["agent"]
    BY <1>1
  <1>5. QED BY <1>2, <1>3, <1>4 DEF Mail!Next

\* The inbox of the letta extension is a mailbox: what the runtime's loops do in any
\* order, and whatever fails or restarts, it acknowledges only rows that were
\* delivered, and nothing takes an acknowledgement back.
THEOREM LettaKeepsMail == Spec => MailSpec
  <1>1. Inv /\ [Next]_vars => [Mail!Next]_(Mail!vars)
    <2>1. UNCHANGED <<events, acked>> => UNCHANGED Mail!vars
      BY DEF Mail!vars, Stored
    <2>2. ASSUME Poll \/ ReadInbox \/ Ingest \/ PollFails \/ StartTurn \/ Prompt \/ GiveWay
                 \/ EndTurn \/ Reply \/ NextJob \/ StartFails \/ JobFails \/ Crash \/ UNCHANGED vars
          PROVE  UNCHANGED <<events, acked>>
      BY <2>2 DEF Poll, ReadInbox, Ingest, PollFails, StartTurn, Prompt, GiveWay, EndTurn, Reply,
                  NextJob, StartFails, JobFails, Crash, vars, daemon
    <2>3. QED BY <2>1, <2>2, DeliverSends, AckServes DEF Next, Working
  <1>2. QED BY <1>1, MailInit, Invariance, PTL DEF Spec, MailSpec, Mail!Spec

=============================================================================
