------------------------------ MODULE Summaries ------------------------------
(***************************************************************************)
(* The summaries of threads: the worker that looks for cold threads whose  *)
(* summary is missing or out of date, the requests that ask for one at     *)
(* once, and the calls of the language model that both await.  What a call *)
(* is given is read before the await, and its answer overwrites the row    *)
(* after it.                                                               *)
(*                                                                         *)
(* The worker's first tick is not awaited by its timer, so two ticks may   *)
(* run at a time.  A message's id is its place in its thread.              *)
(***************************************************************************)
EXTENDS Integers, Sequences, FiniteSets

CONSTANTS
  Threads,      \* group messages that may have replies
  NoThread,     \* no thread
  BatchSize,    \* threads that one tick summarises
  BigAt,        \* number of messages that exceed ALL_FALLBACK_BYTES
  MaxEvents,    \* bound: messages of a thread
  MaxRequests,  \* bound: summaries asked for
  MaxTroubles   \* bound: calls that fail, restarts of the daemon

ASSUME SummariesAssumption ==
  /\ NoThread \notin Threads
  /\ BatchSize \in Nat \ {0}
  /\ BigAt \in Nat
  /\ MaxEvents \in Nat \ {0}
  /\ MaxRequests \in Nat
  /\ MaxTroubles \in Nat

VARIABLES
  said,       \* number of messages of a thread, its root included
  recent,     \* the threads, the one with the latest message first
  cold,       \* threads with no message since coldAfterMs
  expected,   \* defaultStrategyFromEnv
  summary,    \* table thread_summaries
  ticks,      \* the ticks: threads still to do, and the call that is awaited
  booted,     \* the worker's first tick has begun
  requests,   \* calls of the model for a request
  inFlight,   \* the worker's inFlight
  backoff,    \* the worker's errorBackoff
  requested, troubles

vars == <<said, recent, cold, expected, summary, ticks, booted, requests,
          inFlight, backoff, requested, troubles>>
thread == <<said, recent, cold>>
worker == <<ticks, booted, inFlight, backoff>>

Ticks      == {"first", "timer"}
Asked      == {"first_k", "all"}           \* first_k stands for the three that never fall back
Strategies == Asked \cup {"first_last"}
Call == [thread : Threads \cup {NoThread}, text : 0..MaxEvents, strategy : Strategies]
NoCall == [thread |-> NoThread, text |-> 0, strategy |-> "first_k"]
Idle   == [todo |-> <<>>, call |-> NoCall]

TypeOK ==
  /\ said \in [Threads -> 1..MaxEvents]
  /\ recent \in [1..Cardinality(Threads) -> Threads]
  /\ cold \subseteq Threads
  /\ expected \in Asked
  /\ summary \in [Threads -> [covered : 0..MaxEvents, strategy : Strategies]]
  /\ \A k \in Ticks : /\ ticks[k].call \in Call
                      /\ ticks[k].todo \in Seq(Threads)
                      /\ Len(ticks[k].todo) < BatchSize
  /\ booted \in BOOLEAN
  /\ requests \subseteq Call
  /\ inFlight \subseteq {ticks[k].call.thread : k \in Ticks} \ {NoThread}
  /\ backoff \subseteq Threads
  /\ requested \in 0..MaxRequests
  /\ troubles \in 0..MaxTroubles

Trouble == troubles < MaxTroubles /\ troubles' = troubles + 1

-----------------------------------------------------------------------------
(*                             summarizeThread                             *)

Fallback(t, s) == s = "all" /\ said[t] >= BigAt

\* Up to the await: all the messages are loaded and a strategy selects among
\* them; 'all' falls back when the transcript is too long.
Load(t, s) ==
  [thread |-> t, text |-> said[t], strategy |-> IF Fallback(t, s) THEN "first_last" ELSE s]

\* The row that an answer is stored as: it covers what the model was given.
Row(c) == [covered |-> c.text, strategy |-> c.strategy]

\* After it: the row is inserted or overwritten.
Store(c) == summary' = [summary EXCEPT ![c.thread] = Row(c)]

-----------------------------------------------------------------------------
(*                               The worker                                *)

Stale(t) == summary[t].covered < said[t] \/ summary[t].strategy # expected

Prefix(s, n) == SubSeq(s, 1, IF n < Len(s) THEN n ELSE Len(s))

\* Mutant of PickEligible: a thread that has a row is not looked at again.
PickEligibleOnce ==
  LET Wanted(t)    == t \in cold /\ said[t] > 1 /\ summary[t].covered = 0
      Available(t) == t \notin inFlight \cup backoff
  IN  Prefix(SelectSeq(Prefix(SelectSeq(recent, Wanted), 4 * BatchSize), Available), BatchSize)

\* The query takes the most recently active of the cold threads with a reply and
\* without a good summary; those in flight or in back-off are left out after it.
PickEligible ==
  LET Wanted(t)    == t \in cold /\ said[t] > 1 /\ Stale(t)
      Available(t) == t \notin inFlight \cup backoff
  IN  Prefix(SelectSeq(Prefix(SelectSeq(recent, Wanted), 4 * BatchSize), Available), BatchSize)

\* The loop's next round: the thread is marked and loaded, whether or not
\* another tick is at it by now.
Continue(k, todo, marked) ==
  IF todo = <<>>
  THEN ticks' = [ticks EXCEPT ![k] = Idle] /\ inFlight' = marked
  ELSE /\ ticks' = [ticks EXCEPT ![k] = [todo |-> Tail(todo), call |-> Load(Head(todo), expected)]]
       /\ inFlight' = marked \cup {Head(todo)}

\* runTick: the worker's first one, or the timer's, which awaits its own ones only.
Tick(k) ==
  /\ ticks[k] = Idle
  /\ k = "first" => ~ booted
  /\ booted' = TRUE
  /\ Continue(k, PickEligible, inFlight)
  /\ UNCHANGED <<thread, expected, summary, requests, backoff, requested, troubles>>

\* The model answers a tick.
Summarized(k) ==
  /\ ticks[k] # Idle
  /\ Store(ticks[k].call)
  /\ backoff' = backoff \ {ticks[k].call.thread}
  /\ Continue(k, ticks[k].todo, inFlight \ {ticks[k].call.thread})
  /\ UNCHANGED <<thread, expected, booted, requests, requested, troubles>>

\* Mutant of SummarizeFails: the thread stays marked.
SummarizeFailsMarked(k) ==
  /\ ticks[k] # Idle
  /\ Trouble
  /\ backoff' = backoff \cup {ticks[k].call.thread}
  /\ Continue(k, ticks[k].todo, inFlight)
  /\ UNCHANGED <<thread, expected, summary, booted, requests, requested>>

\* The call fails: the thread is put off.
SummarizeFails(k) ==
  /\ ticks[k] # Idle
  /\ Trouble
  /\ backoff' = backoff \cup {ticks[k].call.thread}
  /\ Continue(k, ticks[k].todo, inFlight \ {ticks[k].call.thread})
  /\ UNCHANGED <<thread, expected, summary, booted, requests, requested>>

\* ERROR_BACKOFF_MS are over.
BackoffEnds(t) ==
  /\ t \in backoff
  /\ backoff' = backoff \ {t}
  /\ UNCHANGED <<thread, expected, summary, ticks, booted, requests, inFlight, requested, troubles>>

-----------------------------------------------------------------------------
(*                                Requests                                 *)

\* POST /threads/:root/summary, or GET /threads/:root with format=summary when
\* there is no row; neither looks at the worker.
Request(t, s) ==
  /\ requested < MaxRequests
  /\ requested' = requested + 1
  /\ requests' = requests \cup {Load(t, s)}
  /\ UNCHANGED <<thread, expected, summary, worker, troubles>>

RequestAnswered(c) ==
  /\ c \in requests
  /\ requests' = requests \ {c}
  /\ Store(c)
  /\ UNCHANGED <<thread, expected, worker, requested, troubles>>

RequestFails(c) ==
  /\ c \in requests
  /\ requests' = requests \ {c}
  /\ UNCHANGED <<thread, expected, summary, worker, requested, troubles>>

-----------------------------------------------------------------------------
(*                             The environment                             *)

\* A message is added to a thread.
Post(t) ==
  /\ said[t] < MaxEvents
  /\ said' = [said EXCEPT ![t] = @ + 1]
  /\ recent' = LET Other(u) == u # t IN <<t>> \o SelectSeq(recent, Other)
  /\ cold' = cold \ {t}
  /\ UNCHANGED <<expected, summary, worker, requests, requested, troubles>>

\* coldAfterMs pass without one.
Cool(t) ==
  /\ t \notin cold
  /\ cold' = cold \cup {t}
  /\ UNCHANGED <<said, recent, expected, summary, worker, requests, requested, troubles>>

\* The daemon is started anew, perhaps with another strategy.
Restart(s) ==
  /\ Trouble
  /\ expected' = s
  /\ ticks' = [k \in Ticks |-> Idle] /\ booted' = FALSE
  /\ requests' = {} /\ inFlight' = {} /\ backoff' = {}
  /\ UNCHANGED <<thread, summary, requested>>

-----------------------------------------------------------------------------
Init ==
  /\ said = [t \in Threads |-> 1]
  /\ recent \in {s \in [1..Cardinality(Threads) -> Threads] : \A t \in Threads : \E i \in DOMAIN s : s[i] = t}
  /\ cold = Threads
  /\ expected \in Asked
  /\ summary = [t \in Threads |-> [covered |-> 0, strategy |-> "first_k"]]
  /\ ticks = [k \in Ticks |-> Idle]
  /\ booted = FALSE
  /\ requests = {}
  /\ inFlight = {} /\ backoff = {}
  /\ requested = 0 /\ troubles = 0

Next ==
  \/ \E t \in Threads : Post(t) \/ Cool(t) \/ BackoffEnds(t)
  \/ \E t \in Threads, s \in Asked : Request(t, s)
  \/ \E c \in requests : RequestAnswered(c) \/ RequestFails(c)
  \/ \E k \in Ticks : Tick(k) \/ Summarized(k) \/ SummarizeFails(k)
  \/ \E s \in Asked : Restart(s)

Spec == Init /\ [][Next]_vars

\* Time passes, the timer fires, and the model answers.
Fairness ==
  /\ \A t \in Threads : WF_vars(Cool(t)) /\ WF_vars(BackoffEnds(t))
  /\ WF_vars(Tick("timer"))
  /\ \A k \in Ticks : WF_vars(Summarized(k))
  /\ WF_vars(\E c \in requests : RequestAnswered(c))

FairSpec == Spec /\ Fairness

-----------------------------------------------------------------------------
(*                               Properties                                *)

\* Threads whose transcript falls back never match the expected strategy.
Unsettled == {t \in Threads : Fallback(t, expected)}

\* When the talking ends, every thread with replies gets a summary of all of it
\* and the worker leaves it alone, whatever requests overwrote, calls failed or
\* restarts cut off; unless a whole batch of threads falls back for ever.
SummariesSettle ==
  (<>[](Cardinality(Unsettled) < BatchSize)) =>
    \A t \in Threads :
      <>[](\/ t \in Unsettled
           \/ /\ said[t] > 1 => ~ Stale(t)
              /\ \A k \in Ticks : ticks[k].call.thread # t)
=============================================================================
