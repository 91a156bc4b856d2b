------------------------------- MODULE Letta -------------------------------
(***************************************************************************)
(* The letta extension's runtime: a poll loop that reads the peer's inbox, *)
(* a queue of jobs, and the loop that takes a job to the agent, posts the  *)
(* answer and acknowledges the event.  Both loops await requests, so they  *)
(* interleave between any two of them.  What is between two awaits is one  *)
(* step.  The process may end at any time; its queue and its set of seen   *)
(* events are gone then, and the inbox is not.                             *)
(***************************************************************************)
EXTENDS Integers, Sequences, FiniteSets

CONSTANTS
  PageLimit,    \* DEFAULT_PAGE_LIMIT: rows that one read of the inbox returns
  MaxEvents,    \* bound: events in the inbox
  MaxFailures,  \* bound: requests and turns that fail
  MaxCrashes    \* bound: ends of the process

ASSUME LettaAssumption ==
  /\ PageLimit \in Nat \ {0}
  /\ MaxEvents \in Nat
  /\ MaxFailures \in Nat
  /\ MaxCrashes \in Nat

VARIABLES
  mode,         \* deliveryMode
  events,       \* the inbox: a message for the agent, or a notice it does not get
  acked,        \* inbox rows with acked_at
  answers,      \* number of replies to each event
  poll,         \* the poll loop: what it awaits, and the rest of its page
  seen,         \* seenEventIds
  queue,        \* the jobs' events
  worker,       \* processQueue: the request it awaits
  current,      \* currentJob, 0 is null
  interrupted,  \* currentJob.interrupted
  prompted,     \* history: the events that the agent was prompted with
  gaveWay,      \* history: the events whose job was interrupted
  lost,         \* history: jobs that were over before the prompt got through
  failures, crashes

vars == <<mode, events, acked, answers, poll, seen, queue, worker, current, interrupted,
          prompted, gaveWay, lost, failures, crashes>>
daemon == <<events, acked, answers>>
job    == <<queue, worker, current, interrupted>>
past   == <<prompted, gaveWay, lost>>

Ids   == 1..MaxEvents
Stored == 1..Len(events)
Stages == {"none", "working", "sending", "turn", "reply", "ack", "idle"}

TypeOK ==
  /\ mode \in {"steer", "interrupt"}
  /\ events \in Seq({"message", "notice"}) /\ Len(events) <= MaxEvents
  /\ acked \subseteq Ids
  /\ answers \in [Ids -> Nat]
  /\ poll \in [at : {"none", "asked", "read", "abort"}, page : SUBSET Ids]
  /\ seen \subseteq Ids
  /\ queue \in Seq(Ids)
  /\ worker \in Stages
  /\ current \in {0} \cup Ids
  /\ interrupted \in BOOLEAN
  /\ prompted \subseteq Ids /\ gaveWay \subseteq Ids /\ lost \subseteq Ids
  /\ failures \in 0..MaxFailures
  /\ crashes \in 0..MaxCrashes

NoPoll == [at |-> "none", page |-> {}]
Fail   == failures < MaxFailures /\ failures' = failures + 1

-----------------------------------------------------------------------------
(*                         The inbox and its reader                        *)

\* A message or a notice (a roster change, a shared file) gets into the inbox.
Deliver(kind) ==
  /\ Len(events) < MaxEvents
  /\ events' = Append(events, kind)
  /\ UNCHANGED <<mode, acked, answers, poll, seen, job, past, failures, crashes>>

\* pollLoop
Poll ==
  /\ poll.at = "none"
  /\ poll' = [poll EXCEPT !.at = "asked"]
  /\ UNCHANGED <<mode, daemon, seen, job, past, failures, crashes>>

\* GET /peers/:id/inbox without a cursor: the oldest rows that are not acknowledged.
Page ==
  LET open == Stored \ acked
  IN  {e \in open : Cardinality({f \in open : f < e}) < PageLimit}

ReadInbox ==
  /\ poll.at = "asked"
  /\ poll' = [at |-> "read", page |-> Page]
  /\ UNCHANGED <<mode, daemon, seen, job, past, failures, crashes>>

\* The jobs of a set of events, in their order.
Jobs(es) ==
  LET ms == {e \in es \ seen : events[e] = "message"}
  IN  CHOOSE s \in [1..Cardinality(ms) -> ms] : \A i, j \in DOMAIN s : i < j => s[i] < s[j]

\* processQueue goes on: it takes the first job and asks for the activity state
\* 'working', or it ends.
TakeJob(jobs) ==
  IF jobs = <<>> THEN worker' = "none" /\ queue' = jobs /\ current' = 0 /\ interrupted' = FALSE
  ELSE /\ worker' = "working"
       /\ queue' = Tail(jobs)
       /\ current' = Head(jobs)
       /\ interrupted' = FALSE

\* void processQueue(): nothing if it is running already.
ProcessQueue(jobs) ==
  IF worker = "none" /\ jobs # <<>> THEN TakeJob(jobs)
  ELSE queue' = jobs /\ UNCHANGED <<worker, current, interrupted>>

\* Mutant of IngestEvents: the message that interrupts goes last.
IngestEventsBehind ==
  LET jobs == Jobs(poll.page)
  IN  IF mode = "interrupt" /\ worker # "none" /\ current # 0 /\ jobs # <<>>
      THEN /\ seen' = seen \cup {e \in poll.page : e <= jobs[1]}
           /\ interrupted' = TRUE /\ gaveWay' = gaveWay \cup {current}
           /\ queue' = Append(queue, jobs[1])
           /\ poll' = [at |-> "abort", page |-> {e \in poll.page : e > jobs[1]}]
           /\ UNCHANGED <<worker, current>>
      ELSE /\ seen' = seen \cup poll.page
           /\ poll' = NoPoll
           /\ ProcessQueue(queue \o jobs)
           /\ UNCHANGED gaveWay

\* Mutant of IngestEvents: the whole page counts as seen before the abort returns.
IngestEventsAllSeen ==
  LET jobs == Jobs(poll.page)
  IN  IF mode = "interrupt" /\ worker # "none" /\ current # 0 /\ jobs # <<>>
      THEN /\ seen' = seen \cup poll.page
           /\ interrupted' = TRUE /\ gaveWay' = gaveWay \cup {current}
           /\ queue' = <<jobs[1]>> \o queue
           /\ poll' = [at |-> "abort", page |-> {e \in poll.page : e > jobs[1]}]
           /\ UNCHANGED <<worker, current>>
      ELSE /\ seen' = seen \cup poll.page
           /\ poll' = NoPoll
           /\ ProcessQueue(queue \o jobs)
           /\ UNCHANGED gaveWay

\* ingestEvents, to its end or to its next await: in interrupt mode a message
\* that finds a job at work goes first, and the turn is aborted.
IngestEvents ==
  LET jobs == Jobs(poll.page)
  IN  IF mode = "interrupt" /\ worker # "none" /\ current # 0 /\ jobs # <<>>
      THEN /\ seen' = seen \cup {e \in poll.page : e <= jobs[1]}
           /\ interrupted' = TRUE /\ gaveWay' = gaveWay \cup {current}
           /\ queue' = <<jobs[1]>> \o queue
           /\ poll' = [at |-> "abort", page |-> {e \in poll.page : e > jobs[1]}]
           /\ UNCHANGED <<worker, current>>
      ELSE /\ seen' = seen \cup poll.page
           /\ poll' = NoPoll
           /\ ProcessQueue(queue \o jobs)
           /\ UNCHANGED gaveWay

\* The inbox is read, or the abort has returned.
Ingest ==
  /\ poll.at \in {"read", "abort"}
  /\ IngestEvents
  /\ UNCHANGED <<mode, daemon, prompted, lost, failures, crashes>>

\* Reading the inbox or aborting fails: the rest of the page is left.
PollFails ==
  /\ poll.at # "none"
  /\ Fail
  /\ poll' = NoPoll
  /\ UNCHANGED <<mode, daemon, seen, job, past, crashes>>

-----------------------------------------------------------------------------
(*                              processQueue                               *)

Goto(stage) == worker' = stage /\ UNCHANGED <<queue, current, interrupted>>

\* The job is over: currentJob is cleared before 'idle' is reported.
Finish == worker' = "idle" /\ current' = 0 /\ interrupted' = FALSE /\ UNCHANGED queue

\* 'working' is reported: the request that takes the prompt to the agent starts.
StartTurn ==
  /\ worker = "working"
  /\ Goto("sending")
  /\ UNCHANGED <<mode, daemon, poll, seen, past, failures, crashes>>

\* The prompt got through: the turn runs.
Prompt ==
  /\ worker = "sending"
  /\ prompted' = prompted \cup {current}
  /\ Goto("turn")
  /\ UNCHANGED <<mode, daemon, poll, seen, gaveWay, lost, failures, crashes>>

\* Mutant of GiveWay: whether the job was interrupted is not asked.
GiveWayAlways ==
  /\ worker = "sending"
  /\ lost' = lost \cup {current}
  /\ Goto("ack")
  /\ UNCHANGED <<mode, daemon, poll, seen, prompted, gaveWay, failures, crashes>>

\* The request is aborted, or fails, after the job was interrupted: its result is
\* skipped, and the event is acknowledged although the agent never saw it.
GiveWay ==
  /\ worker = "sending" /\ interrupted
  /\ lost' = lost \cup {current}
  /\ Goto("ack")
  /\ UNCHANGED <<mode, daemon, poll, seen, prompted, gaveWay, failures, crashes>>

\* Reporting 'working' fails, outside of the inner try: processQueue ends,
\* currentJob stays, the queue waits for the next poll.
StartFails ==
  /\ worker = "working"
  /\ Fail
  /\ worker' = "none"
  /\ lost' = lost \cup {current}
  /\ UNCHANGED <<mode, daemon, poll, seen, queue, current, interrupted, prompted, gaveWay, crashes>>

\* The turn ends: an interrupted one and one without an answer are acknowledged
\* at once.
EndTurn ==
  /\ worker = "turn"
  /\ \/ ~ interrupted /\ Goto("reply")
     \/ Goto("ack")
  /\ UNCHANGED <<mode, daemon, poll, seen, past, failures, crashes>>

\* POST /reply
Reply ==
  /\ worker = "reply"
  /\ answers' = [answers EXCEPT ![current] = @ + 1]
  /\ Goto("ack")
  /\ UNCHANGED <<mode, events, acked, poll, seen, past, failures, crashes>>

\* POST /peers/:id/inbox/ack
Ack ==
  /\ worker = "ack"
  /\ acked' = acked \cup {current}
  /\ Finish
  /\ UNCHANGED <<mode, events, answers, poll, seen, past, failures, crashes>>

\* A job that fails while its prompt is on the way is over before the prompt.
Lose == lost' = IF worker = "sending" THEN lost \cup {current} ELSE lost

\* Mutant of JobFails: the job that failed is queued once more.
JobFailsRequeued ==
  /\ worker \in {"sending", "turn", "reply", "ack"}
  /\ Fail
  /\ \/ UNCHANGED answers
     \/ worker = "reply" /\ answers' = [answers EXCEPT ![current] = @ + 1]
  /\ queue' = Append(queue, current)
  /\ Lose
  /\ worker' = "idle" /\ current' = 0 /\ interrupted' = FALSE
  /\ UNCHANGED <<mode, events, acked, poll, seen, prompted, gaveWay, crashes>>

\* Mutant of JobFails: the loop ends without clearing its flag.
JobFailsStuck ==
  /\ worker \in {"sending", "turn", "reply", "ack"}
  /\ Fail
  /\ Lose
  /\ worker' = "failed"
  /\ UNCHANGED <<mode, daemon, poll, seen, queue, current, interrupted, prompted, gaveWay, crashes>>

\* The prompt, the turn, the reply or the acknowledgement fails (a reply may have
\* been stored): it is logged and the job is over.
JobFails ==
  /\ worker \in {"sending", "turn", "reply", "ack"}
  /\ Fail
  /\ \/ UNCHANGED answers
     \/ worker = "reply" /\ answers' = [answers EXCEPT ![current] = @ + 1]
  /\ Lose
  /\ Finish
  /\ UNCHANGED <<mode, events, acked, poll, seen, prompted, gaveWay, crashes>>

\* 'idle' is reported, or not: the next job.
NextJob ==
  /\ worker = "idle"
  /\ TakeJob(queue)
  /\ UNCHANGED <<mode, daemon, poll, seen, past, failures, crashes>>

\* The process ends (a crash, a signal) and is started again.
Crash ==
  /\ crashes < MaxCrashes
  /\ crashes' = crashes + 1
  /\ poll' = NoPoll /\ seen' = {}
  /\ queue' = <<>> /\ worker' = "none" /\ current' = 0 /\ interrupted' = FALSE
  /\ UNCHANGED <<mode, daemon, past, failures>>

-----------------------------------------------------------------------------
Init ==
  /\ mode \in {"steer", "interrupt"}
  /\ events = <<>>
  /\ acked = {}
  /\ answers = [e \in Ids |-> 0]
  /\ poll = NoPoll
  /\ seen = {}
  /\ queue = <<>>
  /\ worker = "none"
  /\ current = 0
  /\ interrupted = FALSE
  /\ prompted = {} /\ gaveWay = {} /\ lost = {}
  /\ failures = 0 /\ crashes = 0

\* What an answered request lets the process do.
Working == StartTurn \/ Prompt \/ GiveWay \/ EndTurn \/ Reply \/ Ack \/ NextJob

Next ==
  \/ \E kind \in {"message", "notice"} : Deliver(kind)
  \/ Poll \/ ReadInbox \/ Ingest \/ PollFails
  \/ Working \/ StartFails \/ JobFails
  \/ Crash

Spec == Init /\ [][Next]_vars

\* The poll timer fires, requests are answered and turns end.
FairSpec ==
  /\ Spec
  /\ WF_vars(Poll) /\ WF_vars(ReadInbox) /\ WF_vars(Ingest)
  /\ WF_vars(Working)

-----------------------------------------------------------------------------
(*                               Properties                                *)

\* An event is acknowledged only after the agent was prompted with it, or after a
\* newer message interrupted its job, whose prompt may then never get through:
\* however requests fail and turns are aborted and started over, no other message is
\* taken out of the inbox unseen.
AckedWasPrompted == acked \subseteq prompted \cup gaveWay

\* An event is answered once, and once more for each restart of the process:
\* neither failures nor interrupts make the runtime answer twice.
AnsweredOnce == \A e \in Ids : answers[e] <= 1 + crashes

Mail == INSTANCE Mailbox WITH
  Peers <- {"agent"},
  sent  <- Len(events),
  rows  <- [p \in {"agent"} |-> Stored],
  acked <- [p \in {"agent"} |-> acked]

\* The inbox that the runtime reads is the one that the daemon's handlers provide
\* (Messages), and the runtime acknowledges only what it got from there.
MailSpec == Mail!Spec

\* A job is interrupted, and so left unanswered, only in favour of a newer
\* message: the newest there is, which is the next one to get its turn.
InterruptedForNewer ==
  interrupted => /\ queue # <<>> /\ queue[1] > current
                 /\ \A i \in DOMAIN queue : queue[i] <= queue[1]

\* The inbox's page is full of rows that nothing will acknowledge any more, until
\* the process restarts: notices, and messages whose job failed.
PageIsStuck ==
  /\ Cardinality(Page) = PageLimit
  /\ \A f \in Page : f \in seen /\ (worker # "none" => f # current) /\ \A i \in DOMAIN queue : queue[i] # f

\* Every message gets to the agent, whatever order polls, interrupts, failures and
\* restarts come in; unless a failure or an interrupt ended its job before the
\* prompt got through, or the page is stuck.
EveryMessagePrompts ==
  \A e \in Ids :
    (e \in Stored /\ events[e] = "message") ~> (e \in prompted \cup lost \/ PageIsStuck)
=============================================================================
