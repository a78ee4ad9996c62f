------------------------------ MODULE Ingestor ------------------------------
(***************************************************************************)
(* The ingestor: cmd/ingestor/main.go with the client of internal/github,  *)
(* the producer of internal/kafka and the counters of internal/metrics.    *)
(* One goroutine polls a page of GitHub events, publishes the events one   *)
(* by one and waits for the next tick.                                     *)
(*                                                                         *)
(* GitHub keeps a feed and shows the newest PageSize events of it; the     *)
(* ETag of the page changes when the page does. A client that sends the    *)
(* ETag it has stored gets the page only if it is another one.             *)
(***************************************************************************)
EXTENDS Integers, Sequences, FiniteSets

CONSTANTS Events,    \* events GitHub may publish
          Malformed, \* those without id or type
          PageSize   \* events on a page

\* Bounds of the model.
CONSTANTS MaxStops,        \* times the process stops
          MaxPollFaults,   \* polls that fail
          MaxPublishFaults \* calls to the broker that meet a failure

ASSUME IngestorAssumption ==
    /\ Malformed \subseteq Events
    /\ PageSize \in Nat \ {0}
    /\ {MaxStops, MaxPollFaults, MaxPublishFaults} \subseteq Nat

VARIABLES feed,     \* events GitHub has published, oldest first
          copies,   \* event -> messages of it in the topic
          pc,       \* where the polling goroutine is; "down": no process
          etag,     \* Client.etag; 0: none
          batch,    \* events of the page that are still to be published
          tally,    \* of this page, not yet recorded: received, published, failed
          metrics,  \* the counters of metrics.Collector
          inFlight, \* events in the writer after their call has given up
          failed,   \* events whose failure has been logged
          brokenPages, \* ETags that a poll has stored whose failure it logged
          faults    \* how much of each bound is used up

ingestorVars == <<pc, etag, batch, tally, metrics, inFlight>>

logVars == <<failed, brokenPages>>

vars == <<feed, copies, ingestorVars, logVars, faults>>

Tallies == [received : Nat, published : Nat, failed : Nat]

NoTally == [received |-> 0, published |-> 0, failed |-> 0]

FaultKinds == {"stop", "poll", "publish"}

MaxFaults == [kind \in FaultKinds |->
                 CASE kind = "stop" -> MaxStops
                   [] kind = "poll" -> MaxPollFaults
                   [] OTHER -> MaxPublishFaults]

Fault(kind) ==
    /\ faults[kind] < MaxFaults[kind]
    /\ faults' = [faults EXCEPT ![kind] = @ + 1]

\* The page GitHub shows, newest event first, and its ETag.
Page == [i \in 1..(IF Len(feed) < PageSize THEN Len(feed) ELSE PageSize) |->
            feed[Len(feed) + 1 - i]]

OnPage(e) == \E i \in 1..Len(Page) : Page[i] = e

PageETag == Len(feed) + 1

Init ==
    /\ feed = <<>>
    /\ copies = [e \in Events |-> 0]
    /\ pc = "down"
    /\ etag = 0
    /\ batch = <<>>
    /\ tally = NoTally
    /\ metrics = [pollErrors |-> 0, total |-> NoTally]
    /\ inFlight = {}
    /\ failed = {}
    /\ brokenPages = {}
    /\ faults = [kind \in FaultKinds |-> 0]

-----------------------------------------------------------------------------
(* GitHub and the process.                                                 *)

GitHubPublishes(e) ==
    /\ \A i \in 1..Len(feed) : feed[i] # e
    /\ feed' = Append(feed, e)
    /\ UNCHANGED <<copies, ingestorVars, logVars, faults>>

Start ==
    /\ pc = "down"
    /\ pc' = "poll"
    /\ UNCHANGED <<feed, copies, etag, batch, tally, metrics, inFlight,
                   logVars, faults>>

\* The process ends, killed or by a signal: the ETag, the counters and the
\* rest of the page are memory.
Stop ==
    /\ pc # "down"
    /\ Fault("stop")
    /\ pc' = "down"
    /\ etag' = 0
    /\ batch' = <<>>
    /\ tally' = NoTally
    /\ metrics' = [pollErrors |-> 0, total |-> NoTally]
    /\ inFlight' = {}
    /\ UNCHANGED <<feed, copies, logVars>>

-----------------------------------------------------------------------------
(* pollOnce: PollEvents.                                                   *)

PollError == metrics' = [metrics EXCEPT !.pollErrors = @ + 1]

\* Mutant of PollFails: an error status is taken for a page without events.
PollFailsUnseen ==
    /\ pc = "poll"
    /\ Fault("poll")
    /\ etag' \in {etag, 0, PageETag}
    /\ UNCHANGED <<feed, copies, pc, batch, tally, metrics, inFlight, logVars>>

\* The request fails, or the answer has an error status: its ETag, if it has
\* one, is stored before the status is looked at. It is that of the page, or of
\* something else, such as the error itself.
PollFails ==
    /\ pc = "poll"
    /\ Fault("poll")
    /\ PollError
    /\ \/ etag' \in {etag, 0} /\ UNCHANGED brokenPages
       \/ /\ etag # PageETag
          /\ etag' = PageETag
          /\ brokenPages' = brokenPages \union {PageETag}
    /\ UNCHANGED <<feed, copies, pc, batch, tally, inFlight, failed>>

\* The ETag of a new page has been stored when reading its body fails.
DecodeFails ==
    /\ pc = "poll"
    /\ etag # PageETag
    /\ Fault("poll")
    /\ etag' = PageETag
    /\ PollError
    /\ brokenPages' = brokenPages \union {PageETag}
    /\ UNCHANGED <<feed, copies, pc, batch, tally, inFlight, failed>>

\* 304, or a page without events: RecordBatch(0, 0, 0) adds nothing.
NoNewEvents ==
    /\ pc = "poll"
    /\ etag = PageETag \/ Page = <<>>
    /\ etag' = PageETag
    /\ UNCHANGED <<feed, copies, pc, batch, tally, metrics, inFlight, logVars,
                   faults>>

NewPage ==
    /\ pc = "poll"
    /\ etag # PageETag /\ Page # <<>>
    /\ etag' = PageETag
    /\ pc' = "publish"
    /\ batch' = Page
    /\ tally' = [NoTally EXCEPT !.received = Len(Page)]
    /\ UNCHANGED <<feed, copies, metrics, inFlight, logVars, faults>>

-----------------------------------------------------------------------------
(* pollOnce: the events of the page, one by one.                           *)

\* continue, with the event counted and named in the log.
EventFails ==
    /\ batch' = Tail(batch)
    /\ tally' = [tally EXCEPT !.failed = @ + 1]
    /\ failed' = failed \union {Head(batch)}
    /\ UNCHANGED <<feed, pc, etag, metrics, brokenPages>>

\* Mutant of NormalizeFails: the event is tried again.
NormalizeFailsRetries ==
    /\ pc = "publish"
    /\ batch # <<>>
    /\ Head(batch) \in Malformed
    /\ UNCHANGED vars

\* NormalizeGitHubEvent rejects an event without id or type.
NormalizeFails ==
    /\ pc = "publish"
    /\ batch # <<>>
    /\ Head(batch) \in Malformed
    /\ EventFails
    /\ UNCHANGED <<copies, inFlight, faults>>

\* The broker has acknowledged the message. After an acknowledgement that
\* was lost the writer has sent it twice.
PublishEvent ==
    /\ pc = "publish"
    /\ batch # <<>>
    /\ Head(batch) \notin Malformed
    /\ \/ copies' = [copies EXCEPT ![Head(batch)] = @ + 1] /\ UNCHANGED faults
       \/ copies' = [copies EXCEPT ![Head(batch)] = @ + 2] /\ Fault("publish")
    /\ batch' = Tail(batch)
    /\ tally' = [tally EXCEPT !.published = @ + 1]
    /\ UNCHANGED <<feed, pc, etag, metrics, inFlight, logVars>>

\* Mutant of PublishFails: return instead of continue, with the counts kept
\* for the next page.
PublishFailsKeepsPage ==
    /\ pc = "publish"
    /\ batch # <<>>
    /\ Head(batch) \notin Malformed
    /\ Fault("publish")
    /\ tally' = [tally EXCEPT !.failed = @ + 1]
    /\ failed' = failed \union {Head(batch)}
    /\ pc' = "poll"
    /\ UNCHANGED <<feed, copies, etag, batch, metrics, brokenPages, inFlight>>

\* Mutant of PublishFails: the error is not looked at.
PublishFailsUnseen ==
    /\ pc = "publish"
    /\ batch # <<>>
    /\ Head(batch) \notin Malformed
    /\ Fault("publish")
    /\ batch' = Tail(batch)
    /\ tally' = [tally EXCEPT !.published = @ + 1]
    /\ UNCHANGED <<feed, copies, pc, etag, metrics, logVars, inFlight>>

\* Mutant of PublishFails: failedCount is not increased.
PublishFailsUncounted ==
    /\ pc = "publish"
    /\ batch # <<>>
    /\ Head(batch) \notin Malformed
    /\ Fault("publish")
    /\ batch' = Tail(batch)
    /\ failed' = failed \union {Head(batch)}
    /\ UNCHANGED <<feed, copies, pc, etag, tally, metrics, brokenPages, inFlight>>

\* The broker gives an error, or REQUEST_TIMEOUT passes: then the message has
\* been lost, or is still with the writer.
PublishFails ==
    /\ pc = "publish"
    /\ batch # <<>>
    /\ Head(batch) \notin Malformed
    /\ Fault("publish")
    /\ EventFails
    /\ inFlight' \in {inFlight, inFlight \union {Head(batch)}}
    /\ UNCHANGED copies

\* A message whose call has given up reaches the topic after all, or not.
WriterGoesOn(e) ==
    /\ e \in inFlight
    /\ inFlight' = inFlight \ {e}
    /\ copies' \in {copies, [copies EXCEPT ![e] = @ + 1]}
    /\ UNCHANGED <<feed, pc, etag, batch, tally, metrics, logVars, faults>>

-----------------------------------------------------------------------------
(* pollOnce: RecordBatch adds to one counter after the other, each for     *)
(* itself; the time of the last success is left out.                       *)

RecordReceived ==
    /\ pc = "publish"
    /\ batch = <<>>
    /\ metrics' = [metrics EXCEPT !.total.received = @ + tally.received]
    /\ tally' = [tally EXCEPT !.received = 0]
    /\ pc' = "recordPublished"
    /\ UNCHANGED <<feed, copies, etag, batch, inFlight, logVars, faults>>

RecordPublished ==
    /\ pc = "recordPublished"
    /\ metrics' = [metrics EXCEPT !.total.published = @ + tally.published]
    /\ tally' = [tally EXCEPT !.published = 0]
    /\ pc' = "recordFailed"
    /\ UNCHANGED <<feed, copies, etag, batch, inFlight, logVars, faults>>

RecordFailed ==
    /\ pc = "recordFailed"
    /\ metrics' = [metrics EXCEPT !.total.failed = @ + tally.failed]
    /\ tally' = NoTally
    /\ pc' = "poll"
    /\ UNCHANGED <<feed, copies, etag, batch, inFlight, logVars, faults>>

-----------------------------------------------------------------------------

Poller ==
    \/ NoNewEvents
    \/ NewPage
    \/ NormalizeFails
    \/ PublishEvent
    \/ RecordReceived
    \/ RecordPublished
    \/ RecordFailed

Next ==
    \/ \E e \in Events : GitHubPublishes(e)
    \/ Start
    \/ Stop
    \/ PollFails
    \/ DecodeFails
    \/ Poller
    \/ PublishFails
    \/ \E e \in Events : WriterGoesOn(e)

Spec == Init /\ [][Next]_vars

\* The ticker fires again and again, a call ends within REQUEST_TIMEOUT, and
\* docker-compose restarts a stopped container. Nothing is assumed of GitHub,
\* of failures or of a message whose call has given up.
Fairness == WF_vars(Start) /\ WF_vars(Poller)

FairSpec == Spec /\ Fairness
=============================================================================
