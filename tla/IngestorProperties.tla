------------------------- MODULE IngestorProperties -------------------------
(***************************************************************************)
(* What the ingestor owes the topic.                                       *)
(***************************************************************************)
EXTENDS Ingestor

\* Every variable has its type, only the loop over a page has events left, and
\* only RecordBatch has counts left of a page that is done.
IngestorTypeOK ==
    /\ feed \in Seq(Events)
    /\ copies \in [Events -> Nat]
    /\ pc \in {"down", "poll", "publish", "recordPublished", "recordFailed"}
    /\ etag \in 0..PageETag
    /\ batch \in Seq(Events)
    /\ tally \in Tallies
    /\ metrics \in [pollErrors : Nat, total : Tallies]
    /\ inFlight \in SUBSET (Events \ Malformed)
    /\ failed \in SUBSET Events
    /\ brokenPages \in SUBSET Nat
    /\ faults \in [FaultKinds -> Nat]
    /\ pc # "publish" => batch = <<>> /\ tally.received = 0
    /\ pc \notin {"publish", "recordPublished"} => tally.published = 0
    /\ pc \in {"down", "poll"} => tally.failed = 0

\* Every event of a page is counted once, as published or as failed, also
\* while the page is at work (publishedCount, failedCount); and the counters
\* never show more outcomes than events: they are equal but for the events
\* RecordBatch is still adding.
CountersAddUp ==
    /\ metrics.total.received + tally.received
           = (metrics.total.published + tally.published)
                 + (metrics.total.failed + tally.failed) + Len(batch)
    /\ metrics.total.published + metrics.total.failed <= metrics.total.received
    /\ pc \in {"down", "poll", "publish"} =>
           metrics.total.received = metrics.total.published + metrics.total.failed

\* The messages of the topic: the first copy of an event, the second, ...
Topic == UNION {{e} \X (1..copies[e]) : e \in Events}

\* No more events are counted as published than there are messages in the
\* topic, whatever the broker did (published is counted after PublishEvent
\* has returned without an error).
PublishedIsInTopic ==
    metrics.total.published + tally.published <= Cardinality(Topic)

\* The log names the event as failed, or the poll that stored the ETag of the
\* current page.
Reported(e) == e \in failed \/ PageETag \in brokenPages

\* The stored ETag makes GitHub answer 304: then every event of the page is in
\* the topic, still to be published, or reported. Otherwise the ETag would
\* hide an event nobody has seen: PollEvents stores it before it looks at the
\* status and before it decodes the page.
HiddenPageIsDelivered ==
    etag = PageETag =>
        \A i \in 1..Len(Page) :
            \/ copies[Page[i]] > 0
            \/ \E j \in 1..Len(batch) : batch[j] = Page[i]
            \/ Reported(Page[i])

\* Every event on the page reaches the topic or is reported, unless newer
\* events push it off the page first. Under FairSpec.
EventsReachTopic ==
    \A e \in Events :
        OnPage(e) ~> (copies[e] > 0 \/ Reported(e) \/ ~OnPage(e))

-----------------------------------------------------------------------------

\* docs/benchmarking.md:100, "services should recover once broker health
\* returns": a well-formed event that stays on the page reaches the topic in
\* the end, when the broker fails only once (the stored ETag). Under FairSpec.
RecoversFromBrokerOutage ==
    \A e \in Events \ Malformed :
        OnPage(e) ~> (copies[e] > 0 \/ ~OnPage(e))
=============================================================================
