--------------------------- MODULE IngestorProofs ---------------------------
(***************************************************************************)
(* Theorems about the ingestor, for any set of events, any page size and   *)
(* any number of failures. The type invariant, CountersAddUp and           *)
(* HiddenPageIsDelivered are inductive together: the ETag of the page is   *)
(* stored with its events in the batch or with a poll whose failure the    *)
(* log has, and each way an event leaves the batch leaves a message, or a  *)
(* line of the log. PublishedIsInTopic is inductive beside them, once the  *)
(* messages are known to be finitely many.                                 *)
(***************************************************************************)
EXTENDS IngestorProperties, FiniteSetTheorems, TLAPS

IngestorInv ==
    /\ IngestorTypeOK
    /\ CountersAddUp
    /\ HiddenPageIsDelivered

LEMMA PageIsSeq ==
    ASSUME feed \in Seq(Events)
    PROVE  /\ Page \in Seq(Events)
           /\ Len(Page) \in Nat
           /\ PageETag \in Nat \ {0}
<1>1. Len(feed) \in Nat /\ PageSize \in Nat
  BY IngestorAssumption DEF IngestorAssumption
<1>2. PICK n \in Nat : n = IF Len(feed) < PageSize THEN Len(feed) ELSE PageSize
  BY <1>1
<1>3. Page = [i \in 1..n |-> feed[Len(feed) + 1 - i]] /\ n <= Len(feed)
  BY <1>1, <1>2 DEF Page
<1>4. \A i \in 1..n : feed[Len(feed) + 1 - i] \in Events
  BY <1>1, <1>2, <1>3
<1>5. Page \in Seq(Events) /\ Len(Page) = n
  BY <1>3, <1>4
<1> QED
  BY <1>1, <1>5 DEF PageETag

\* What leaves the batch is its first event.
LEMMA TailOfBatch ==
    ASSUME batch \in Seq(Events), batch # <<>>
    PROVE  /\ Head(batch) \in Events /\ Tail(batch) \in Seq(Events)
           /\ Len(batch) \in Nat /\ Len(Tail(batch)) = Len(batch) - 1
           /\ \A j \in 1..Len(batch) :
                 \/ batch[j] = Head(batch)
                 \/ \E k \in 1..Len(Tail(batch)) : Tail(batch)[k] = batch[j]
<1>1. /\ Head(batch) \in Events /\ Tail(batch) \in Seq(Events)
      /\ Len(batch) \in Nat /\ Len(Tail(batch)) = Len(batch) - 1
  OBVIOUS
<1>2. ASSUME NEW j \in 1..Len(batch), j # 1
      PROVE  j - 1 \in 1..Len(Tail(batch)) /\ Tail(batch)[j - 1] = batch[j]
  BY <1>2
<1>3. batch[1] = Head(batch)
  OBVIOUS
<1>4. ASSUME NEW j \in 1..Len(batch)
      PROVE  \/ batch[j] = Head(batch)
             \/ \E k \in 1..Len(Tail(batch)) : Tail(batch)[k] = batch[j]
  BY <1>2, <1>3
<1> QED
  BY <1>1, <1>4

LEMMA InitInv == Init => IngestorInv
<1> SUFFICES ASSUME Init PROVE IngestorInv
  OBVIOUS
<1>1. IngestorTypeOK
  <2>1. /\ NoTally \in Tallies /\ <<>> \in Seq(Events) /\ Len(<<>>) = 0
        /\ NoTally.received = 0 /\ NoTally.published = 0 /\ NoTally.failed = 0
        /\ [pollErrors |-> 0, total |-> NoTally] \in [pollErrors : Nat, total : Tallies]
    BY DEF NoTally, Tallies
  <2>2. etag \in 0..PageETag
    BY <2>1 DEF Init, PageETag
  <2> QED
    BY <2>1, <2>2 DEF Init, IngestorTypeOK
<1>2. CountersAddUp
  BY DEF Init, CountersAddUp, NoTally
<1>3. HiddenPageIsDelivered
  BY DEF Init, HiddenPageIsDelivered, PageETag
<1> QED
  BY <1>1, <1>2, <1>3 DEF IngestorInv

\* A failure uses up one of a bound.
LEMMA FaultTypes ==
    ASSUME IngestorTypeOK
    PROVE  \A kind \in FaultKinds : Fault(kind) => faults' \in [FaultKinds -> Nat]
<1>1. ASSUME NEW kind \in FaultKinds, Fault(kind)
      PROVE  faults' \in [FaultKinds -> Nat]
  BY <1>1 DEF Fault, IngestorTypeOK
<1> QED
  BY <1>1

LEMMA PollErrorAdds ==
    ASSUME metrics \in [pollErrors : Nat, total : Tallies], PollError
    PROVE  /\ metrics' \in [pollErrors : Nat, total : Tallies]
           /\ metrics'.total = metrics.total
BY DEF PollError

LEMMA TallyFields ==
    ASSUME NEW t \in Tallies
    PROVE  /\ t.received \in Nat /\ t.published \in Nat /\ t.failed \in Nat
           /\ [t EXCEPT !.failed = @ + 1]
                = [received |-> t.received, published |-> t.published,
                   failed |-> t.failed + 1]
           /\ [t EXCEPT !.published = @ + 1]
                = [received |-> t.received, published |-> t.published + 1,
                   failed |-> t.failed]
BY DEF Tallies

\* A count that has been added.
LEMMA TallyZeroed ==
    ASSUME NEW t \in Tallies
    PROVE  /\ [t EXCEPT !.received = 0] \in Tallies
           /\ [t EXCEPT !.received = 0].received = 0
           /\ [t EXCEPT !.received = 0].published = t.published
           /\ [t EXCEPT !.received = 0].failed = t.failed
           /\ [t EXCEPT !.published = 0] \in Tallies
           /\ [t EXCEPT !.published = 0].received = t.received
           /\ [t EXCEPT !.published = 0].published = 0
           /\ [t EXCEPT !.published = 0].failed = t.failed
BY DEF Tallies

\* Adding to one counter.
LEMMA CounterAdds ==
    ASSUME metrics \in [pollErrors : Nat, total : Tallies], NEW n \in Nat
    PROVE  /\ metrics' = [metrics EXCEPT !.total.received = @ + n] =>
                 /\ metrics' \in [pollErrors : Nat, total : Tallies]
                 /\ metrics'.total.received = metrics.total.received + n
                 /\ metrics'.total.published = metrics.total.published
                 /\ metrics'.total.failed = metrics.total.failed
           /\ metrics' = [metrics EXCEPT !.total.published = @ + n] =>
                 /\ metrics' \in [pollErrors : Nat, total : Tallies]
                 /\ metrics'.total.published = metrics.total.published + n
                 /\ metrics'.total.received = metrics.total.received
                 /\ metrics'.total.failed = metrics.total.failed
           /\ metrics' = [metrics EXCEPT !.total.failed = @ + n] =>
                 /\ metrics' \in [pollErrors : Nat, total : Tallies]
                 /\ metrics'.total.failed = metrics.total.failed + n
                 /\ metrics'.total.received = metrics.total.received
                 /\ metrics'.total.published = metrics.total.published
BY DEF Tallies

\* The numbers that CountersAddUp is about, and that it is about no more.
LEMMA CountTypes ==
    ASSUME IngestorTypeOK
    PROVE  /\ metrics.total \in Tallies /\ tally \in Tallies
           /\ metrics.total.received \in Nat /\ metrics.total.published \in Nat
           /\ metrics.total.failed \in Nat
           /\ tally.received \in Nat /\ tally.published \in Nat /\ tally.failed \in Nat
           /\ Len(batch) \in Nat
BY DEF IngestorTypeOK, Tallies

\* An event has left the batch and is counted, as published or as failed.
LEMMA OneMoreCounted ==
    ASSUME IngestorTypeOK, CountersAddUp, pc' = pc, metrics' = metrics,
           tally'.received = tally.received,
           \/ tally'.published = tally.published + 1 /\ tally'.failed = tally.failed
           \/ tally'.published = tally.published /\ tally'.failed = tally.failed + 1,
           Len(batch') = Len(batch) - 1
    PROVE  CountersAddUp'
<1> DEFINE R == metrics.total.received
           P == metrics.total.published
           F == metrics.total.failed
           r == tally.received
           p == tally.published
           f == tally.failed
           n == Len(batch)
<1>1. /\ R \in Nat /\ P \in Nat /\ F \in Nat /\ n \in Nat
      /\ r \in Nat /\ p \in Nat /\ f \in Nat
  BY CountTypes
<1>2. R + r = (P + p) + (F + f) + n
  BY DEF CountersAddUp
<1>3. /\ R + r = (P + (p + 1)) + (F + f) + (n - 1)
      /\ R + r = (P + p) + (F + (f + 1)) + (n - 1)
  <2> HIDE DEF R, P, F, r, p, f, n
  <2> QED
    BY <1>1, <1>2
<1>4. metrics'.total.received + tally'.received
          = (metrics'.total.published + tally'.published)
                + (metrics'.total.failed + tally'.failed) + Len(batch')
  BY <1>3
<1> QED
  BY <1>4 DEF CountersAddUp

\* Counts of a page that is done are added to the counters.
LEMMA CountsRecorded ==
    ASSUME IngestorTypeOK, CountersAddUp, IngestorTypeOK', batch = <<>>, batch' = batch,
           \/ /\ pc = "publish" /\ pc' = "recordPublished"
              /\ metrics'.total.received = metrics.total.received + tally.received
              /\ metrics'.total.published = metrics.total.published
              /\ metrics'.total.failed = metrics.total.failed
              /\ tally'.received = 0 /\ tally'.published = tally.published
              /\ tally'.failed = tally.failed
           \/ /\ tally.received = 0 /\ pc' = "recordFailed"
              /\ metrics'.total.received = metrics.total.received
              /\ metrics'.total.published = metrics.total.published + tally.published
              /\ metrics'.total.failed = metrics.total.failed
              /\ tally'.received = 0 /\ tally'.published = 0
              /\ tally'.failed = tally.failed
           \/ /\ tally.received = 0 /\ tally.published = 0 /\ pc' = "poll"
              /\ metrics'.total.received = metrics.total.received
              /\ metrics'.total.published = metrics.total.published
              /\ metrics'.total.failed = metrics.total.failed + tally.failed
              /\ tally'.received = 0 /\ tally'.published = 0 /\ tally'.failed = 0
    PROVE  CountersAddUp'
<1> DEFINE R == metrics.total.received
           P == metrics.total.published
           F == metrics.total.failed
           r == tally.received
           p == tally.published
           f == tally.failed
<1>1. R \in Nat /\ P \in Nat /\ F \in Nat /\ r \in Nat /\ p \in Nat /\ f \in Nat
  BY CountTypes
<1>2. R + r = (P + p) + (F + f) /\ P + F <= R /\ (pc = "publish" => R = P + F)
  BY <1>1 DEF CountersAddUp
<1>3. Len(batch') = 0
  OBVIOUS
<1>4. CASE pc' = "recordPublished"
  <2>1. /\ metrics'.total.received = R + r /\ metrics'.total.published = P
        /\ metrics'.total.failed = F /\ pc = "publish"
        /\ tally'.received = 0 /\ tally'.published = p /\ tally'.failed = f
    BY <1>4
  <2> HIDE DEF R, P, F, r, p, f
  <2>2. (R + r) + 0 = (P + p) + (F + f) + 0 /\ P + F <= R + r
    BY <1>1, <1>2
  <2> QED
    BY <1>3, <1>4, <2>1, <2>2 DEF CountersAddUp
<1>5. CASE pc' = "recordFailed"
  <2>1. /\ metrics'.total.received = R /\ metrics'.total.published = P + p
        /\ metrics'.total.failed = F /\ r = 0
        /\ tally'.received = 0 /\ tally'.published = 0 /\ tally'.failed = f
    BY <1>5
  <2> HIDE DEF R, P, F, r, p, f
  <2>2. R + 0 = ((P + p) + 0) + (F + f) + 0 /\ (P + p) + F <= R
    BY <1>1, <1>2, <2>1
  <2> QED
    BY <1>3, <1>5, <2>1, <2>2 DEF CountersAddUp
<1>6. CASE pc' = "poll"
  <2>1. /\ metrics'.total.received = R /\ metrics'.total.published = P
        /\ metrics'.total.failed = F + f /\ r = 0 /\ p = 0
        /\ tally'.received = 0 /\ tally'.published = 0 /\ tally'.failed = 0
    BY <1>6
  <2> HIDE DEF R, P, F, r, p, f
  <2>2. R + 0 = (P + 0) + ((F + f) + 0) + 0 /\ P + (F + f) <= R /\ R = P + (F + f)
    BY <1>1, <1>2, <2>1
  <2> QED
    BY <1>3, <2>1, <2>2 DEF CountersAddUp
<1> QED
  BY <1>4, <1>5, <1>6

-----------------------------------------------------------------------------
(* The event at the head of the batch leaves it.                           *)

LEMMA EventFailsInv ==
    ASSUME IngestorInv, pc = "publish", batch # <<>>, EventFails,
           inFlight' \in {inFlight, inFlight \union {Head(batch)}},
           inFlight' # inFlight => Head(batch) \notin Malformed,
           copies' = copies, faults' \in [FaultKinds -> Nat]
    PROVE  IngestorInv'
<1>1. /\ Head(batch) \in Events /\ Tail(batch) \in Seq(Events)
      /\ Len(batch) \in Nat /\ Len(Tail(batch)) = Len(batch) - 1
  BY TailOfBatch DEF IngestorInv, IngestorTypeOK
<1>2. /\ tally \in Tallies
      /\ tally' = [tally EXCEPT !.failed = @ + 1]
      /\ batch' = Tail(batch) /\ failed' = failed \union {Head(batch)}
      /\ UNCHANGED <<feed, pc, etag, metrics, brokenPages>>
  BY DEF EventFails, IngestorInv, IngestorTypeOK
<1>3. /\ tally' \in Tallies /\ tally'.received = tally.received
      /\ tally'.published = tally.published /\ tally'.failed = tally.failed + 1
  <2>1. tally' = [received |-> tally.received, published |-> tally.published,
                  failed |-> tally.failed + 1]
    BY <1>2, TallyFields
  <2> QED
    BY <1>2, <2>1, TallyFields DEF Tallies
<1>4. IngestorTypeOK'
  BY <1>1, <1>2, <1>3 DEF IngestorInv, IngestorTypeOK, PageETag
<1>5. CountersAddUp'
  BY <1>1, <1>2, <1>3, OneMoreCounted DEF IngestorInv
<1>6. HiddenPageIsDelivered'
  <2>1. Page' = Page /\ PageETag' = PageETag
    BY <1>2 DEF Page, PageETag
  <2>3. \A j \in 1..Len(batch) :
           \/ batch[j] \in failed'
           \/ \E k \in 1..Len(batch') : batch'[k] = batch[j]
    BY <1>2, TailOfBatch DEF IngestorInv, IngestorTypeOK
  <2>4. PageETag = etag =>
           \A i \in 1..Len(Page) :
               \/ copies'[Page[i]] > 0
               \/ \E k \in 1..Len(batch') : batch'[k] = Page[i]
               \/ Page[i] \in failed' \/ PageETag \in brokenPages'
    BY <1>2, <2>3 DEF IngestorInv, HiddenPageIsDelivered, Reported
  <2> QED
    BY <1>2, <2>1, <2>4 DEF HiddenPageIsDelivered, Reported
<1> QED
  BY <1>4, <1>5, <1>6 DEF IngestorInv

LEMMA PublishEventInv ==
    ASSUME IngestorInv, PublishEvent
    PROVE  IngestorInv'
<1>1. /\ Head(batch) \in Events /\ Tail(batch) \in Seq(Events)
      /\ Len(batch) \in Nat /\ Len(Tail(batch)) = Len(batch) - 1
  BY TailOfBatch DEF IngestorInv, IngestorTypeOK, PublishEvent
<1>2. /\ tally \in Tallies /\ pc = "publish"
      /\ tally' = [tally EXCEPT !.published = @ + 1]
      /\ batch' = Tail(batch)
      /\ UNCHANGED <<feed, pc, etag, metrics, inFlight, failed, brokenPages>>
  BY DEF PublishEvent, IngestorInv, IngestorTypeOK, logVars
<1>3. /\ tally' \in Tallies /\ tally'.received = tally.received
      /\ tally'.failed = tally.failed /\ tally'.published = tally.published + 1
  <2>1. tally' = [received |-> tally.received, published |-> tally.published + 1,
                  failed |-> tally.failed]
    BY <1>2, TallyFields
  <2> QED
    BY <1>2, <2>1, TallyFields DEF Tallies
<1>4. /\ copies \in [Events -> Nat] /\ copies' \in [Events -> Nat]
      /\ copies'[Head(batch)] > 0
      /\ \A e \in Events : copies'[e] >= copies[e]
  <2>1. PICK n \in {1, 2} : copies' = [copies EXCEPT ![Head(batch)] = @ + n]
    BY DEF PublishEvent
  <2> QED
    BY <1>1, <2>1 DEF IngestorInv, IngestorTypeOK
<1>5. faults' \in [FaultKinds -> Nat]
  BY FaultTypes DEF PublishEvent, IngestorInv, IngestorTypeOK, FaultKinds
<1>6. IngestorTypeOK'
  BY <1>1, <1>2, <1>3, <1>4, <1>5 DEF IngestorInv, IngestorTypeOK, PageETag
<1>7. CountersAddUp'
  BY <1>1, <1>2, <1>3, OneMoreCounted DEF IngestorInv
<1>8. HiddenPageIsDelivered'
  <2>1. Page' = Page /\ PageETag' = PageETag
    BY <1>2 DEF Page, PageETag
  <2>2. \A e : Reported(e) => Reported(e)'
    BY <1>2, <2>1 DEF Reported
  <2>3. \A j \in 1..Len(batch) :
           \/ copies'[batch[j]] > 0
           \/ \E k \in 1..Len(batch') : batch'[k] = batch[j]
    BY <1>2, <1>4, TailOfBatch DEF IngestorInv, IngestorTypeOK, PublishEvent
  <2>4. \A i \in 1..Len(Page) : Page[i] \in Events
    BY PageIsSeq DEF IngestorInv, IngestorTypeOK
  <2>5. \A e \in Events : copies[e] > 0 => copies'[e] > 0
    BY <1>4
  <2> QED
    BY <1>2, <2>1, <2>2, <2>3, <2>4, <2>5 DEF IngestorInv, HiddenPageIsDelivered
<1> QED
  BY <1>6, <1>7, <1>8 DEF IngestorInv

-----------------------------------------------------------------------------
(* The other actions.                                                      *)

LEMMA NextInv ==
    ASSUME IngestorInv, Next
    PROVE  IngestorInv'
<1>1. /\ IngestorTypeOK /\ CountersAddUp /\ HiddenPageIsDelivered
      /\ {"stop", "poll", "publish"} \subseteq FaultKinds
      /\ NoTally \in Tallies /\ <<>> \in Seq(Events) /\ Len(<<>>) = 0
      /\ NoTally.received = 0 /\ NoTally.published = 0 /\ NoTally.failed = 0
  BY DEF IngestorInv, FaultKinds, NoTally, Tallies
<1>2. /\ Page \in Seq(Events) /\ Len(Page) \in Nat /\ PageETag \in Nat \ {0}
  BY <1>1, PageIsSeq DEF IngestorTypeOK
<1>t. /\ metrics.total \in Tallies /\ tally \in Tallies
      /\ [pollErrors |-> 0, total |-> NoTally] \in [pollErrors : Nat, total : Tallies]
  BY <1>1 DEF IngestorTypeOK, Tallies, NoTally
<1>n. /\ metrics.total.received \in Nat /\ metrics.total.published \in Nat
      /\ metrics.total.failed \in Nat
      /\ tally.received \in Nat /\ tally.published \in Nat /\ tally.failed \in Nat
  BY <1>t DEF Tallies
<1>c. /\ metrics.total.received + tally.received
             = (metrics.total.published + tally.published)
                   + (metrics.total.failed + tally.failed) + Len(batch)
      /\ metrics.total.published + metrics.total.failed <= metrics.total.received
      /\ pc \in {"down", "poll", "publish"} =>
             metrics.total.received = metrics.total.published + metrics.total.failed
  BY <1>1 DEF CountersAddUp
\* A step that leaves the page and its ETag alone.
<1>3. ASSUME UNCHANGED <<feed, etag, batch, failed, brokenPages>>,
             copies' \in [Events -> Nat], \A e \in Events : copies'[e] >= copies[e]
      PROVE  HiddenPageIsDelivered' /\ PageETag' = PageETag
  <2>1. Page' = Page /\ PageETag' = PageETag
    BY <1>3 DEF Page, PageETag
  <2>2. \A i \in 1..Len(Page) : Page[i] \in Events
    BY <1>2
  <2>3. \A e \in Events : copies[e] > 0 => copies'[e] > 0
    BY <1>1, <1>3 DEF IngestorTypeOK
  <2> QED
    BY <1>1, <1>3, <2>1, <2>2, <2>3 DEF HiddenPageIsDelivered, Reported
\* A step after which the ETag of the page is not the stored one.
<1>4. etag' # PageETag' => HiddenPageIsDelivered'
  BY DEF HiddenPageIsDelivered
<1>5. ASSUME NEW e \in Events, GitHubPublishes(e)
      PROVE  IngestorInv'
  <2>1. feed' = Append(feed, e) /\ UNCHANGED <<copies, ingestorVars, logVars, faults>>
    BY <1>5 DEF GitHubPublishes
  <2>2. feed' \in Seq(Events) /\ Len(feed') = Len(feed) + 1 /\ Len(feed) \in Nat
    BY <1>1, <2>1 DEF IngestorTypeOK
  <2>3. etag' = etag /\ etag \in 0..PageETag /\ PageETag' = PageETag + 1
    BY <1>1, <2>1, <2>2 DEF IngestorTypeOK, PageETag, ingestorVars
  <2>4. IngestorTypeOK'
    BY <1>1, <1>2, <2>1, <2>2, <2>3 DEF IngestorTypeOK, ingestorVars, logVars
  <2>5. CountersAddUp'
    BY <1>1, <2>1 DEF CountersAddUp, ingestorVars
  <2> QED
    BY <1>2, <1>4, <2>3, <2>4, <2>5 DEF IngestorInv
<1>6. CASE Start
  <2>1. UNCHANGED <<feed, copies, etag, batch, tally, metrics, inFlight, failed,
                    brokenPages, faults>> /\ pc = "down" /\ pc' = "poll"
    BY <1>6 DEF Start, logVars
  <2>2. HiddenPageIsDelivered' /\ PageETag' = PageETag
    BY <1>1, <1>3, <2>1 DEF IngestorTypeOK
  <2>3. IngestorTypeOK' /\ CountersAddUp'
    BY <1>1, <2>1, <2>2 DEF IngestorTypeOK, CountersAddUp
  <2> QED
    BY <2>2, <2>3 DEF IngestorInv
<1>7. CASE Stop
  <2>1. /\ UNCHANGED <<feed, copies, failed, brokenPages>>
        /\ pc' = "down" /\ etag' = 0 /\ batch' = <<>> /\ tally' = NoTally
        /\ metrics' = [pollErrors |-> 0, total |-> NoTally] /\ inFlight' = {}
        /\ faults' \in [FaultKinds -> Nat]
    BY <1>1, <1>7, FaultTypes DEF Stop, logVars
  <2>2. PageETag' = PageETag
    BY <2>1 DEF PageETag
  <2>3. IngestorTypeOK'
    <3>1. metrics' \in [pollErrors : Nat, total : Tallies] /\ tally' \in Tallies
      BY <1>1, <1>t, <2>1
    <3>2. etag' \in 0..PageETag' /\ batch' \in Seq(Events)
      BY <1>1, <1>2, <2>1, <2>2
    <3> QED
      BY <1>1, <2>1, <3>1, <3>2 DEF IngestorTypeOK
  <2>4. CountersAddUp'
    BY <1>1, <2>1 DEF CountersAddUp, NoTally
  <2> QED
    BY <1>2, <1>4, <2>1, <2>2, <2>3, <2>4 DEF IngestorInv
<1>8. CASE PollFails
  <2>1. /\ UNCHANGED <<feed, copies, pc, batch, tally, inFlight, failed>>
        /\ metrics' \in [pollErrors : Nat, total : Tallies]
        /\ metrics'.total = metrics.total /\ faults' \in [FaultKinds -> Nat]
        /\ \/ etag' \in {etag, 0} /\ brokenPages' = brokenPages
           \/ etag' = PageETag /\ brokenPages' = brokenPages \union {PageETag}
    BY <1>1, <1>8, FaultTypes, PollErrorAdds DEF PollFails, IngestorTypeOK
  <2>2. PageETag' = PageETag /\ Page' = Page
    BY <2>1 DEF PageETag, Page
  <2>3. HiddenPageIsDelivered'
    <3>1. CASE etag' = etag /\ brokenPages' = brokenPages
      BY <1>1, <1>3, <2>1, <3>1 DEF IngestorTypeOK
    <3>2. CASE etag' = 0
      BY <1>2, <1>4, <2>2, <3>2
    <3>3. CASE etag' = PageETag /\ brokenPages' = brokenPages \union {PageETag}
      BY <2>1, <2>2, <3>3 DEF HiddenPageIsDelivered, Reported
    <3> QED
      BY <2>1, <3>1, <3>2, <3>3
  <2>4. /\ etag' \in 0..PageETag' /\ brokenPages' \in SUBSET Nat
    <3>1. etag \in 0..PageETag /\ 0 \in 0..PageETag /\ PageETag \in 0..PageETag
      BY <1>1, <1>2 DEF IngestorTypeOK
    <3>2. brokenPages \in SUBSET Nat
      BY <1>1 DEF IngestorTypeOK
    <3> QED
      BY <1>2, <2>1, <2>2, <3>1, <3>2
  <2>5. IngestorTypeOK'
    BY <1>1, <2>1, <2>4 DEF IngestorTypeOK
  <2>6. CountersAddUp'
    BY <1>c, <2>1 DEF CountersAddUp
  <2> QED
    BY <2>3, <2>5, <2>6 DEF IngestorInv
<1>9. CASE DecodeFails
  <2>1. /\ UNCHANGED <<feed, copies, pc, batch, tally, inFlight, failed>>
        /\ etag' = PageETag /\ brokenPages' = brokenPages \union {PageETag}
        /\ metrics' \in [pollErrors : Nat, total : Tallies]
        /\ metrics'.total = metrics.total /\ faults' \in [FaultKinds -> Nat]
    BY <1>1, <1>9, FaultTypes, PollErrorAdds DEF DecodeFails, IngestorTypeOK
  <2>2. PageETag' = PageETag /\ Page' = Page
    BY <2>1 DEF PageETag, Page
  <2>3. HiddenPageIsDelivered'
    BY <2>1, <2>2 DEF HiddenPageIsDelivered, Reported
  <2>4. /\ etag' \in 0..PageETag' /\ brokenPages' \in SUBSET Nat
    BY <1>1, <1>2, <2>1, <2>2 DEF IngestorTypeOK
  <2>5. IngestorTypeOK'
    BY <1>1, <2>1, <2>4 DEF IngestorTypeOK
  <2>6. CountersAddUp'
    BY <1>c, <2>1 DEF CountersAddUp
  <2> QED
    BY <2>3, <2>5, <2>6 DEF IngestorInv
<1>10. CASE NoNewEvents
  <2>1. /\ UNCHANGED <<feed, copies, pc, batch, tally, metrics, inFlight, failed,
                       brokenPages, faults>>
        /\ etag' = PageETag /\ (etag = PageETag \/ Page = <<>>)
    BY <1>10 DEF NoNewEvents, logVars
  <2>2. PageETag' = PageETag /\ Page' = Page
    BY <2>1 DEF PageETag, Page
  <2>3. HiddenPageIsDelivered'
    BY <1>1, <2>1, <2>2 DEF HiddenPageIsDelivered, Reported
  <2>4. IngestorTypeOK'
    BY <1>1, <1>2, <2>1, <2>2 DEF IngestorTypeOK
  <2>5. CountersAddUp'
    BY <1>1, <2>1 DEF CountersAddUp
  <2> QED
    BY <2>3, <2>4, <2>5 DEF IngestorInv
<1>11. CASE NewPage
  <2>1. /\ UNCHANGED <<feed, copies, metrics, inFlight, failed, brokenPages, faults>>
        /\ etag' = PageETag /\ pc' = "publish" /\ batch' = Page
        /\ tally' = [received |-> Len(Page), published |-> 0, failed |-> 0]
        /\ pc = "poll"
    BY <1>11 DEF NewPage, logVars, NoTally
  <2>2. PageETag' = PageETag /\ Page' = Page
    BY <2>1 DEF PageETag, Page
  <2>3. HiddenPageIsDelivered'
    BY <1>2, <2>1, <2>2 DEF HiddenPageIsDelivered
  <2>4. tally' \in Tallies
    BY <1>2, <2>1 DEF Tallies
  <2>5. IngestorTypeOK'
    BY <1>1, <1>2, <2>1, <2>2, <2>4 DEF IngestorTypeOK
  <2>6. CountersAddUp'
    <3>1. metrics.total.received = metrics.total.published + metrics.total.failed
      BY <1>c, <2>1
    <3>2. metrics.total.received + Len(Page)
              = (metrics.total.published + 0) + (metrics.total.failed + 0) + Len(Page)
      BY <1>n, <1>2, <3>1
    <3>3. metrics.total.published + metrics.total.failed <= metrics.total.received
      BY <1>n, <3>1
    <3> QED
      BY <2>1, <3>1, <3>2, <3>3 DEF CountersAddUp
  <2> QED
    BY <2>3, <2>5, <2>6 DEF IngestorInv
<1>12. CASE NormalizeFails
  BY <1>12, EventFailsInv DEF NormalizeFails, IngestorInv, IngestorTypeOK
<1>13. CASE PublishFails
  <2>1. faults' \in [FaultKinds -> Nat]
    BY <1>1, <1>13, FaultTypes DEF PublishFails
  <2> QED
    BY <1>13, <2>1, EventFailsInv DEF PublishFails
<1>14. CASE PublishEvent
  BY <1>14, PublishEventInv
<1>15. CASE RecordReceived
  <2>1. /\ UNCHANGED <<feed, copies, etag, batch, inFlight, failed, brokenPages, faults>>
        /\ batch = <<>> /\ pc = "publish" /\ pc' = "recordPublished"
        /\ metrics' = [metrics EXCEPT !.total.received = @ + tally.received]
        /\ tally' = [tally EXCEPT !.received = 0]
    BY <1>1, <1>15 DEF RecordReceived, logVars, IngestorTypeOK
  <2>2. /\ metrics' \in [pollErrors : Nat, total : Tallies] /\ tally' \in Tallies
        /\ metrics'.total.received = metrics.total.received + tally.received
        /\ metrics'.total.published = metrics.total.published
        /\ metrics'.total.failed = metrics.total.failed
        /\ tally'.received = 0
        /\ tally'.published = tally.published /\ tally'.failed = tally.failed
    <3>1. metrics \in [pollErrors : Nat, total : Tallies] /\ tally.received \in Nat
      BY <1>1, <1>n DEF IngestorTypeOK
    <3>2. /\ tally' \in Tallies /\ tally'.received = 0
          /\ tally'.published = tally.published /\ tally'.failed = tally.failed
      BY <1>1, <1>t, <2>1, TallyZeroed
    <3> QED
      BY <2>1, <3>1, <3>2, CounterAdds
  <2>3. HiddenPageIsDelivered' /\ PageETag' = PageETag
    BY <1>1, <1>3, <2>1 DEF IngestorTypeOK
  <2>4. IngestorTypeOK'
    BY <1>1, <2>1, <2>2, <2>3 DEF IngestorTypeOK
  <2>5. CountersAddUp'
    <3>1. Len(batch) = 0 /\ batch' = batch
      BY <1>1, <2>1 DEF IngestorTypeOK
    <3> QED
      BY <1>1, <2>1, <2>2, <2>4, <3>1, CountsRecorded
  <2> QED
    BY <2>3, <2>4, <2>5 DEF IngestorInv
<1>16. CASE RecordPublished
  <2>1. /\ UNCHANGED <<feed, copies, etag, batch, inFlight, failed, brokenPages, faults>>
        /\ batch = <<>> /\ pc = "recordPublished" /\ pc' = "recordFailed"
        /\ metrics' = [metrics EXCEPT !.total.published = @ + tally.published]
        /\ tally' = [tally EXCEPT !.published = 0]
    BY <1>1, <1>16 DEF RecordPublished, logVars, IngestorTypeOK
  <2>2. /\ metrics' \in [pollErrors : Nat, total : Tallies] /\ tally' \in Tallies
        /\ metrics'.total.published = metrics.total.published + tally.published
        /\ metrics'.total.received = metrics.total.received
        /\ metrics'.total.failed = metrics.total.failed
        /\ tally'.published = 0
        /\ tally'.received = tally.received /\ tally'.failed = tally.failed
    <3>1. metrics \in [pollErrors : Nat, total : Tallies] /\ tally.published \in Nat
      BY <1>1, <1>n DEF IngestorTypeOK
    <3>2. /\ tally' \in Tallies /\ tally'.published = 0
          /\ tally'.received = tally.received /\ tally'.failed = tally.failed
      BY <1>1, <1>t, <2>1, TallyZeroed
    <3> QED
      BY <2>1, <3>1, <3>2, CounterAdds
  <2>3. HiddenPageIsDelivered' /\ PageETag' = PageETag
    BY <1>1, <1>3, <2>1 DEF IngestorTypeOK
  <2>4. IngestorTypeOK'
    BY <1>1, <2>1, <2>2, <2>3 DEF IngestorTypeOK
  <2>5. CountersAddUp'
    <3>1. Len(batch) = 0 /\ batch' = batch /\ tally.received = 0
      BY <1>1, <2>1 DEF IngestorTypeOK
    <3> QED
      BY <1>1, <2>1, <2>2, <2>4, <3>1, CountsRecorded
  <2> QED
    BY <2>3, <2>4, <2>5 DEF IngestorInv
<1>17. CASE RecordFailed
  <2>1. /\ UNCHANGED <<feed, copies, etag, batch, inFlight, failed, brokenPages, faults>>
        /\ batch = <<>> /\ pc = "recordFailed" /\ pc' = "poll"
        /\ metrics' = [metrics EXCEPT !.total.failed = @ + tally.failed]
        /\ tally' = NoTally
    BY <1>1, <1>17 DEF RecordFailed, logVars, IngestorTypeOK
  <2>2. /\ metrics' \in [pollErrors : Nat, total : Tallies] /\ tally' \in Tallies
        /\ metrics'.total.failed = metrics.total.failed + tally.failed
        /\ metrics'.total.received = metrics.total.received
        /\ metrics'.total.published = metrics.total.published
        /\ tally'.failed = 0
        /\ tally'.received = tally.received /\ tally'.published = tally.published
    <3>1. metrics \in [pollErrors : Nat, total : Tallies] /\ tally.failed \in Nat
      BY <1>1, <1>n DEF IngestorTypeOK
    <3>2. /\ tally' \in Tallies /\ tally'.failed = 0
          /\ tally'.received = tally.received /\ tally'.published = tally.published
      BY <1>1, <1>t, <2>1 DEF IngestorTypeOK
    <3> QED
      BY <2>1, <3>1, <3>2, CounterAdds
  <2>3. HiddenPageIsDelivered' /\ PageETag' = PageETag
    BY <1>1, <1>3, <2>1 DEF IngestorTypeOK
  <2>4. IngestorTypeOK'
    BY <1>1, <2>1, <2>2, <2>3 DEF IngestorTypeOK
  <2>5. CountersAddUp'
    <3>1. Len(batch) = 0 /\ batch' = batch /\ tally.received = 0 /\ tally.published = 0
      BY <1>1, <2>1 DEF IngestorTypeOK
    <3> QED
      BY <1>1, <2>1, <2>2, <2>4, <3>1, CountsRecorded
  <2> QED
    BY <2>3, <2>4, <2>5 DEF IngestorInv
<1>18. ASSUME NEW e \in Events, WriterGoesOn(e)
       PROVE  IngestorInv'
  <2>1. /\ UNCHANGED <<feed, pc, etag, batch, tally, metrics, failed, brokenPages,
                       faults>>
        /\ inFlight' = inFlight \ {e}
    BY <1>18 DEF WriterGoesOn, logVars
  <2>2. PICK n \in {0, 1} : copies' = [copies EXCEPT ![e] = @ + n]
    <3>1. copies = [copies EXCEPT ![e] = @ + 0]
      BY <1>1 DEF IngestorTypeOK
    <3> QED
      BY <1>18, <3>1 DEF WriterGoesOn
  <2>3. copies' \in [Events -> Nat] /\ \A x \in Events : copies'[x] >= copies[x]
    BY <1>1, <2>2 DEF IngestorTypeOK
  <2>4. HiddenPageIsDelivered' /\ PageETag' = PageETag
    BY <1>3, <2>1, <2>3
  <2>5. IngestorTypeOK' /\ CountersAddUp'
    BY <1>1, <2>1, <2>3, <2>4 DEF IngestorTypeOK, CountersAddUp
  <2> QED
    BY <2>4, <2>5 DEF IngestorInv
<1> QED
  BY <1>5, <1>6, <1>7, <1>8, <1>9, <1>10, <1>11, <1>12, <1>13, <1>14, <1>15, <1>16,
     <1>17, <1>18 DEF Next, Poller

-----------------------------------------------------------------------------

LEMMA StepInv == IngestorInv /\ [Next]_vars => IngestorInv'
<1> SUFFICES ASSUME IngestorInv, [Next]_vars PROVE IngestorInv'
  OBVIOUS
<1>1. CASE UNCHANGED vars
  <2> USE <1>1 DEF vars, ingestorVars, logVars
  <2>1. PageETag' = PageETag /\ Page' = Page
    BY DEF PageETag, Page
  <2> QED
    BY <2>1 DEF IngestorInv, IngestorTypeOK, CountersAddUp, HiddenPageIsDelivered,
       Reported
<1>2. CASE Next
  BY <1>2, NextInv
<1> QED
  BY <1>1, <1>2

THEOREM IngestorInvariant == Spec => []IngestorInv
<1> QED
  BY InitInv, StepInv, PTL DEF Spec

\* Every variable keeps its type.
THEOREM IngestorTypeCorrectness == Spec => []IngestorTypeOK
<1>1. IngestorInv => IngestorTypeOK
  BY DEF IngestorInv
<1> QED
  BY <1>1, IngestorInvariant, PTL

\* pollOnce counts every event of every page once, as published or as failed,
\* whatever fails.
THEOREM CountersAlwaysAddUp == Spec => []CountersAddUp
<1>1. IngestorInv => CountersAddUp
  BY DEF IngestorInv
<1> QED
  BY <1>1, IngestorInvariant, PTL

\* The ETag PollEvents has stored never hides an event that is neither in the
\* topic, nor at work, nor named in the log.
THEOREM ETagHidesNothing == Spec => []HiddenPageIsDelivered
<1>1. IngestorInv => HiddenPageIsDelivered
  BY DEF IngestorInv
<1> QED
  BY <1>1, IngestorInvariant, PTL
-----------------------------------------------------------------------------
(* The messages of the topic.                                              *)

\* Further copies of an event are messages that were not there.
LEMMA MoreCopies ==
    ASSUME copies \in [Events -> Nat], IsFiniteSet(Topic),
           NEW e \in Events, NEW n \in Nat,
           copies' = [copies EXCEPT ![e] = @ + n]
    PROVE  /\ IsFiniteSet(Topic')
           /\ Cardinality(Topic) \in Nat /\ Cardinality(Topic') \in Nat
           /\ Cardinality(Topic) + (IF n > 0 THEN 1 ELSE 0) <= Cardinality(Topic')
<1> DEFINE all == {e} \X (1 .. copies[e] + n)
           new == <<e, copies[e] + 1>>
<1>1. /\ copies[e] \in Nat
      /\ \A x \in Events : copies'[x] = IF x = e THEN copies[e] + n ELSE copies[x]
  OBVIOUS
<1>2. IsFiniteSet(all)
  <2>1. ASSUME NEW b \in Int
        PROVE  IsFiniteSet(1 .. b)
    BY <2>1, FS_Interval
  <2>2. copies[e] + n \in Int
    BY <1>1
  <2>3. IsFiniteSet(1 .. copies[e] + n)
    BY <2>1, <2>2
  <2> QED
    BY <2>3, FS_Singleton, FS_Product
<1>3. Topic' \subseteq Topic \union all
  BY <1>1 DEF Topic
<1>4. IsFiniteSet(Topic')
  BY <1>2, <1>3, FS_Union, FS_Subset
<1>5. Topic \subseteq Topic'
  <2>1. \A x \in Events : 1 .. copies[x] \subseteq 1 .. copies'[x]
    BY <1>1
  <2> QED
    BY <2>1 DEF Topic
<1>6. Cardinality(Topic) \in Nat /\ Cardinality(Topic') \in Nat
      /\ Cardinality(Topic) <= Cardinality(Topic')
  BY <1>4, <1>5, FS_Subset, FS_CardinalityType
<1>7. ASSUME n > 0
      PROVE  Cardinality(Topic) + 1 <= Cardinality(Topic')
  <2>1. copies[e] + 1 \in 1 .. copies'[e] /\ copies[e] + 1 \notin 1 .. copies[e]
    BY <1>1, <1>7
  <2>2. new \in Topic' /\ new \notin Topic
    BY <2>1 DEF Topic
  <2>3. Topic \union {new} \subseteq Topic'
    BY <1>5, <2>2
  <2> HIDE DEF new
  <2>4. /\ Cardinality(Topic \union {new}) = Cardinality(Topic) + 1
        /\ Cardinality(Topic \union {new}) <= Cardinality(Topic')
    BY <1>4, <2>2, <2>3, FS_AddElement, FS_Subset
  <2> QED
    BY <2>4
<1> QED
  BY <1>4, <1>6, <1>7

\* Events counted as published since the process has started.
CountedPublished == metrics.total.published + tally.published

\* The count rises by one with an acknowledged message, keeps its value, or
\* is lost with the process; the topic has at least as many new messages.
LEMMA PublishedStep ==
    ASSUME IngestorInv, Next
    PROVE  \/ CountedPublished' \in {CountedPublished, 0} /\ copies' = copies
           \/ \E e \in Events, n \in Nat :
                 /\ copies' = [copies EXCEPT ![e] = @ + n]
                 /\ \/ CountedPublished' = CountedPublished
                    \/ CountedPublished' = CountedPublished + 1 /\ n > 0
<1>1. /\ metrics \in [pollErrors : Nat, total : Tallies] /\ tally \in Tallies
      /\ metrics.total \in Tallies
      /\ metrics.total.published \in Nat /\ tally.published \in Nat
      /\ NoTally \in Tallies /\ NoTally.published = 0
      /\ copies \in [Events -> Nat]
  BY DEF IngestorInv, IngestorTypeOK, Tallies, NoTally
<1>2. CASE Stop
  <2>1. metrics'.total = NoTally /\ tally' = NoTally /\ copies' = copies
    BY <1>2 DEF Stop
  <2> QED
    BY <1>1, <2>1 DEF CountedPublished
<1>3. CASE PollFails \/ DecodeFails
  BY <1>1, <1>3, PollErrorAdds DEF PollFails, DecodeFails, CountedPublished
<1>4. CASE NoNewEvents
  BY <1>4 DEF NoNewEvents, CountedPublished
<1>5. CASE NewPage
  <2>1. tally.published = 0 /\ tally' = [NoTally EXCEPT !.received = Len(Page)]
    BY <1>1, <1>5 DEF NewPage, IngestorInv, IngestorTypeOK
  <2>2. tally'.published = 0
    BY <2>1 DEF NoTally
  <2> QED
    BY <1>5, <2>1, <2>2 DEF NewPage, CountedPublished
<1>6. CASE NormalizeFails \/ PublishFails
  <2>1. EventFails /\ copies' = copies
    BY <1>6 DEF NormalizeFails, PublishFails
  <2>2. tally'.published = tally.published
    BY <1>1, <2>1, TallyFields DEF EventFails
  <2> QED
    BY <2>1, <2>2 DEF EventFails, CountedPublished
<1>7. CASE PublishEvent
  <2>1. Head(batch) \in Events
    BY <1>7, TailOfBatch DEF PublishEvent, IngestorInv, IngestorTypeOK
  <2>2. PICK n \in Nat : n > 0 /\ copies' = [copies EXCEPT ![Head(batch)] = @ + n]
    BY <1>7 DEF PublishEvent
  <2>3. tally'.published = tally.published + 1 /\ metrics' = metrics
    BY <1>1, <1>7, TallyFields DEF PublishEvent
  <2>4. CountedPublished' = CountedPublished + 1
    BY <1>1, <2>3 DEF CountedPublished
  <2> QED
    BY <2>1, <2>2, <2>4
<1>8. CASE RecordReceived \/ RecordFailed
  <2>1. /\ metrics'.total.published = metrics.total.published
        /\ tally'.published = tally.published /\ copies' = copies
    BY <1>1, <1>8 DEF RecordReceived, RecordFailed, IngestorInv, IngestorTypeOK,
       Tallies, NoTally
  <2> QED
    BY <2>1 DEF CountedPublished
<1>r. CASE RecordPublished
  <2>1. /\ metrics'.total.published = metrics.total.published + tally.published
        /\ tally'.published = 0 /\ copies' = copies
    BY <1>1, <1>r DEF RecordPublished, Tallies
  <2> QED
    BY <1>1, <2>1 DEF CountedPublished
<1>9. ASSUME NEW e \in Events, WriterGoesOn(e)
      PROVE  \E n \in Nat : /\ copies' = [copies EXCEPT ![e] = @ + n]
                            /\ CountedPublished' = CountedPublished
  <2>1. copies = [copies EXCEPT ![e] = @ + 0]
    BY <1>1
  <2> QED
    BY <1>9, <2>1 DEF WriterGoesOn, CountedPublished
<1>10. CASE Start \/ \E e \in Events : GitHubPublishes(e)
  BY <1>10 DEF Start, GitHubPublishes, ingestorVars, CountedPublished
<1> QED
  BY <1>2, <1>3, <1>4, <1>5, <1>6, <1>7, <1>8, <1>r, <1>9, <1>10
     DEF Next, Poller

\* PublishedIsInTopic, for a topic that has finitely many messages.
TopicInv == IsFiniteSet(Topic) /\ PublishedIsInTopic

LEMMA PublishedStaysInTopic ==
    ASSUME IngestorInv, TopicInv, Next
    PROVE  TopicInv'
<1> USE DEF TopicInv
<1>1. /\ CountedPublished \in Nat /\ copies \in [Events -> Nat]
      /\ CountedPublished <= Cardinality(Topic)
  BY DEF IngestorInv, IngestorTypeOK, Tallies, CountedPublished, PublishedIsInTopic
<1>2. Cardinality(Topic) \in Nat
  BY FS_CardinalityType
<1>3. CASE CountedPublished' \in {CountedPublished, 0} /\ copies' = copies
  BY <1>1, <1>2, <1>3 DEF Topic, PublishedIsInTopic, CountedPublished
<1>4. ASSUME NEW e \in Events, NEW n \in Nat,
             copies' = [copies EXCEPT ![e] = @ + n],
             \/ CountedPublished' = CountedPublished
             \/ CountedPublished' = CountedPublished + 1 /\ n > 0
      PROVE  TopicInv'
  <2>1. /\ IsFiniteSet(Topic') /\ Cardinality(Topic') \in Nat
        /\ Cardinality(Topic) + (IF n > 0 THEN 1 ELSE 0) <= Cardinality(Topic')
    BY <1>1, <1>4, MoreCopies
  <2>2. CountedPublished' <= Cardinality(Topic')
    BY <1>1, <1>2, <1>4, <2>1
  <2> QED
    BY <2>1, <2>2 DEF PublishedIsInTopic, CountedPublished
<1> QED
  BY <1>3, <1>4, PublishedStep

\* What PublishEvent has acknowledged and pollOnce counted as published is in
\* the topic, through lost acknowledgements and calls that gave up.
THEOREM NoPhantomPublish == Spec => []PublishedIsInTopic
<1>1. Init => TopicInv
  <2> SUFFICES ASSUME Init PROVE TopicInv
    OBVIOUS
  <2>1. Topic = {}
    BY DEF Init, Topic
  <2>2. metrics.total.published + tally.published = 0
    BY DEF Init, NoTally
  <2> QED
    BY <2>1, <2>2, FS_EmptySet DEF TopicInv, PublishedIsInTopic
<1>2. IngestorInv /\ TopicInv /\ [Next]_vars => TopicInv'
  <2>1. ASSUME TopicInv, UNCHANGED vars
        PROVE  TopicInv'
    BY <2>1 DEF TopicInv, Topic, PublishedIsInTopic, vars, ingestorVars
  <2> QED
    BY <2>1, PublishedStaysInTopic
<1>3. TopicInv => PublishedIsInTopic
  BY DEF TopicInv
<1> QED
  BY <1>1, <1>2, <1>3, IngestorInvariant, PTL DEF Spec
=============================================================================
