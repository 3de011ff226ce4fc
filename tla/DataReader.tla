----------------------------- MODULE DataReader -----------------------------
(***************************************************************************)
(* What the readers make of what DDS delivers: CycloneReader, with read(), *)
(* readInstance(), readUpToN() and readLatest(), and CycloneBufferedReader,*)
(* whose thread moves everything into a ring buffer.                       *)
(*                                                                         *)
(* The middleware keeps, per instance, the unread samples in the order     *)
(* they were written, the last Depth of them, and after them a sample that *)
(* holds a key and no data when the instance was disposed or lost its      *)
(* writer.  A sample comes with the state its instance has when it is      *)
(* taken.  Instances are taken in no particular order.  Samples are        *)
(* numbered as they are written; 0 stands for a key without data.          *)
(*                                                                         *)
(* An application uses a reader in one of four ways.                       *)
(***************************************************************************)
EXTENDS Integers, Sequences, FiniteSets

CONSTANTS
    Instances,  \* the keys of the topic
    Own,        \* the instance of a topic that has a single one
    Matching,   \* the samples the filter lets pass
    MaxSamples, \* bound on the samples written
    Depth,      \* the depth of the reader's history, 5
    BufferSize, \* the capacity of the ring buffer
    Marked      \* whether an instance with unread data gets a key-only sample

ASSUME ReaderAssumption ==
    /\ Own \in Instances /\ {"any", "no"} \cap Instances = {}
    /\ Matching \subseteq 1 .. MaxSamples
    /\ Depth \in Nat \ {0} /\ BufferSize \in Nat \ {0}

VARIABLES
    use,        \* "read", "latest": CycloneReader; "buffered", "buffered latest"
    filtered,   \* whether a CycloneReader has a manualFilter
    written,    \* samples written so far
    unread,     \* per instance: the samples not taken yet
    keyOnly,    \* per instance: whether a key-only sample waits behind them
    state,      \* per instance: none, alive, disposed, orphaned
    asked,      \* what read() looks for in its loop: an instance, "any"; "no"
    batch,      \* per instance: what the buffered reader's thread has taken and
                \* not pushed
    pushing,    \* the instance whose samples it pushes
    ring,       \* what dataRingBuffer_ holds, oldest first
    backed,     \* what readLatest() got from back(), before clear(); {}: nothing
    answers,    \* history, per instance: the last status the application was
                \* given, and all the data
    overrun,    \* history: samples pushed out of the history unread
    fresh       \* history, per instance: the last sample that passes, 0 once
                \* the instance is not alive

ddsVars == <<written, unread, keyOnly, state, overrun, fresh>>
bufferVars == <<batch, pushing, ring, backed>>
useVars == <<use, filtered>>
readerVars == <<useVars, ddsVars, asked, bufferVars, answers>>

Envelope(k, status, n) == [key |-> k, status |-> status, n |-> n]

\* DataRingBuffer<T>, by what it holds (ThreadProofs.tla).
Pushed(q, e) == Append(IF Len(q) = BufferSize THEN Tail(q) ELSE q, e)

Passes(n) == filtered => n \in Matching
Given(e) ==
    answers' = [answers EXCEPT ![e.key] =
                    [status |-> e.status,
                     data |-> IF e.n = 0 THEN @.data ELSE Append(@.data, e.n)]]
Waits(k) == unread[k] # <<>> \/ keyOnly[k]
Taken(f, k) == [f EXCEPT ![k] = Tail(@)]

-----------------------------------------------------------------------------
(* The writers, and the middleware.                                        *)

\* CycloneSender::send().
Write(k) ==
    /\ written < MaxSamples
    /\ use \in {"latest", "buffered latest"} => k = Own
    /\ written' = written + 1
    /\ LET all == Append(unread[k], written')
       IN  IF Len(all) > Depth
           THEN /\ unread' = [unread EXCEPT ![k] = Tail(all)]
                /\ overrun' = overrun \cup {Head(all)}
           ELSE /\ unread' = [unread EXCEPT ![k] = all]
                /\ UNCHANGED overrun
    /\ keyOnly' = [keyOnly EXCEPT ![k] = FALSE]
    /\ state' = [state EXCEPT ![k] = "alive"]
    /\ fresh' = IF Passes(written') THEN [fresh EXCEPT ![k] = written'] ELSE fresh
    /\ UNCHANGED <<useVars, asked, bufferVars, answers>>

Ends(k, s) ==
    /\ state[k] = "alive"
    /\ state' = [state EXCEPT ![k] = s]
    /\ keyOnly' = [keyOnly EXCEPT ![k] = Marked \/ unread[k] = <<>>]
    /\ fresh' = [fresh EXCEPT ![k] = 0]
    /\ UNCHANGED <<useVars, written, unread, overrun, asked, bufferVars, answers>>

\* CycloneSender::dispose(), and the loss of the instance's writer.
Dispose(k) == Ends(k, "disposed")
LoseWriter(k) == Ends(k, "orphaned")

-----------------------------------------------------------------------------
(* CycloneReader: read(), readInstance() and, over and over, readUpToN().  *)

\* The lock is taken, and kept until there is an answer.
Ask(what) ==
    /\ use = "read" /\ asked = "no"
    /\ asked' = what
    /\ UNCHANGED <<useVars, ddsVars, bufferVars, answers>>

AskedFor == IF asked = "any" THEN Instances ELSE {asked} \cap Instances

\* Faulty variant: the samples are not limited to one.
TakeAll ==
    \E k \in AskedFor :
        /\ unread[k] # <<>>
        /\ unread' = [unread EXCEPT ![k] = <<>>]
        /\ IF Passes(Head(unread[k]))
           THEN Given(Envelope(k, "SUCCESS", Head(unread[k]))) /\ asked' = "no"
           ELSE UNCHANGED <<answers, asked>>
        /\ UNCHANGED <<useVars, written, keyOnly, state, overrun, fresh,
                       bufferVars>>

\* One turn of the loop takes one sample.  Data that does not pass is skipped.
TakeData ==
    \E k \in AskedFor :
        /\ unread[k] # <<>>
        /\ unread' = Taken(unread, k)
        /\ IF Passes(Head(unread[k]))
           THEN Given(Envelope(k, "SUCCESS", Head(unread[k]))) /\ asked' = "no"
           ELSE UNCHANGED <<answers, asked>>
        /\ UNCHANGED <<useVars, written, keyOnly, state, overrun, fresh,
                       bufferVars>>

\* Faulty variant: the filter is applied to the key-only sample as well.
TakeKeyFiltered ==
    \E k \in AskedFor :
        /\ unread[k] = <<>> /\ keyOnly[k]
        /\ keyOnly' = [keyOnly EXCEPT ![k] = FALSE]
        /\ IF Passes(0) THEN Given(Envelope(k, "DISPOSED", 0)) /\ asked' = "no"
           ELSE UNCHANGED <<answers, asked>>
        /\ UNCHANGED <<useVars, written, unread, state, overrun, fresh,
                       bufferVars>>

\* A key-only sample is not filtered.  An instance without a writer is a
\* success for read() and disposed for readInstance().
TakeKey ==
    \E k \in AskedFor :
        /\ unread[k] = <<>> /\ keyOnly[k]
        /\ keyOnly' = [keyOnly EXCEPT ![k] = FALSE]
        /\ Given(Envelope(k, IF state[k] = "disposed" \/ asked # "any"
                             THEN "DISPOSED" ELSE "SUCCESS", 0))
        /\ asked' = "no"
        /\ UNCHANGED <<useVars, written, unread, state, overrun, fresh,
                       bufferVars>>

NoData ==
    /\ asked # "no" /\ \A k \in AskedFor : ~Waits(k)
    /\ asked' = "no"
    /\ UNCHANGED <<useVars, ddsVars, bufferVars, answers>>

\* The middleware throws: ERROR, and nothing is taken.
ReadFails ==
    /\ asked # "no"
    /\ asked' = "no"
    /\ UNCHANGED <<useVars, ddsVars, bufferVars, answers>>

-----------------------------------------------------------------------------
(* CycloneReader::readLatest(), as ReportConsumer::cycle() calls it.       *)

Emptied ==
    /\ unread' = [k \in Instances |-> <<>>]
    /\ keyOnly' = [k \in Instances |-> FALSE]
    /\ UNCHANGED <<useVars, written, state, overrun, fresh, asked, bufferVars>>

Candidates(k) == {i \in DOMAIN unread[k] : Passes(unread[k][i])}

\* Faulty variant: from the oldest to the newest.
Oldest(k) ==
    IF Candidates(k) = {} THEN 0
    ELSE unread[k][CHOOSE i \in Candidates(k) : \A j \in Candidates(k) : i <= j]

\* With a filter the newest sample that passes; without, whatever comes last.
Newest(k) ==
    IF Candidates(k) = {} \/ (~filtered /\ keyOnly[k]) THEN 0
    ELSE unread[k][CHOOSE i \in Candidates(k) : \A j \in Candidates(k) : i >= j]

\* The instance of the sample may not be alive any more: its data is not given.
ReadLatest ==
    /\ use = "latest" /\ \E k \in Instances : Waits(k)
    /\ \E k \in Instances :
          /\ Waits(k)
          /\ IF filtered /\ Newest(k) = 0
             THEN /\ \A l \in Instances : Newest(l) = 0
                  /\ UNCHANGED answers
             ELSE Given(IF state[k] = "alive" THEN Envelope(k, "SUCCESS", Newest(k))
                        ELSE IF state[k] = "disposed" THEN Envelope(k, "DISPOSED", 0)
                        ELSE Envelope(k, "INVALID_DATA", 0))
    /\ Emptied

-----------------------------------------------------------------------------
(* CycloneBufferedReader.                                                  *)

Buffered == use \in {"buffered", "buffered latest"}

\* What processData() makes of the samples of an instance.
Envelopes(k) ==
    [i \in DOMAIN unread[k] |->
        IF state[k] = "disposed" THEN Envelope(k, "DISPOSED", 0)
        ELSE Envelope(k, "SUCCESS", unread[k][i])]
    \o IF keyOnly[k]
       THEN <<Envelope(k, IF state[k] = "disposed" THEN "DISPOSED"
                          ELSE "INVALID_DATA", 0)>>
       ELSE <<>>

\* processData() takes everything ...
TakeBatch ==
    /\ Buffered /\ \A k \in Instances : batch[k] = <<>>
    /\ \E k \in Instances : Waits(k)
    /\ batch' = [k \in Instances |-> Envelopes(k)]
    /\ unread' = [k \in Instances |-> <<>>]
    /\ keyOnly' = [k \in Instances |-> FALSE]
    /\ UNCHANGED <<useVars, written, state, overrun, fresh, asked, pushing, ring,
                   backed, answers>>

\* ... and pushes it, instance by instance, one envelope at a time.
PushOne ==
    /\ \E k \in Instances :
          /\ batch[k] # <<>>
          /\ k = pushing \/ batch[pushing] = <<>>
          /\ ring' = Pushed(ring, Head(batch[k]))
          /\ batch' = Taken(batch, k)
          /\ pushing' = k
    /\ UNCHANGED <<useVars, ddsVars, asked, backed, answers>>

\* Faulty variant of BufferedReaderBase::read(): back() for get().
BufferedReadBack ==
    /\ use = "buffered" /\ ring # <<>>
    /\ Given(ring[Len(ring)])
    /\ ring' = Tail(ring)
    /\ UNCHANGED <<useVars, ddsVars, asked, batch, pushing, backed>>

\* BufferedReaderBase::read() and, over and over, readUpToN().
BufferedRead ==
    /\ use = "buffered" /\ ring # <<>>
    /\ Given(Head(ring))
    /\ ring' = Tail(ring)
    /\ UNCHANGED <<useVars, ddsVars, asked, batch, pushing, backed>>

\* BufferedReaderBase::readLatest(): back() ...
BufferedBack ==
    /\ use = "buffered latest" /\ ring # <<>> /\ backed = {}
    /\ backed' = {ring[Len(ring)]}
    /\ UNCHANGED <<useVars, ddsVars, asked, batch, pushing, ring, answers>>

\* ... and clear(): the reader's thread does not take the lock of the two.
BufferedClear ==
    /\ \E e \in backed : Given(e)
    /\ backed' = {}
    /\ ring' = <<>>
    /\ UNCHANGED <<useVars, ddsVars, asked, batch, pushing>>

-----------------------------------------------------------------------------
InitReader ==
    /\ use \in {"read", "latest", "buffered", "buffered latest"}
    /\ filtered \in BOOLEAN /\ (Buffered => ~filtered)
    /\ written = 0 /\ overrun = {}
    /\ unread = [k \in Instances |-> <<>>]
    /\ keyOnly = [k \in Instances |-> FALSE]
    /\ state = [k \in Instances |-> "none"]
    /\ fresh = [k \in Instances |-> 0]
    /\ asked = "no"
    /\ batch = [k \in Instances |-> <<>>] /\ pushing = Own
    /\ ring = <<>> /\ backed = {}
    /\ answers = [k \in Instances |-> [status |-> "none", data |-> <<>>]]

Take == TakeData \/ TakeKey

NextReader ==
    \/ \E k \in Instances : Write(k) \/ Dispose(k) \/ LoseWriter(k)
    \/ \E what \in Instances \cup {"any"} : Ask(what)
    \/ Take \/ NoData \/ ReadFails
    \/ ReadLatest
    \/ TakeBatch \/ PushOne
    \/ BufferedRead \/ BufferedBack \/ BufferedClear

\* The application reads again and again, whatever is there, and the
\* middleware does not throw every time.
ReaderFairness ==
    /\ SF_readerVars(Ask("any")) /\ SF_readerVars(asked = "any" /\ Take)
    /\ WF_readerVars(Take \/ NoData)
    /\ WF_readerVars(ReadLatest)
    /\ WF_readerVars(TakeBatch) /\ WF_readerVars(PushOne)
    /\ WF_readerVars(BufferedRead)
    /\ WF_readerVars(BufferedBack) /\ WF_readerVars(BufferedClear)

SpecReader == InitReader /\ [][NextReader]_readerVars
FairReader == SpecReader /\ ReaderFairness

-----------------------------------------------------------------------------
(* Properties.                                                             *)

Delivered(k) == {answers[k].data[i] : i \in DOMAIN answers[k].data}

\* Whatever the use, an instance's data is given in the order it was written,
\* and no sample twice.
InOrder ==
    \A k \in Instances : \A i, j \in DOMAIN answers[k].data :
        i < j => answers[k].data[i] < answers[k].data[j]

\* read(), readInstance() and readUpToN() lose nothing: a sample that passes
\* was given, is unread, or was overrun in the history; none that does not
\* pass is given.
NothingSkipped ==
    use = "read" =>
        LET given == UNION {Delivered(k) : k \in Instances}
            kept == UNION {{unread[k][i] : i \in DOMAIN unread[k]} : k \in Instances}
        IN  /\ \A n \in 1 .. written :
                  Passes(n) => n \in given \cup kept \cup overrun
            /\ \A n \in given : Passes(n)

\* Of what a filter lets pass nothing is lost, repeated or reordered.
NothingLost == InOrder /\ NothingSkipped

\* The end of an instance is never lost on a reader that reads every sample,
\* whatever its filter: in the end the last an application was told of a
\* disposed instance is that it is.  So a provider hears of a cancellation.
DisposalSeen ==
    []<>(use \in {"read", "buffered"} =>
            \A k \in Instances :
                state[k] = "disposed" => answers[k].status = "DISPOSED")

\* Every reader but the one with the race below ends up having given the last
\* sample of an instance that stays alive.
FreshestIsGiven ==
    []<>(use # "buffered latest" =>
            \A k \in Instances : fresh[k] \in Delivered(k) \cup {0})

\* BufferedReaderBase.h:67: readLatest() reads the latest sample.  A sample that
\* comes between its back() and its clear() is lost.
BufferedLatestIsGiven ==
    []<>(use = "buffered latest" => fresh[Own] \in Delivered(Own) \cup {0})

\* DdsIoTypes.h:31: a successful read has data.
SuccessHasData ==
    [][\A k \in Instances :
          answers'[k].status = "SUCCESS" /\ answers'[k] # answers[k] =>
              answers'[k].data # answers[k].data]_readerVars
=============================================================================
