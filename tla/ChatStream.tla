----------------------------- MODULE ChatStream -----------------------------
(***************************************************************************)
(* One streamed chat completion, from the moment the handler asks for the  *)
(* first chunk to the moment both generators are closed.                   *)
(*                                                                         *)
(* Two generators hand the answer on.  The inner one,                      *)
(* StreamChatCompletion.execute, reads the chunks of the provider, keeps   *)
(* the tokens it reports and records the consumption in its `finally`.     *)
(* The outer one, _sse_stream, turns each chunk into events, which         *)
(* Starlette sends.  The handler takes the first chunk itself, before      *)
(* there is an outer generator, to be able to answer with an HTTP error.   *)
(*                                                                         *)
(* A client that goes away is noticed at the await where the response is:  *)
(* reading the provider, the inner generator is cancelled on the spot;     *)
(* sending, both are left suspended at their `yield` and the garbage       *)
(* collector closes them, later.  The recording is shielded, and is here   *)
(* one step, whose two phases succeed or are given up: UsageRecorder has   *)
(* its detail.                                                             *)
(***************************************************************************)
EXTENDS Naturals, Sequences, FiniteSets

CONSTANTS MaxChunks,  \* bound: the most chunks the provider sends
          MaxTokens   \* bound: the most tokens the provider reports

ASSUME StreamAssumption == MaxChunks \in Nat /\ MaxTokens \in Nat

VARIABLES stage,     \* the await at which the response is
          gen,       \* the inner generator, with its local variables
          pending,   \* the events of the chunk being sent
          sent,      \* the events handed to the server
          http,      \* the HTTP status sent, 0 before
          upstream,  \* the HTTP stream from the provider
          records,   \* the recordings that have ended
          seen       \* history variable: what the provider has sent

vars == <<stage, gen, pending, sent, http, upstream, records, seen>>

-----------------------------------------------------------------------------
(* Values                                                                  *)

(* first: the handler awaits the first chunk.  headers: the 200 goes out.  *)
(* sending, pulling: the outer generator is at a `yield`, or awaits the    *)
(* inner one.  ended: all sent.  failed: answered with an HTTP error.      *)
(* broken: an error after the 200.  cut: the client is gone.               *)
Stages == {"first", "headers", "sending", "pulling",
           "ended", "failed", "broken", "cut"}

Tokens == 0..MaxTokens

(* first: no event has been emitted yet.  error: the status that the       *)
(* exception in flight answers with, 0 when there is none.                 *)
Generators ==
  [at : {"reading", "yielded", "recording", "closed"}, first : BOOLEAN,
   tokens : Tokens, status : {200, 502}, error : {0, 500, 502}]

(* What was to be recorded, and whether it was: ScopedRecordUsage gives    *)
(* the charge or the row up after an error that lasts, and returns.        *)
Recordings ==
  [status : {200, 502}, tokens : Tokens, charged : BOOLEAN, logged : BOOLEAN]

(* A line of the provider: text or an empty delta, last one or not.        *)
Chunks == [text : BOOLEAN, done : BOOLEAN]

Text(role) == [kind |-> "text", role |-> role]

FinishEvent == [kind |-> "finish", role |-> FALSE]

DoneEvent == [kind |-> "DONE", role |-> FALSE]

EventSet == {Text(TRUE), Text(FALSE), FinishEvent, DoneEvent}

(* Mutant: the text of the last chunk is dropped.                          *)
EventsWithoutLastText(c, role) ==
  IF c.done THEN <<FinishEvent>> ELSE IF c.text THEN <<Text(role)>> ELSE <<>>

(* Mutant: [DONE] goes out with the finish_reason.                         *)
EventsWithDone(c, role) ==
  (IF c.text THEN <<Text(role)>> ELSE <<>>)
    \o (IF c.done THEN <<FinishEvent, DoneEvent>> ELSE <<>>)

(* _events: the text of a chunk first, then its finish_reason.             *)
Events(c, role) ==
  (IF c.text THEN <<Text(role)>> ELSE <<>>)
    \o (IF c.done THEN <<FinishEvent>> ELSE <<>>)

(* Mutant: any chunk, even an empty one, uses the role up.                 *)
StillFirstAfterAny(c) == FALSE

(* The role stays due until an event has really been emitted.              *)
StillFirst(c) == gen.first /\ ~ (c.text \/ c.done)

-----------------------------------------------------------------------------
(* The inner generator                                                     *)

(* Mutant: the tokens are taken over after the `yield`.                    *)
YieldedBeforeTokens(c, n) ==
  [gen EXCEPT !.at = "yielded", !.first = StillFirst(c)]

(* Mutant: the counts of every chunk are taken, and added up.              *)
YieldedAddingUp(c, n) ==
  [gen EXCEPT !.at     = "yielded",
              !.first  = StillFirst(c),
              !.tokens = @ + n]

(* A chunk c, which reports n tokens if it is the last, is yielded.        *)
Yielded(c, n) ==
  [gen EXCEPT !.at     = "yielded",
              !.first  = StillFirst(c),
              !.tokens = IF c.done THEN n ELSE @]

Notice(c, n) ==
  seen' = [chunks |-> seen.chunks + 1,
           texts  |-> seen.texts + (IF c.text THEN 1 ELSE 0),
           done   |-> c.done,
           tokens |-> IF c.done THEN n ELSE 0]

(* The provider is read while the generator is at work, and sends nothing  *)
(* after the chunk marked done.                                            *)
Sends(c, n) ==
  /\ gen.at = "reading"
  /\ seen.chunks < MaxChunks
  /\ ~ seen.done
  /\ Notice(c, n)
  /\ pending' = Events(c, gen.first)

(* The handler has its first chunk, whatever it holds.                     *)
FirstChunk(c, n) ==
  /\ stage = "first"
  /\ Sends(c, n)
  /\ gen' = Yielded(c, n)
  /\ stage' = "headers"
  /\ UNCHANGED <<sent, http, upstream, records>>

(* The outer generator has a chunk; one without events is passed over.     *)
NextChunk(c, n) ==
  /\ stage = "pulling"
  /\ Sends(c, n)
  /\ IF c.text \/ c.done
     THEN stage' = "sending" /\ gen' = Yielded(c, n)
     ELSE UNCHANGED <<stage, gen>>
  /\ UNCHANGED <<sent, http, upstream, records>>

(* Leaving the loop: the provider's stream is closed, `finally` records.   *)
ProviderEnds ==
  /\ gen.at = "reading"
  /\ gen' = [gen EXCEPT !.at = "recording"]
  /\ upstream' = "closed"
  /\ UNCHANGED <<stage, pending, sent, http, records, seen>>

(* Mutant: the failure is recorded where it is caught, and once more.      *)
ProviderFailsRecorded ==
  /\ gen.at = "reading"
  /\ \E error \in {500, 502} :
       gen' = [gen EXCEPT !.at = "recording", !.status = 502, !.error = error]
  /\ upstream' = "closed"
  /\ records' = Append(records, [status |-> 502, tokens |-> gen.tokens,
                                 charged |-> TRUE, logged |-> TRUE])
  /\ UNCHANGED <<stage, pending, sent, http, seen>>

(* A ProviderError, or another exception, such as a line that is no JSON.  *)
ProviderFails ==
  /\ gen.at = "reading"
  /\ \E error \in {500, 502} :
       gen' = [gen EXCEPT !.at = "recording", !.status = 502, !.error = error]
  /\ upstream' = "closed"
  /\ UNCHANGED <<stage, pending, sent, http, records, seen>>

(* The recording is over, done or given up, which is only logged: the      *)
(* generator ends, or raises, in the same way.                             *)
Close ==
  /\ gen.at = "recording"
  /\ gen' = [gen EXCEPT !.at = "closed"]
  /\ \E charged, logged \in BOOLEAN :
       records' = Append(records, [status |-> gen.status, tokens |-> gen.tokens,
                                   charged |-> charged, logged |-> logged])
  /\ UNCHANGED <<sent, upstream, seen>>

(* Mutant: StopAsyncIteration is taken for an empty answer.                *)
CloseFirstAsEmpty ==
  /\ stage = "first"
  /\ Close
  /\ IF gen.error = 0
     THEN stage' = "headers" /\ UNCHANGED http
     ELSE stage' = "failed" /\ http' = gen.error
  /\ UNCHANGED pending

(* Before the first chunk: an HTTP error, 502 for a stream without chunks. *)
CloseFirst ==
  /\ stage = "first"
  /\ Close
  /\ stage' = "failed"
  /\ http' = IF gen.error = 0 THEN 502 ELSE gen.error
  /\ UNCHANGED pending

(* While the outer generator waits: [DONE], or the connection is broken.   *)
ClosePulling ==
  /\ stage = "pulling"
  /\ Close
  /\ IF gen.error = 0
     THEN stage' = "sending" /\ pending' = <<DoneEvent>>
     ELSE stage' = "broken" /\ UNCHANGED pending
  /\ UNCHANGED http

(* For a client that is gone: nobody waits for it.                         *)
CloseCut ==
  /\ stage = "cut"
  /\ Close
  /\ UNCHANGED <<stage, pending, http>>

-----------------------------------------------------------------------------
(* The outer generator and the response                                    *)

(* The outer generator goes on until it has something to send.             *)
GoOn(events) ==
  /\ pending' = events
  /\ IF events # <<>>
     THEN stage' = "sending" /\ UNCHANGED gen
     ELSE IF gen.at = "closed"
     THEN stage' = "ended" /\ UNCHANGED gen
     ELSE stage' = "pulling" /\ gen' = [gen EXCEPT !.at = "reading"]

SendHeaders ==
  /\ stage = "headers"
  /\ http' = 200
  /\ GoOn(pending)
  /\ UNCHANGED <<sent, upstream, records, seen>>

SendEvent ==
  /\ stage = "sending"
  /\ sent' = Append(sent, Head(pending))
  /\ GoOn(Tail(pending))
  /\ UNCHANGED <<http, upstream, records, seen>>

(* The client is gone while the response is being sent: both generators    *)
(* stay where they are.                                                    *)
CutSending ==
  /\ stage \in {"headers", "sending"}
  /\ stage' = "cut"
  /\ UNCHANGED <<gen, pending, sent, http, upstream, records, seen>>

(* The client is gone while the provider is being read: CancelledError,    *)
(* which is no Exception, goes through `finally`.  During the recording    *)
(* the shield holds it back.                                               *)
CutPulling ==
  /\ stage = "pulling"
  /\ gen.at = "reading"
  /\ stage' = "cut"
  /\ gen' = [gen EXCEPT !.at = "recording"]
  /\ upstream' = "closed"
  /\ UNCHANGED <<pending, sent, http, records, seen>>

(* Mutant: nobody closes the inner generator with the outer one.           *)
CollectOuterOnly ==
  /\ stage = "cut"
  /\ gen.at = "yielded"
  /\ upstream = "open"
  /\ upstream' = "abandoned"
  /\ UNCHANGED <<stage, gen, pending, sent, http, records, seen>>

(* The abandoned generators are closed: GeneratorExit at the `yield` of    *)
(* the outer one, whose `finally` closes the inner one, or at the inner    *)
(* one itself when the outer one had not started.  The generators of the   *)
(* provider are abandoned in turn.                                         *)
Collect ==
  /\ stage = "cut"
  /\ gen.at = "yielded"
  /\ gen' = [gen EXCEPT !.at = "recording"]
  /\ upstream' = "abandoned"
  /\ UNCHANGED <<stage, pending, sent, http, records, seen>>

(* Mutant: the HTTP stream is not closed with its generator.               *)
CollectUpstreamLeaks ==
  /\ upstream = "abandoned"
  /\ gen.at = "closed"
  /\ UNCHANGED vars

(* The provider's generators are collected, and close the HTTP stream.     *)
CollectUpstream ==
  /\ upstream = "abandoned"
  /\ upstream' = "closed"
  /\ UNCHANGED <<stage, gen, pending, sent, http, records, seen>>

-----------------------------------------------------------------------------
Init ==
  /\ stage = "first"
  /\ gen = [at |-> "reading", first |-> TRUE, tokens |-> 0,
            status |-> 200, error |-> 0]
  /\ pending = <<>>
  /\ sent = <<>>
  /\ http = 0
  /\ upstream = "open"
  /\ records = <<>>
  /\ seen = [chunks |-> 0, texts |-> 0, done |-> FALSE, tokens |-> 0]

Provider ==
  \/ \E c \in Chunks, n \in Tokens : FirstChunk(c, n) \/ NextChunk(c, n)
  \/ ProviderEnds
  \/ ProviderFails

Cut == CutSending \/ CutPulling

Next ==
  \/ Provider
  \/ CloseFirst \/ ClosePulling \/ CloseCut
  \/ SendHeaders \/ SendEvent
  \/ Cut
  \/ Collect \/ CollectUpstream

(* The provider's client has a read timeout, a recording ends, an event    *)
(* goes out or the client is found to be gone, and the interpreter closes  *)
(* the asynchronous generators nobody refers to.                           *)
Fairness ==
  /\ WF_vars(Provider)
  /\ WF_vars(CloseFirst \/ ClosePulling \/ CloseCut)
  /\ WF_vars(SendHeaders \/ SendEvent \/ Cut)
  /\ WF_vars(Collect)
  /\ WF_vars(CollectUpstream)

Spec == Init /\ [][Next]_vars /\ Fairness

-----------------------------------------------------------------------------
(* Properties                                                              *)

Closed == gen.at = "closed"

Emitted == sent \o pending

(* Type correctness.                                                       *)
TypeOK ==
  /\ stage \in Stages
  /\ gen \in Generators
  /\ pending \in Seq(EventSet)
  /\ sent \in Seq(EventSet)
  /\ http \in {0, 200, 500, 502}
  /\ upstream \in {"open", "abandoned", "closed"}
  /\ records \in Seq(Recordings)
  /\ seen \in [chunks : 0..MaxChunks, texts : 0..MaxChunks, done : BOOLEAN,
               tokens : Tokens]

(* Whatever ends a stream, its end, an error or a cut at any await, its    *)
(* recording is made once: the `finally` runs in every case and never      *)
(* twice, also when what it recorded was given up.                         *)
RecordedOnce == Len(records) = IF Closed THEN 1 ELSE 0

(* What is recorded are the tokens the provider reported, also when the    *)
(* cut comes between the chunk that reports them and the end of the stream.*)
ReportIsRecorded ==
  Closed => \A i \in 1..Len(records) : records[i].tokens = seen.tokens

(* [DONE] comes only after the recording of the stream has ended, and only *)
(* for a stream that did not fail.  It does not promise the charge: a      *)
(* recording that was given up ends too, and [DONE] follows it.            *)
DoneFollowsRecording ==
  (\E i \in 1..Len(Emitted) : Emitted[i] = DoneEvent)
    => Len(records) = 1 /\ records[1].status = 200

(* The events are those of OpenAI: the role with the first text and with   *)
(* no other, nothing but [DONE] after the finish_reason, [DONE] last.      *)
WellFormedStream ==
  \A i \in 1..Len(Emitted) :
    /\ Emitted[i].kind = "text" => (Emitted[i].role <=> i = 1)
    /\ Emitted[i].kind = "finish" =>
         \A j \in (i + 1)..Len(Emitted) : Emitted[j] = DoneEvent
    /\ Emitted[i] = DoneEvent => i = Len(Emitted)

(* No text is lost or doubled between the provider and the client, not     *)
(* even that of the chunk that is marked done.                             *)
NoTextLost ==
  Cardinality({i \in 1..Len(Emitted) : Emitted[i].kind = "text"}) = seen.texts

(* A failure is answered with an HTTP error exactly when no chunk came:    *)
(* an error status never follows, or comes with, any part of a stream.     *)
CleanErrorOrStream ==
  /\ stage = "failed" <=> http \in {500, 502}
  /\ stage = "failed" => seen.chunks = 0 /\ sent = <<>>
  /\ http = 200 => seen.chunks > 0

(* The `finally` that records the consumption runs to its end for every    *)
(* stream: when the client goes away too, at whatever await.               *)
EveryStreamRecorded == <>[](Closed /\ records # <<>>)

(* The stream from the provider is closed in the end, even when both       *)
(* generators were left to the garbage collector.                          *)
UpstreamReleased == <>[](upstream = "closed")

(* docs/frontend-guide.md:329-330: a client that has been sent some text   *)
(* and cancels is charged for it.  (A recording that was given up, and a   *)
(* provider that reports no tokens, are left out.)                         *)
CancelledIsCharged ==
  /\ stage = "cut"
  /\ \E i \in 1..Len(sent) : sent[i].kind = "text"
  /\ seen.done => seen.tokens > 0
  => \A i \in 1..Len(records) : records[i].charged => records[i].tokens > 0

(* docs/api-endpoints.md: what fails is found by the status of its row.    *)
FailureIsLogged ==
  http \in {500, 502} =>
    \A i \in 1..Len(records) : records[i].logged => records[i].status # 200
=============================================================================
