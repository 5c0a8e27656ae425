-------------------------- MODULE ChatStream_proofs --------------------------
(***************************************************************************)
(* Proofs about ChatStream, for any number of chunks and tokens: whatever  *)
(* ends the stream, what is recorded and what is sent fit together.        *)
(***************************************************************************)
EXTENDS ChatStream, SequenceTheorems, FiniteSetTheorems, TLAPS

-----------------------------------------------------------------------------
(* The operators of the model                                              *)

HasDone(s) == \E i \in 1..Len(s) : s[i] = DoneEvent

(* What a chunk is turned into is a sequence of events, none of them       *)
(* [DONE], and not an empty one when there is something in the chunk.      *)
LEMMA EventsType ==
  ASSUME NEW c \in Chunks, NEW role \in BOOLEAN
  PROVE  /\ Events(c, role) \in Seq(EventSet)
         /\ (c.text \/ c.done) => Events(c, role) # <<>>
         /\ ~ HasDone(Events(c, role))
<1> DEFINE a == IF c.text THEN <<Text(role)>> ELSE <<>>
           b == IF c.done THEN <<FinishEvent>> ELSE <<>>
<1>1. c.text \in BOOLEAN /\ c.done \in BOOLEAN
  BY DEF Chunks
<1>2. Text(role) \in EventSet /\ FinishEvent \in EventSet
  BY DEF EventSet, Text
<1>3. Text(role) # DoneEvent /\ FinishEvent # DoneEvent
  BY DEF Text, FinishEvent, DoneEvent
<1>4. a \in Seq(EventSet) /\ Len(a) = (IF c.text THEN 1 ELSE 0) /\ ~ HasDone(a)
  BY <1>1, <1>2, <1>3 DEF HasDone
<1>5. b \in Seq(EventSet) /\ Len(b) = (IF c.done THEN 1 ELSE 0) /\ ~ HasDone(b)
  BY <1>1, <1>2, <1>3 DEF HasDone
<1>6. Events(c, role) = a \o b
  BY DEF Events
<1>7. /\ a \o b \in Seq(EventSet) /\ Len(a \o b) = Len(a) + Len(b)
      /\ \A i \in 1..(Len(a) + Len(b)) :
           (a \o b)[i] = IF i <= Len(a) THEN a[i] ELSE b[i - Len(a)]
  <2> HIDE DEF a, b
  <2> QED BY <1>4, <1>5, ConcatProperties
<1>8. (c.text \/ c.done) => Events(c, role) # <<>>
  BY <1>1, <1>4, <1>5, <1>6, <1>7
<1>9. ~ HasDone(a \o b)
  <2> HIDE DEF a, b
  <2>1. Len(a) \in Nat /\ Len(b) \in Nat
    BY <1>4, <1>5
  <2> QED BY <1>4, <1>5, <1>7, <2>1 DEF HasDone
<1> QED BY <1>6, <1>7, <1>8, <1>9

(* Generators as records: what an update of one local variable leaves.     *)
LEMMA SetAt ==
  ASSUME NEW g \in Generators,
         NEW a \in {"reading", "yielded", "recording", "closed"}
  PROVE  LET h == [g EXCEPT !.at = a]
         IN /\ h \in Generators /\ h.at = a /\ h.tokens = g.tokens
            /\ h.status = g.status /\ h.error = g.error /\ h.first = g.first
BY DEF Generators

LEMMA SetFirst ==
  ASSUME NEW g \in Generators, NEW f \in BOOLEAN
  PROVE  LET h == [g EXCEPT !.first = f]
         IN /\ h \in Generators /\ h.at = g.at /\ h.tokens = g.tokens
            /\ h.status = g.status /\ h.error = g.error /\ h.first = f
BY DEF Generators

LEMMA SetTokens ==
  ASSUME NEW g \in Generators, NEW t \in Tokens
  PROVE  LET h == [g EXCEPT !.tokens = t]
         IN /\ h \in Generators /\ h.at = g.at /\ h.tokens = t
            /\ h.status = g.status /\ h.error = g.error /\ h.first = g.first
BY DEF Generators

LEMMA YieldedType ==
  ASSUME gen \in Generators, NEW c \in Chunks, NEW n \in Tokens
  PROVE  /\ Yielded(c, n) \in Generators
         /\ Yielded(c, n).at = "yielded"
         /\ Yielded(c, n).tokens = IF c.done THEN n ELSE gen.tokens
         /\ Yielded(c, n).status = gen.status
         /\ Yielded(c, n).error = gen.error
         /\ Yielded(c, n).first = StillFirst(c)
<1> DEFINE f == StillFirst(c)
           t == IF c.done THEN n ELSE gen.tokens
           x == [gen EXCEPT !.at = "yielded"]
           y == [x EXCEPT !.first = f]
           z == [y EXCEPT !.tokens = t]
<1>1. f \in BOOLEAN /\ t \in Tokens
  BY DEF StillFirst, Generators, Chunks
<1>2. Yielded(c, n) = z
  BY DEF Yielded
<1> HIDE DEF f, t
<1>3. /\ x \in Generators /\ x.at = "yielded" /\ x.tokens = gen.tokens
      /\ x.status = gen.status /\ x.error = gen.error
  BY SetAt
<1> HIDE DEF x
<1>4. /\ y \in Generators /\ y.at = x.at /\ y.tokens = x.tokens
      /\ y.status = x.status /\ y.error = x.error /\ y.first = f
  BY <1>1, <1>3, SetFirst
<1> HIDE DEF y
<1>5. /\ z \in Generators /\ z.at = y.at /\ z.tokens = t
      /\ z.status = y.status /\ z.error = y.error /\ z.first = y.first
  BY <1>1, <1>4, SetTokens
<1> QED BY <1>2, <1>3, <1>4, <1>5 DEF t, f

(* Taking the head of what is pending over to what is sent.                *)
LEMMA TailType ==
  ASSUME pending \in Seq(EventSet), pending # <<>>, sent \in Seq(EventSet)
  PROVE  /\ Tail(pending) \in Seq(EventSet)
         /\ Append(sent, Head(pending)) \in Seq(EventSet)
         /\ HasDone(Tail(pending)) => HasDone(pending)
         /\ HasDone(Append(sent, Head(pending))) => HasDone(sent) \/ HasDone(pending)
<1>1. /\ Len(pending) \in Nat \ {0} /\ Head(pending) = pending[1]
      /\ Head(pending) \in EventSet
      /\ Tail(pending) \in Seq(EventSet) /\ Len(Tail(pending)) = Len(pending) - 1
      /\ \A i \in 1..(Len(pending) - 1) : Tail(pending)[i] = pending[i + 1]
  BY HeadTailProperties, EmptySeq, LenProperties
<1>2. HasDone(Tail(pending)) => HasDone(pending)
  BY <1>1 DEF HasDone
<1>3. /\ Append(sent, Head(pending)) \in Seq(EventSet)
      /\ Len(Append(sent, Head(pending))) = Len(sent) + 1
      /\ \A i \in 1..Len(sent) : Append(sent, Head(pending))[i] = sent[i]
      /\ Append(sent, Head(pending))[Len(sent) + 1] = Head(pending)
  BY <1>1, AppendProperties
<1>4. Len(sent) \in Nat
  BY LenProperties
<1>5. HasDone(Append(sent, Head(pending))) => HasDone(sent) \/ HasDone(pending)
  <2> SUFFICES ASSUME NEW i \in 1..(Len(sent) + 1),
                      Append(sent, Head(pending))[i] = DoneEvent
               PROVE  HasDone(sent) \/ HasDone(pending)
    BY <1>3 DEF HasDone
  <2>1. CASE i \in 1..Len(sent)
    BY <2>1, <1>3 DEF HasDone
  <2>2. CASE i = Len(sent) + 1
    BY <2>2, <1>1, <1>3 DEF HasDone
  <2> QED BY <2>1, <2>2, <1>4
<1> QED BY <1>1, <1>2, <1>3, <1>5

-----------------------------------------------------------------------------
(* The inductive invariant                                                 *)

(* The texts seen are among the chunks seen, and who is sending has        *)
(* something to send.                                                      *)
StreamType ==
  /\ TypeOK
  /\ seen.texts <= seen.chunks
  /\ stage = "sending" => pending # <<>>

(* The generator knows what the provider has reported, and an error is     *)
(* what makes a stream a failed one.                                       *)
KnowsReport ==
  /\ gen.tokens = seen.tokens
  /\ ~ seen.done => seen.tokens = 0
  /\ gen.status = 200 <=> gen.error = 0

(* What is recorded, when the generator is closed, is what it ended with.  *)
OneRecord ==
  /\ Len(records) = IF Closed THEN 1 ELSE 0
  /\ Closed => records[1].status = gen.status /\ records[1].tokens = gen.tokens

NoEarlyDone ==
  HasDone(sent) \/ HasDone(pending) => Closed /\ gen.error = 0

(* Where the response is tells its status and whether a chunk has come.    *)
Answer ==
  /\ stage \in {"first", "headers"} => http = 0
  /\ stage = "first" => seen.chunks = 0 /\ sent = <<>>
  /\ stage = "failed" => http \in {500, 502} /\ seen.chunks = 0 /\ sent = <<>>
  /\ stage # "failed" => http \in {0, 200}
  /\ stage \notin {"first", "failed"} => seen.chunks > 0

StreamInv == StreamType /\ KnowsReport /\ OneRecord /\ NoEarlyDone /\ Answer

LEMMA StreamInit == Init => StreamInv
<1> SUFFICES ASSUME Init PROVE StreamInv
  OBVIOUS
<1>1. MaxChunks \in Nat /\ MaxTokens \in Nat
  BY StreamAssumption
<1>2. 0 \in Tokens /\ 0 \in 0..MaxChunks
  BY <1>1 DEF Tokens
<1>3. gen \in Generators
  BY <1>2 DEF Init, Generators
<1>4. seen \in [chunks : 0..MaxChunks, texts : 0..MaxChunks, done : BOOLEAN,
                tokens : Tokens]
  BY <1>2 DEF Init
<1>5. StreamType
  BY <1>3, <1>4 DEF Init, StreamType, TypeOK, Stages
<1>6. KnowsReport /\ OneRecord /\ Answer
  BY DEF Init, KnowsReport, OneRecord, Closed, Answer
<1>7. NoEarlyDone
  BY DEF Init, NoEarlyDone, HasDone
<1> QED BY <1>5, <1>6, <1>7 DEF StreamInv

(* A chunk is taken: the counter of chunks stays within its bound.         *)
LEMMA NoticeType ==
  ASSUME StreamType, NEW c \in Chunks, NEW n \in Tokens, Notice(c, n),
         seen.chunks < MaxChunks
  PROVE  /\ seen' \in [chunks : 0..MaxChunks, texts : 0..MaxChunks,
                       done : BOOLEAN, tokens : Tokens]
         /\ seen'.texts <= seen'.chunks
         /\ seen'.chunks > 0
         /\ seen'.done = c.done
         /\ seen'.tokens = IF c.done THEN n ELSE 0
<1> DEFINE k == seen.chunks + 1
           t == seen.texts + (IF c.text THEN 1 ELSE 0)
           m == IF c.done THEN n ELSE 0
<1>1. /\ seen.chunks \in 0..MaxChunks /\ seen.texts \in 0..MaxChunks
      /\ seen.texts <= seen.chunks /\ MaxChunks \in Nat /\ MaxTokens \in Nat
  BY StreamAssumption DEF StreamType, TypeOK
<1>2. c.done \in BOOLEAN /\ c.text \in BOOLEAN
  BY DEF Chunks
<1>3. k \in 0..MaxChunks /\ t \in 0..MaxChunks /\ t <= k /\ k > 0
  BY <1>1, <1>2
<1>4. m \in Tokens
  BY <1>1, <1>2 DEF Tokens
<1>5. seen' = [chunks |-> k, texts |-> t, done |-> c.done, tokens |-> m]
  BY DEF Notice
<1> HIDE DEF k, t, m
<1>6. /\ seen'.chunks = k /\ seen'.texts = t /\ seen'.done = c.done
      /\ seen'.tokens = m
  BY <1>5
<1>7. seen' \in [chunks : 0..MaxChunks, texts : 0..MaxChunks,
                 done : BOOLEAN, tokens : Tokens]
  BY <1>2, <1>3, <1>4, <1>5
<1> QED BY <1>3, <1>6, <1>7 DEF m

LEMMA SendsInv ==
  ASSUME StreamInv, NEW c \in Chunks, NEW n \in Tokens,
         FirstChunk(c, n) \/ NextChunk(c, n)
  PROVE  StreamInv'
<1>1. gen \in Generators /\ gen.first \in BOOLEAN /\ gen.at = "reading"
  BY DEF StreamInv, StreamType, TypeOK, Generators, FirstChunk, NextChunk, Sends
<1>2. /\ seen.chunks < MaxChunks /\ ~ seen.done
      /\ Notice(c, n) /\ pending' = Events(c, gen.first)
      /\ UNCHANGED <<sent, http, upstream, records>>
  BY DEF FirstChunk, NextChunk, Sends
<1>3. /\ gen' \in Generators /\ gen'.at # "closed"
      /\ gen'.tokens = IF c.done THEN n ELSE gen.tokens
      /\ gen'.status = gen.status /\ gen'.error = gen.error
  <2>1. CASE gen' = Yielded(c, n)
    BY <1>1, <2>1, YieldedType
  <2>2. CASE gen' = gen /\ ~ c.done
    BY <1>1, <2>2
  <2> QED BY <2>1, <2>2 DEF FirstChunk, NextChunk
<1>4. /\ pending' \in Seq(EventSet) /\ ~ HasDone(pending')
      /\ (c.text \/ c.done) => pending' # <<>>
  BY <1>1, <1>2, EventsType
<1>5. /\ stage \in {"first", "pulling"}
      /\ stage' \in {"headers", "sending", "pulling"}
      /\ stage' = "sending" => (c.text \/ c.done)
      /\ stage' = "headers" => stage = "first"
  BY DEF FirstChunk, NextChunk
<1>6. /\ seen' \in [chunks : 0..MaxChunks, texts : 0..MaxChunks,
                    done : BOOLEAN, tokens : Tokens]
      /\ seen'.texts <= seen'.chunks /\ seen'.chunks > 0
      /\ seen'.done = c.done /\ seen'.tokens = IF c.done THEN n ELSE 0
  BY <1>2, NoticeType DEF StreamInv
<1>7. StreamType'
  <2>1. TypeOK'
    BY <1>2, <1>3, <1>4, <1>5, <1>6 DEF StreamInv, StreamType, TypeOK, Stages
  <2> QED BY <2>1, <1>4, <1>5, <1>6 DEF StreamType
<1>8. KnowsReport'
  BY <1>2, <1>3, <1>6 DEF StreamInv, KnowsReport
<1>9. OneRecord'
  BY <1>1, <1>2, <1>3 DEF StreamInv, OneRecord, Closed
<1>10. NoEarlyDone'
  <2>1. ~ HasDone(sent)
    BY <1>1 DEF StreamInv, NoEarlyDone, Closed
  <2>2. ~ HasDone(sent)'
    BY <1>2, <2>1 DEF HasDone
  <2> QED BY <1>4, <2>2 DEF NoEarlyDone, HasDone
<1>11. Answer'
  BY <1>2, <1>5, <1>6 DEF StreamInv, Answer
<1> QED BY <1>7, <1>8, <1>9, <1>10, <1>11 DEF StreamInv

(* The generator stops reading, or is stopped at its `yield`: nothing but  *)
(* the place it is at and, for a client that is gone, the stage changes.   *)
LEMMA StopsInv ==
  ASSUME StreamInv, ProviderEnds \/ CutPulling \/ Collect
  PROVE  StreamInv'
<1>1. gen \in Generators
  BY DEF StreamInv, StreamType, TypeOK
<1>2. /\ gen.at # "closed" /\ gen' = [gen EXCEPT !.at = "recording"]
      /\ upstream' \in {"abandoned", "closed"}
      /\ UNCHANGED <<pending, sent, http, records, seen>>
      /\ stage' = stage \/ (stage = "pulling" /\ stage' = "cut")
  BY DEF ProviderEnds, CutPulling, Collect
<1>3. /\ gen' \in Generators /\ gen'.at = "recording"
      /\ gen'.tokens = gen.tokens /\ gen'.status = gen.status
      /\ gen'.error = gen.error
  BY <1>1, <1>2, SetAt
<1>4. StreamType'
  BY <1>2, <1>3 DEF StreamInv, StreamType, TypeOK, Stages
<1>5. KnowsReport'
  BY <1>2, <1>3 DEF StreamInv, KnowsReport
<1>6. OneRecord'
  BY <1>2, <1>3 DEF StreamInv, OneRecord, Closed
<1>7. NoEarlyDone'
  BY <1>2, <1>3 DEF StreamInv, NoEarlyDone, Closed, HasDone
<1>8. Answer'
  BY <1>2 DEF StreamInv, Answer
<1> QED BY <1>4, <1>5, <1>6, <1>7, <1>8 DEF StreamInv

LEMMA FailsInv ==
  ASSUME StreamInv, ProviderFails
  PROVE  StreamInv'
<1>1. gen \in Generators
  BY DEF StreamInv, StreamType, TypeOK
<1>2. PICK e \in {500, 502} :
        gen' = [gen EXCEPT !.at = "recording", !.status = 502, !.error = e]
  BY DEF ProviderFails
<1>3. /\ gen.at = "reading" /\ upstream' = "closed"
      /\ UNCHANGED <<stage, pending, sent, http, records, seen>>
  BY DEF ProviderFails
<1>4. /\ gen' \in Generators /\ gen'.at = "recording"
      /\ gen'.tokens = gen.tokens /\ gen'.status = 502 /\ gen'.error = e
  <2> DEFINE a == [gen EXCEPT !.at = "recording"]
             b == [a EXCEPT !.status = 502]
             c == [b EXCEPT !.error = e]
  <2>1. a \in Generators /\ a.at = "recording" /\ a.tokens = gen.tokens
    BY <1>1, SetAt
  <2>2. gen' = c
    BY <1>2
  <2> HIDE DEF a
  <2>3. /\ b \in Generators /\ b.at = a.at /\ b.tokens = a.tokens
        /\ b.status = 502
    BY <2>1 DEF Generators
  <2> HIDE DEF b
  <2>4. /\ c \in Generators /\ c.at = b.at /\ c.tokens = b.tokens
        /\ c.status = b.status /\ c.error = e
    BY <2>3 DEF Generators
  <2> HIDE DEF c
  <2> QED BY <2>1, <2>2, <2>3, <2>4
<1>5. StreamType'
  BY <1>3, <1>4 DEF StreamInv, StreamType, TypeOK
<1>6. KnowsReport'
  BY <1>3, <1>4 DEF StreamInv, KnowsReport
<1>7. OneRecord'
  BY <1>3, <1>4 DEF StreamInv, OneRecord, Closed
<1>8. NoEarlyDone'
  BY <1>3, <1>4 DEF StreamInv, NoEarlyDone, Closed, HasDone
<1>9. Answer'
  BY <1>3 DEF StreamInv, Answer
<1> QED BY <1>5, <1>6, <1>7, <1>8, <1>9 DEF StreamInv

(* The generator is closed, with its one record; what happens to the       *)
(* response depends on where it was.                                       *)
LEMMA CloseFacts ==
  ASSUME StreamInv, Close
  PROVE  /\ gen' \in Generators /\ gen'.at = "closed"
         /\ gen'.tokens = gen.tokens /\ gen'.status = gen.status
         /\ gen'.error = gen.error
         /\ records' \in Seq(Recordings)
         /\ UNCHANGED <<sent, upstream, seen>>
         /\ ~ HasDone(sent) /\ ~ HasDone(pending)
         /\ KnowsReport' /\ OneRecord'
<1>1. gen \in Generators /\ gen.at = "recording"
  BY DEF StreamInv, StreamType, TypeOK, Close
<1>2. /\ gen' \in Generators /\ gen'.at = "closed"
      /\ gen'.tokens = gen.tokens /\ gen'.status = gen.status
      /\ gen'.error = gen.error
  BY <1>1, SetAt DEF Close
<1>3. PICK r \in Recordings :
        /\ r.status = gen.status /\ r.tokens = gen.tokens
        /\ records' = Append(records, r)
  <2>1. PICK charged, logged \in BOOLEAN :
          records' = Append(records,
                            [status |-> gen.status, tokens |-> gen.tokens,
                             charged |-> charged, logged |-> logged])
    BY DEF Close
  <2> DEFINE r == [status |-> gen.status, tokens |-> gen.tokens,
                   charged |-> charged, logged |-> logged]
  <2>2. r \in Recordings /\ r.status = gen.status /\ r.tokens = gen.tokens
    BY <1>1 DEF Generators, Recordings
  <2> QED BY <2>1, <2>2
<1>4. /\ records \in Seq(Recordings)
      /\ Len(records) = 0
  BY <1>1 DEF StreamInv, StreamType, TypeOK, OneRecord, Closed
<1>5. records' = Append(records, r) /\ UNCHANGED <<sent, upstream, seen>>
  BY <1>3 DEF Close
<1>6. /\ records' \in Seq(Recordings)
      /\ Len(records') = 1 /\ records'[1] = r
  <2>1. /\ Append(records, r) \in Seq(Recordings)
        /\ Len(Append(records, r)) = Len(records) + 1
        /\ Append(records, r)[Len(records) + 1] = r
    BY <1>3, <1>4, AppendProperties
  <2> QED BY <2>1, <1>4, <1>5
<1>7. ~ HasDone(sent) /\ ~ HasDone(pending)
  BY <1>1 DEF StreamInv, NoEarlyDone, Closed
<1>8. KnowsReport'
  BY <1>2, <1>5 DEF StreamInv, KnowsReport
<1>9. OneRecord'
  BY <1>2, <1>3, <1>6 DEF OneRecord, Closed
<1> QED BY <1>2, <1>5, <1>6, <1>7, <1>8, <1>9

LEMMA ClosesInv ==
  ASSUME StreamInv, CloseFirst \/ ClosePulling \/ CloseCut
  PROVE  StreamInv'
<1>1. Close
  BY DEF CloseFirst, ClosePulling, CloseCut
<1>2. gen \in Generators /\ gen.error \in {0, 500, 502}
  BY DEF StreamInv, StreamType, TypeOK, Generators
<1>3. \/ /\ stage = "first" /\ stage' = "failed" /\ http' \in {500, 502}
         /\ pending' = pending
      \/ /\ stage = "pulling" /\ stage' = "sending" /\ http' = http
         /\ gen.error = 0 /\ pending' = <<DoneEvent>>
      \/ /\ stage = "pulling" /\ stage' = "broken" /\ http' = http
         /\ pending' = pending
      \/ /\ stage = "cut" /\ stage' = "cut" /\ http' = http
         /\ pending' = pending
  BY <1>2 DEF CloseFirst, ClosePulling, CloseCut
<1>4. <<DoneEvent>> \in Seq(EventSet) /\ <<DoneEvent>> # <<>>
  <2>1. DoneEvent \in EventSet
    BY DEF EventSet
  <2> QED BY <2>1
<1>5. pending' \in Seq(EventSet) /\ (stage' = "sending" => pending' # <<>>)
  BY <1>3, <1>4 DEF StreamInv, StreamType, TypeOK
<1>6. StreamType'
  BY <1>1, <1>3, <1>5, CloseFacts DEF StreamInv, StreamType, TypeOK, Stages
<1>7. NoEarlyDone'
  <2>1. ~ HasDone(sent) /\ ~ HasDone(pending) /\ sent' = sent
        /\ gen'.at = "closed" /\ gen'.error = gen.error
    BY <1>1, CloseFacts
  <2>2. pending' = pending \/ gen.error = 0
    BY <1>3
  <2> QED BY <2>1, <2>2 DEF NoEarlyDone, Closed, HasDone
<1>8. Answer'
  BY <1>1, <1>3, CloseFacts DEF StreamInv, Answer
<1> QED BY <1>1, <1>6, <1>7, <1>8, CloseFacts DEF StreamInv

(* The outer generator goes on: the inner one is at most asked to read.    *)
LEMMA GoOnType ==
  ASSUME StreamInv, NEW e \in Seq(EventSet), GoOn(e)
  PROVE  /\ pending' = e
         /\ stage' \in {"sending", "ended", "pulling"}
         /\ stage' = "sending" => e # <<>>
         /\ gen' \in Generators
         /\ gen'.at = "closed" <=> gen.at = "closed"
         /\ gen'.tokens = gen.tokens /\ gen'.status = gen.status
         /\ gen'.error = gen.error
<1>1. gen \in Generators
  BY DEF StreamInv, StreamType, TypeOK
<1>2. CASE UNCHANGED gen
  BY <1>1, <1>2 DEF GoOn
<1>3. CASE gen.at # "closed" /\ gen' = [gen EXCEPT !.at = "reading"]
  BY <1>1, <1>3, SetAt DEF GoOn
<1> QED BY <1>2, <1>3 DEF GoOn

LEMMA SendingInv ==
  ASSUME StreamInv, SendHeaders \/ SendEvent
  PROVE  StreamInv'
<1>1. PICK e \in Seq(EventSet) :
        /\ GoOn(e) /\ sent' \in Seq(EventSet)
        /\ HasDone(e) \/ HasDone(sent') => HasDone(sent) \/ HasDone(pending)
  <2>1. CASE SendHeaders
    <3>1. pending \in Seq(EventSet) /\ sent \in Seq(EventSet)
      BY DEF StreamInv, StreamType, TypeOK
    <3>2. GoOn(pending) /\ sent' = sent
      BY <2>1 DEF SendHeaders
    <3> QED BY <3>1, <3>2
  <2>2. CASE SendEvent
    <3>1. pending \in Seq(EventSet) /\ sent \in Seq(EventSet) /\ pending # <<>>
      BY <2>2 DEF StreamInv, StreamType, TypeOK, SendEvent
    <3>2. GoOn(Tail(pending)) /\ sent' = Append(sent, Head(pending))
      BY <2>2 DEF SendEvent
    <3> QED BY <3>1, <3>2, TailType
  <2> QED BY <2>1, <2>2
<1>2. /\ stage \in {"headers", "sending"} /\ http' \in {200, http}
      /\ UNCHANGED <<upstream, records, seen>>
  BY DEF SendHeaders, SendEvent
<1>3. /\ pending' = e /\ gen' \in Generators
      /\ stage' \in {"sending", "ended", "pulling"}
      /\ stage' = "sending" => e # <<>>
      /\ gen'.at = "closed" <=> gen.at = "closed"
      /\ gen'.tokens = gen.tokens /\ gen'.status = gen.status
      /\ gen'.error = gen.error
  BY <1>1, GoOnType
<1>4. StreamType'
  BY <1>1, <1>2, <1>3 DEF StreamInv, StreamType, TypeOK, Stages
<1>5. KnowsReport'
  BY <1>2, <1>3 DEF StreamInv, KnowsReport
<1>6. OneRecord'
  BY <1>2, <1>3 DEF StreamInv, OneRecord, Closed
<1>7. NoEarlyDone'
  BY <1>1, <1>3 DEF StreamInv, NoEarlyDone, Closed, HasDone
<1>8. Answer'
  BY <1>2, <1>3 DEF StreamInv, Answer
<1> QED BY <1>4, <1>5, <1>6, <1>7, <1>8 DEF StreamInv

LEMMA CutSendingInv ==
  ASSUME StreamInv, CutSending
  PROVE  StreamInv'
<1>1. /\ stage \in {"headers", "sending"} /\ stage' = "cut"
      /\ UNCHANGED <<gen, pending, sent, http, upstream, records, seen>>
  BY DEF CutSending
<1>2. StreamType'
  BY <1>1 DEF StreamInv, StreamType, TypeOK, Stages
<1>3. KnowsReport' /\ OneRecord' /\ NoEarlyDone'
  BY <1>1 DEF StreamInv, KnowsReport, OneRecord, NoEarlyDone, Closed, HasDone
<1>4. Answer'
  BY <1>1 DEF StreamInv, Answer
<1> QED BY <1>2, <1>3, <1>4 DEF StreamInv

(* CollectUpstream and steps that change nothing touch only upstream.      *)
LEMMA CollectUpstreamInv ==
  ASSUME StreamInv, CollectUpstream \/ UNCHANGED vars
  PROVE  StreamInv'
<1>1. /\ upstream' \in {"open", "abandoned", "closed"}
      /\ UNCHANGED <<stage, gen, pending, sent, http, records, seen>>
  BY DEF CollectUpstream, vars, StreamInv, StreamType, TypeOK
<1>2. StreamType'
  BY <1>1 DEF StreamInv, StreamType, TypeOK
<1>3. KnowsReport' /\ OneRecord' /\ NoEarlyDone' /\ Answer'
  BY <1>1 DEF StreamInv, KnowsReport, OneRecord, NoEarlyDone, Answer, Closed,
              HasDone
<1> QED BY <1>2, <1>3 DEF StreamInv

LEMMA StreamStep == StreamInv /\ [Next]_vars => StreamInv'
<1> SUFFICES ASSUME StreamInv, [Next]_vars PROVE StreamInv'
  OBVIOUS
<1>1. CASE Provider
  BY <1>1, SendsInv, StopsInv, FailsInv DEF Provider
<1>2. CASE CloseFirst \/ ClosePulling \/ CloseCut
  BY <1>2, ClosesInv
<1>3. CASE SendHeaders \/ SendEvent
  BY <1>3, SendingInv
<1>4. CASE Cut
  BY <1>4, CutSendingInv, StopsInv DEF Cut
<1>5. CASE Collect
  BY <1>5, StopsInv
<1>6. CASE CollectUpstream \/ UNCHANGED vars
  BY <1>6, CollectUpstreamInv
<1> QED BY <1>1, <1>2, <1>3, <1>4, <1>5, <1>6 DEF Next

LEMMA StreamInvariant == Spec => []StreamInv
BY StreamInit, StreamStep, PTL DEF Spec

-----------------------------------------------------------------------------
(* The events in their order                                               *)

HasFinish(s) == \E i \in 1..Len(s) : s[i].kind = "finish"

Ordered(s) ==
  \A i \in 1..Len(s) :
    /\ s[i].kind = "text" => (s[i].role <=> i = 1)
    /\ s[i].kind = "finish" => \A j \in (i + 1)..Len(s) : s[j] = DoneEvent
    /\ s[i] = DoneEvent => i = Len(s)

Texts(s) == {i \in 1..Len(s) : s[i].kind = "text"}

LEMMA TextsFinite ==
  ASSUME NEW s \in Seq(EventSet)
  PROVE  IsFiniteSet(Texts(s)) /\ Cardinality(Texts(s)) \in Nat
<1>1. Len(s) \in Nat
  BY LenProperties
<1>2. IsFiniteSet(1..Len(s))
  BY <1>1, FS_Interval
<1> QED BY <1>2, FS_Subset, FS_CardinalityType DEF Texts

(* One more event keeps the order if nothing but [DONE] comes after a      *)
(* finish_reason, nothing after [DONE], and the role is with the first.    *)
LEMMA OneMoreEvent ==
  ASSUME NEW s \in Seq(EventSet), NEW e \in EventSet,
         Ordered(s), ~ HasDone(s),
         e # DoneEvent => ~ HasFinish(s),
         e.kind = "text" => (e.role <=> s = <<>>)
  PROVE  LET t == Append(s, e)
         IN  /\ t \in Seq(EventSet)
             /\ Ordered(t)
             /\ t # <<>>
             /\ HasDone(t) <=> e = DoneEvent
             /\ HasFinish(t) <=> HasFinish(s) \/ e.kind = "finish"
             /\ Cardinality(Texts(t)) =
                  Cardinality(Texts(s)) + (IF e.kind = "text" THEN 1 ELSE 0)
<1> DEFINE t == Append(s, e)
           n == Len(s)
<1>1. n \in Nat
  BY LenProperties
<1>2. /\ t \in Seq(EventSet) /\ Len(t) = n + 1
      /\ \A i \in 1..n : t[i] = s[i]
      /\ t[n + 1] = e
  BY AppendProperties
<1>3. s = <<>> <=> n = 0
  BY <1>1, EmptySeq
<1>4. t # <<>>
  BY <1>1, <1>2, EmptySeq
<1> HIDE DEF t
<1>5. Ordered(t)
  <2> SUFFICES ASSUME NEW i \in 1..(n + 1)
               PROVE  /\ t[i].kind = "text" => (t[i].role <=> i = 1)
                      /\ t[i].kind = "finish" =>
                           \A j \in (i + 1)..(n + 1) : t[j] = DoneEvent
                      /\ t[i] = DoneEvent => i = n + 1
    BY <1>2 DEF Ordered
  <2>1. CASE i \in 1..n
    <3>1. /\ t[i] = s[i] /\ s[i] # DoneEvent
          /\ s[i].kind = "text" => (s[i].role <=> i = 1)
          /\ s[i].kind = "finish" => \A j \in (i + 1)..n : s[j] = DoneEvent
      BY <1>2, <2>1 DEF Ordered, HasDone
    <3>2. ASSUME s[i].kind = "finish", NEW j \in (i + 1)..(n + 1)
          PROVE  t[j] = DoneEvent
      <4>1. e = DoneEvent
        BY <2>1, <3>2 DEF HasFinish
      <4>2. j \in 1..n \/ j = n + 1
        BY <1>1, <2>1
      <4> QED BY <1>1, <1>2, <2>1, <3>1, <3>2, <4>1, <4>2
    <3> QED BY <3>1, <3>2
  <2>2. CASE i = n + 1
    <3>1. t[i] = e /\ (e.kind = "text" => (e.role <=> i = 1))
      BY <1>1, <1>2, <1>3, <2>2
    <3>2. (i + 1)..(n + 1) = {}
      BY <1>1, <2>2
    <3> QED BY <2>2, <3>1, <3>2
  <2> QED BY <1>1, <2>1, <2>2
<1>6. HasDone(t) <=> e = DoneEvent
  <2>1. n + 1 \in 1..(n + 1) /\ \A i \in 1..(n + 1) : i \in 1..n \/ i = n + 1
    BY <1>1
  <2>2. 1..n \subseteq 1..(n + 1)
    BY <1>1
  <2> QED BY <1>2, <2>1, <2>2 DEF HasDone
<1>7. HasFinish(t) <=> HasFinish(s) \/ e.kind = "finish"
  <2>1. n + 1 \in 1..(n + 1) /\ \A i \in 1..(n + 1) : i \in 1..n \/ i = n + 1
    BY <1>1
  <2>2. 1..n \subseteq 1..(n + 1)
    BY <1>1
  <2> QED BY <1>2, <2>1, <2>2 DEF HasFinish
<1>8. Cardinality(Texts(t)) =
        Cardinality(Texts(s)) + (IF e.kind = "text" THEN 1 ELSE 0)
  <2>1. IsFiniteSet(Texts(s)) /\ Cardinality(Texts(s)) \in Nat
    BY TextsFinite
  <2>2. n + 1 \notin Texts(s)
    BY <1>1 DEF Texts
  <2>3. Texts(t) = IF e.kind = "text" THEN Texts(s) \cup {n + 1} ELSE Texts(s)
    <3>1. \A i : i \in 1..(n + 1) <=> i \in 1..n \/ i = n + 1
      BY <1>1
    <3>2. n + 1 \notin 1..n
      BY <1>1
    <3> HIDE DEF n
    <3>3. Texts(s) = {i \in 1..n : s[i].kind = "text"}
      BY DEF Texts, n
    <3>4. Texts(t) = {i \in 1..(n + 1) : t[i].kind = "text"}
      BY <1>2 DEF Texts
    <3> QED BY <1>2, <3>1, <3>2, <3>3, <3>4
  <2>4. CASE e.kind = "text"
    BY <2>1, <2>2, <2>3, <2>4, FS_AddElement
  <2>5. CASE e.kind # "text"
    BY <2>1, <2>3, <2>5
  <2> QED BY <2>4, <2>5
<1> QED BY <1>2, <1>4, <1>5, <1>6, <1>7, <1>8 DEF t

(* Handing an event over changes nothing in what was emitted.              *)
LEMMA HandOver ==
  ASSUME NEW s \in Seq(EventSet), NEW p \in Seq(EventSet), p # <<>>
  PROVE  Append(s, Head(p)) \o Tail(p) = s \o p
<1> DEFINE h == Head(p)
           t == Tail(p)
           a == Append(s, h)
           m == Len(s)
           n == Len(p)
<1>1. m \in Nat /\ n \in Nat \ {0}
  BY LenProperties, EmptySeq
<1>2. /\ h \in EventSet /\ h = p[1] /\ t \in Seq(EventSet) /\ Len(t) = n - 1
      /\ \A i \in 1..(n - 1) : t[i] = p[i + 1]
  BY HeadTailProperties
<1> HIDE DEF h, t
<1>3. /\ a \in Seq(EventSet) /\ Len(a) = m + 1
      /\ \A i \in 1..m : a[i] = s[i]
      /\ a[m + 1] = h
  BY <1>2, AppendProperties
<1> HIDE DEF a
<1>4. /\ a \o t \in Seq(EventSet) /\ Len(a \o t) = m + n
      /\ \A i \in 1..(m + n) :
           (a \o t)[i] = IF i <= m + 1 THEN a[i] ELSE t[i - (m + 1)]
  <2>1. Len(a) + Len(t) = m + n /\ Len(a) = m + 1
    BY <1>1, <1>2, <1>3
  <2>2. /\ a \o t \in Seq(EventSet) /\ Len(a \o t) = Len(a) + Len(t)
        /\ \A i \in 1..(Len(a) + Len(t)) :
             (a \o t)[i] = IF i <= Len(a) THEN a[i] ELSE t[i - Len(a)]
    BY <1>2, <1>3, ConcatProperties
  <2> QED BY <2>1, <2>2
<1>5. /\ s \o p \in Seq(EventSet) /\ Len(s \o p) = m + n
      /\ \A i \in 1..(m + n) :
           (s \o p)[i] = IF i <= m THEN s[i] ELSE p[i - m]
  BY ConcatProperties
<1>6. ASSUME NEW i \in 1..(m + n)
      PROVE  (a \o t)[i] = (s \o p)[i]
  <2>1. CASE i <= m
    BY <1>1, <1>3, <1>4, <1>5, <2>1
  <2>2. CASE i = m + 1
    BY <1>1, <1>2, <1>3, <1>4, <1>5, <2>2
  <2>3. CASE i > m + 1
    <3>1. i - (m + 1) \in 1..(n - 1) /\ (i - (m + 1)) + 1 = i - m
      BY <1>1, <2>3
    <3> QED BY <1>1, <1>2, <1>4, <1>5, <2>3, <3>1
  <2>4. i \in Nat /\ (i <= m \/ i = m + 1 \/ i > m + 1)
    <3> HIDE DEF m, n
    <3> QED BY <1>1
  <2> QED BY <2>1, <2>2, <2>3, <2>4
<1> QED BY <1>4, <1>5, <1>6, SeqEqual DEF a, h, t

(* The role is due until something is emitted; what was emitted is in      *)
(* order, finished only with the provider, done only with the generator.   *)
OrderInv ==
  /\ stage \in {"first", "pulling"} => pending = <<>>
  /\ ~ Closed => (gen.first <=> Emitted = <<>>)
  /\ HasFinish(Emitted) => seen.done
  /\ HasDone(Emitted) => Closed
  /\ Ordered(Emitted)
  /\ Cardinality(Texts(Emitted)) = seen.texts

LEMMA EmittedType ==
  ASSUME StreamInv
  PROVE  /\ sent \in Seq(EventSet) /\ pending \in Seq(EventSet)
         /\ Emitted \in Seq(EventSet)
         /\ gen \in Generators /\ gen.first \in BOOLEAN
         /\ seen.texts \in Nat
<1>1. sent \in Seq(EventSet) /\ pending \in Seq(EventSet) /\ gen \in Generators
      /\ seen.texts \in 0..MaxChunks
  BY DEF StreamInv, StreamType, TypeOK
<1>2. Emitted \in Seq(EventSet)
  BY <1>1, ConcatProperties DEF Emitted
<1>3. gen.first \in BOOLEAN
  BY <1>1 DEF Generators
<1> QED BY <1>1, <1>2, <1>3, StreamAssumption

LEMMA OrderInit == Init => OrderInv
<1> SUFFICES ASSUME Init
             PROVE  OrderInv
  OBVIOUS
<1>1. Emitted = <<>>
  BY DEF Init, Emitted
<1>2. Texts(<<>>) = {} /\ Cardinality({}) = 0
  BY FS_EmptySet DEF Texts
<1>3. Ordered(<<>>) /\ ~ HasFinish(<<>>) /\ ~ HasDone(<<>>)
  BY DEF Ordered, HasFinish, HasDone
<1> QED BY <1>1, <1>2, <1>3 DEF Init, OrderInv

(* The events of a chunk, one after the other.                             *)
LEMMA ChunkInOrder ==
  ASSUME NEW s \in Seq(EventSet), NEW c \in Chunks, NEW role \in BOOLEAN,
         Ordered(s), ~ HasDone(s), ~ HasFinish(s), role <=> s = <<>>
  PROVE  LET t == s \o Events(c, role)
         IN  /\ t \in Seq(EventSet)
             /\ Ordered(t)
             /\ t = <<>> <=> role /\ ~ (c.text \/ c.done)
             /\ ~ HasDone(t)
             /\ HasFinish(t) => c.done
             /\ Cardinality(Texts(t)) =
                  Cardinality(Texts(s)) + (IF c.text THEN 1 ELSE 0)
<1> DEFINE a == IF c.text THEN <<Text(role)>> ELSE <<>>
           b == IF c.done THEN <<FinishEvent>> ELSE <<>>
           u == IF c.text THEN Append(s, Text(role)) ELSE s
           t == IF c.done THEN Append(u, FinishEvent) ELSE u
<1>1. c.text \in BOOLEAN /\ c.done \in BOOLEAN
  BY DEF Chunks
<1>2. /\ Text(role) \in EventSet /\ FinishEvent \in EventSet
      /\ Text(role) # DoneEvent /\ FinishEvent # DoneEvent
      /\ Text(role).kind = "text" /\ Text(role).role = role
      /\ FinishEvent.kind = "finish"
  BY DEF EventSet, Text, FinishEvent, DoneEvent
<1>3. /\ a \in Seq(EventSet) /\ b \in Seq(EventSet)
  BY <1>2
<1>4. s \o Events(c, role) = t
  <2>1. s \o (a \o b) = (s \o a) \o b
    <3> HIDE DEF a, b
    <3> QED BY <1>3, ConcatAssociative
  <2>2. s \o a = u
    <3>1. CASE c.text
      BY <1>2, <3>1, AppendIsConcat
    <3>2. CASE ~ c.text
      BY <3>2, ConcatEmptySeq
    <3> QED BY <3>1, <3>2
  <2>3. u \in Seq(EventSet)
    <3>1. Append(s, Text(role)) \in Seq(EventSet)
      BY <1>2, AppendProperties
    <3> QED BY <3>1
  <2>4. u \o b = t
    <3> HIDE DEF u
    <3>1. CASE c.done
      BY <1>2, <2>3, <3>1, AppendIsConcat
    <3>2. CASE ~ c.done
      BY <2>3, <3>2, ConcatEmptySeq
    <3> QED BY <3>1, <3>2
  <2>5. Events(c, role) = a \o b
    BY DEF Events
  <2> HIDE DEF a, b, u, t
  <2> QED BY <2>1, <2>2, <2>4, <2>5
<1>5. Cardinality(Texts(s)) \in Nat
  BY TextsFinite
<1> HIDE DEF a, b, t
<1>6. /\ u \in Seq(EventSet) /\ Ordered(u) /\ ~ HasDone(u) /\ ~ HasFinish(u)
      /\ u = <<>> <=> role /\ ~ c.text
      /\ Cardinality(Texts(u)) =
           Cardinality(Texts(s)) + (IF c.text THEN 1 ELSE 0)
  <2>1. CASE c.text
    <3>1. /\ Append(s, Text(role)) \in Seq(EventSet)
          /\ Ordered(Append(s, Text(role))) /\ Append(s, Text(role)) # <<>>
          /\ ~ HasDone(Append(s, Text(role)))
          /\ ~ HasFinish(Append(s, Text(role)))
          /\ Cardinality(Texts(Append(s, Text(role)))) = Cardinality(Texts(s)) + 1
      BY <1>2, OneMoreEvent
    <3> QED BY <2>1, <3>1
  <2>2. CASE ~ c.text
    BY <1>1, <1>5, <2>2
  <2> QED BY <1>1, <2>1, <2>2
<1> HIDE DEF u
<1>7. Cardinality(Texts(u)) \in Nat
  BY <1>6, TextsFinite
<1>8. /\ t \in Seq(EventSet) /\ Ordered(t) /\ ~ HasDone(t)
      /\ HasFinish(t) => c.done
      /\ t = <<>> <=> u = <<>> /\ ~ c.done
      /\ Cardinality(Texts(t)) = Cardinality(Texts(u))
  <2>1. CASE c.done
    <3>1. /\ Append(u, FinishEvent) \in Seq(EventSet)
          /\ Ordered(Append(u, FinishEvent)) /\ Append(u, FinishEvent) # <<>>
          /\ ~ HasDone(Append(u, FinishEvent))
          /\ Cardinality(Texts(Append(u, FinishEvent))) = Cardinality(Texts(u)) + 0
      BY <1>2, <1>6, OneMoreEvent
    <3> QED BY <1>7, <2>1, <3>1 DEF t
  <2>2. CASE ~ c.done
    BY <1>1, <1>6, <2>2 DEF t
  <2> QED BY <1>1, <2>1, <2>2
<1> QED BY <1>1, <1>4, <1>6, <1>8

LEMMA SendsInOrder ==
  ASSUME StreamInv, OrderInv, NEW c \in Chunks, NEW n \in Tokens,
         FirstChunk(c, n) \/ NextChunk(c, n)
  PROVE  OrderInv'
<1> DEFINE role == gen.first
           t == sent \o Events(c, role)
<1>1. /\ gen.at = "reading" /\ ~ seen.done /\ Notice(c, n)
      /\ pending' = Events(c, role) /\ sent' = sent
      /\ stage \in {"first", "pulling"}
      /\ stage' \in {"headers", "sending", "pulling"}
      /\ stage' = "pulling" => ~ (c.text \/ c.done)
  BY DEF FirstChunk, NextChunk, Sends
<1>2. /\ sent \in Seq(EventSet) /\ role \in BOOLEAN /\ gen \in Generators
      /\ seen.texts \in Nat
  BY EmittedType
<1>3. pending = <<>> /\ Emitted = sent
  BY <1>1, <1>2, ConcatEmptySeq DEF OrderInv, Emitted
<1>4. /\ Ordered(sent) /\ ~ HasDone(sent) /\ ~ HasFinish(sent)
      /\ role <=> sent = <<>>
      /\ Cardinality(Texts(sent)) = seen.texts
  BY <1>1, <1>3 DEF OrderInv, Closed
<1>5. gen'.first <=> role /\ ~ (c.text \/ c.done)
  <2>1. CASE gen' = Yielded(c, n)
    BY <1>2, <2>1, YieldedType DEF StillFirst
  <2>2. CASE gen' = gen /\ ~ (c.text \/ c.done)
    BY <2>2
  <2> QED BY <2>1, <2>2 DEF FirstChunk, NextChunk
<1>6. /\ seen'.texts = seen.texts + (IF c.text THEN 1 ELSE 0)
      /\ seen'.done = c.done
  BY <1>1 DEF Notice
<1>7. Emitted' = t
  BY <1>1 DEF Emitted
<1> HIDE DEF role
<1>8. /\ Ordered(t) /\ ~ HasDone(t) /\ (HasFinish(t) => c.done)
      /\ t = <<>> <=> role /\ ~ (c.text \/ c.done)
      /\ Cardinality(Texts(t)) =
           Cardinality(Texts(sent)) + (IF c.text THEN 1 ELSE 0)
  BY <1>2, <1>4, ChunkInOrder
<1>9. stage' = "pulling" => pending' = <<>>
  <2>1. ~ (c.text \/ c.done) => Events(c, role) = <<>>
    BY DEF Events
  <2> QED BY <1>1, <2>1
<1> HIDE DEF t
<1>10. /\ Ordered(Emitted)' /\ ~ HasDone(Emitted)'
       /\ HasFinish(Emitted)' => seen'.done
       /\ gen'.first <=> Emitted' = <<>>
       /\ Cardinality(Texts(Emitted))' = seen'.texts
  BY <1>4, <1>5, <1>6, <1>7, <1>8 DEF Ordered, HasDone, HasFinish, Texts
<1> QED BY <1>1, <1>9, <1>10 DEF OrderInv

(* A step that emits nothing keeps the order, if it leaves the role alone  *)
(* and does not open the generator again.                                  *)
LEMMA NothingEmitted ==
  ASSUME OrderInv, Emitted' = Emitted, UNCHANGED seen,
         gen'.first = gen.first, Closed => Closed',
         stage' \in {"first", "pulling"} => pending' = <<>>
  PROVE  OrderInv'
<1>1. /\ Ordered(Emitted)' <=> Ordered(Emitted)
      /\ HasDone(Emitted)' <=> HasDone(Emitted)
      /\ HasFinish(Emitted)' <=> HasFinish(Emitted)
      /\ Cardinality(Texts(Emitted))' = Cardinality(Texts(Emitted))
  BY DEF Ordered, HasDone, HasFinish, Texts
<1> QED BY <1>1 DEF OrderInv

OnlyGoesOn(e) ==
  /\ pending' = e
  /\ gen'.first = gen.first
  /\ Closed => Closed'
  /\ stage' \in {"first", "pulling"} => pending' = <<>>

LEMMA GoOnOrder ==
  ASSUME gen \in Generators, NEW e, GoOn(e)
  PROVE  OnlyGoesOn(e)
<1>1. CASE UNCHANGED gen
  BY <1>1 DEF GoOn, OnlyGoesOn, Closed
<1>2. CASE gen.at # "closed" /\ gen' = [gen EXCEPT !.at = "reading"]
  BY <1>2, SetAt DEF GoOn, OnlyGoesOn, Closed
<1> QED BY <1>1, <1>2 DEF GoOn

LEMMA OrderStep == StreamInv /\ OrderInv /\ [Next]_vars => OrderInv'
<1> SUFFICES ASSUME StreamInv, OrderInv, [Next]_vars
             PROVE  OrderInv'
  OBVIOUS
<1>1. gen \in Generators /\ sent \in Seq(EventSet) /\ pending \in Seq(EventSet)
  BY EmittedType
<1>2. ASSUME NEW c \in Chunks, NEW n \in Tokens,
             FirstChunk(c, n) \/ NextChunk(c, n)
      PROVE  OrderInv'
  BY <1>2, SendsInOrder
<1>3. CASE ProviderEnds \/ CutPulling \/ Collect
  <2>1. /\ gen.at # "closed" /\ gen' = [gen EXCEPT !.at = "recording"]
        /\ UNCHANGED <<pending, sent, seen>>
        /\ stage' = stage \/ stage' = "cut"
    BY <1>3 DEF ProviderEnds, CutPulling, Collect
  <2>2. gen'.first = gen.first
    BY <1>1, <2>1, SetAt
  <2> QED BY <2>1, <2>2, NothingEmitted DEF Emitted, Closed, OrderInv
<1>4. CASE ProviderFails
  <2>1. gen'.first = gen.first
    BY <1>1, <1>4 DEF ProviderFails, Generators
  <2> QED BY <1>4, <2>1, NothingEmitted DEF ProviderFails, Emitted, Closed, OrderInv
<1>5. CASE CloseFirst \/ ClosePulling \/ CloseCut
  <2>1. /\ gen.at = "recording" /\ gen' = [gen EXCEPT !.at = "closed"]
        /\ UNCHANGED <<sent, seen>>
    BY <1>5 DEF CloseFirst, ClosePulling, CloseCut, Close
  <2>2. gen'.first = gen.first /\ gen'.at = "closed"
    BY <1>1, <2>1, SetAt
  <2>3. CASE pending' = pending /\ stage' \notin {"first", "pulling"}
    BY <2>1, <2>2, <2>3, NothingEmitted DEF Emitted, Closed
  <2>4. CASE stage = "pulling" /\ stage' = "sending" /\ pending' = <<DoneEvent>>
    <3> DEFINE t == Append(sent, DoneEvent)
    <3>1. pending = <<>> /\ Emitted = sent
      BY <1>1, <2>4, ConcatEmptySeq DEF OrderInv, Emitted
    <3>2. DoneEvent \in EventSet /\ DoneEvent.kind = "DONE"
      BY DEF EventSet, DoneEvent
    <3>3. Emitted' = t
      BY <1>1, <2>1, <2>4, <3>2, AppendIsConcat DEF Emitted
    <3>4. /\ Ordered(sent) /\ ~ HasDone(sent) /\ (HasFinish(sent) => seen.done)
          /\ Cardinality(Texts(sent)) = seen.texts
      BY <2>1, <3>1 DEF OrderInv, Closed
    <3>5. /\ Ordered(t) /\ t # <<>> /\ (HasFinish(t) <=> HasFinish(sent))
          /\ Cardinality(Texts(t)) = Cardinality(Texts(sent)) + 0
      BY <1>1, <3>2, <3>4, OneMoreEvent
    <3>6. Cardinality(Texts(sent)) \in Nat
      BY <1>1, TextsFinite
    <3> HIDE DEF t
    <3>7. /\ Ordered(Emitted)' /\ Emitted' # <<>>
          /\ HasFinish(Emitted)' => seen.done
          /\ Cardinality(Texts(Emitted))' = seen.texts
      BY <3>3, <3>4, <3>5, <3>6 DEF Ordered, HasFinish, Texts
    <3> QED BY <2>1, <2>2, <2>4, <3>7 DEF OrderInv, Closed
  <2> QED BY <1>5, <2>3, <2>4 DEF CloseFirst, ClosePulling, CloseCut
<1>6. CASE SendHeaders \/ SendEvent
  <2>1. CASE SendHeaders
    <3>1. GoOn(pending) /\ UNCHANGED <<sent, seen>>
      BY <2>1 DEF SendHeaders
    <3>2. OnlyGoesOn(pending)
      BY <1>1, <3>1, GoOnOrder
    <3> QED BY <3>1, <3>2, NothingEmitted DEF OnlyGoesOn, Emitted
  <2>2. CASE SendEvent
    <3>1. /\ GoOn(Tail(pending)) /\ sent' = Append(sent, Head(pending))
          /\ seen' = seen /\ pending # <<>>
      BY <2>2 DEF SendEvent, StreamInv, StreamType
    <3>2. Tail(pending) \in Seq(EventSet)
      BY <1>1, <3>1, HeadTailProperties
    <3>3. OnlyGoesOn(Tail(pending))
      BY <1>1, <3>1, <3>2, GoOnOrder
    <3>4. Emitted' = Emitted
      BY <1>1, <3>1, <3>3, HandOver DEF OnlyGoesOn, Emitted
    <3> QED BY <3>1, <3>3, <3>4, NothingEmitted DEF OnlyGoesOn
  <2> QED BY <1>6, <2>1, <2>2
<1>7. CASE CutSending
  BY <1>7, NothingEmitted DEF CutSending, Emitted, Closed
<1>8. CASE CollectUpstream \/ UNCHANGED vars
  BY <1>8, NothingEmitted DEF CollectUpstream, vars, Emitted, Closed, OrderInv
<1> QED BY <1>2, <1>3, <1>4, <1>5, <1>6, <1>7, <1>8 DEF Next, Provider, Cut

LEMMA OrderInvariant == Spec => []OrderInv
<1>1. StreamInv /\ OrderInv /\ [Next]_vars => OrderInv'
  BY OrderStep
<1> QED BY <1>1, OrderInit, StreamInvariant, PTL DEF Spec

-----------------------------------------------------------------------------
(* Theorems                                                                *)

(* The types hold for any number of chunks and tokens.                     *)
THEOREM StreamTypeCorrect == Spec => []TypeOK
<1>1. StreamInv => TypeOK
  BY DEF StreamInv, StreamType
<1> QED BY <1>1, StreamInvariant, PTL

(* Whatever ends a stream, its recording is made once, when its generator  *)
(* closes.                                                                 *)
THEOREM StreamRecordedOnce == Spec => []RecordedOnce
<1>1. StreamInv => RecordedOnce
  BY DEF StreamInv, OneRecord, RecordedOnce
<1> QED BY <1>1, StreamInvariant, PTL

(* What is recorded are the tokens the provider reported, wherever the     *)
(* client went away.                                                       *)
THEOREM StreamReportRecorded == Spec => []ReportIsRecorded
<1>1. StreamInv => ReportIsRecorded
  <2> SUFFICES ASSUME StreamInv, Closed, NEW i \in 1..Len(records)
               PROVE  records[i].tokens = seen.tokens
    BY DEF ReportIsRecorded
  <2>1. i = 1 /\ records[1].tokens = gen.tokens
    BY DEF StreamInv, OneRecord
  <2> QED BY <2>1 DEF StreamInv, KnowsReport
<1> QED BY <1>1, StreamInvariant, PTL

(* [DONE] is on its way, or sent, only once the recording has ended, stored*)
(* or given up, and only for a stream that did not fail.                   *)
THEOREM DoneAfterRecording == Spec => []DoneFollowsRecording
<1>1. StreamInv => DoneFollowsRecording
  <2> SUFFICES ASSUME StreamInv, NEW k \in 1..Len(Emitted),
                      Emitted[k] = DoneEvent
               PROVE  Len(records) = 1 /\ records[1].status = 200
    BY DEF DoneFollowsRecording
  <2>1. sent \in Seq(EventSet) /\ pending \in Seq(EventSet)
    BY DEF StreamInv, StreamType, TypeOK
  <2>2. Len(sent) \in Nat /\ Len(pending) \in Nat
    BY <2>1, LenProperties
  <2>3. /\ Len(Emitted) = Len(sent) + Len(pending)
        /\ Emitted[k] = IF k <= Len(sent) THEN sent[k] ELSE pending[k - Len(sent)]
    BY <2>1, ConcatProperties DEF Emitted
  <2>4. HasDone(sent) \/ HasDone(pending)
    <3>1. CASE k <= Len(sent)
      BY <3>1, <2>2, <2>3 DEF HasDone
    <3>2. CASE ~ (k <= Len(sent))
      <4>1. k - Len(sent) \in 1..Len(pending)
        BY <3>2, <2>2, <2>3
      <4> QED BY <3>2, <4>1, <2>3 DEF HasDone
    <3> QED BY <3>1, <3>2
  <2>5. Closed /\ gen.status = 200
    BY <2>4 DEF StreamInv, NoEarlyDone, KnowsReport
  <2>6. Len(records) = 1 /\ records[1].status = gen.status
    BY <2>5 DEF StreamInv, OneRecord
  <2> QED BY <2>5, <2>6
<1> QED BY <1>1, StreamInvariant, PTL

(* A failure is an HTTP error exactly when no chunk came, and an HTTP      *)
(* error never comes with any part of a stream.                            *)
THEOREM ErrorOrStream == Spec => []CleanErrorOrStream
<1>1. StreamInv => CleanErrorOrStream
  BY DEF StreamInv, Answer, CleanErrorOrStream
<1> QED BY <1>1, StreamInvariant, PTL

(* The role comes with the first event if that is a text and with no       *)
(* other, and nothing but [DONE] follows the finish_reason.                *)
THEOREM StreamInOrder == Spec => []WellFormedStream
<1>1. OrderInv => WellFormedStream
  BY DEF OrderInv, Ordered, WellFormedStream
<1> QED BY <1>1, OrderInvariant, PTL

(* Each text of the provider is one event, on its way or sent.             *)
THEOREM EveryTextIsEmitted == Spec => []NoTextLost
<1>1. OrderInv => NoTextLost
  BY DEF OrderInv, Texts, NoTextLost
<1> QED BY <1>1, OrderInvariant, PTL
=============================================================================
