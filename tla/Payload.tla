------------------------------ MODULE Payload ------------------------------
(***************************************************************************)
(* One request of the OpenAI API on its way to Ollama and back: the checks *)
(* of its schema and of its handler, the payload that the model is sent,   *)
(* and the answer made of what the model reports.  A text is given by its  *)
(* length; None is the absence of a field.                                 *)
(***************************************************************************)
EXTENDS Integers, Sequences, SequencesExt

CONSTANTS None,
          Texts,       \* the texts that a client sends, by their length
          MaxStop,     \* 4 sequences
          MaxInputs,   \* 512 texts
          Settings,    \* the numeric options that a client gives together
          Counts       \* the counts that the model may report

(* The numeric options of a body, with the values that the schemas admit;  *)
(* of the fractions in between nothing is left out that matters.           *)
Bounds ==
  [temperature |-> 0..2, top_p |-> 0..1, max_tokens |-> 1..131072,
   presence_penalty |-> -2..2, frequency_penalty |-> -2..2]

ASSUME PayloadAssumption ==
  /\ None \notin Int \cup Seq(Nat)
  /\ Texts \subseteq Nat
  /\ MaxStop \in Nat \ {0}
  /\ MaxInputs \in Nat
  /\ Settings \subseteq [DOMAIN Bounds -> Int \cup {None}]
  /\ Counts \subseteq Nat

VARIABLES body,    \* the body of the request
          sent,    \* the payload that went to Ollama, or None
          charged, \* what the use case hands to its recorder, or NotYet
          answer   \* what the client gets, with its status, or NotYet

payloadVars == <<body, sent, charged, answer>>

(* A field that takes a text or a list of texts.                           *)
TextOrList(max) ==
  [list : {FALSE}, texts : [1..1 -> Texts]]
    \cup [list : {TRUE}, texts : UNION {[1..n -> Texts] : n \in 0..max}]

Generation ==
  [endpoint : {"chat", "completions"}, n : {None, 0, 1, 2}, stream : BOOLEAN,
   options : Settings, stop : {None} \cup TextOrList(MaxStop + 1)]

Embedding == [endpoint : {"embeddings"}, input : TextOrList(MaxInputs + 1)]

NoBody == [endpoint |-> None]

(* No answer yet, and no recording.                                        *)
NotYet == [status |-> None]

-----------------------------------------------------------------------------
(* Mutant: max_length on the union, which limits a single text as well.    *)
StopValidByLength(stop) ==
  stop # None =>
    IF stop.list THEN Len(stop.texts) <= MaxStop ELSE stop.texts[1] <= MaxStop

(* _maximo_cuatro_secuencias                                               *)
StopValid(stop) == stop # None /\ stop.list => Len(stop.texts) <= MaxStop

(* ChatCompletionRequest, CompletionRequest: ge and le of each option.     *)
GenerationValid(b) ==
  /\ b.n # None => b.n >= 1
  /\ \A field \in DOMAIN Bounds :
       b.options[field] # None => b.options[field] \in Bounds[field]
  /\ StopValid(b.stop)

(* _validar_input                                                          *)
InputValid(input) ==
  /\ Len(input.texts) \in 1..MaxInputs
  /\ \A i \in DOMAIN input.texts : input.texts[i] # 0

(* RequestValidationError: 422.                                            *)
Valid(b) ==
  IF b.endpoint = "embeddings" THEN InputValid(b.input) ELSE GenerationValid(b)

(* The handlers: one answer to a request, and no stream of a completion.   *)
Supported(b) ==
  b.endpoint # "embeddings" =>
    /\ b.n # None => b.n <= 1
    /\ b.endpoint = "completions" => ~ b.stream

(* A chat that is answered with a stream, which is module ChatStream.      *)
Streams(b) == b.endpoint = "chat" /\ b.stream

-----------------------------------------------------------------------------
(* normalize_stop: a list of texts, none of them empty, or None.           *)
NormalizeStop(stop) ==
  IF stop = None THEN None
  ELSE LET texts == FoldLeft(LAMBDA kept, t : IF t = 0 THEN kept
                                              ELSE Append(kept, t),
                             <<>>, stop.texts)
       IN  IF texts = <<>> THEN None ELSE texts

(* The option of the body that an option of Ollama comes from.             *)
Field(option) == IF option = "num_predict" THEN "max_tokens" ELSE option

OllamaOptions == (DOMAIN Bounds \ {"max_tokens"}) \cup {"num_predict"}

(* Mutant: `if temperature:`, and so for every option.                     *)
BuildOptionsTruthy(options, stop) ==
  [o \in {x \in OllamaOptions : options[Field(x)] \notin {None, 0}}
           \cup {x \in {"stop"} : stop # None}
     |-> IF o = "stop" THEN stop ELSE options[Field(o)]]

(* build_ollama_options: only what was given is sent.                      *)
BuildOptions(options, stop) ==
  [o \in {x \in OllamaOptions : options[Field(x)] # None}
           \cup {x \in {"stop"} : stop # None}
     |-> IF o = "stop" THEN stop ELSE options[Field(o)]]

(* A completion is a chat of one message, its prompts joined.              *)
SentPayload(b) ==
  IF b.endpoint = "embeddings" THEN [input |-> b.input.texts]
  ELSE [options |-> BuildOptions(b.options, NormalizeStop(b.stop)),
        stream |-> Streams(b)]

Receive ==
  /\ body = NoBody
  /\ body' \in Generation \cup Embedding
  /\ UNCHANGED <<sent, charged, answer>>

RefuseBody ==
  /\ body # NoBody
  /\ sent = None /\ answer = NotYet
  /\ \/ ~ Valid(body) /\ answer' = [status |-> 422]
     \/ Valid(body) /\ ~ Supported(body) /\ answer' = [status |-> 400]
  /\ UNCHANGED <<body, sent, charged>>

Send ==
  /\ body # NoBody
  /\ sent = None /\ answer = NotYet
  /\ Valid(body) /\ Supported(body)
  /\ sent' = SentPayload(body)
  /\ UNCHANGED <<body, charged, answer>>

-----------------------------------------------------------------------------
(* What Ollama answers: a count may be zero or missing, the reason and the *)
(* embeddings may be missing too.                                          *)
GenerationReports ==
  [done : {"stop", "length", None}, prompt : Counts \cup {None},
   eval : Counts \cup {None}]

EmbeddingReports == [prompt : Counts \cup {None}, vectors : 0..MaxInputs]

(* usage_from_ollama: response.get(...) or 0                               *)
OrZero(count) == IF count = None THEN 0 ELSE count

(* TokenUsage: what a report is charged with.                              *)
Usage(report) ==
  [prompt |-> OrZero(report.prompt),
   completion |-> IF "eval" \in DOMAIN report THEN OrZero(report.eval) ELSE 0]

NoUsage == [prompt |-> 0, completion |-> 0]

(* finish_reason_from_ollama                                               *)
Finish(report) == IF report.done = "length" THEN "length" ELSE "stop"

(* Mutant: the usage of embeddings is taken before they are looked for.    *)
RecordingOfAnyReport(report, status) ==
  [status |-> status, usage |-> Usage(report)]

(* The recording of a request: nothing is charged for a failed one.        *)
Recording(report, status) ==
  [status |-> status, usage |-> IF status = 200 THEN Usage(report) ELSE NoUsage]

TotalOf(usage) == usage.prompt + usage.completion

(* The use case records what it was told and answers with the same.        *)
ReportGeneration ==
  \E report \in GenerationReports :
    /\ charged' = Recording(report, 200)
    /\ answer' = [status |-> 200, report |-> report, finish |-> Finish(report),
                  usage |-> charged'.usage, total |-> TotalOf(charged'.usage)]

(* An answer without vectors is a ProviderError, a 502.                    *)
ReportEmbedding ==
  \E report \in EmbeddingReports :
    IF report.vectors = 0
    THEN /\ charged' = Recording(report, 502)
         /\ answer' = [status |-> 502, report |-> report]
    ELSE /\ charged' = Recording(report, 200)
         /\ answer' = [status |-> 200, report |-> report,
                       usage |-> charged'.usage, total |-> TotalOf(charged'.usage)]

ModelReports ==
  /\ sent # None /\ answer = NotYet /\ ~ Streams(body)
  /\ IF body.endpoint = "embeddings" THEN ReportEmbedding ELSE ReportGeneration
  /\ UNCHANGED <<body, sent>>

(* Ollama cannot be reached or answers with an error: 502; or with what is *)
(* no JSON, which is a 500 to the client and a 502 in the log.             *)
ModelFails ==
  /\ sent # None /\ answer = NotYet /\ ~ Streams(body)
  /\ charged' = [status |-> 502, usage |-> NoUsage]
  /\ \E status \in {500, 502} : answer' = [status |-> status]
  /\ UNCHANGED <<body, sent>>

NextBody ==
  /\ answer # NotYet \/ (sent # None /\ Streams(body))
  /\ body' = NoBody /\ sent' = None /\ charged' = NotYet /\ answer' = NotYet

PayloadInit == body = NoBody /\ sent = None /\ charged = NotYet /\ answer = NotYet

PayloadNext ==
  \/ Receive \/ RefuseBody \/ Send \/ ModelReports \/ ModelFails
  \/ NextBody

PayloadSpec == PayloadInit /\ [][PayloadNext]_payloadVars

-----------------------------------------------------------------------------
(* Properties                                                              *)

(* The model is asked for what the client asked for and nothing else: an   *)
(* option that was given is sent with its value, zero too, and is one that *)
(* the schema admits; an empty stop sequence, which would end every answer *)
(* at its start, is not sent.  A 422 has its reason, and the length of a   *)
(* single stop sequence is none.                                           *)
OptionsAsAsked ==
  /\ sent # None /\ body.endpoint # "embeddings" =>
       /\ \A o \in OllamaOptions :
            IF body.options[Field(o)] = None THEN o \notin DOMAIN sent.options
            ELSE /\ o \in DOMAIN sent.options
                 /\ sent.options[o] = body.options[Field(o)]
                 /\ sent.options[o] \in Bounds[Field(o)]
       /\ IF "stop" \in DOMAIN sent.options
          THEN /\ Len(sent.options.stop) \in 1..MaxStop
               /\ ToSet(sent.options.stop) = ToSet(body.stop.texts) \ {0}
          ELSE body.stop = None \/ ToSet(body.stop.texts) \subseteq {0}
  /\ answer # NotYet /\ body.endpoint # "embeddings" =>
       (answer.status = 422 =>
          \/ body.n = 0
          \/ \E field \in DOMAIN Bounds :
               body.options[field] \notin Bounds[field] \cup {None}
          \/ body.stop # None /\ body.stop.list /\ Len(body.stop.texts) > MaxStop)

(* A request is recorded once the model was asked for it, and what a       *)
(* client is told it used is what it is charged: a count that Ollama       *)
(* reports, zero too, reaches both as it is; an answer that Ollama cut is  *)
(* not told as complete; and a request that fails, also one whose answer   *)
(* came without the vectors it counts, is recorded as failed and costs     *)
(* nothing.  A count that is missing is charged as none, where             *)
(* architecture.md:55-56 has an estimate: see README.                      *)
AnswerAsReported ==
  /\ charged # NotYet <=> sent # None /\ answer # NotYet
  /\ charged # NotYet =>
       /\ answer.status = 200 <=> charged.status = 200
       /\ charged.status # 200 => TotalOf(charged.usage) = 0
  /\ charged # NotYet /\ charged.status = 200 =>
       /\ answer.usage = charged.usage
       /\ answer.total = charged.usage.prompt + charged.usage.completion
       /\ answer.report.prompt # None =>
            charged.usage.prompt = answer.report.prompt
       /\ IF body.endpoint = "embeddings"
          THEN charged.usage.completion = 0 /\ answer.report.vectors > 0
          ELSE /\ answer.report.eval # None =>
                    charged.usage.completion = answer.report.eval
               /\ answer.finish = "length" <=> answer.report.done = "length"
=============================================================================
