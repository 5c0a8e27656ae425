# Verification of idempotencia-ia, the Ollama gateway

The repository is an API with the contract of OpenAI in front of an Ollama server:
FastAPI on one event loop per worker, SQL Server through an asynchronous pool, and
optionally Redis. It adds API keys, limits, the accounting of tokens and a log of
requests. This directory models the parts of it that carry state across an `await`,
checks them with TLC on small instances and proves the central ones with TLAPS for
every value of the constants. `PROJECT.json` maps each definition to the lines it
stands for.

## 1. Inventory

| Part | Source (under `src/app/`) | State | Operations | Talks to |
|---|---|---|---|---|
| usage recorder | `infrastructure/db/scoped_record_usage.py`, `use_cases/admin/record_usage.py`, `repositories/usage_*`, `request_log_*` | rows of ApiKeyUsage per key and UTC day, rows of RequestLogs, the try under way | `execute`: a usage phase (MERGE, COMMIT) and a log phase (INSERT, COMMIT), three tries each, shielded | the pool, SQL Server |
| sessions and unit of work | `infrastructure/db/session.py`, `unit_of_work.py` | connections checked out | a session takes a connection at its first statement, gives it back on commit, rollback or close | everything that queries |
| authentication | `use_cases/auth/authenticate_api_key.py`, `entities/api_key.py` | IsActive, ExpiresAt, LastUsedAt | find the key by hash, `is_usable`, touch and commit | unit of work |
| admission | `use_cases/auth/check_rate_limit.py`, `dependencies.py` | the day read before the query | requests per minute, then tokens per day, and the wait of a refusal | limiter, usage repository, the clock twice |
| rate limiters | `infrastructure/cache/` | a dictionary per process, or counters in Redis | `check` | clock, Redis |
| endpoints, use cases | `api/v1/`, `use_cases/chat`, `embeddings`, `models` | the request's locals | validate, resolve the model, close the session, call the model, record, answer | all of the above |
| streaming | `chat.py` `_sse_stream`, `stream_chat_completion.py`, `ollama_client.py` | two generators, the events to send | take the first chunk, forward, record in `finally`, `aclose` | provider, recorder, Starlette |
| catalogue | `resolve_model.py`, `list_models.py`, `scripts/seed_models.py` | the table LlmModels, ALLOWED_MODELS | look up, list, seed | unit of work |
| admin API: keys | `api/admin/api_keys.py`, `use_cases/admin/`, `scripts/create_admin_key.py` | the rows of ApiKeys | create, list, revoke, while the keys are used | unit of work |
| admin API: usage and logs | `api/admin/usage.py`, `logs.py`, the two repositories | none of their own | a report over days, a page of the log, while rows are added | unit of work |
| request log | `entities/request_log.py`, `request_log_repository_impl.py` | RequestLogs, its IDENTITY, CreatedAt | cut the error to UTF-16 units, insert | recorder |
| payloads | `schemas/openai/`, `infrastructure/llm/openai_mapper.py` | the request and its answer | validate, build the options, read counts and reason | endpoints, provider |
| error handler | `middleware/error_handler.py` | none | exception to status, Retry-After | |
| lifecycle | `main.py`, `config/container.py` | provider, limiter, Redis client | startup (with a fallback to memory), shutdown | |
| the rest | hashing, tokenizers, settings, logging, middleware, DDL | none that changes | | |

What is hard in it:

- *Concurrency.* Requests interleave at every `await`. Two recordings MERGE one row;
  the quota is checked tens of seconds before the consumption is charged; an
  administrator revokes a key in between; all of them share one pool.
- *Failure.* Every statement may fail, with an error that is retried or with one that
  is not; the answer to a COMMIT may be lost; the pool may give no connection in time;
  the provider may fail before or in the middle of a stream; the process may restart.
- *Ordering and time.* Midnight passes between the reading of a day and its use;
  a limiter's window ends while its pipeline is under way; a client goes away while
  the provider is being read, while an event is being sent, or during the recording;
  rows of one second become visible in another order than that of their ids.
- *Restarts.* A worker that dies takes its dictionary and its waiting requests with it,
  while what it sent to Redis is still executed; Redis may come back empty; each start
  may silently choose another limiter.
- *Edges of data.* Dates with an offset, or without, in columns without a zone that
  round to seconds; texts cut in UTF-16 units; options whose value is zero.

What makes each part correct:

- recorder: charge once, lose only after the documented tries, leak no connection, end;
- admission: overshoot the quota by no more than what is in flight;
- requests: hold no connection through the model call, never wait for a second one,
  serve no key that was revoked before, be answered;
- streams: be recorded once, whatever ends them, with what the provider reported;
  well-formed events; all generators and connections closed in the end;
- limiters: each admits at most the limit in a window, refuses only when it has counted as
  many (also those whose answer was lost, or whose worker died), and says how long to wait; a deployment stretches the limit no more than its workers and
  their restarts explain;
- quota: the wait of a refusal ends at midnight;
- keys: a revocation is final, an answer of the admin API is true from then on, a key
  expires when its administrator meant;
- log and report: a reader misses nothing, a total is between what was consumed when it
  was asked for and when it was answered, a message fits its column;
- catalogue: what is listed is served, seeding is harmless;
- payloads: the model is asked for what the client asked for, the answer says what the
  model reported, and a client is charged what it is told.

The hazards, each at its line and with the properties that cover it, are in
`PROJECT.json`.

## 2. Modules

```
Ledger  <--refine--  UsageRecorder  <--EXTENDS--  Gateway  <--  MCGateway
                        |                            |
                  UsageRecorder_proofs  <--  Gateway_proofs

ChatStream  <--  ChatStream_proofs

Windows <-- InMemoryRateLimiter --+
        <-- RedisRateLimiter -----+-- Lifecycle  <--  MCLifecycle, Lifecycle_proofs
                                        |
                                        +--refines-->  FixedWindow

Instants <-- ApiKeys      <-- ApiKeys_proofs
         <-- Admission  --+
             Catalog    --+-- Requests_proofs
             Payload    --+
         <-- RequestLogs -+-- AdminReads_proofs
             UsageReport -+
(ApiKeys, RequestLogs, UsageReport, Admission, Catalog, Payload)  <--  MCTables

Induction  <--  Lifecycle_proofs, Requests_proofs, AdminReads_proofs
```

Operators whose comment starts with "Mutant" are plausible defects of the definition
that follows them. No specification uses them; each one breaks one property, which
shows that the property depends on that piece of code.

**Ledger** (abstract). What the accounting promises: an entry is opened by an answered
request, then either charged, all its tokens to one day on which it was open, or dropped
without a trace, and closed. The mapping from the recorder tells a charged entry from a
dropped one by whether its COMMIT happened, so a lost update is not taken for a drop.
`LedgerSpec` is a ledger of requests that come once, which the recorder implements;
`ServerSpec` adds that closed entries are forgotten (`Forget`) and that a crash forgets
all of them without a trace (`Crash`), and is what the gateway implements.

**UsageRecorder**. `ScopedRecordUsage`: `rec[t]` is the phase, the step inside a try,
the try (`intento`), the day of the try (`RecordUsage.increment_usage` reads it each
time) and the value the MERGE read; `pool` the connections; `usage` the table
ApiKeyUsage. The MERGE and its COMMIT are two steps, the row is locked between them
(HOLDLOCK), and the written value is the one read by the MERGE, so a lost update would
show. `TransientError` is an error that `es_transitorio` accepts, `PermanentError` any
other, `PoolTimeout` the pool's TimeoutError, which is no DBAPIError and hence not
retried, `LostAck` a COMMIT that was applied although its connection died. `hist` only
records what happened, for the properties.

**Gateway**. A request await by await: `stage[t]` is where it is, `req[t]` what it
carries. `Arrive` to `Finish` are the code in its order; a task is used again by later
requests. `Revoke`, `NextMidnight`, `StatementFails`, `SessionTimeout` and `Restart`
interfere anywhere. The recording is the module above, through the same pool. A chat
completion, a completion and an embedding have the same steps; the two catalogue
endpoints end at `AnswerFromCatalogue`. A streamed request is abstracted to
`ModelAnswers` with any number of tokens, and zero where it was cut.

**ChatStream**. One stream: `gen` is the inner generator (`StreamChatCompletion`) with
its locals, `stage` the await at which the response is, `pending` the events the outer
generator (`_sse_stream`) has still to yield. A cut while the provider is being read
cancels the inner generator at once (`CutPulling`); a cut while an event is being sent
leaves both suspended (`CutSending`), to be closed by the garbage collector
(`Collect`), and the provider's generators after them (`CollectUpstream`). The
recording is shielded and is one step here: the recorder retries, gives a phase up after an
error that lasts, and returns as if nothing had happened, so each of its two phases is
stored or not (`charged`, `logged` in `records`) and the stream goes on in the same way.

**Windows**, **InMemoryRateLimiter**, **RedisRateLimiter**. `Windows` has the clock, whose
ticks are fractions of a second, the window of a tick and `reset_in_seconds`, and counts,
for the properties, what each *counter* has counted and admitted. A counter is a place
that counts from zero: one dictionary, or Redis until it loses its data. `check()` in
memory has no await and is one action. On Redis the window is read and the pipeline is
sent (`CheckOnRedis`); it executes later, perhaps in another window (`Execute`); its
answer arrives (`Allow`, `Refuse`) or not (`Fail`). Entries expire.

**Lifecycle**. The workers with the limiter that each container chose at startup:
`StartupInMemory` is `RATE_LIMIT_BACKEND=memory` as well as a Redis that did not answer
the ping, and `StartupOnRedis` the other case. `Shutdown` is an orderly one or a death:
the dictionary is lost, nobody waits for the answers of what is under way
(`Abandon`), which Redis executes all the same. `RedisRestart` forgets the entries.
Both kinds of limiter run next to each other, as they do when one worker fell back.

**FixedWindow** (abstract). Of the requests of one window, no more than the limit are
admitted. It is implemented once per counter and key.

**Instants**. The columns DATETIME2(0), which round to the second, and the dates of the
requests, a time of a wall clock with an offset or without. `Null` is None and NULL.

**ApiKeys**. `requests[r]` goes through the steps of one operation on the table: create
(the endpoint or the script), list, revoke, authenticate. Each reads, writes and commits
in a session of its own, any COMMIT may fail, and its answer may be lost. `known` is what
the administrator and the clients had been answered when the request arrived: the
properties compare it with what the request sees. `touch()` writes LastUsedAt alone, as
SQLAlchemy's UPDATE of the changed columns does.

**RequestLogs**. An INSERT takes the IDENTITY value and CreatedAt, and its COMMIT comes
later, so rows become visible out of order. `reader` is an administrator who asks for
page after page, by offset, until one is not full. `Clamp` is the cut of a message as the
code makes it: the text is encoded to bytes, two for each UTF-16 unit and so four for some
characters, the bytes are sliced, and what is left of a character whose bytes were parted
is ignored when they are decoded.

**UsageReport**. A report reads the rows of its range one by one while recordings add to
them and the day changes.

**Admission**. The quota of one request: `hoy` is read before the query, the clock again
after it, and the consumption found is of the days from `hoy` on. The refusal carries
the wait, and the header is absent when the wait is zero.

**Catalog**. The table LlmModels, whose rows an operator edits and the seed script
inserts, and the names of `ALLOWED_MODELS`; the list, the card and the resolution of a
chat, which calls the model it resolved later and remembers the catalogue it was resolved
against. Two runs of the script may overtake each
other between the SELECT and the INSERT.

**Payload**. One body of the OpenAI API: the validations that have a rule of their own, the
bounds of each numeric option (`Bounds`), the options that the model is sent, what becomes of
the counts and of the reason that it reports, what is handed to the recorder (`charged`) and
what the client is told. A count may be missing, zero or more. A text is its length. A
chat with `stream` ends here when it is sent; the rest of it is `ChatStream`.

**MCTables** puts the last six side by side. They share nothing but the clock, so a
behaviour works on one of them, which `part` names: their interleavings would show
nothing that each does not show alone.

## 3. Runs

| Run | Question | Bounds |
|---|---|---|
| `recorder_safety` | do two racing recordings charge once, leak nothing, and implement `Ledger`? | 2 tasks, 1 key, 0..1 tokens, 2 days, a connection each |
| `recorder_live` | does every recording end, lose nothing early, and what holds of the charges, when the pool is too small and acknowledgements are lost? | 2 tasks, 1 connection, lost acknowledgements |
| `recorder_lost_ack` | is a request charged once even then? No | 1 task |
| `gateway_quota` | by how much can a day exceed its quota? | 2 requests, quota 2, 2 days, pool of 2 |
| `gateway_live` | is every request answered, and nearer to its answer with each step, is a connection held through the model call, is a revoked key served, and do reused tasks, retries and restarts leave the accounting a ledger? | 2 requests, 2 keys (with and without quota), one key in a behaviour, pool of 1 |
| `stream` | all properties of a stream | 4 chunks, 0..2 tokens |
| `stream_cancelled` | is a cancelled stream charged for what it had generated? No | 2 chunks |
| `stream_empty` | is an empty stream logged as the failure it is answered with? No | no chunk |
| `limits` | what do the limiters promise in a deployment that falls back, dies and starts again? | 2 workers, 2 concurrent checks on Redis, 1 key with limit 1, 2 windows of 2 s, half seconds, TTL 3 s, a delay of half a second, 2 starts in a window, 3 counters |
| `tables` | keys, log, report, quota, catalogue and payloads, one in each behaviour | 2 requests on a key; 3 rows of the log, pages of 1; 2 keys and 2 days; days of 1 s; 2 models, 2 runs of the script; lists of one text too many, each numeric option at both ends of its bounds and past them, counts missing, zero and two |
| `models_allowed` | does `ALLOWED_MODELS` count only while the catalogue is empty? No | 2 models, 1 run of the script |
| `retry_after` | does every 429 of the quota say how long to wait? No | days of 2 s, half seconds |

*Why these bounds.* Two tasks give every race of the code, which is always between one
request and one other actor: two writers of a row, a holder and a waiter of the pool, a
check and a charge. One token is enough to tell a charge from none and two charges
from one; the quota of two lets a request through before and after the first charge. Two
days give one midnight, which may fall anywhere. The pool of two allows the race for the
row, the pool of one the race for the connection: `PoolTimeout` fires only in the
second kind of run, the row lock is contended only in the first. Four chunks allow an
empty first one, texts, and a last one with text. Two windows are one to fill and one in
which a stale count, or a late pipeline, would show; two workers and two starts give every
pair of limiters, one after the other and at once. Half seconds are enough to tell a cut
from a rounding, and what falls before from what falls after a second that both
share. Three rows of the log, read one by one, let a row come in before, between and
behind those already read. `gateway_live` has two keys to tell them apart in the
invariants, of which a behaviour uses one (`OneKeyUsed`): requests of different keys
share only the pool, and whose key it is makes no difference there. Midnight and the
race for a row are not in that run: they are in `recorder_safety` and `gateway_quota`. The proofs lift the
passing runs to every value, liveness excepted.

Bounds of the models and not of the code: `MaxTokens`, `MaxDay`, `MaxChunks`, `MaxTime`,
`LastInstant`, `LastDay`, `MaxDelay`, `MaxRefused` (requests past the limit in one window),
`MaxUsage` (a key without a quota would consume for ever), `MaxCounters`, `MaxStarts`,
`MaxKeys`, `MaxLogs`, `MaxRecorded`, `MaxSpent`; `DayLength`, `SecondsPerWindow`, `Second`
and `TicksPerSecond` scale the time, `MaxError`, `MaxStop`, `MaxInputs` and `PageSize` the
limits of the code. `NextMidnight` lets at most one midnight pass between the reading of
`today` and the quota query. `MaxDelay` is a real assumption: `RedisAssumption` says that
a window and the delay of a pipeline fit in the 120 seconds of EXPIRE, and so, as these
are two windows, that a pipeline is counted in its window or in the next.

Deadlock is not checked where the system stops by itself: a recording and a stream are
done once, the clocks of the limiters and of the tables are bounded, and in
`gateway_live` a key without quota stops at `MaxUsage`. `gateway_quota`, which goes on for
ever, is checked for deadlock. Symmetry is used where only invariants, or a refinement
that treats the symmetric values alike, are checked: `gateway_quota`, `limits` (workers
and checks are interchangeable; the abstract window has neither) and `tables`.

### What the violated runs show

- `recorder_lost_ack`: retrying phase by phase is meant to make a double charge
  impossible (`scoped_record_usage.py:50`), but a connection that dies between the
  server's COMMIT and its acknowledgement is classified as transient, and the increment
  is applied again. `OverchargeBounded` is what remains: at most one charge per try.
  The same run shows that charge and row are not one: `docs/architecture.md:79-80` says that
  the log row and the accumulated consumption are atomic; they are two transactions, on
  purpose (`record_usage.py:19-26`), and either may be stored without the other.
- `stream_cancelled`: `docs/frontend-guide.md:329-330` says that a cancelled stream is
  charged for the tokens generated; the tokens come only with the last chunk, so a client
  that has been sent a text and goes away before that chunk is charged nothing. What is
  stored is the row, with counts of zero. `docs/architecture.md:55-56` would have
  `TiktokenCounter` estimate a count that Ollama does not report, and names this case as its
  example; nothing calls it. The other endpoints do the same: a missing count is zero, told
  and charged, and cannot be told from one reported as zero. `AnswerAsReported` is what
  remains: a reported count, zero too, is passed on as it is, and what is told is charged.
- `stream_empty`: a stream without any chunk is answered with 502 and logged with 200.
- `retry_after`: `docs/frontend-guide.md:135` promises Retry-After in every 429. The quota
  computes it from two readings of the clock and cuts it to whole seconds, so in the last
  second of a day, and when midnight passes between the readings, there is no header, or
  a negative one. `WaitEndsAtMidnight` is what remains, and is proved.
- `models_allowed`: the docstring of `resolve_model.py` (3-5) and `README.md:203-205` of the
  repository say that `ALLOWED_MODELS` counts while the catalogue is empty and that any other
  name is refused. The code (line 23) asks the setting whenever a name has no *active* row,
  so a model that was deactivated, or never had a row, is called next to a catalogue that
  has others. The list does follow the documents. `ListedIsServed`, one direction of the
  agreement, is what remains: what is listed can be called, not the other way round.

## 4. Fairness

- `UsageRecorder`: weak fairness of a recording's own steps (the pool hands out a
  connection or its timeout expires, a COMMIT is answered, a sleep ends); strong
  fairness of the MERGE, because the row may be taken over and over by others while the
  server's lock queue is first come, first served. No fault has to happen.
- `Gateway`: the same, and weak fairness of the steps of a request. The model is among
  them because the HTTP client has a timeout (`OLLAMA_TIMEOUT_SECONDS`). Arrivals,
  revocations, midnights and restarts need not happen.
- `ChatStream`: the provider sends, ends or fails (read timeout); a recording ends (this
  is what `RecordingEnds` says); an event is sent or the client is found to be gone; and
  the interpreter closes abandoned asynchronous generators (the event loop installs
  `asyncgen` hooks). A client need not go away.
- The limiters and the tables have safety properties only, and no fairness.

## 5. Proofs

Checked by TLAPS for any sets of tasks, keys, workers, models and rows, any bounds, any
pool, any limits and any resolution of the clocks. The assumptions are those of the
modules: the types of the constants, finite sets of tasks, of workers and of the keys of a
report, at least one key, a pool of at least one connection, `Null`, `None` and `NoModel`
outside of the values they stand next to, limits above zero, and `RedisAssumption` above.
Every invariant and action property that a passing run checks is proved.

`UsageRecorder_proofs`:

- `RecTypeCorrect`. `RecTypeOK`, which the runs check as a part of the gateway's `TypeOK`, is
  not inductive: `WakeUp` increments `intento`, so `TypeInv` adds that who sleeps has a
  try left (`SleepsWithTryLeft`).
- `ConnectionsReturned`: `ConnectionOnlyInTransaction` is inductive over `TypeInv`.
- `NeverChargedTwice`, when no acknowledgement is lost. `ChargeInv` adds that a
  recording in its usage phase has not been charged: COMMIT leaves the phase at once.
- `OverchargedAtMostByTries`, with lost acknowledgements: `ChargesWithinTries` ties the
  charges to the try under way.
- `LostOnlyAfterThreeTries`: `FaultsCounted` ties the faults of the phase to `intento`.
- `RecorderImplementsLedger`: every step of the recorder is a step of `Ledger` or a
  stutter. COMMIT must add to the row as it is *now*, while the code writes the value
  the MERGE read. `RowInv` bridges the two: one writer per row (`OneWriterPerRow`), whose
  reading is current (`ReadingCurrent`), and a day between the start of the recording
  and today (`DayOfRecording`). `ChargeInv` says that a phase given up had
  charged nothing, so that it maps to a drop.

The lemma `RecordingAdvances` serves the gateway: `StepsLeft` counts what is left of the
try, four steps for each further try, and the log phase after the usage; every step lowers
it, from 24 at most, because only `WakeUp` begins a try and it counts them.

`Gateway_proofs`, where the recorder's lemmas are used for its steps, so that only the
steps of the request are new:

- `TypeCorrect`; `NeverHoldsAndWaits`, from `SessionsInPlace` (a session's connection is
  out only at the stages that query) and `RecordsInPlace`; `RevokedNeverServed`, from
  `LateKeysInactive` (a revocation is never undone);
  `GatewayNeverChargesTwice`, which carries `ChargeInv` and `RowInv` through restarts
  and through the reuse of tasks.
- `QuotaBounded`. The bound is on the past (what a day has) and is kept by the future
  (what may still be charged), so the invariant `QuotaBudget` says that the usage of a
  day plus `MaxTokens` for each request that may still charge it is within the margin. A
  check that passes adds one such request when the usage is below the limit, a COMMIT
  turns one into usage, everything else only removes. `FutureUnused` and `CheckIsRecent`
  make the day that was checked and the day that is charged comparable across midnight.
- `GatewayImplementsLedger`: the call of the recorder opens the entry, `Finish` forgets it
  and `Restart` is the crash; `NothingLeftOver` (a task that is not being recorded is blank)
  makes a request that was answered without a recording invisible in the ledger.
- `RequestsNeverGoBack`: `RequestStepsLeft` is a number for the stage, one more for a queue
  and `StepsLeft` of the recording. Every step of the request lowers it, no other step
  touches it, and it is 37 at the arrival. This is the half of `EveryRequestEnds` that
  needs no fairness; the fairness of section 4 makes each of those steps happen.

`ChatStream_proofs`, for any number of chunks and tokens. An invariant, `StreamInv`,
carries the first five theorems, and `OrderInv` over it the other two:

- `StreamTypeCorrect`: `SendEvent` takes the head of `pending`, so `StreamType` adds that
  who is sending has something to send; it also ties the texts seen to the chunks seen,
  without which their counter would not be bounded.
- `StreamRecordedOnce`, from `OneRecord`: the record appears as the generator closes, and
  a closed generator never works again.
- `StreamReportRecorded`: `KnowsReport` says that at *every* moment the generator knows
  what the provider has reported so far, so that a cut at any await records it.
- `DoneAfterRecording`: `NoEarlyDone` follows the event from `pending` to `sent`; with
  `KnowsReport` (an error is what makes the status 502) and `OneRecord` the recording that
  goes before it was one of status 200. It says that the recording has *ended*, not that
  anything was charged: a client that asks for its usage on [DONE] finds the request there
  unless the recorder gave it up, and `LostOnlyWhenExhausted` says when it may.
- `ErrorOrStream`, from `Answer`: the stage tells which status has gone out and whether
  a chunk has come.

- `StreamInOrder`, from `OrderInv`: until the generator closes, the role is due exactly as
  long as nothing was emitted; a finish_reason was emitted only if the provider is done,
  [DONE] only if the generator is closed, so nothing can come after them. `OneMoreEvent`
  is the one lemma about appending; `HandOver` says that sending an event changes nothing
  in `sent \o pending`.
- `EveryTextIsEmitted`: the same invariant counts the texts.

`Lifecycle_proofs`, for any number of workers and concurrent checks. The first lemmas are
about the clock: a window is the span between two multiples of its length, and the
clock goes from a window to itself or to the next. `LifeInv` has, besides the types:

- `OwnCounters`: no dictionary shares its counter with another or with Redis, and no
  counter that is still to be made has counted anything;
- `Dictionaries`: an entry has what its counter counted in the last window it saw, and in
  later ones nothing was counted;
- `EntriesLive`: an entry of Redis has what its counter counted, and expires no earlier
  than TTL after the start of its window; with `CallsRight` (a pipeline is under way for
  `MaxDelay` at most) and `RedisAssumption` a pipeline always finds its entry alive;
- `Handouts`: who was admitted *and* who was counted within the limit and will be are no
  more than were counted, and no more than the limit. The second set makes it inductive:
  between `Execute` and `Allow` the request is in neither history variable.

`LimitersTyped`, `RefusalsAreDeserved` and `RetryIsRight` follow, and
`LimitersImplementFixedWindow`: every step is an admission of the abstract window, its
next window, or a stutter, for each counter.

`DeploymentIsBounded` compares two countings: of admissions, over the counters of a window,
and of starts. `FewCounters` says that the counters *in use* in a window, which have
counted a request of it or may still do so (an open dictionary, Redis while a worker or a
pipeline of that window uses it), are no more than the workers and the starts in it and in
the next. A start is what opens a counter (`OneOpened`); a new window begins with one per
worker at most (`OneEach`), as no pipeline of it is under way and nothing was counted
(`NothingAhead`); `LatePipelines` is why a restart in the *next* window may open one more
for this window, and none in a later one. `AdmittedBound` is an induction over the counters:
each in use admits the limit at most (from `Handouts`), the others nothing.

`ApiKeys_proofs`: `NoKeyComesBack`, `AnswersStayTrue` and `KeysExpireAsMeant`, from an
invariant that ties every request to the row it read: the row of a key only loses
`active`, gains `used` and keeps its dates, so what a request saw is older than the row
and newer than what it knew. `KeysExpireAsMeant` rests on two lemmas about `Stamp`: it
moves an instant by half a second at most, and keeps the order of instants.

`Requests_proofs`, what a request is decided on before and after the model is called:

- `RetryAfterIsTheRestOfTheDay`, from the bounds of the division that cuts the wait to
  seconds and from `hoy` being the day of its reading.
- `EveryListedModelIsServed` (the list, the card and the resolution agree on which rows
  count), and `SeedsFailOnlyWhenOvertaken`, from `SeedsUpToDate`: a run that found no row,
  and under which nobody has changed the row of that model, still finds none.
- `OptionsGoAsAsked` and `AnswersAsReported`, for any integers as options, any lists of stop
  texts and any counts, zero and missing ones included. `KeptTexts` is the lemma: dropping the
  empty texts of a list, which is a fold, keeps all others and lengthens nothing.

`AdminReads_proofs`, for any number of rows, any page size and any order of COMMITs:

- `PagesAreComplete`. `PagesMissNothing` speaks of the end of the reading; what holds on
  the way is `UnseenIsAhead`: a row that was there and was not seen yet has at least as
  many rows before it as were read. Rows that come in can only push it further back, and
  the next page starts at the number of rows read. `SortedRank` says that the i-th row of
  an ORDER BY has i - 1 rows before it, for which the order must be total: this is where
  the id as second key of the order is needed.
- `RepeatsAreBounded`: at each page, the rows read so far would fit into the first rows of
  the present order, and those of them that were there have been seen.
- `NoRowIsRejected`, for a message of any length and characters of one unit or two:
  `UnitsOfPrefix` adds up the units of a prefix. That the encoding, the slice and the decoding
  leave whole characters is `ClampKeeps`: a character is decoded when its last byte is in the
  slice, so the slice, wherever it ends, decodes to a prefix of the text. `CutFits` is the
  result: it fits, and no longer prefix would.
- `ReportsAreCurrent`: `NothingMissed` says that the rows already read, with the present
  values of those still to be read, have at least what was there when the report was
  asked for; `ReadRight` that what was read is no more than what is there now.
  `TotalIsSum`, `TotalGrows` and `TotalAdds` are the arithmetic of a sum over a set of rows.

`Induction` is what these need of induction over data. The library's induction theorems
take a predicate as a parameter, which no installed prover can instantiate; its theorem
`WFMin`, that a set has a minimal element, takes a set. From it follow `SetInduction` (a set
that holds 0 and every successor is Nat), `SubsetInduction` over finite sets, and that the
recursive functions and the folds of the models exist and are what their equations say
(`ChainExists`, `ChainUnique`, `DescentExists`, `FoldExists`, `FoldIsChain`).

*Only model-checked*: liveness (`RecordingEnds`, `EveryRequestEnds`,
`EveryStreamRecorded`, `UpstreamReleased`), which needs fairness and ENABLED and is out
of this prover's reach. No module declares a RECURSIVE operator.

## 6. Modelling decisions

- `RATE_LIMIT_ENABLED` is on. In `Gateway`, `DailyLimit[k]` stands for the key's own limit
  or the default, and 0 is no quota; `Admission` chooses between the two. The monthly
  limit is stored and shown, `domain/exceptions.py:28` mentions it, and the code never
  compares it with anything: it is not in the models.
- In `Gateway`, expiry is folded into revocation: both make `is_usable` false for good. A
  missing or unknown key is a 401 without state. `ApiKeys` has the dates.
- A connection is taken at the first statement of a session and kept until commit or
  close, so a 404 and a catalogue answer keep it until the dependencies are torn down.
- `tokens_since` reads committed rows (READ COMMITTED). Its sum over the rows from a day
  on is that day's and the next one's, as no check outlasts two midnights.
- FastAPI does not cancel a request that is not streamed when its client goes away;
  only a restart does. A disconnect is not noticed while the handler awaits the first
  chunk.
- The provider sends nothing after its last chunk (external).
- The limiters see a clock that does not go back. A key without a limit is always
  allowed. MULTI makes INCR and EXPIRE one step. An eviction of entries by Redis counts
  as a loss of its data. A fixed window admits twice its limit in the seconds around the
  turn of a minute; that is what the algorithm promises (`FixedWindow`), not a fault of it.
- A ping that fails leaves its client unclosed (`container.py`, the `except` of startup),
  which has no effect on any state here.
- LastUsedAt may move back when a request that read the clock earlier commits later; no
  property speaks of its order.
- The script `create_admin_key.py` does not validate the limits it is given; the limits are
  data in `ApiKeys`.
- Each numeric option of a payload has the bounds of its schema, and integers stand for its
  fractions: between two integers the code does nothing that it does not do at one of them.
  `extra` is never given by an endpoint. The prompts of a completion are joined and are one
  text.
- The pool's TimeoutError is no DBAPIError, so a recording that finds the pool empty for
  `pool_timeout` seconds is given up at once (`PoolTimeout`). The properties of the recorder
  count it among the errors that excuse a loss: they say when consumption may be lost, not
  that the pool cannot be the reason.
- A revocation between the SELECT of an authentication and a later await lets that request
  go on; `RevokedNeverServed` speaks of requests that arrive after it.
- The text of an error is first cut to 1000 characters and then to 1000 UTF-16 units
  (`record_usage.py`, `request_log.py`); only the second cut matters for what fits.
- `/ready` keeps the connection of its SELECT 1 while it awaits Ollama (`health.py:27`): one
  more holder of the pool, which waits for no second connection. It is not in `Gateway`.

## 7. Not modelled

The shapes of messages, choices and cards (data); hashing and key generation (library
calls); tokenizers and `consume_tokens` (never called); middleware and logging (no
state); the health probes; settings, DDL, migrations and deployment; pre-ping and
recycling of connections; `check_db.py`, which prints a diagnosis.

## 8. Plan

Every part that carries state is modelled, and every safety property is proved. What would
come next:

1. An abstract table of keys, on which every operation is one step, and `ApiKeys` shown to
   implement it; an abstract stream of events, and `ChatStream` shown to implement it.
2. `Gateway` with the rows of `ApiKeys` in place of `active`, and with the limiters of
   `Lifecycle` in place of the nondeterministic answer of the limiter.
3. `/ready` as one more holder of the pool, and the pool's pre-ping.
