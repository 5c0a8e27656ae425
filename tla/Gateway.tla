------------------------------- MODULE Gateway -------------------------------
(***************************************************************************)
(* A request to one of the model endpoints, from its arrival to its        *)
(* answer, composed with the recording of its consumption (UsageRecorder). *)
(*                                                                         *)
(* The event loop interleaves the requests at their awaits; a task is one  *)
(* of the requests in flight and is used again by a later request.  The    *)
(* session of a request checks a connection out at its first statement and *)
(* keeps it until it commits or is closed.  Admission reads the quota long *)
(* before the consumption it admits is charged, midnight may pass between  *)
(* the two, an administrator may revoke the key at any time, every         *)
(* statement may fail, and the process may be restarted.                   *)
(***************************************************************************)
EXTENDS UsageRecorder

CONSTANTS DailyLimit,  \* DailyLimit[k]: tokens per day of key k, 0 for no quota
          MaxUsage     \* bound: consumption at which a key without quota rests

ASSUME GatewayAssumption ==
  /\ DailyLimit \in [Keys -> Nat]
  /\ MaxUsage \in Nat

VARIABLES active,  \* ApiKeys.IsActive
          stage,   \* stage[t]: the await at which the request of t is
          req      \* req[t]: what the request of t carries with it

reqVars == <<active, stage, req>>

vars == <<recVars, reqVars>>

-----------------------------------------------------------------------------
(* Values                                                                  *)

(* select, touch: authentication.  limit, quota: limits.  params, resolve: *)
(* the endpoint up to uow.close().  model: the provider is working.        *)
Stages == {"idle", "select", "touch", "limit", "quota", "params", "resolve",
           "model", "record", "reply"}

Statuses == {0, 200, 400, 401, 404, 429, 500, 502}

(* day: `today` of CheckRateLimit.  late: history variable, the key was    *)
(* already revoked when the request arrived.                               *)
Requests == [key : Keys, day : Days, status : Statuses, late : BOOLEAN]

NoRequest == [key |-> AnyKey, day |-> 0, status |-> 0, late |-> FALSE]

Session(t) == <<t, "request">>

(* The statements of a request, each of which needs its connection.        *)
Querying(t) == stage[t] \in {"select", "touch", "quota", "resolve"}

Queued(t) == Querying(t) /\ Session(t) \notin pool

(* tokens_since(key, d).  A check does not outlast two midnights (see      *)
(* NextMidnight), so no row is newer than d + 1.                           *)
TokensSince(k, d) ==
  usage[k][d] + (IF d < MaxDay THEN usage[k][d + 1] ELSE 0)

Goto(t, s) == stage' = [stage EXCEPT ![t] = s]

Answer(t, status) ==
  /\ req' = [req EXCEPT ![t].status = status]
  /\ Goto(t, "reply")

ReleaseSession(t) == pool' = pool \ {Session(t)}

-----------------------------------------------------------------------------
(* A request, await by await                                               *)

(* Bound: a key without quota gets no request past MaxUsage.               *)
Arrive(t, k) ==
  /\ stage[t] = "idle"
  /\ DailyLimit[k] = 0 => usage[k][today] < MaxUsage
  /\ req' = [req EXCEPT ![t] =
               [key |-> k, day |-> 0, status |-> 0, late |-> ~ active[k]]]
  /\ Goto(t, "select")
  /\ UNCHANGED <<recVars, active>>

SessionCheckout(t) ==
  /\ Queued(t)
  /\ PoolHasRoom
  /\ pool' = pool \cup {Session(t)}
  /\ UNCHANGED <<today, usage, rec, hist, reqVars>>

(* Mutant: the key is found and is_usable is not asked.                    *)
SelectKeyUnchecked(t) ==
  /\ stage[t] = "select"
  /\ Session(t) \in pool
  /\ Goto(t, "touch")
  /\ UNCHANGED <<recVars, active, req>>

(* get_by_hash, then is_usable on the row that was read.                   *)
SelectKey(t) ==
  /\ stage[t] = "select"
  /\ Session(t) \in pool
  /\ IF active[req[t].key]
     THEN Goto(t, "touch") /\ UNCHANGED req
     ELSE Answer(t, 401)
  /\ UNCHANGED <<recVars, active>>

(* touch and COMMIT, which gives the connection back.                      *)
TouchKey(t) ==
  /\ stage[t] = "touch"
  /\ Session(t) \in pool
  /\ Goto(t, "limit")
  /\ ReleaseSession(t)
  /\ UNCHANGED <<today, usage, rec, hist, active, req>>

(* The requests-per-minute limiter refuses, or cannot be reached (500), or *)
(* lets pass; then `today` is read for a key with a quota.                 *)
CheckLimiter(t) ==
  /\ stage[t] = "limit"
  /\ \/ \E status \in {429, 500} : Answer(t, status)
     \/ /\ DailyLimit[req[t].key] = 0
        /\ Goto(t, "params")
        /\ UNCHANGED req
     \/ /\ DailyLimit[req[t].key] > 0
        /\ req' = [req EXCEPT ![t].day = today]
        /\ Goto(t, "quota")
  /\ UNCHANGED <<recVars, active>>

(* Mutant: `used > limit`.                                                 *)
CheckQuotaStrict(t) ==
  /\ stage[t] = "quota"
  /\ Session(t) \in pool
  /\ IF TokensSince(req[t].key, req[t].day) > DailyLimit[req[t].key]
     THEN Answer(t, 429)
     ELSE Goto(t, "params") /\ UNCHANGED req
  /\ UNCHANGED <<recVars, active>>

CheckQuota(t) ==
  /\ stage[t] = "quota"
  /\ Session(t) \in pool
  /\ IF TokensSince(req[t].key, req[t].day) >= DailyLimit[req[t].key]
     THEN Answer(t, 429)
     ELSE Goto(t, "params") /\ UNCHANGED req
  /\ UNCHANGED <<recVars, active>>

(* n > 1, or stream on /v1/completions, is refused once the limits passed. *)
CheckParameters(t) ==
  /\ stage[t] = "params"
  /\ \/ Answer(t, 400)
     \/ Goto(t, "resolve") /\ UNCHANGED req
  /\ UNCHANGED <<recVars, active>>

(* Mutant: the endpoint forgets uow.close().                               *)
ResolveWithoutClose(t) ==
  /\ stage[t] = "resolve"
  /\ Session(t) \in pool
  /\ Goto(t, "model")
  /\ UNCHANGED <<recVars, active, req>>

(* ResolveModel finds the model; uow.close() gives the connection back     *)
(* before the provider is called.                                          *)
ResolveAndClose(t) ==
  /\ stage[t] = "resolve"
  /\ Session(t) \in pool
  /\ Goto(t, "model")
  /\ ReleaseSession(t)
  /\ UNCHANGED <<today, usage, rec, hist, active, req>>

(* The model is unknown (404), or the endpoint only reads the catalogue    *)
(* (200): the session stays open until the answer is out.                  *)
AnswerFromCatalogue(t) ==
  /\ stage[t] = "resolve"
  /\ Session(t) \in pool
  /\ \E status \in {404, 200} : Answer(t, status)
  /\ UNCHANGED <<recVars, active>>

(* The provider answers with n tokens, and the recording begins.           *)
ModelAnswers(t, n) ==
  /\ stage[t] = "model"
  /\ Begin(t, req[t].key, n)
  /\ req' = [req EXCEPT ![t].status = 200]
  /\ Goto(t, "record")
  /\ UNCHANGED active

(* The provider fails: a recording of TokenUsage(0, 0), then 502 for a     *)
(* ProviderError and 500 for any other exception.                          *)
ModelFails(t) ==
  /\ stage[t] = "model"
  /\ Begin(t, req[t].key, 0)
  /\ \E status \in {500, 502} : req' = [req EXCEPT ![t].status = status]
  /\ Goto(t, "record")
  /\ UNCHANGED active

RecorderStep(t) ==
  /\ stage[t] = "record"
  /\ RecStep(t)
  /\ UNCHANGED reqVars

(* Mutant: the request waits for its row in RequestLogs, which a recording *)
(* that gave up never writes.                                              *)
RecordedIfLogged(t) ==
  /\ stage[t] = "record"
  /\ rec[t].phase = "done"
  /\ hist[t].rows > 0
  /\ Goto(t, "reply")
  /\ UNCHANGED <<recVars, active, req>>

Recorded(t) ==
  /\ stage[t] = "record"
  /\ rec[t].phase = "done"
  /\ Goto(t, "reply")
  /\ UNCHANGED <<recVars, active, req>>

(* The answer is out and the dependencies are torn down.                   *)
Finish(t) ==
  /\ stage[t] = "reply"
  /\ Goto(t, "idle")
  /\ ReleaseSession(t)
  /\ rec' = [rec EXCEPT ![t] = Unrecorded]
  /\ hist' = [hist EXCEPT ![t] = NoHistory]
  /\ req' = [req EXCEPT ![t] = NoRequest]
  /\ UNCHANGED <<today, usage, active>>

(* A statement, or the checkout before it, fails: not controlled, 500.     *)
StatementFails(t) ==
  /\ Querying(t)
  /\ Answer(t, 500)
  /\ UNCHANGED <<recVars, active>>

SessionTimeout(t) ==
  /\ Queued(t)
  /\ ~ PoolHasRoom
  /\ Answer(t, 500)
  /\ UNCHANGED <<recVars, active>>

-----------------------------------------------------------------------------
(* The rest of the world                                                   *)

(* RevokeApiKey in one transaction of an admin request.                    *)
Revoke(k) ==
  /\ PoolHasRoom
  /\ active[k]
  /\ active' = [active EXCEPT ![k] = FALSE]
  /\ UNCHANGED <<recVars, stage, req>>

(* Bound: between reading `today` and the quota, at most one midnight.     *)
NextMidnight ==
  /\ \A t \in Tasks : stage[t] = "quota" => req[t].day = today
  /\ Midnight
  /\ UNCHANGED reqVars

(* The process dies: its requests and connections are gone, and the server *)
(* rolls back what was not committed.                                      *)
Restart ==
  /\ \E t \in Tasks : stage[t] # "idle"
  /\ stage' = [t \in Tasks |-> "idle"]
  /\ req' = [t \in Tasks |-> NoRequest]
  /\ rec' = [t \in Tasks |-> Unrecorded]
  /\ hist' = [t \in Tasks |-> NoHistory]
  /\ pool' = {}
  /\ UNCHANGED <<today, usage, active>>

Init ==
  /\ RecInit
  /\ active = [k \in Keys |-> TRUE]
  /\ stage = [t \in Tasks |-> "idle"]
  /\ req = [t \in Tasks |-> NoRequest]

(* What the event loop, the pool, the database and the provider (whose     *)
(* client has a timeout) do unasked.                                       *)
Advance(t) ==
  \/ SessionCheckout(t) \/ SessionTimeout(t)
  \/ SelectKey(t) \/ TouchKey(t) \/ CheckLimiter(t) \/ CheckQuota(t)
  \/ CheckParameters(t) \/ ResolveAndClose(t) \/ AnswerFromCatalogue(t)
  \/ (\E n \in 0..MaxTokens : ModelAnswers(t, n)) \/ ModelFails(t)
  \/ Recorded(t) \/ Finish(t)

Next ==
  \/ \E t \in Tasks :
       \/ \E k \in Keys : Arrive(t, k)
       \/ Advance(t)
       \/ RecorderStep(t)
       \/ StatementFails(t)
  \/ \E k \in Keys : Revoke(k)
  \/ NextMidnight
  \/ Restart

Fairness ==
  \A t \in Tasks :
    /\ WF_vars(Advance(t))
    /\ WF_vars(Progress(t) /\ stage[t] = "record" /\ UNCHANGED reqVars)
    /\ SF_vars(Merge(t) /\ stage[t] = "record" /\ UNCHANGED reqVars)

Spec == Init /\ [][Next]_vars /\ Fairness

-----------------------------------------------------------------------------
(* Properties                                                              *)

(* Type correctness of the composition.                                    *)
TypeOK ==
  /\ RecTypeOK
  /\ active \in [Keys -> BOOLEAN]
  /\ stage \in [Tasks -> Stages]
  /\ req \in [Tasks -> Requests]

(* The concurrency margin of the daily quota (README, "Limitaciones        *)
(* conocidas"): the check and the charge are far apart, yet a key ends a   *)
(* day at most the consumption of the requests in flight above its limit.  *)
Margin(k) == DailyLimit[k] - 1 + Cardinality(Tasks) * MaxTokens

QuotaOvershootBounded ==
  \A k \in Keys, d \in Days : DailyLimit[k] > 0 => usage[k][d] <= Margin(k)

(* No request holds a connection while the model works or while it is      *)
(* being recorded, and none waits for a second connection: the pool is     *)
(* never full of requests that wait for the pool.                          *)
NoHoldAndWait ==
  \A t \in Tasks :
    /\ stage[t] \in {"idle", "limit", "model", "record"} => Session(t) \notin pool
    /\ Waiting(t) => \A s \in Sessions : <<t, s>> \notin pool

(* A request that arrived after its key was revoked gets past              *)
(* authentication never; one that was in flight may still be served.       *)
RevokedStaysOut ==
  \A t \in Tasks : req[t].late => stage[t] \in {"select", "reply"}

(* The most steps that the request of t may still take, with the           *)
(* recording of its answer and a connection for each of its sessions.      *)
StepsOfStage ==
  LET afterModel == 2 + 8 * MaxIntentos
  IN  [idle |-> 0, reply |-> 1, record |-> 2, model |-> afterModel + 1,
       resolve |-> afterModel + 2, params |-> afterModel + 4, quota |-> afterModel + 5,
       limit |-> afterModel + 7, touch |-> afterModel + 8, select |-> afterModel + 10]

RequestStepsLeft(t) ==
  StepsOfStage[stage[t]]
    + (IF stage[t] = "record" THEN StepsLeft(rec[t]) ELSE 0)
    + (IF Queued(t) THEN 1 ELSE 0)

Rests(t) ==
  /\ UNCHANGED <<stage[t], rec[t]>>
  /\ Session(t) \in pool' <=> Session(t) \in pool

(* Whatever fails, times out or is retried, and whoever interferes, each   *)
(* step of a request brings its answer nearer: none is sent back, no retry *)
(* starts over, and after 8 * MaxIntentos + 13 steps it is answered.       *)
RequestsAdvance ==
  [][\A t \in Tasks :
       stage[t] = "idle" \/ Rests(t) \/ RequestStepsLeft(t)' < RequestStepsLeft(t)]_vars

(* The gateway implements the ledger of a server: with admission, retries, *)
(* revocations, midnights and restarts around it, an answered request is   *)
(* charged once or not at all, and nothing else touches the usage.         *)
ImplementsServerLedger == L!ServerSpec

(* Every request is answered: no pool, no row, no retry and no midnight    *)
(* keeps it for ever, given that the model answers or times out.           *)
EveryRequestEnds == \A t \in Tasks : stage[t] # "idle" ~> stage[t] = "idle"
=============================================================================
