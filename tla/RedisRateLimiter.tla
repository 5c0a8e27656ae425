-------------------------- MODULE RedisRateLimiter --------------------------
(***************************************************************************)
(* The limiter that several workers share.  A check reads the clock, then  *)
(* awaits a pipeline that increments the counter of the key and the window *)
(* it has read and sets that counter to expire; other checks run in        *)
(* between, the clock goes on, and the answer may never arrive.            *)
(***************************************************************************)
EXTENDS Windows

CONSTANTS Tasks,     \* the requests being checked
          Processes, \* the processes they run in
          Ttl,       \* 120, the argument of EXPIRE
          MaxDelay   \* bound: the longest a pipeline is under way, in ticks

(* EXPIRE outlives a window and a pipeline; as it lasts two windows, no    *)
(* pipeline is under way for longer than one.                              *)
ASSUME RedisAssumption ==
  /\ Ttl \in Nat
  /\ MaxDelay \in Nat
  /\ TicksPerWindow + MaxDelay <= Ttl * TicksPerSecond
  /\ MaxDelay <= TicksPerWindow

VARIABLES entries,  \* the entries of Redis, with the tick they expire
          redis,    \* the counter that Redis is since it last lost its data
          calls     \* calls[t]: the check of request t

redisVars == <<entries, redis, calls>>

(* Mutant: the key of the entry does not name the window.                  *)
RedisKeyWithoutWindow(k, w) == <<k, 0>>

RedisKey(k, w) == <<k, w>>

(* Mutant: the entry lives as long as its window.                          *)
ExpiresWithWindow == now + TicksPerWindow

Expires == now + Ttl * TicksPerSecond

NoEntry == [count |-> 0, expires |-> 0]

(* An expired entry is no entry.                                           *)
Entry(key) == IF entries[key].expires > now THEN entries[key].count ELSE 0

NoCall == [at |-> "idle"]

Calls ==
  {NoCall} \cup
  [at : {"sent", "counted", "orphan"}, process : Processes, key : Keys,
   window : AllWindows, since : 0..MaxTime, count : Nat, counter : Counters]

EndCall(t) == calls' = [calls EXCEPT ![t] = NoCall]

-----------------------------------------------------------------------------
(* The window is read and the pipeline is sent.                            *)
CheckOnRedis(t, p, k) ==
  /\ calls[t].at = "idle"
  /\ calls' = [calls EXCEPT ![t] =
                 [at |-> "sent", process |-> p, key |-> k,
                  window |-> Window(now), since |-> now, count |-> 0,
                  counter |-> 0]]
  /\ UNCHANGED <<now, historyVars, entries, redis>>

(* INCR and EXPIRE, in one MULTI.  What a process sent before it died is   *)
(* counted too.                                                            *)
Execute(t) ==
  /\ calls[t].at \in {"sent", "orphan"}
  /\ HasBound(redis, calls[t].key, calls[t].window)
  /\ LET key == RedisKey(calls[t].key, calls[t].window)
     IN  /\ entries' = [entries EXCEPT ![key] =
                          [count |-> Entry(key) + 1, expires |-> Expires]]
         /\ calls' = [calls EXCEPT ![t] =
                        IF @.at = "orphan" THEN NoCall
                        ELSE [@ EXCEPT !.at = "counted", !.since = 0,
                                       !.count = Entry(key) + 1,
                                       !.counter = redis]]
  /\ CountOne(redis, calls[t].key, calls[t].window)
  /\ UNCHANGED <<now, admitted, redis>>

(* int(count) <= limit                                                     *)
WithinLimit(t) == calls[t].count <= Limit[calls[t].key]

Allow(t) ==
  /\ calls[t].at = "counted"
  /\ WithinLimit(t)
  /\ AdmitOne(calls[t].counter, calls[t].key, calls[t].window)
  /\ EndCall(t)
  /\ UNCHANGED <<now, counted, entries, redis>>

(* RateLimitExceededError, a 429.                                          *)
Refuse(t) ==
  /\ calls[t].at = "counted"
  /\ ~ WithinLimit(t)
  /\ EndCall(t)
  /\ UNCHANGED <<now, historyVars, entries, redis>>

(* Redis cannot be reached, or its answer is lost: an error, not an        *)
(* admission, counted or not.                                              *)
Fail(t) ==
  /\ calls[t].at \in {"sent", "orphan", "counted"}
  /\ EndCall(t)
  /\ UNCHANGED <<now, historyVars, entries, redis>>

(* A process dies: nobody waits for its answers.                           *)
Abandon(p) ==
  calls' = [t \in Tasks |->
              IF calls[t].at = "idle" \/ calls[t].process # p THEN calls[t]
              ELSE IF calls[t].at = "counted" THEN NoCall
              ELSE [calls[t] EXCEPT !.at = "orphan"]]

(* Redis restarts without its data.                                        *)
ForgetEntries(c) ==
  /\ entries' = [key \in Keys \X AllWindows |-> NoEntry]
  /\ redis' = c
  /\ UNCHANGED calls

(* The time a pipeline is under way is bounded.                            *)
NoPipelineOverdue ==
  \A t \in Tasks :
    calls[t].at \in {"sent", "orphan"} => now < calls[t].since + MaxDelay

RedisInit ==
  /\ entries = [key \in Keys \X AllWindows |-> NoEntry]
  /\ redis = 0
  /\ calls = [t \in Tasks |-> NoCall]

RedisTypeOK ==
  /\ entries \in [Keys \X AllWindows -> [count : Nat, expires : Nat]]
  /\ redis \in Counters
  /\ calls \in [Tasks -> Calls]
=============================================================================
