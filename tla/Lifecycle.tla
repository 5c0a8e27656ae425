------------------------------ MODULE Lifecycle ------------------------------
(***************************************************************************)
(* The worker processes of a deployment and the requests-per-minute limit. *)
(* Each process builds its container at startup: its limiter is Redis, or  *)
(* a dictionary of its own when the settings say so or when Redis does not *)
(* answer the ping, and stays what it is until the process ends.           *)
(***************************************************************************)
EXTENDS InMemoryRateLimiter, RedisRateLimiter, FiniteSets

CONSTANT MaxStarts  \* bound: starts in one window

ASSUME LifecycleAssumption ==
  /\ Processes = Workers
  /\ IsFiniteSet(Workers)
  /\ IsFiniteSet(Tasks)
  /\ MaxStarts \in Nat

VARIABLES backend,  \* backend[p]: the limiter of the container of process p
          made,     \* history variables: the last counter that was made, and
          starts    \* the starts of a process or of Redis in each window

vars == <<now, historyVars, memoryVars, redisVars, backend, made, starts>>

Backends == {"down", "memory", "redis"}

-----------------------------------------------------------------------------
CountStart ==
  /\ starts[Window(now)] < MaxStarts
  /\ starts' = [starts EXCEPT ![Window(now)] = @ + 1]

(* Mutant: a failed ping is caught, and no limiter is put in its place.     *)
StartupWithoutFallback(p) ==
  /\ backend[p] = "down"
  /\ CountStart
  /\ backend' = [backend EXCEPT ![p] = "none"]
  /\ UNCHANGED <<now, historyVars, memoryVars, redisVars, made>>

(* RATE_LIMIT_BACKEND is "memory", or the ping of Redis fails, which is    *)
(* logged and nothing more.                                                *)
StartupInMemory(p) ==
  /\ backend[p] = "down"
  /\ made < MaxCounters
  /\ CountStart
  /\ backend' = [backend EXCEPT ![p] = "memory"]
  /\ made' = made + 1
  /\ NewDictionary(p, made + 1)
  /\ UNCHANGED <<now, historyVars, redisVars>>

StartupOnRedis(p) ==
  /\ backend[p] = "down"
  /\ CountStart
  /\ backend' = [backend EXCEPT ![p] = "redis"]
  /\ UNCHANGED <<now, historyVars, memoryVars, redisVars, made>>

(* The process is shut down, or dies, and its dictionary with it.          *)
Shutdown(p) ==
  /\ backend[p] # "down"
  /\ backend' = [backend EXCEPT ![p] = "down"]
  /\ NewDictionary(p, 0)
  /\ Abandon(p)
  /\ UNCHANGED <<now, historyVars, entries, redis, made, starts>>

(* rate_limiter.check of the container of process p.                       *)
Check(p, k) ==
  \/ /\ backend[p] = "memory"
     /\ CheckInMemory(p, k)
     /\ UNCHANGED <<redisVars, backend, made, starts>>
  \/ /\ backend[p] = "redis"
     /\ \E t \in Tasks : CheckOnRedis(t, p, k)
     /\ UNCHANGED <<memoryVars, backend, made, starts>>

Answer(t) ==
  /\ Execute(t) \/ Allow(t) \/ Refuse(t) \/ Fail(t)
  /\ UNCHANGED <<memoryVars, backend, made, starts>>

RedisRestart ==
  /\ made < MaxCounters
  /\ CountStart
  /\ made' = made + 1
  /\ ForgetEntries(made + 1)
  /\ UNCHANGED <<now, historyVars, memoryVars, backend>>

Tick ==
  /\ now < MaxTime
  /\ NoPipelineOverdue
  /\ now' = now + 1
  /\ UNCHANGED <<historyVars, memoryVars, redisVars, backend, made, starts>>

Init ==
  /\ WindowsInit
  /\ MemoryInit
  /\ RedisInit
  /\ backend = [p \in Workers |-> "down"]
  /\ made = 0
  /\ starts = [w \in AllWindows |-> 0]

Next ==
  \/ \E p \in Workers :
       \/ StartupInMemory(p) \/ StartupOnRedis(p) \/ Shutdown(p)
       \/ \E k \in Keys : Check(p, k)
  \/ \E t \in Tasks : Answer(t)
  \/ RedisRestart
  \/ Tick

Spec == Init /\ [][Next]_vars

-----------------------------------------------------------------------------
(* Properties                                                              *)

(* Type correctness of the limiters and of the processes.                  *)
TypeOK ==
  /\ WindowsTypeOK
  /\ MemoryTypeOK
  /\ RedisTypeOK
  /\ backend \in [Workers -> Backends]
  /\ made \in Counters
  /\ starts \in [AllWindows -> Nat]

FW == INSTANCE FixedWindow
        WITH Keys <- Counters \X Keys,
             Limit <- [ck \in Counters \X Keys |-> Limit[ck[2]]],
             Windows <- AllWindows,
             window <- Window(now)

(* Each counter, whether a dictionary or Redis, is a fixed window: a stale *)
(* entry of the dictionary is thrown away, an increment on Redis that      *)
(* lands late, maybe in the next window, counts for its own, and an entry  *)
(* outlives its window by the delay of a pipeline.                         *)
ImplementsFixedWindow == FW!WindowSpec

(* A request is refused only when Limit others of its key were counted in  *)
(* its own window by the counter that it asked: nothing of an earlier      *)
(* window counts against the key.  The limit is on what was counted, not   *)
(* on what was let through: a request that Redis counted and whose answer  *)
(* was lost, or whose process died, takes its place in the window too, and *)
(* may be what the next one is refused for.                                *)
RefusedOnlyWhenFull ==
  /\ \A p \in Workers, k \in Keys :
       windows[p][k].count > Limit[k] =>
         counted[<<memory[p], k>>][windows[p][k].window] > Limit[k]
  /\ \A t \in Tasks :
       calls[t].at = "counted" /\ ~ WithinLimit(t) =>
         counted[<<calls[t].counter, calls[t].key>>][calls[t].window] > Limit[calls[t].key]

(* Retry-After: who waits reset_in_seconds is in a later window, at        *)
(* whatever fraction of a second the request was answered, and waits no    *)
(* longer than a second past its start.                                    *)
RetryReachesNextWindow ==
  LET then == now + ResetIn(now) * TicksPerSecond
  IN  /\ Window(then) > Window(now)
      /\ Window(then - TicksPerSecond) = Window(now)

Admitted(k, w) ==
  LET upTo[c \in Counters] ==
        admitted[<<c, k>>][w] + (IF c = 0 THEN 0 ELSE upTo[c - 1])
  IN  upTo[MaxCounters]

(* How far silent fallbacks, restarts and several workers stretch the      *)
(* limit (container.py, the `except` of startup; README, "Limitaciones     *)
(* conocidas"): a key gets its limit once per worker, and once more per    *)
(* start of a worker or of Redis in that window or in the next, where its  *)
(* late pipelines land.                                                    *)
DeploymentBound ==
  \A k \in Keys, w \in AllWindows :
    Admitted(k, w) <=
      Limit[k] * (Cardinality(Workers) + starts[w]
                    + (IF w + 1 \in AllWindows THEN starts[w + 1] ELSE 0))
=============================================================================
