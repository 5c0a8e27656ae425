------------------------- MODULE UsageRecorder_proofs -------------------------
(***************************************************************************)
(* Proofs about UsageRecorder, for every set of requests and keys, every   *)
(* bound and every capacity of the pool.  The lemmas are about one step of *)
(* one recording, so that Gateway_proofs can use them too.                 *)
(***************************************************************************)
EXTENDS UsageRecorder, FiniteSetTheorems, TLAPS

-----------------------------------------------------------------------------
(* Recordings as records: what each update of _con_reintentos leaves.      *)

LEMMA SetPhase ==
  ASSUME NEW r \in Recordings, NEW p \in Phases
  PROVE  [r EXCEPT !.phase = p] \in Recordings
BY DEF Recordings

LEMMA SetStep ==
  ASSUME NEW r \in Recordings, NEW s \in Steps
  PROVE  [r EXCEPT !.step = s] \in Recordings
BY DEF Recordings

LEMMA SetIntento ==
  ASSUME NEW r \in Recordings, NEW i \in 1..MaxIntentos
  PROVE  [r EXCEPT !.intento = i] \in Recordings
BY DEF Recordings

LEMMA SetSeen ==
  ASSUME NEW r \in Recordings, NEW n \in Nat
  PROVE  [r EXCEPT !.seen = n] \in Recordings
BY DEF Recordings

LEMMA SetDay ==
  ASSUME NEW r \in Recordings, NEW d \in Days
  PROVE  [r EXCEPT !.day = d] \in Recordings
BY DEF Recordings

(* Ending a phase keeps who is charged, how much and since when, and the   *)
(* log phase starts with a first try.                                      *)
LEMMA NextPhaseFacts ==
  ASSUME NEW r \in Recordings
  PROVE  /\ NextPhase(r) \in Recordings
         /\ r.phase = "usage" => /\ NextPhase(r).phase = "log"
                                 /\ NextPhase(r).step = "waiting"
         /\ r.phase # "usage" => /\ NextPhase(r).phase = "done"
                                 /\ NextPhase(r).step = "idle"
         /\ NextPhase(r).key = r.key
         /\ NextPhase(r).tokens = r.tokens
         /\ NextPhase(r).since = r.since
<1>1. CASE r.phase = "usage"
  <2> DEFINE a == [r EXCEPT !.phase = "log"]
             b == [a EXCEPT !.step = "waiting"]
             c == [b EXCEPT !.intento = 1]
             d == [c EXCEPT !.seen = 0]
  <2>1. a \in Recordings
    BY SetPhase DEF Phases
  <2>2. b \in Recordings
    BY <2>1, SetStep DEF Steps
  <2>3. c \in Recordings
    <3>1. 1 \in 1..MaxIntentos
      BY DEF MaxIntentos
    <3> QED BY <2>2, <3>1, SetIntento
  <2>4. d \in Recordings
    BY <2>3, SetSeen
  <2>5. NextPhase(r) = d
    BY <1>1 DEF NextPhase
  <2> QED BY <1>1, <2>4, <2>5 DEF Recordings
<1>2. CASE r.phase # "usage"
  <2> DEFINE a == [r EXCEPT !.phase = "done"]
             b == [a EXCEPT !.step = "idle"]
  <2>1. a \in Recordings
    BY SetPhase DEF Phases
  <2>2. b \in Recordings
    BY <2>1, SetStep DEF Steps
  <2>3. NextPhase(r) = b
    BY <1>2 DEF NextPhase
  <2> QED BY <1>2, <2>2, <2>3 DEF Recordings
<1> QED BY <1>1, <1>2

(* A transient error before the last try only puts the recording to sleep. *)
LEMMA AfterTransientFacts ==
  ASSUME NEW r \in Recordings
  PROVE  /\ AfterTransient(r) \in Recordings
         /\ r.intento < MaxIntentos =>
              /\ AfterTransient(r).phase = r.phase
              /\ AfterTransient(r).step = "sleep"
              /\ AfterTransient(r).intento = r.intento
              /\ AfterTransient(r).day = r.day
              /\ AfterTransient(r).key = r.key
              /\ AfterTransient(r).tokens = r.tokens
              /\ AfterTransient(r).since = r.since
         /\ ~ (r.intento < MaxIntentos) => AfterTransient(r) = NextPhase(r)
<1>1. CASE r.intento < MaxIntentos
  <2> DEFINE a == [r EXCEPT !.step = "sleep"]
             b == [a EXCEPT !.seen = 0]
  <2>1. a \in Recordings
    BY SetStep DEF Steps
  <2>2. b \in Recordings
    BY <2>1, SetSeen
  <2>3. AfterTransient(r) = b
    BY <1>1 DEF AfterTransient
  <2> QED BY <1>1, <2>2, <2>3 DEF Recordings
<1>2. CASE ~ (r.intento < MaxIntentos)
  <2>1. AfterTransient(r) = NextPhase(r)
    BY <1>2 DEF AfterTransient
  <2> QED BY <1>2, <2>1, NextPhaseFacts
<1> QED BY <1>1, <1>2

LEMMA StartedFacts ==
  ASSUME today \in Days, NEW k \in Keys, NEW n \in 0..MaxTokens
  PROVE  /\ Started(k, n) \in Recordings
         /\ Started(k, n).phase = IF n > 0 THEN "usage" ELSE "log"
         /\ Started(k, n).step = "waiting"
         /\ Started(k, n).intento = 1
         /\ Started(k, n).key = k
         /\ Started(k, n).tokens = n
         /\ Started(k, n).day = today
         /\ Started(k, n).since = today
<1>1. Started(k, n) \in Recordings
  BY DEF Started, Recordings, Phases, Steps, MaxIntentos, Days
<1> QED BY <1>1 DEF Started

LEMMA UnrecordedFacts == Unrecorded \in Recordings
BY RecorderAssumption DEF Unrecorded, AnyKey, Recordings, Phases, Steps, MaxIntentos, Days

-----------------------------------------------------------------------------
(* The pool                                                                *)

(* The pool of the engine is finite, so its connections can be counted.    *)
LEMMA PoolFinite ==
  ASSUME NEW P \in SUBSET (Tasks \X Sessions)
  PROVE  IsFiniteSet(P)
<1>1. IsFiniteSet({"request"} \cup {"recorder"})
  BY FS_Singleton, FS_AddElement
<1>2. Sessions = {"request"} \cup {"recorder"}
  BY DEF Sessions
<1>3. IsFiniteSet(Tasks \X Sessions)
  BY <1>1, <1>2, FS_Product, RecorderAssumption
<1> QED BY <1>3, FS_Subset

(* A connection checked out when there is room keeps the pool within its   *)
(* capacity.                                                               *)
LEMMA PoolAdds ==
  ASSUME pool \subseteq Tasks \X Sessions,
         PoolHasRoom,
         NEW c
  PROVE  Cardinality(pool \cup {c}) <= PoolCapacity
<1>1. IsFiniteSet(pool)
  BY PoolFinite
<1>2. Cardinality(pool) \in Nat /\ Cardinality(pool) < PoolCapacity
  BY <1>1, FS_CardinalityType DEF PoolHasRoom
<1>3. Cardinality(pool \cup {c}) = Cardinality(pool)
      \/ Cardinality(pool \cup {c}) = Cardinality(pool) + 1
  BY <1>1, FS_AddElement
<1> QED BY <1>2, <1>3, RecorderAssumption

(* A connection given back leaves it within its capacity.                  *)
LEMMA PoolRemoves ==
  ASSUME pool \subseteq Tasks \X Sessions,
         Cardinality(pool) <= PoolCapacity,
         NEW c
  PROVE  Cardinality(pool \ {c}) <= PoolCapacity
<1>1. IsFiniteSet(pool)
  BY PoolFinite
<1>2. Cardinality(pool \ {c}) = Cardinality(pool)
      \/ Cardinality(pool \ {c}) = Cardinality(pool) - 1
  BY <1>1, FS_RemoveElement
<1>3. Cardinality(pool) \in Nat
  BY <1>1, FS_CardinalityType
<1> QED BY <1>2, <1>3, RecorderAssumption

-----------------------------------------------------------------------------
(* Type correctness                                                        *)

(* A recording sleeps only if it has a try left: the strengthening that    *)
(* makes the bound of the tries inductive.                                 *)
SleepsWithTryLeft ==
  \A t \in Tasks : rec[t].step = "sleep" => rec[t].intento < MaxIntentos

TypeInv == RecTypeOK /\ SleepsWithTryLeft

(* The connections a step of t may check out or give back.                 *)
LEMMA PoolTypeStep ==
  ASSUME RecTypeOK, NEW t \in Tasks, NEW s \in Sessions,
         \/ pool' = pool \ {<<t, s>>}
         \/ PoolHasRoom /\ pool' = pool \cup {<<t, s>>}
  PROVE  pool' \subseteq Tasks \X Sessions /\ Cardinality(pool') <= PoolCapacity
<1>1. pool \subseteq Tasks \X Sessions /\ Cardinality(pool) <= PoolCapacity
  BY DEF RecTypeOK
<1>2. <<t, s>> \in Tasks \X Sessions
  OBVIOUS
<1>3. CASE pool' = pool \ {<<t, s>>}
  BY <1>1, <1>3, PoolRemoves
<1>4. CASE PoolHasRoom /\ pool' = pool \cup {<<t, s>>}
  BY <1>1, <1>2, <1>4, PoolAdds
<1> QED BY <1>3, <1>4

LEMMA TypeInit == RecInit => TypeInv
<1> SUFFICES ASSUME RecInit PROVE TypeInv
  OBVIOUS
<1>1. Cardinality(pool) <= PoolCapacity
  BY FS_EmptySet, RecorderAssumption DEF RecInit
<1>2. hist \in [Tasks -> Histories]
  BY DEF RecInit, NoHistory, Histories
<1>3. rec \in [Tasks -> Recordings]
  BY UnrecordedFacts DEF RecInit
<1>4. today \in Days /\ usage \in [Keys -> [Days -> Nat]]
  BY RecorderAssumption DEF RecInit, NoUsage, Days
<1>5. SleepsWithTryLeft
  BY DEF RecInit, SleepsWithTryLeft, Unrecorded
<1> QED BY <1>1, <1>2, <1>3, <1>4, <1>5 DEF RecInit, RecTypeOK, TypeInv

LEMMA TypeBegin ==
  ASSUME TypeInv,
         NEW t \in Tasks, NEW k \in Keys, NEW n \in 0..MaxTokens, Begin(t, k, n)
  PROVE  TypeInv'
<1>1. rec' \in [Tasks -> Recordings]
  BY StartedFacts DEF TypeInv, RecTypeOK, Begin
<1>2. hist' \in [Tasks -> Histories]
  BY DEF TypeInv, RecTypeOK, Begin, NoHistory, Histories
<1>3. SleepsWithTryLeft'
  BY DEF TypeInv, SleepsWithTryLeft, RecTypeOK, Begin, Started
<1> QED BY <1>1, <1>2, <1>3 DEF TypeInv, RecTypeOK, Begin

LEMMA TypeMidnight ==
  ASSUME TypeInv, Midnight
  PROVE  TypeInv'
BY RecorderAssumption
   DEF TypeInv, RecTypeOK, SleepsWithTryLeft, Midnight, Days

LEMMA TypeStep ==
  ASSUME TypeInv, NEW t \in Tasks, RecStep(t)
  PROVE  TypeInv'
<1> USE DEF TypeInv, RecTypeOK
<1>0. rec[t] \in Recordings /\ hist[t] \in Histories
  OBVIOUS
<1>1. pool' \subseteq Tasks \X Sessions /\ Cardinality(pool') <= PoolCapacity
  <2>1. "recorder" \in Sessions
    BY DEF Sessions
  <2>2. pool' = pool \/ ReleaseConnection(t)
        \/ (PoolHasRoom /\ pool' = pool \cup {Connection(t)})
    BY DEF RecStep, Progress, Faults, Checkout, PoolTimeout, CommitUsage,
           CommitLog, WakeUp, Merge, TransientError, PermanentError, LostAck
  <2> QED BY <2>1, <2>2, PoolTypeStep DEF Connection, ReleaseConnection
<1>2. usage' \in [Keys -> [Days -> Nat]]
  <2>1. Charged(rec[t]) \in [Keys -> [Days -> Nat]]
    BY <1>0 DEF Charged, Recordings
  <2>2. usage' = usage \/ usage' = Charged(rec[t])
    BY DEF RecStep, Progress, Faults, Checkout, PoolTimeout, CommitUsage,
           CommitLog, WakeUp, Merge, TransientError, PermanentError, LostAck
  <2> QED BY <2>1, <2>2
<1>3. today' \in Days
  BY DEF RecStep, Progress, Faults, Checkout, PoolTimeout, CommitUsage,
         CommitLog, WakeUp, Merge, TransientError, PermanentError, LostAck
<1>4. hist' \in [Tasks -> Histories]
  <2>1. Faulted(t, TRUE) \in Histories /\ Faulted(t, FALSE) \in Histories
    <3>1. [hist[t] EXCEPT !.faults = hist[t].faults + 1] \in Histories
      BY <1>0 DEF Histories
    <3>2. [hist[t] EXCEPT !.errors = hist[t].errors + 1] \in Histories
      BY <1>0 DEF Histories
    <3>3. Faulted(t, TRUE) \in Histories
      BY <1>0, <3>1 DEF Faulted
    <3>4. Faulted(t, FALSE) \in Histories
      BY <1>0, <3>2 DEF Faulted
    <3> QED BY <3>3, <3>4
  <2>2. CASE UNCHANGED hist
    BY <2>2
  <2>3. CASE CommitUsage(t)
    BY <1>0, <2>3 DEF CommitUsage, Histories
  <2>4. CASE CommitLog(t)
    BY <1>0, <2>4 DEF CommitLog, Histories
  <2>5. CASE TransientError(t) \/ PermanentError(t) \/ PoolTimeout(t)
    BY <2>1, <2>5 DEF TransientError, PermanentError, PoolTimeout
  <2>6. CASE LostAck(t)
    BY <1>0, <2>6 DEF LostAck, Histories
  <2> QED BY <2>2, <2>3, <2>4, <2>5, <2>6
          DEF RecStep, Progress, Faults, Checkout, WakeUp, Merge
<1>5. rec' \in [Tasks -> Recordings] /\ SleepsWithTryLeft'
  <2>1. SUFFICES ASSUME NEW r \in Recordings,
                        rec' = [rec EXCEPT ![t] = r],
                        r.step = "sleep" => r.intento < MaxIntentos
                 PROVE  rec' \in [Tasks -> Recordings] /\ SleepsWithTryLeft'
    <3>1. CASE Checkout(t)
      <4>1. [rec[t] EXCEPT !.step = "connected"] \in Recordings
        BY <1>0, SetStep DEF Steps
      <4>2. [rec[t] EXCEPT !.step = "connected"].step # "sleep"
        BY <1>0 DEF Recordings
      <4> QED BY <2>1, <3>1, <4>1, <4>2 DEF Checkout
    <3>2. CASE Merge(t)
      <4> DEFINE a == [rec[t] EXCEPT !.step = "merged"]
                 b == [a EXCEPT !.seen = usage[rec[t].key][rec[t].day]]
      <4>1. usage[rec[t].key][rec[t].day] \in Nat
        BY <1>0 DEF Recordings
      <4>2. a \in Recordings
        BY <1>0, SetStep DEF Steps
      <4>3. b \in Recordings
        BY <4>1, <4>2, SetSeen
      <4>4. b.step # "sleep"
        BY <1>0 DEF Recordings
      <4>5. rec' = [rec EXCEPT ![t] = b]
        BY <3>2 DEF Merge
      <4> QED BY <2>1, <4>3, <4>4, <4>5
    <3>3. CASE WakeUp(t)
      <4> DEFINE a == [rec[t] EXCEPT !.step = "waiting"]
                 b == [a EXCEPT !.day = today]
                 c == [b EXCEPT !.intento = rec[t].intento + 1]
      <4>1. rec[t].intento + 1 \in 1..MaxIntentos
        BY <1>0, <3>3 DEF WakeUp, SleepsWithTryLeft, Recordings, MaxIntentos
      <4>2. a \in Recordings
        BY <1>0, SetStep DEF Steps
      <4>3. b \in Recordings
        BY <4>2, SetDay
      <4>4. c \in Recordings
        BY <4>1, <4>3, SetIntento
      <4>5. c.step # "sleep"
        BY <1>0 DEF Recordings
      <4>6. rec' = [rec EXCEPT ![t] = c]
        BY <3>3 DEF WakeUp
      <4> QED BY <2>1, <4>4, <4>5, <4>6
    <3>4. CASE rec' = [rec EXCEPT ![t] = NextPhase(rec[t])]
      BY <1>0, <2>1, <3>4, NextPhaseFacts
    <3>5. CASE rec' = [rec EXCEPT ![t] = AfterTransient(rec[t])]
      BY <1>0, <2>1, <3>5, NextPhaseFacts, AfterTransientFacts
    <3> QED BY <3>1, <3>2, <3>3, <3>4, <3>5
            DEF RecStep, Progress, Faults, PoolTimeout, CommitUsage, CommitLog,
                TransientError, PermanentError, LostAck
  <2> QED BY <2>1 DEF SleepsWithTryLeft
<1> QED BY <1>1, <1>2, <1>3, <1>4, <1>5

(* Every reachable state of the recorder is well typed: tries, days and    *)
(* the number of connections stay within their bounds.                     *)
THEOREM RecTypeCorrect == RecSpec => []RecTypeOK
<1>1. RecInit => TypeInv
  BY TypeInit
<1>2. TypeInv /\ [RecNext]_recVars => TypeInv'
  <2> SUFFICES ASSUME TypeInv, [RecNext]_recVars PROVE TypeInv'
    OBVIOUS
  <2>1. CASE UNCHANGED recVars
    BY <2>1 DEF recVars, TypeInv, RecTypeOK, SleepsWithTryLeft
  <2>2. CASE RecNext
    BY <2>2, TypeBegin, TypeStep, TypeMidnight DEF RecNext
  <2> QED BY <2>1, <2>2
<1>3. TypeInv => RecTypeOK
  BY DEF TypeInv
<1> QED BY <1>1, <1>2, <1>3, PTL DEF RecSpec

-----------------------------------------------------------------------------
(* What one step of one recording touches                                  *)

(* The recordings are isolated: a step of one leaves alone the others,     *)
(* their connections and the day.                                          *)
LEMMA StepFrame ==
  ASSUME TypeInv, NEW t \in Tasks, RecStep(t)
  PROVE  /\ today' = today
         /\ \A u \in Tasks \ {t} :
              /\ rec'[u] = rec[u]
              /\ hist'[u] = hist[u]
              /\ \A s \in Sessions : <<u, s>> \in pool' <=> <<u, s>> \in pool
         /\ <<t, "request">> \in pool' <=> <<t, "request">> \in pool
<1> USE DEF TypeInv, RecTypeOK
<1>1. today' = today
  BY DEF RecStep, Progress, Faults, Checkout, PoolTimeout, CommitUsage,
         CommitLog, WakeUp, Merge, TransientError, PermanentError, LostAck
<1>2. ASSUME NEW u \in Tasks \ {t} PROVE rec'[u] = rec[u] /\ hist'[u] = hist[u]
  BY <1>2
     DEF RecStep, Progress, Faults, Checkout, PoolTimeout, CommitUsage,
         CommitLog, WakeUp, Merge, TransientError, PermanentError, LostAck
<1>3. pool' = pool \/ pool' = pool \ {Connection(t)} \/ pool' = pool \cup {Connection(t)}
  BY DEF RecStep, Progress, Faults, Checkout, PoolTimeout, CommitUsage,
         CommitLog, WakeUp, Merge, TransientError, PermanentError, LostAck,
         ReleaseConnection
<1>4. ASSUME NEW u \in Tasks \ {t}, NEW s \in Sessions
      PROVE  <<u, s>> \in pool' <=> <<u, s>> \in pool
  BY <1>3, <1>4 DEF Connection
<1>5. <<t, "request">> \in pool' <=> <<t, "request">> \in pool
  BY <1>3 DEF Connection
<1> QED BY <1>1, <1>2, <1>4, <1>5

(* What each way on from a try leaves of the recording: the key, the       *)
(* tokens and the day it began are never touched.                          *)
SameJob(r, s) == r.key = s.key /\ r.tokens = s.tokens /\ r.since = s.since

LEMMA CheckoutFacts ==
  ASSUME TypeInv, NEW t \in Tasks, Checkout(t)
  PROVE  /\ rec[t].step = "waiting"
         /\ rec'[t].phase = rec[t].phase
         /\ rec'[t].step = "connected"
         /\ rec'[t].intento = rec[t].intento
         /\ rec'[t].day = rec[t].day
         /\ SameJob(rec'[t], rec[t])
BY DEF TypeInv, RecTypeOK, Checkout, Waiting, SameJob, Recordings

LEMMA MergeFacts ==
  ASSUME TypeInv, NEW t \in Tasks, Merge(t)
  PROVE  /\ rec'[t].phase = "usage"
         /\ rec'[t].step = "merged"
         /\ rec'[t].intento = rec[t].intento
         /\ rec'[t].day = rec[t].day
         /\ rec'[t].seen = usage[rec[t].key][rec[t].day]
         /\ SameJob(rec'[t], rec[t])
BY DEF TypeInv, RecTypeOK, Merge, SameJob, Recordings

LEMMA WakeUpFacts ==
  ASSUME TypeInv, NEW t \in Tasks, WakeUp(t)
  PROVE  /\ rec[t].step = "sleep"
         /\ rec'[t].phase = rec[t].phase
         /\ rec'[t].step = "waiting"
         /\ rec'[t].intento = rec[t].intento + 1
         /\ rec'[t].day = today
         /\ SameJob(rec'[t], rec[t])
BY DEF TypeInv, RecTypeOK, WakeUp, SameJob, Recordings

(* The phase ends: committed, or given up.                                 *)
EndsPhase(t) ==
  CommitUsage(t) \/ CommitLog(t) \/ PermanentError(t) \/ PoolTimeout(t)

LEMMA EndsPhaseFacts ==
  ASSUME TypeInv, NEW t \in Tasks, EndsPhase(t)
  PROVE  /\ rec'[t] = NextPhase(rec[t])
         /\ rec[t].phase \in {"usage", "log"}
         /\ rec[t].phase = "usage" => rec'[t].phase = "log" /\ rec'[t].step = "waiting"
         /\ rec[t].phase = "log" => rec'[t].phase = "done" /\ rec'[t].step = "idle"
         /\ SameJob(rec'[t], rec[t])
<1>1. rec'[t] = NextPhase(rec[t]) /\ rec[t] \in Recordings
  BY DEF EndsPhase, TypeInv, RecTypeOK, CommitUsage, CommitLog, PermanentError,
         PoolTimeout
<1>2. rec[t].phase \in {"usage", "log"}
  BY DEF EndsPhase, CommitUsage, CommitLog, PermanentError, PoolTimeout,
         Waiting, InTransaction, Recording
<1> QED BY <1>1, <1>2, NextPhaseFacts DEF SameJob

(* The try failed with a transient error, applied or not.                  *)
FailsTry(t) == TransientError(t) \/ LostAck(t)

LEMMA FailsTryFacts ==
  ASSUME TypeInv, NEW t \in Tasks, FailsTry(t)
  PROVE  /\ rec'[t] = AfterTransient(rec[t])
         /\ rec[t].phase \in {"usage", "log"}
         /\ rec[t].step # "sleep"
         /\ rec[t].intento \in 1..MaxIntentos
         /\ rec[t].intento < MaxIntentos =>
              /\ rec'[t].phase = rec[t].phase
              /\ rec'[t].step = "sleep"
              /\ rec'[t].intento = rec[t].intento
              /\ rec'[t].day = rec[t].day
         /\ ~ (rec[t].intento < MaxIntentos) =>
              /\ rec'[t] = NextPhase(rec[t])
              /\ rec[t].phase = "usage" => rec'[t].phase = "log" /\ rec'[t].step = "waiting"
              /\ rec[t].phase = "log" => rec'[t].phase = "done" /\ rec'[t].step = "idle"
         /\ SameJob(rec'[t], rec[t])
<1>1. rec'[t] = AfterTransient(rec[t]) /\ rec[t] \in Recordings
  BY DEF FailsTry, TypeInv, RecTypeOK, TransientError, LostAck
<1>2. rec[t].phase \in {"usage", "log"} /\ rec[t].step # "sleep"
  BY DEF FailsTry, TransientError, LostAck, Waiting, InTransaction, Recording
<1>3. rec[t].intento \in 1..MaxIntentos
  BY <1>1 DEF Recordings
<1> QED BY <1>1, <1>2, <1>3, NextPhaseFacts, AfterTransientFacts DEF SameJob

(* A step of a recording is one of these.                                  *)
LEMMA StepCases ==
  ASSUME NEW t \in Tasks, RecStep(t)
  PROVE  Checkout(t) \/ Merge(t) \/ WakeUp(t) \/ EndsPhase(t) \/ FailsTry(t)
BY DEF RecStep, Progress, Faults, EndsPhase, FailsTry

LEMMA BeginFacts ==
  ASSUME TypeInv,
         NEW t \in Tasks, NEW k \in Keys, NEW n \in 0..MaxTokens, Begin(t, k, n)
  PROVE  /\ rec[t].phase = "off"
         /\ rec'[t] = Started(k, n)
         /\ rec'[t].phase = IF n > 0 THEN "usage" ELSE "log"
         /\ rec'[t].step = "waiting"
         /\ rec'[t].intento = 1
         /\ rec'[t].key = k
         /\ rec'[t].tokens = n
         /\ rec'[t].day = today
         /\ rec'[t].since = today
         /\ hist'[t] = NoHistory
         /\ \A u \in Tasks \ {t} : rec'[u] = rec[u] /\ hist'[u] = hist[u]
         /\ UNCHANGED <<today, usage, pool>>
<1>1. today \in Days /\ rec \in [Tasks -> Recordings]
  BY DEF TypeInv, RecTypeOK
<1>2. rec'[t] = Started(k, n)
  BY <1>1 DEF Begin
<1> QED BY <1>1, <1>2, StartedFacts DEF Begin, TypeInv, RecTypeOK

-----------------------------------------------------------------------------
(* Connections                                                             *)

LEMMA ConnectionStep ==
  ASSUME TypeInv, ConnectionOnlyInTransaction, NEW t \in Tasks, RecStep(t)
  PROVE  ConnectionOnlyInTransaction'
<1>0. "recorder" \in Sessions
  BY DEF Sessions
<1>1. ASSUME NEW u \in Tasks \ {t}
      PROVE  (Connection(u) \in pool <=> InTransaction(u))'
  <2>1. rec'[u] = rec[u] /\ (Connection(u) \in pool' <=> Connection(u) \in pool)
    BY <1>0, <1>1, StepFrame DEF Connection
  <2> QED BY <2>1 DEF ConnectionOnlyInTransaction, InTransaction, Recording, Connection
<1>2. (Connection(t) \in pool <=> InTransaction(t))'
  <2>1. CASE Checkout(t)
    BY <2>1, CheckoutFacts
       DEF Checkout, Waiting, InTransaction, Recording, Connection
  <2>2. CASE Merge(t)
    BY <2>2, MergeFacts
       DEF Merge, ConnectionOnlyInTransaction, InTransaction, Recording, Connection
  <2>3. CASE WakeUp(t)
    BY <2>3, WakeUpFacts
       DEF WakeUp, ConnectionOnlyInTransaction, InTransaction, Recording, Connection
  <2>4. CASE EndsPhase(t)
    <3>1. ~ InTransaction(t)'
      BY <2>4, EndsPhaseFacts DEF InTransaction, Recording
    <3>2. Connection(t) \notin pool'
      BY <2>4 DEF EndsPhase, CommitUsage, CommitLog, PermanentError, PoolTimeout,
                  ReleaseConnection, ConnectionOnlyInTransaction, Waiting,
                  InTransaction
    <3> QED BY <3>1, <3>2 DEF Connection
  <2>5. CASE FailsTry(t)
    <3>1. ~ InTransaction(t)'
      BY <2>5, FailsTryFacts DEF InTransaction, Recording
    <3>2. Connection(t) \notin pool'
      BY <2>5 DEF FailsTry, TransientError, LostAck, ReleaseConnection
    <3> QED BY <3>1, <3>2 DEF Connection
  <2> QED BY <2>1, <2>2, <2>3, <2>4, <2>5, StepCases
<1> QED BY <1>1, <1>2 DEF ConnectionOnlyInTransaction

LEMMA ConnectionBegin ==
  ASSUME TypeInv, ConnectionOnlyInTransaction,
         NEW t \in Tasks, NEW k \in Keys, NEW n \in 0..MaxTokens, Begin(t, k, n)
  PROVE  ConnectionOnlyInTransaction'
<1>1. ASSUME NEW u \in Tasks \ {t}
      PROVE  (Connection(u) \in pool <=> InTransaction(u))'
  BY <1>1, BeginFacts
     DEF ConnectionOnlyInTransaction, InTransaction, Recording, Connection
<1>2. ~ InTransaction(t) /\ ~ InTransaction(t)'
  BY BeginFacts DEF InTransaction, Recording
<1>3. (Connection(t) \in pool <=> InTransaction(t))'
  BY <1>2, BeginFacts DEF ConnectionOnlyInTransaction, Connection
<1> QED BY <1>1, <1>3 DEF ConnectionOnlyInTransaction

(* No try leaks its connection and none is held through a sleep, whatever  *)
(* the outcomes of the tries: `async with session` in _con_reintentos.     *)
THEOREM ConnectionsReturned == RecSpec => []ConnectionOnlyInTransaction
<1> DEFINE Inv == TypeInv /\ ConnectionOnlyInTransaction
<1>1. RecInit => Inv
  BY TypeInit
     DEF RecInit, ConnectionOnlyInTransaction, InTransaction, Recording, Unrecorded
<1>2. Inv /\ [RecNext]_recVars => Inv'
  <2> SUFFICES ASSUME Inv, [RecNext]_recVars PROVE Inv'
    OBVIOUS
  <2>1. CASE UNCHANGED recVars
    BY <2>1 DEF recVars, TypeInv, RecTypeOK, SleepsWithTryLeft,
                ConnectionOnlyInTransaction, InTransaction, Recording, Connection
  <2>2. CASE Midnight
    BY <2>2, TypeMidnight
       DEF Midnight, ConnectionOnlyInTransaction, InTransaction, Recording, Connection
  <2>3. ASSUME NEW t \in Tasks, NEW k \in Keys, NEW n \in 0..MaxTokens, Begin(t, k, n)
        PROVE  Inv'
    BY <2>3, TypeBegin, ConnectionBegin
  <2>4. ASSUME NEW t \in Tasks, RecStep(t)
        PROVE  Inv'
    BY <2>4, TypeStep, ConnectionStep
  <2> QED BY <2>1, <2>2, <2>3, <2>4 DEF RecNext
<1>3. Inv => ConnectionOnlyInTransaction
  OBVIOUS
<1> QED BY <1>1, <1>2, <1>3, PTL DEF RecSpec

-----------------------------------------------------------------------------
(* At most one charge                                                      *)

(* Without lost acknowledgements a recording still in its usage phase has  *)
(* charged nothing, so that a retry of that phase cannot charge twice.     *)
UsagePhaseUncharged ==
  \A t \in Tasks : rec[t].phase = "usage" => hist[t].charges = 0

ChargeInv == UsagePhaseUncharged /\ ChargedAtMostOnce

LEMMA ChargeStep ==
  ASSUME ~ LostAcks, TypeInv, ChargeInv, NEW t \in Tasks, RecStep(t)
  PROVE  ChargeInv'
<1> USE DEF ChargeInv, UsagePhaseUncharged, ChargedAtMostOnce
<1>0. hist[t] \in Histories /\ hist \in [Tasks -> Histories]
  BY DEF TypeInv, RecTypeOK
<1>1. ASSUME NEW u \in Tasks \ {t}
      PROVE  /\ rec'[u].phase = "usage" => hist'[u].charges = 0
             /\ hist'[u].charges <= 1
  BY <1>1, StepFrame
<1>2. /\ rec'[t].phase = "usage" => hist'[t].charges = 0
      /\ hist'[t].charges <= 1
  <2>1. CASE Checkout(t) \/ Merge(t) \/ WakeUp(t)
    BY <2>1, CheckoutFacts, MergeFacts, WakeUpFacts DEF Checkout, Merge, WakeUp
  <2>2. CASE CommitUsage(t)
    <3>1. rec[t].phase = "usage" /\ rec'[t].phase = "log"
      BY <2>2, EndsPhaseFacts DEF EndsPhase, CommitUsage
    <3>2. hist'[t].charges = hist[t].charges + 1
      BY <1>0, <2>2 DEF CommitUsage, Histories
    <3> QED BY <3>1, <3>2
  <2>3. CASE CommitLog(t)
    <3>1. rec'[t].phase = "done"
      BY <2>3, EndsPhaseFacts DEF EndsPhase, CommitLog
    <3>2. hist'[t].charges = hist[t].charges
      BY <1>0, <2>3 DEF CommitLog, Histories
    <3> QED BY <3>1, <3>2
  <2>4. CASE PermanentError(t) \/ PoolTimeout(t)
    <3>1. rec'[t].phase # "usage"
      BY <2>4, EndsPhaseFacts DEF EndsPhase
    <3>2. hist'[t].charges = hist[t].charges
      BY <1>0, <2>4 DEF PermanentError, PoolTimeout, Faulted, Histories
    <3> QED BY <3>1, <3>2
  <2>5. CASE TransientError(t)
    <3>1. rec'[t].phase = rec[t].phase \/ rec'[t].phase # "usage"
      BY <2>5, FailsTryFacts DEF FailsTry
    <3>2. hist'[t].charges = hist[t].charges
      BY <1>0, <2>5 DEF TransientError, Faulted, Histories
    <3> QED BY <3>1, <3>2
  <2> QED BY <2>1, <2>2, <2>3, <2>4, <2>5
          DEF RecStep, Progress, Faults, LostAck
<1> QED BY <1>1, <1>2

LEMMA ChargeBegin ==
  ASSUME TypeInv, ChargeInv,
         NEW t \in Tasks, NEW k \in Keys, NEW n \in 0..MaxTokens, Begin(t, k, n)
  PROVE  ChargeInv'
BY BeginFacts DEF ChargeInv, UsagePhaseUncharged, ChargedAtMostOnce, NoHistory

(* As long as the server's answer to a COMMIT is not lost, no interleaving *)
(* of retries, failures and other recordings charges a request twice.      *)
THEOREM NeverChargedTwice == ~ LostAcks /\ RecSpec => []ChargedAtMostOnce
<1> DEFINE Inv == TypeInv /\ ChargeInv
<1> SUFFICES ASSUME ~ LostAcks PROVE RecSpec => []ChargedAtMostOnce
  BY DEF RecSpec
<1>1. RecInit => Inv
  BY TypeInit
     DEF RecInit, ChargeInv, UsagePhaseUncharged, ChargedAtMostOnce, NoHistory
<1>2. Inv /\ [RecNext]_recVars => Inv'
  <2> SUFFICES ASSUME Inv, [RecNext]_recVars PROVE Inv'
    OBVIOUS
  <2>1. CASE UNCHANGED recVars
    BY <2>1 DEF recVars, TypeInv, RecTypeOK, SleepsWithTryLeft, ChargeInv,
                UsagePhaseUncharged, ChargedAtMostOnce
  <2>2. CASE Midnight
    BY <2>2, TypeMidnight
       DEF Midnight, ChargeInv, UsagePhaseUncharged, ChargedAtMostOnce
  <2>3. ASSUME NEW t \in Tasks, NEW k \in Keys, NEW n \in 0..MaxTokens, Begin(t, k, n)
        PROVE  Inv'
    BY <2>3, TypeBegin, ChargeBegin
  <2>4. ASSUME NEW t \in Tasks, RecStep(t)
        PROVE  Inv'
    BY <2>4, TypeStep, ChargeStep
  <2> QED BY <2>1, <2>2, <2>3, <2>4 DEF RecNext
<1>3. Inv => ChargedAtMostOnce
  BY DEF ChargeInv
<1> QED BY <1>1, <1>2, <1>3, PTL DEF RecSpec

-----------------------------------------------------------------------------
(* Losing a charge                                                         *)

(* In its usage phase a recording has met one transient fault per try that *)
(* is over, and no other error.                                            *)
FaultsCounted ==
  \A t \in Tasks :
    rec[t].phase = "usage" =>
      /\ hist[t].errors = 0
      /\ hist[t].faults =
           IF rec[t].step = "sleep" THEN rec[t].intento ELSE rec[t].intento - 1

LossInv == FaultsCounted /\ LostOnlyWhenExhausted

(* LossInv for one recording. *)
FaultsCountedFor(r, h) ==
  r.phase = "usage" =>
    /\ h.errors = 0
    /\ h.faults = IF r.step = "sleep" THEN r.intento ELSE r.intento - 1

ExhaustedFor(r, h) ==
  r.phase \in {"log", "done"} /\ r.tokens > 0 /\ h.charges = 0
    => h.errors > 0 \/ h.faults = MaxIntentos

LEMMA LossByRecording ==
  LossInv <=> \A t \in Tasks : /\ FaultsCountedFor(rec[t], hist[t])
                               /\ ExhaustedFor(rec[t], hist[t])
BY DEF LossInv, FaultsCounted, LostOnlyWhenExhausted, FaultsCountedFor, ExhaustedFor

(* A fault met in the usage phase is counted, one met in the log phase is  *)
(* not.                                                                    *)
LEMMA FaultedFacts ==
  ASSUME NEW t \in Tasks, hist[t] \in Histories
  PROVE  /\ rec[t].phase # "usage" => Faulted(t, TRUE) = hist[t] /\ Faulted(t, FALSE) = hist[t]
         /\ rec[t].phase = "usage" =>
              /\ Faulted(t, TRUE).faults = hist[t].faults + 1
              /\ Faulted(t, TRUE).errors = hist[t].errors
              /\ Faulted(t, FALSE).errors = hist[t].errors + 1
BY DEF Faulted, Histories

LEMMA LossStep ==
  ASSUME TypeInv, LossInv, NEW t \in Tasks, RecStep(t)
  PROVE  LossInv'
<1>0. /\ hist[t] \in Histories /\ hist \in [Tasks -> Histories]
      /\ rec[t] \in Recordings /\ rec[t].intento \in 1..3
  BY DEF TypeInv, RecTypeOK, Recordings, MaxIntentos
<1>1. /\ FaultsCountedFor(rec[t], hist[t])
      /\ ExhaustedFor(rec[t], hist[t])
  BY LossByRecording
<1>2. ASSUME NEW u \in Tasks \ {t}
      PROVE  FaultsCountedFor(rec'[u], hist'[u]) /\ ExhaustedFor(rec'[u], hist'[u])
  BY <1>2, LossByRecording, StepFrame
<1>3. FaultsCountedFor(rec'[t], hist'[t]) /\ ExhaustedFor(rec'[t], hist'[t])
  <2> USE DEF FaultsCountedFor, ExhaustedFor
  <2>1. CASE Checkout(t)
    BY <1>0, <1>1, <2>1, CheckoutFacts DEF Checkout, SameJob
  <2>2. CASE Merge(t)
    BY <1>0, <1>1, <2>2, MergeFacts DEF Merge, SameJob
  <2>3. CASE WakeUp(t)
    <3>1. hist'[t] = hist[t]
      BY <2>3 DEF WakeUp
    <3>2. FaultsCountedFor(rec'[t], hist'[t])
      <4>1. CASE rec[t].phase = "usage"
        <5>1. hist[t].faults = rec[t].intento /\ hist[t].errors = 0
          BY <1>1, <2>3, <4>1, WakeUpFacts
        <5>2. rec'[t].intento - 1 = rec[t].intento /\ rec'[t].step = "waiting"
          BY <1>0, <2>3, WakeUpFacts
        <5> QED BY <3>1, <5>1, <5>2
      <4> QED BY <2>3, <4>1, WakeUpFacts
    <3>3. ExhaustedFor(rec'[t], hist'[t])
      BY <1>1, <2>3, <3>1, WakeUpFacts DEF SameJob
    <3> QED BY <3>2, <3>3
  <2>4. CASE CommitUsage(t)
    <3>1. rec'[t].phase = "log"
      BY <2>4, EndsPhaseFacts DEF EndsPhase, CommitUsage
    <3>2. hist'[t].charges = hist[t].charges + 1 /\ hist[t].charges \in Nat
      BY <1>0, <2>4 DEF CommitUsage, Histories
    <3> QED BY <3>1, <3>2
  <2>5. CASE CommitLog(t)
    <3>1. rec[t].phase = "log" /\ rec'[t].phase = "done" /\ SameJob(rec'[t], rec[t])
      BY <2>5, EndsPhaseFacts DEF EndsPhase, CommitLog
    <3>2. /\ hist'[t].charges = hist[t].charges
          /\ hist'[t].faults = hist[t].faults
          /\ hist'[t].errors = hist[t].errors
      BY <1>0, <2>5 DEF CommitLog, Histories
    <3> QED BY <1>1, <3>1, <3>2 DEF SameJob
  <2>6. CASE PermanentError(t) \/ PoolTimeout(t)
    <3>1. /\ rec[t].phase = "usage" => rec'[t].phase = "log"
          /\ rec[t].phase = "log" => rec'[t].phase = "done"
          /\ rec[t].phase \in {"usage", "log"}
          /\ SameJob(rec'[t], rec[t])
      BY <2>6, EndsPhaseFacts DEF EndsPhase
    <3>2. hist'[t] = Faulted(t, FALSE)
      BY <1>0, <2>6 DEF PermanentError, PoolTimeout
    <3>3. CASE rec[t].phase = "usage"
      <4>1. hist'[t].errors = hist[t].errors + 1 /\ hist[t].errors = 0
        BY <1>0, <1>1, <3>2, <3>3, FaultedFacts
      <4>2. hist'[t].errors > 0
        BY <4>1
      <4> QED BY <3>1, <3>3, <4>2
    <3>4. CASE rec[t].phase = "log"
      BY <1>0, <1>1, <3>1, <3>2, <3>4, FaultedFacts DEF SameJob
    <3> QED BY <3>1, <3>3, <3>4
  <2>7. CASE TransientError(t)
    <3>1. hist'[t] = Faulted(t, TRUE)
      BY <1>0, <2>7 DEF TransientError
    <3>2. CASE rec[t].phase = "usage"
      <4>1. /\ hist'[t].faults = hist[t].faults + 1
            /\ hist'[t].errors = hist[t].errors
        BY <1>0, <3>1, <3>2, FaultedFacts
      <4>2. hist[t].faults = rec[t].intento - 1 /\ hist[t].errors = 0
        BY <1>1, <2>7, <3>2, FailsTryFacts DEF FailsTry
      <4>3. hist'[t].faults = rec[t].intento /\ hist'[t].errors = 0
        BY <1>0, <4>1, <4>2
      <4>4. CASE rec[t].intento < MaxIntentos
        BY <2>7, <3>2, <4>3, <4>4, FailsTryFacts DEF FailsTry
      <4>5. CASE ~ (rec[t].intento < MaxIntentos)
        <5>1. rec[t].intento = MaxIntentos
          BY <1>0, <4>5 DEF MaxIntentos
        <5>2. rec'[t].phase = "log"
          BY <2>7, <3>2, <4>5, FailsTryFacts DEF FailsTry
        <5> QED BY <4>3, <5>1, <5>2
      <4> QED BY <4>4, <4>5
    <3>3. CASE rec[t].phase = "log"
      BY <1>0, <1>1, <2>7, <3>1, <3>3, FaultedFacts, FailsTryFacts
         DEF FailsTry, SameJob
    <3> QED BY <2>7, <3>2, <3>3, FailsTryFacts DEF FailsTry
  <2>8. CASE LostAck(t)
    <3>1. CASE rec[t].phase = "usage"
      <4>1. /\ hist'[t].charges = hist[t].charges + 1 /\ hist[t].charges \in Nat
            /\ hist'[t].faults = hist[t].faults + 1
            /\ hist'[t].errors = hist[t].errors
        BY <1>0, <2>8, <3>1 DEF LostAck, Histories
      <4> QED BY <1>0, <1>1, <2>8, <3>1, <4>1, FailsTryFacts DEF FailsTry
    <3>2. CASE rec[t].phase = "log"
      <4>1. /\ hist'[t].charges = hist[t].charges
            /\ hist'[t].faults = hist[t].faults
            /\ hist'[t].errors = hist[t].errors
        BY <1>0, <2>8, <3>2 DEF LostAck, Histories
      <4> QED BY <1>1, <2>8, <3>2, <4>1, FailsTryFacts DEF FailsTry, SameJob
    <3> QED BY <2>8, <3>1, <3>2, FailsTryFacts DEF FailsTry
  <2> QED BY <2>1, <2>2, <2>3, <2>4, <2>5, <2>6, <2>7, <2>8
          DEF RecStep, Progress, Faults
<1> QED BY <1>2, <1>3 DEF LossInv, FaultsCounted, LostOnlyWhenExhausted,
                          FaultsCountedFor, ExhaustedFor

LEMMA LossBegin ==
  ASSUME TypeInv, LossInv,
         NEW t \in Tasks, NEW k \in Keys, NEW n \in 0..MaxTokens, Begin(t, k, n)
  PROVE  LossInv'
BY BeginFacts DEF LossInv, FaultsCounted, LostOnlyWhenExhausted, NoHistory

(* A charge is lost only after three transient faults or an error that is  *)
(* not retried, even if acknowledgements are lost.                         *)
THEOREM LostOnlyAfterThreeTries == RecSpec => []LostOnlyWhenExhausted
<1> DEFINE Inv == TypeInv /\ LossInv
<1>1. RecInit => Inv
  BY TypeInit DEF RecInit, LossInv, FaultsCounted, LostOnlyWhenExhausted, Unrecorded
<1>2. Inv /\ [RecNext]_recVars => Inv'
  <2> SUFFICES ASSUME Inv, [RecNext]_recVars PROVE Inv'
    OBVIOUS
  <2>1. CASE UNCHANGED recVars
    BY <2>1 DEF recVars, TypeInv, RecTypeOK, SleepsWithTryLeft, LossInv,
                FaultsCounted, LostOnlyWhenExhausted
  <2>2. CASE Midnight
    BY <2>2, TypeMidnight DEF Midnight, LossInv, FaultsCounted, LostOnlyWhenExhausted
  <2>3. ASSUME NEW t \in Tasks, NEW k \in Keys, NEW n \in 0..MaxTokens, Begin(t, k, n)
        PROVE  Inv'
    BY <2>3, TypeBegin, LossBegin
  <2>4. ASSUME NEW t \in Tasks, RecStep(t)
        PROVE  Inv'
    BY <2>4, TypeStep, LossStep
  <2> QED BY <2>1, <2>2, <2>3, <2>4 DEF RecNext
<1>3. Inv => LostOnlyWhenExhausted
  BY DEF LossInv
<1> QED BY <1>1, <1>2, <1>3, PTL DEF RecSpec

-----------------------------------------------------------------------------
(* The row lock and the ledger                                             *)

(* What HOLDLOCK gives: one writer per row, whose reading stays current    *)
(* until its transaction ends.                                             *)
OneWriterPerRow ==
  \A t, u \in Tasks :
    /\ rec[t].phase = "usage" /\ rec[t].step = "merged"
    /\ rec[u].phase = "usage" /\ rec[u].step = "merged"
    /\ rec[t].key = rec[u].key
    /\ rec[t].day = rec[u].day
    => t = u

ReadingCurrent ==
  \A t \in Tasks :
    rec[t].phase = "usage" /\ rec[t].step = "merged"
      => rec[t].seen = usage[rec[t].key][rec[t].day]

(* The day to charge was read while the recording was under way.           *)
DayOfRecording ==
  \A t \in Tasks :
    rec[t].phase = "usage" => rec[t].since <= rec[t].day /\ rec[t].day <= today

RowInv == OneWriterPerRow /\ ReadingCurrent /\ DayOfRecording

(* A commit writes the row of its own key and day and no other.            *)
LEMMA ChargedFacts ==
  ASSUME TypeInv, NEW r \in Recordings
  PROVE  /\ Charged(r)[r.key][r.day] = r.seen + r.tokens
         /\ \A k \in Keys, d \in Days :
              ~ (k = r.key /\ d = r.day) => Charged(r)[k][d] = usage[k][d]
<1>1. r.key \in Keys /\ r.day \in Days
  BY DEF Recordings
<1>2. usage \in [Keys -> [Days -> Nat]]
  BY DEF TypeInv, RecTypeOK
<1> QED BY <1>1, <1>2 DEF Charged

(* Only a writer of a row changes the usage, and it stops being one.       *)
Writes(t) ==
  /\ rec[t].phase = "usage" /\ rec[t].step = "merged"
  /\ usage' = Charged(rec[t])
  /\ ~ (rec'[t].phase = "usage" /\ rec'[t].step = "merged")

LEMMA UsageStep ==
  ASSUME TypeInv, NEW t \in Tasks, RecStep(t)
  PROVE  usage' = usage \/ Writes(t)
<1>1. CASE CommitUsage(t)
  BY <1>1, EndsPhaseFacts DEF EndsPhase, CommitUsage, Writes
<1>2. CASE LostAck(t)
  <2>1. ~ (rec'[t].phase = "usage" /\ rec'[t].step = "merged")
    BY <1>2, FailsTryFacts DEF FailsTry
  <2> QED BY <1>2, <2>1 DEF LostAck, Writes
<1> QED BY <1>1, <1>2
        DEF RecStep, Progress, Faults, Checkout, PoolTimeout, CommitLog, WakeUp,
            Merge, TransientError, PermanentError

LEMMA RowStep ==
  ASSUME TypeInv, RowInv, NEW t \in Tasks, RecStep(t)
  PROVE  RowInv'
<1> USE DEF RowInv
<1>0. /\ \A u \in Tasks : rec[u] \in Recordings
      /\ \A u \in Tasks : rec[u].key \in Keys /\ rec[u].day \in Days
      /\ today \in Days /\ today' = today
  BY StepFrame DEF TypeInv, RecTypeOK, Recordings
<1>1. CASE Merge(t)
  <2>1. usage' = usage /\ RowFree(rec[t].key, rec[t].day) /\ rec[t].phase = "usage"
    BY <1>1 DEF Merge
  <2>2. /\ rec'[t].key = rec[t].key /\ rec'[t].day = rec[t].day
        /\ rec'[t].since = rec[t].since
        /\ rec'[t].seen = usage[rec[t].key][rec[t].day]
    BY <1>1, MergeFacts DEF SameJob
  <2>3. OneWriterPerRow'
    <3>1. \A u \in Tasks \ {t} : rec'[u] = rec[u]
      BY StepFrame
    <3>2. \A u \in Tasks :
            ~ /\ rec[u].phase = "usage" /\ rec[u].step = "merged"
              /\ rec[u].key = rec[t].key /\ rec[u].day = rec[t].day
      BY <2>1 DEF RowFree, LocksRow
    <3>3. SUFFICES ASSUME NEW u \in Tasks, NEW v \in Tasks, u # v,
                          rec'[u].phase = "usage", rec'[u].step = "merged",
                          rec'[v].phase = "usage", rec'[v].step = "merged",
                          rec'[u].key = rec'[v].key, rec'[u].day = rec'[v].day
                   PROVE  FALSE
      BY DEF OneWriterPerRow
    <3>4. CASE u = t
      BY <2>2, <3>1, <3>2, <3>3, <3>4
    <3>5. CASE v = t
      BY <2>2, <3>1, <3>2, <3>3, <3>5
    <3>6. CASE u # t /\ v # t
      BY <3>1, <3>3, <3>6 DEF OneWriterPerRow
    <3> QED BY <3>4, <3>5, <3>6
  <2>4. ReadingCurrent'
    BY <2>1, <2>2, StepFrame DEF ReadingCurrent
  <2>5. DayOfRecording'
    BY <1>0, <2>1, <2>2, StepFrame DEF DayOfRecording
  <2> QED BY <2>3, <2>4, <2>5
<1>2. CASE ~ Merge(t)
  <2>1. ~ (rec'[t].phase = "usage" /\ rec'[t].step = "merged")
    BY <1>2, StepCases, CheckoutFacts, WakeUpFacts, EndsPhaseFacts, FailsTryFacts
  <2>2. OneWriterPerRow'
    BY <2>1, StepFrame DEF OneWriterPerRow
  <2>3. ReadingCurrent'
    <3>1. CASE usage' = usage
      BY <2>1, <3>1, StepFrame DEF ReadingCurrent
    <3>2. CASE Writes(t)
      <4>1. SUFFICES ASSUME NEW u \in Tasks \ {t},
                            rec[u].phase = "usage", rec[u].step = "merged"
                     PROVE  rec[u].seen = usage'[rec[u].key][rec[u].day]
        BY <2>1, StepFrame DEF ReadingCurrent
      <4>2. ~ (rec[u].key = rec[t].key /\ rec[u].day = rec[t].day)
        BY <3>2, <4>1 DEF OneWriterPerRow, Writes
      <4>3. usage'[rec[u].key][rec[u].day] = usage[rec[u].key][rec[u].day]
        BY <1>0, <3>2, <4>2, ChargedFacts DEF Writes
      <4> QED BY <4>1, <4>3 DEF ReadingCurrent
    <3> QED BY <3>1, <3>2, UsageStep
  <2>4. DayOfRecording'
    <3>1. ASSUME rec'[t].phase = "usage"
          PROVE  rec'[t].since <= rec'[t].day /\ rec'[t].day <= today
      <4>1. CASE Checkout(t)
        BY <3>1, <4>1, CheckoutFacts DEF DayOfRecording, SameJob
      <4>2. CASE WakeUp(t)
        <5>1. rec[t].since \in Nat /\ rec[t].day \in Nat /\ today \in Nat
          BY <1>0 DEF Recordings, Days
        <5>2. rec[t].since <= rec[t].day /\ rec[t].day <= today
          BY <3>1, <4>2, WakeUpFacts DEF DayOfRecording
        <5>3. rec'[t].day = today /\ rec'[t].since = rec[t].since
          BY <4>2, WakeUpFacts DEF SameJob
        <5> QED BY <5>1, <5>2, <5>3
      <4>3. CASE EndsPhase(t)
        BY <3>1, <4>3, EndsPhaseFacts
      <4>4. CASE FailsTry(t)
        BY <3>1, <4>4, FailsTryFacts DEF DayOfRecording, SameJob
      <4> QED BY <1>2, <4>1, <4>2, <4>3, <4>4, StepCases
    <3> QED BY <1>0, <3>1, StepFrame DEF DayOfRecording
  <2> QED BY <2>2, <2>3, <2>4
<1> QED BY <1>1, <1>2

LEMMA RowBegin ==
  ASSUME TypeInv, RowInv,
         NEW t \in Tasks, NEW k \in Keys, NEW n \in 0..MaxTokens, Begin(t, k, n)
  PROVE  RowInv'
<1>1. today \in Nat
  BY DEF TypeInv, RecTypeOK, Days
<1>2. OneWriterPerRow' /\ ReadingCurrent'
  BY BeginFacts DEF RowInv, OneWriterPerRow, ReadingCurrent
<1>3. DayOfRecording'
  BY <1>1, BeginFacts DEF RowInv, DayOfRecording
<1> QED BY <1>2, <1>3 DEF RowInv

LEMMA RowMidnight ==
  ASSUME TypeInv, RowInv, Midnight
  PROVE  RowInv'
<1>1. /\ \A t \in Tasks : rec[t].day \in Nat
      /\ today \in Nat
  BY DEF TypeInv, RecTypeOK, Recordings, Days
<1>2. DayOfRecording'
  BY <1>1 DEF RowInv, DayOfRecording, Midnight
<1> QED BY <1>2 DEF RowInv, OneWriterPerRow, ReadingCurrent, Midnight

-----------------------------------------------------------------------------
(* The recorder implements the ledger                                      *)

EntryOf(r, charged) ==
  [state |-> EntryState(r, charged), key |-> r.key, tokens |-> r.tokens,
   since |-> r.since]

LEMMA EntryStateFacts ==
  ASSUME NEW r, NEW charged \in BOOLEAN
  PROVE  /\ r.phase = "off"   => EntryState(r, charged) = "none"
         /\ r.phase = "usage" => EntryState(r, charged) = "open"
         /\ r.phase = "log" /\ charged   => EntryState(r, charged) = "charged"
         /\ r.phase = "log" /\ ~ charged => EntryState(r, charged) = "dropped"
         /\ r.phase = "done"  => EntryState(r, charged) = "closed"
BY DEF EntryState

LEMMA EntriesFacts ==
  /\ Entries = [t \in Tasks |-> EntryOf(rec[t], WasCharged(t))]
  /\ \A t \in Tasks : Entries[t].state = EntryState(rec[t], WasCharged(t))
  /\ \A t \in Tasks : Entries[t].key = rec[t].key
  /\ \A t \in Tasks : Entries[t].tokens = rec[t].tokens
  /\ \A t \in Tasks : Entries[t].since = rec[t].since
BY DEF Entries, EntryOf

LEMMA WasChargedBoolean == \A t \in Tasks : WasCharged(t) \in BOOLEAN
BY DEF WasCharged

(* Without lost acknowledgements only the COMMIT of the usage phase counts *)
(* as a charge.                                                            *)
LEMMA WasChargedStep ==
  ASSUME ~ LostAcks, TypeInv, NEW t \in Tasks, RecStep(t)
  PROVE  /\ CommitUsage(t) => WasCharged(t)'
         /\ ~ CommitUsage(t) => WasCharged(t)' = WasCharged(t)
         /\ \A u \in Tasks \ {t} : hist'[u] = hist[u]
<1>1. hist[t] \in Histories /\ hist \in [Tasks -> Histories]
  BY DEF TypeInv, RecTypeOK
<1>2. ASSUME CommitUsage(t) PROVE WasCharged(t)'
  <2>1. hist'[t].charges = hist[t].charges + 1 /\ hist[t].charges \in Nat
    BY <1>1, <1>2 DEF CommitUsage, Histories
  <2> QED BY <2>1 DEF WasCharged
<1>3. ASSUME ~ CommitUsage(t) PROVE hist'[t].charges = hist[t].charges
  BY <1>1, <1>3
     DEF RecStep, Progress, Faults, Checkout, PoolTimeout, CommitLog, WakeUp, Merge,
         TransientError, PermanentError, LostAck, Faulted, Histories
<1> QED BY <1>2, <1>3, StepFrame DEF WasCharged

(* A step of a recording changes the state of its own entry at most.       *)
LEMMA EntriesStep ==
  ASSUME ~ LostAcks, TypeInv, NEW t \in Tasks, RecStep(t)
  PROVE  /\ Entries' = [Entries EXCEPT ![t].state =
                          EntryState(rec'[t], WasCharged(t)')]
         /\ rec'[t].phase = rec[t].phase /\ ~ CommitUsage(t) => Entries' = Entries
<1>1. SameJob(rec'[t], rec[t])
  BY StepCases, CheckoutFacts, MergeFacts, WakeUpFacts, EndsPhaseFacts, FailsTryFacts
<1>2. \A u \in Tasks \ {t} : rec'[u] = rec[u] /\ hist'[u] = hist[u]
  BY StepFrame
<1>3. Entries' = [u \in Tasks |-> EntryOf(rec'[u], WasCharged(u)')]
  BY DEF Entries, EntryOf
<1>4. EntryOf(rec'[t], WasCharged(t)')
        = [Entries[t] EXCEPT !.state = EntryState(rec'[t], WasCharged(t)')]
  BY <1>1 DEF EntryOf, Entries, SameJob
<1>5. \A u \in Tasks \ {t} : EntryOf(rec'[u], WasCharged(u)') = Entries[u]
  BY <1>2, EntriesFacts DEF WasCharged
<1>6. Entries' = [Entries EXCEPT ![t].state = EntryState(rec'[t], WasCharged(t)')]
  BY <1>3, <1>4, <1>5, EntriesFacts
<1>7. ASSUME rec'[t].phase = rec[t].phase, ~ CommitUsage(t) PROVE Entries' = Entries
  <2>1. WasCharged(t)' = WasCharged(t)
    BY <1>7, WasChargedStep
  <2>2. EntryState(rec'[t], WasCharged(t)') = EntryState(rec[t], WasCharged(t))
    BY <1>7, <2>1 DEF EntryState
  <2>3. EntryOf(rec'[t], WasCharged(t)') = EntryOf(rec[t], WasCharged(t))
    BY <1>1, <2>2 DEF EntryOf, SameJob
  <2> QED BY <1>3, <1>5, <2>3, EntriesFacts
<1> QED BY <1>6, <1>7

(* The commit of a usage phase is a charge of the ledger: the reading made *)
(* under the row lock is current, so the tokens are added to the row.      *)
LEMMA CommitIsCharge ==
  ASSUME ~ LostAcks, TypeInv, RowInv, NEW t \in Tasks, CommitUsage(t)
  PROVE  L!Charge(t)
<1>1. RecStep(t) /\ rec[t].phase = "usage" /\ rec[t].step = "merged" /\ today' = today
  BY DEF CommitUsage, RecStep, Progress
<1>2. rec[t] \in Recordings /\ usage \in [Keys -> [Days -> Nat]]
  BY DEF TypeInv, RecTypeOK
<1>3. rec[t].day \in Days /\ rec[t].key \in Keys
  BY <1>2 DEF Recordings
<1>4. rec'[t].phase = "log" /\ WasCharged(t)'
  BY <1>1, EndsPhaseFacts, WasChargedStep DEF EndsPhase
<1>5. Entries' = [Entries EXCEPT ![t].state = "charged"]
  <2>1. EntryState(rec'[t], WasCharged(t)') = "charged"
    BY <1>4 DEF EntryState
  <2> QED BY <1>1, <2>1, EntriesStep
<1>6. rec[t].seen = usage[rec[t].key][rec[t].day]
  BY <1>1 DEF RowInv, ReadingCurrent
<1>7. usage' = [usage EXCEPT ![Entries[t].key][rec[t].day] = @ + Entries[t].tokens]
  BY <1>2, <1>3, <1>6, EntriesFacts DEF CommitUsage, Charged
<1>8. Entries[t].state = "open" /\ Entries[t].since <= rec[t].day /\ rec[t].day <= today
  BY <1>1, EntriesFacts, EntryStateFacts, WasChargedBoolean DEF RowInv, DayOfRecording
<1>9. rec[t].day \in Entries[t].since..today
  BY <1>2, <1>8, EntriesFacts DEF TypeInv, RecTypeOK, Recordings, Days
<1> QED BY <1>1, <1>5, <1>7, <1>8, <1>9 DEF L!Charge

(* A phase that ends without a charge drops the entry or closes it: what   *)
(* is not charged leaves no trace, and what was charged is never dropped.  *)
LEMMA OtherStepInLedger ==
  ASSUME ~ LostAcks, TypeInv, ChargeInv, NEW t \in Tasks, RecStep(t),
         ~ CommitUsage(t), usage' = usage
  PROVE  L!Drop(t) \/ L!Close(t) \/ UNCHANGED L!ledgerVars
<1>1. today' = today /\ WasCharged(t)' = WasCharged(t)
  BY StepFrame, WasChargedStep
<1>2. CASE rec'[t].phase = rec[t].phase
  BY <1>1, <1>2, EntriesStep DEF L!ledgerVars
<1>3. CASE rec[t].phase = "usage" /\ rec'[t].phase = "log"
  <2>1. ~ WasCharged(t)
    BY <1>3 DEF ChargeInv, UsagePhaseUncharged, WasCharged
  <2>2. EntryState(rec'[t], WasCharged(t)') = "dropped"
    BY <1>1, <1>3, <2>1 DEF EntryState
  <2>3. Entries[t].state = "open"
    BY <1>3, EntriesFacts DEF EntryState
  <2> QED BY <1>1, <2>2, <2>3, EntriesStep DEF L!Drop
<1>4. CASE rec[t].phase = "log" /\ rec'[t].phase = "done"
  <2>1. EntryState(rec'[t], WasCharged(t)') = "closed"
    BY <1>4 DEF EntryState
  <2>2. Entries[t].state \in {"charged", "dropped"}
    BY <1>4, EntriesFacts DEF EntryState
  <2> QED BY <1>1, <2>1, <2>2, EntriesStep DEF L!Close
<1> QED BY <1>2, <1>3, <1>4, StepCases, CheckoutFacts, MergeFacts, WakeUpFacts,
           EndsPhaseFacts, FailsTryFacts
        DEF Merge

LEMMA StepInLedger ==
  ASSUME ~ LostAcks, TypeInv, ChargeInv, RowInv, NEW t \in Tasks, RecStep(t)
  PROVE  L!LedgerNext \/ UNCHANGED L!ledgerVars
<1>1. CASE CommitUsage(t)
  BY <1>1, CommitIsCharge DEF L!LedgerNext
<1>2. CASE ~ CommitUsage(t)
  <2>1. usage' = usage
    BY <1>2 DEF RecStep, Progress, Faults, Checkout, PoolTimeout, CommitLog,
                WakeUp, Merge, TransientError, PermanentError, LostAck
  <2> QED BY <1>2, <2>1, OtherStepInLedger DEF L!LedgerNext
<1> QED BY <1>1, <1>2

LEMMA BeginInLedger ==
  ASSUME TypeInv,
         NEW t \in Tasks, NEW k \in Keys, NEW n \in 0..MaxTokens, Begin(t, k, n)
  PROVE  L!Open(t)
<1>1. Entries[t].state = "none"
  BY BeginFacts, EntriesFacts, EntryStateFacts, WasChargedBoolean
<1>2. EntryOf(rec'[t], WasCharged(t)')
        = [state |-> IF n > 0 THEN "open" ELSE "dropped",
           key |-> k, tokens |-> n, since |-> today]
  <2>1. ~ WasCharged(t)'
    BY BeginFacts DEF WasCharged, NoHistory
  <2>2. EntryState(rec'[t], WasCharged(t)') = IF n > 0 THEN "open" ELSE "dropped"
    BY <2>1, BeginFacts DEF EntryState
  <2> QED BY <2>2, BeginFacts DEF EntryOf
<1>3. Entries' = [u \in Tasks |-> EntryOf(rec'[u], WasCharged(u)')]
  BY DEF Entries, EntryOf
<1>4. \A u \in Tasks \ {t} : EntryOf(rec'[u], WasCharged(u)') = Entries[u]
  BY BeginFacts, EntriesFacts DEF WasCharged
<1>5. Entries' = [Entries EXCEPT ![t] = EntryOf(rec'[t], WasCharged(t)')]
  BY <1>3, <1>4, EntriesFacts
<1> QED BY <1>1, <1>2, <1>5, BeginFacts DEF L!Open

(* The entries of recordings that have not begun are blank.                *)
LEMMA RecorderInitInLedger == RecInit => L!LedgerInit
<1> SUFFICES ASSUME RecInit PROVE L!LedgerInit
  OBVIOUS
<1>1. \A t \in Tasks : EntryOf(rec[t], WasCharged(t))
                         = [state |-> "none", key |-> AnyKey, tokens |-> 0, since |-> 0]
  BY EntryStateFacts, WasChargedBoolean DEF RecInit, Unrecorded, EntryOf
<1>2. AnyKey \in Keys
  BY RecorderAssumption DEF AnyKey
<1>3. Entries \in [Tasks -> L!Blank]
  BY <1>1, <1>2, EntriesFacts DEF L!Blank
<1> QED BY <1>3 DEF L!LedgerInit, L!Days, RecInit, NoUsage, Days

(* Without lost acknowledgements the recorder implements the ledger: every *)
(* interleaving of sessions, MERGEs, retries and midnights charges each    *)
(* request once or not at all, on a day of its recording, and no update of *)
(* a row is lost.                                                          *)
THEOREM RecorderImplementsLedger == ~ LostAcks /\ RecSpec => ImplementsLedger
<1> DEFINE Inv == TypeInv /\ ChargeInv /\ RowInv
<1> SUFFICES ASSUME ~ LostAcks PROVE RecSpec => ImplementsLedger
  BY DEF RecSpec
<1>1. RecInit => Inv
  BY TypeInit
     DEF RecInit, ChargeInv, UsagePhaseUncharged, ChargedAtMostOnce, NoHistory, RowInv,
         OneWriterPerRow, ReadingCurrent, DayOfRecording, Unrecorded
<1>2. RecInit => L!LedgerInit
  BY RecorderInitInLedger
<1>3. Inv /\ [RecNext]_recVars => Inv' /\ [L!LedgerNext]_(L!ledgerVars)
  <2> SUFFICES ASSUME Inv, [RecNext]_recVars
               PROVE  Inv' /\ (L!LedgerNext \/ UNCHANGED L!ledgerVars)
    OBVIOUS
  <2>1. CASE UNCHANGED recVars
    <3>1. Inv'
      BY <2>1 DEF recVars, TypeInv, RecTypeOK, SleepsWithTryLeft, ChargeInv,
                  UsagePhaseUncharged, ChargedAtMostOnce, RowInv,
                  OneWriterPerRow, ReadingCurrent, DayOfRecording
    <3>2. UNCHANGED L!ledgerVars
      BY <2>1 DEF recVars, L!ledgerVars, Entries, EntryState, WasCharged
    <3> QED BY <3>1, <3>2
  <2>2. CASE Midnight
    <3>1. L!NextDay
      BY <2>2 DEF Midnight, L!NextDay, Entries, EntryState, WasCharged
    <3>2. ChargeInv'
      BY <2>2 DEF Midnight, ChargeInv, UsagePhaseUncharged, ChargedAtMostOnce
    <3> QED BY <2>2, <3>1, <3>2, TypeMidnight, RowMidnight DEF L!LedgerNext
  <2>3. ASSUME NEW t \in Tasks, NEW k \in Keys, NEW n \in 0..MaxTokens, Begin(t, k, n)
        PROVE  Inv' /\ L!LedgerNext
    BY <2>3, TypeBegin, ChargeBegin, RowBegin, BeginInLedger DEF L!LedgerNext
  <2>4. ASSUME NEW t \in Tasks, RecStep(t)
        PROVE  Inv' /\ (L!LedgerNext \/ UNCHANGED L!ledgerVars)
    BY <2>4, TypeStep, ChargeStep, RowStep, StepInLedger
  <2> QED BY <2>1, <2>2, <2>3, <2>4 DEF RecNext
<1> QED BY <1>1, <1>2, <1>3, PTL DEF RecSpec, ImplementsLedger, L!LedgerSpec

-----------------------------------------------------------------------------
(* Each step of a recording is one less                                    *)

LEMMA StepsBounds ==
  ASSUME NEW r \in Recordings
  PROVE  /\ StepsOfTry[r.step] \in 0..3
         /\ StepsOfTries(r) \in 0..(4 * MaxIntentos - 1)
         /\ StepsLeft(r) \in 0..(8 * MaxIntentos)
         /\ r.phase = "log" => StepsLeft(r) \in 1..(4 * MaxIntentos)
         /\ r.phase = "usage" => StepsLeft(r) > 4 * MaxIntentos
<1>1. StepsOfTry[r.step] \in 0..3
  BY DEF Recordings, Steps, StepsOfTry
<1>2. r.intento \in 1..3 /\ MaxIntentos = 3
  BY DEF Recordings, MaxIntentos
<1>3. StepsOfTries(r) \in 0..(4 * MaxIntentos - 1)
  BY <1>1, <1>2 DEF StepsOfTries
<1> QED BY <1>1, <1>2, <1>3 DEF StepsLeft

(* A try that goes on, or is taken up again, has fewer steps to go.        *)
LEMMA FewerSteps ==
  ASSUME NEW r \in Recordings, NEW s \in Recordings,
         r.phase \in {"usage", "log"}, s.phase = r.phase,
         \/ /\ s.intento = r.intento
            /\ StepsOfTry[s.step] < StepsOfTry[r.step]
         \/ s.intento = r.intento + 1 /\ r.step = "sleep" /\ s.step = "waiting"
  PROVE  StepsLeft(s) < StepsLeft(r)
<1>1. /\ StepsOfTry[r.step] \in 0..3 /\ StepsOfTry[s.step] \in 0..3
      /\ StepsOfTry["sleep"] = 0
      /\ r.intento \in 1..3 /\ s.intento \in 1..3 /\ MaxIntentos = 3
  BY StepsBounds DEF Recordings, MaxIntentos, StepsOfTry
<1>2. \/ s.intento = r.intento /\ StepsOfTry[s.step] < StepsOfTry[r.step]
      \/ s.intento = r.intento + 1 /\ StepsOfTry[r.step] = 0
  BY <1>1
<1> DEFINE a == StepsOfTry[r.step]
           b == StepsOfTry[s.step]
           i == r.intento
           j == s.intento
<1>3. StepsOfTries(r) = 4 * (3 - i) + a /\ StepsOfTries(s) = 4 * (3 - j) + b
  BY <1>1 DEF StepsOfTries
<1>4. 4 * (3 - j) + b < 4 * (3 - i) + a
  <2>1. /\ a \in 0..3 /\ b \in 0..3 /\ i \in 1..3 /\ j \in 1..3
        /\ (j = i /\ b < a) \/ (j = i + 1 /\ a = 0)
    BY <1>1, <1>2
  <2> HIDE DEF a, b, i, j
  <2> QED BY <2>1
<1>5. StepsOfTries(s) < StepsOfTries(r)
  BY <1>3, <1>4
<1>6. StepsOfTries(r) \in Nat /\ StepsOfTries(s) \in Nat
  BY StepsBounds, <1>1
<1> HIDE DEF a, b, i, j
<1>7. CASE r.phase = "usage"
  BY <1>1, <1>5, <1>6, <1>7 DEF StepsLeft
<1>8. CASE r.phase = "log"
  BY <1>1, <1>5, <1>6, <1>8 DEF StepsLeft
<1> QED BY <1>7, <1>8

(* Every retry counts: a step of a recording leaves it fewer than before.  *)
LEMMA RecordingAdvances ==
  ASSUME TypeInv, NEW t \in Tasks, RecStep(t)
  PROVE  StepsLeft(rec'[t]) < StepsLeft(rec[t])
<1>0. rec[t] \in Recordings /\ rec'[t] \in Recordings /\ MaxIntentos = 3
  BY TypeStep DEF TypeInv, RecTypeOK, MaxIntentos
<1>1. /\ StepsOfTry["sleep"] = 0 /\ StepsOfTry["merged"] = 1
      /\ StepsOfTry["connected"] = 2 /\ StepsOfTry["waiting"] = 3
  BY DEF StepsOfTry
<1>2. ASSUME EndsPhase(t) \/ (FailsTry(t) /\ ~ (rec[t].intento < MaxIntentos))
      PROVE  StepsLeft(rec'[t]) < StepsLeft(rec[t])
  <2>1. \/ rec[t].phase = "usage" /\ rec'[t].phase = "log"
        \/ rec[t].phase = "log" /\ rec'[t].phase = "done"
    BY <1>2, EndsPhaseFacts, FailsTryFacts
  <2>2. rec'[t].phase = "done" => StepsLeft(rec'[t]) = 0
    BY DEF StepsLeft
  <2> QED BY <1>0, <2>1, <2>2, StepsBounds
<1>3. CASE Checkout(t)
  <2>1. rec[t].phase \in {"usage", "log"}
    BY <1>3 DEF Checkout, Waiting, Recording
  <2> QED BY <1>0, <1>1, <1>3, <2>1, CheckoutFacts, FewerSteps
<1>4. CASE Merge(t)
  <2>1. rec[t].phase = "usage" /\ rec[t].step = "connected"
    BY <1>4 DEF Merge
  <2> QED BY <1>0, <1>1, <1>4, <2>1, MergeFacts, FewerSteps
<1>5. CASE WakeUp(t)
  <2>1. rec[t].phase \in {"usage", "log"}
    BY <1>5 DEF WakeUp, Recording
  <2> QED BY <1>0, <1>5, <2>1, WakeUpFacts, FewerSteps
<1>6. CASE FailsTry(t) /\ rec[t].intento < MaxIntentos
  <2>1. rec[t].step \in {"waiting", "connected", "merged"}
    BY <1>6 DEF FailsTry, TransientError, LostAck, Waiting, InTransaction
  <2> QED BY <1>0, <1>1, <1>6, <2>1, FailsTryFacts, FewerSteps
<1> QED BY <1>2, <1>3, <1>4, <1>5, <1>6, StepCases

-----------------------------------------------------------------------------
(* Charges when acknowledgements are lost                                  *)

(* In its usage phase a recording has charged at most once per try that is *)
(* over: what a lost acknowledgement can cost.                             *)
ChargesWithinTries ==
  \A t \in Tasks :
    rec[t].phase = "usage" =>
      hist[t].charges <=
        IF rec[t].step = "sleep" THEN rec[t].intento ELSE rec[t].intento - 1

TriesInv == ChargesWithinTries /\ OverchargeBounded

LEMMA TriesStep ==
  ASSUME TypeInv, TriesInv, NEW t \in Tasks, RecStep(t)
  PROVE  TriesInv'
<1> USE DEF TriesInv, ChargesWithinTries, OverchargeBounded
<1>0. /\ hist[t] \in Histories /\ hist \in [Tasks -> Histories]
      /\ rec[t].intento \in 1..MaxIntentos /\ MaxIntentos = 3
      /\ hist[t].charges \in Nat
  BY DEF TypeInv, RecTypeOK, Recordings, MaxIntentos, Histories
<1>1. ASSUME NEW u \in Tasks \ {t}
      PROVE  /\ rec'[u].phase = "usage" =>
                  hist'[u].charges <= IF rec'[u].step = "sleep" THEN rec'[u].intento
                                                                ELSE rec'[u].intento - 1
             /\ hist'[u].charges <= MaxIntentos
  BY <1>1, StepFrame
<1>2. /\ rec'[t].phase = "usage" =>
           hist'[t].charges <= IF rec'[t].step = "sleep" THEN rec'[t].intento
                                                         ELSE rec'[t].intento - 1
      /\ hist'[t].charges <= MaxIntentos
  <2>1. CASE Checkout(t)
    BY <2>1, CheckoutFacts DEF Checkout
  <2>2. CASE Merge(t)
    BY <2>2, MergeFacts DEF Merge
  <2>3. CASE WakeUp(t)
    <3>1. hist'[t] = hist[t] /\ rec[t].step = "sleep"
      BY <2>3 DEF WakeUp
    <3> QED BY <1>0, <2>3, <3>1, WakeUpFacts
  <2>4. CASE EndsPhase(t)
    <3>1. rec'[t].phase # "usage"
      BY <2>4, EndsPhaseFacts
    <3>2. CASE CommitUsage(t)
      <4>1. hist'[t].charges = hist[t].charges + 1
        BY <1>0, <3>2 DEF CommitUsage, Histories
      <4>2. hist[t].charges <= rec[t].intento - 1
        BY <1>0, <3>2 DEF CommitUsage
      <4> QED BY <1>0, <3>1, <4>1, <4>2
    <3>3. CASE ~ CommitUsage(t)
      <4>1. hist'[t].charges = hist[t].charges
        BY <1>0, <2>4, <3>3
           DEF EndsPhase, CommitLog, PermanentError, PoolTimeout, Faulted, Histories
      <4> QED BY <3>1, <4>1
    <3> QED BY <3>2, <3>3
  <2>5. CASE FailsTry(t)
    <3>1. CASE rec[t].phase = "usage"
      <4>1. hist'[t].charges <= hist[t].charges + 1 /\ hist'[t].charges \in Nat
        BY <1>0, <2>5, <3>1 DEF FailsTry, TransientError, LostAck, Faulted, Histories
      <4>2. hist[t].charges <= rec[t].intento - 1
        BY <1>0, <2>5, <3>1, FailsTryFacts
      <4>3. hist'[t].charges <= rec[t].intento /\ hist'[t].charges <= MaxIntentos
        BY <1>0, <4>1, <4>2
      <4>4. CASE rec[t].intento < MaxIntentos
        BY <2>5, <4>3, <4>4, FailsTryFacts
      <4>5. CASE ~ (rec[t].intento < MaxIntentos)
        BY <2>5, <3>1, <4>3, <4>5, FailsTryFacts
      <4> QED BY <4>4, <4>5
    <3>2. CASE rec[t].phase = "log"
      <4>1. hist'[t].charges = hist[t].charges
        BY <1>0, <2>5, <3>2 DEF FailsTry, TransientError, LostAck, Faulted, Histories
      <4>2. rec'[t].phase # "usage"
        BY <2>5, <3>2, FailsTryFacts
      <4> QED BY <4>1, <4>2
    <3> QED BY <2>5, <3>1, <3>2, FailsTryFacts
  <2> QED BY <2>1, <2>2, <2>3, <2>4, <2>5, StepCases
<1> QED BY <1>1, <1>2

LEMMA TriesBegin ==
  ASSUME TypeInv, TriesInv,
         NEW t \in Tasks, NEW k \in Keys, NEW n \in 0..MaxTokens, Begin(t, k, n)
  PROVE  TriesInv'
BY BeginFacts
   DEF TriesInv, ChargesWithinTries, OverchargeBounded, NoHistory, MaxIntentos

(* Whatever acknowledgements are lost, a request is charged at most once   *)
(* per try.                                                                *)
THEOREM OverchargedAtMostByTries == RecSpec => []OverchargeBounded
<1> DEFINE Inv == TypeInv /\ TriesInv
<1>1. RecInit => Inv
  BY TypeInit
     DEF RecInit, TriesInv, ChargesWithinTries, OverchargeBounded, NoHistory,
         Unrecorded, MaxIntentos
<1>2. Inv /\ [RecNext]_recVars => Inv'
  <2> SUFFICES ASSUME Inv, [RecNext]_recVars PROVE Inv'
    OBVIOUS
  <2>1. CASE UNCHANGED recVars
    BY <2>1 DEF recVars, TypeInv, RecTypeOK, SleepsWithTryLeft, TriesInv,
                ChargesWithinTries, OverchargeBounded
  <2>2. CASE Midnight
    BY <2>2, TypeMidnight
       DEF Midnight, TriesInv, ChargesWithinTries, OverchargeBounded
  <2>3. ASSUME NEW t \in Tasks, NEW k \in Keys, NEW n \in 0..MaxTokens, Begin(t, k, n)
        PROVE  Inv'
    BY <2>3, TypeBegin, TriesBegin
  <2>4. ASSUME NEW t \in Tasks, RecStep(t)
        PROVE  Inv'
    BY <2>4, TypeStep, TriesStep
  <2> QED BY <2>1, <2>2, <2>3, <2>4 DEF RecNext
<1>3. Inv => OverchargeBounded
  BY DEF TriesInv
<1> QED BY <1>1, <1>2, <1>3, PTL DEF RecSpec
=============================================================================
