---------------------------- MODULE Gateway_proofs ----------------------------
(***************************************************************************)
(* Proofs about Gateway, for every number of requests in flight, every     *)
(* limit and every pool.  The steps of the recorder are covered by the     *)
(* lemmas of UsageRecorder_proofs.                                         *)
(***************************************************************************)
EXTENDS Gateway, UsageRecorder_proofs

-----------------------------------------------------------------------------
(* Type correctness                                                        *)

GateInv ==
  /\ TypeInv
  /\ active \in [Keys -> BOOLEAN]
  /\ stage \in [Tasks -> Stages]
  /\ req \in [Tasks -> Requests]

LEMMA NoRequestFacts == NoRequest \in Requests
BY RecorderAssumption DEF NoRequest, Requests, AnyKey, Days, Statuses

LEMMA GateInit == Init => GateInv
BY TypeInit, NoRequestFacts DEF Init, GateInv, Stages

(* The steps of a request that do not touch the recorder: they move the    *)
(* request of t and, at most, take or give back its connection.            *)
Moves(t) ==
  \/ \E k \in Keys : Arrive(t, k)
  \/ SessionCheckout(t) \/ SessionTimeout(t) \/ StatementFails(t)
  \/ SelectKey(t) \/ TouchKey(t) \/ CheckLimiter(t) \/ CheckQuota(t)
  \/ CheckParameters(t) \/ ResolveAndClose(t) \/ AnswerFromCatalogue(t)
  \/ Recorded(t)

(* The steps that hand the request over to the recorder.                   *)
Calls(t) == (\E n \in 0..MaxTokens : ModelAnswers(t, n)) \/ ModelFails(t)

LEMMA NextCases ==
  ASSUME Next
  PROVE  \/ \E t \in Tasks : Moves(t) \/ Calls(t) \/ RecorderStep(t) \/ Finish(t)
         \/ \E k \in Keys : Revoke(k)
         \/ NextMidnight
         \/ Restart
BY DEF Next, Advance, Moves, Calls

LEMMA MovesFrame ==
  ASSUME GateInv, NEW t \in Tasks, Moves(t)
  PROVE  /\ UNCHANGED <<today, usage, rec, hist, active>>
         /\ \/ pool' = pool
            \/ pool' = pool \ {Session(t)}
            \/ PoolHasRoom /\ pool' = pool \cup {Session(t)}
         /\ stage' \in [Tasks -> Stages]
         /\ req' \in [Tasks -> Requests]
         /\ \A u \in Tasks \ {t} : stage'[u] = stage[u] /\ req'[u] = req[u]
<1>0. /\ stage \in [Tasks -> Stages] /\ req \in [Tasks -> Requests]
      /\ active \in [Keys -> BOOLEAN] /\ today \in Days
  BY DEF GateInv, TypeInv, RecTypeOK
<1>1. UNCHANGED <<today, usage, rec, hist, active>>
  BY DEF Moves, Arrive, SessionCheckout, SessionTimeout, StatementFails, SelectKey,
         TouchKey, CheckLimiter, CheckQuota, CheckParameters, ResolveAndClose,
         AnswerFromCatalogue, Recorded, recVars, reqVars
<1>2. \/ pool' = pool
      \/ pool' = pool \ {Session(t)}
      \/ PoolHasRoom /\ pool' = pool \cup {Session(t)}
  BY DEF Moves, Arrive, SessionCheckout, SessionTimeout, StatementFails, SelectKey,
         TouchKey, CheckLimiter, CheckQuota, CheckParameters, ResolveAndClose,
         AnswerFromCatalogue, Recorded, recVars, ReleaseSession
<1>3. \/ stage' = stage
      \/ \E s \in Stages : stage' = [stage EXCEPT ![t] = s]
  BY DEF Moves, Arrive, SessionCheckout, SessionTimeout, StatementFails, SelectKey,
         TouchKey, CheckLimiter, CheckQuota, CheckParameters, ResolveAndClose,
         AnswerFromCatalogue, Recorded, reqVars, Answer, Goto, Stages
<1>4. req' \in [Tasks -> Requests] /\ \A u \in Tasks \ {t} : req'[u] = req[u]
  <2>1. CASE req' = req
    BY <1>0, <2>1
  <2>2. CASE \E k \in Keys : Arrive(t, k)
    <3>1. PICK k \in Keys : Arrive(t, k)
      BY <2>2
    <3>2. [key |-> k, day |-> 0, status |-> 0, late |-> ~ active[k]] \in Requests
      BY <1>0, RecorderAssumption DEF Requests, Days, Statuses
    <3> QED BY <1>0, <3>1, <3>2 DEF Arrive
  <2>3. CASE \E status \in Statuses : req' = [req EXCEPT ![t].status = status]
    BY <1>0, <2>3 DEF Requests
  <2>4. CASE req' = [req EXCEPT ![t].day = today]
    BY <1>0, <2>4 DEF Requests
  <2> QED BY <2>1, <2>2, <2>3, <2>4
          DEF Moves, SessionCheckout, SessionTimeout, StatementFails, SelectKey,
              TouchKey, CheckLimiter, CheckQuota, CheckParameters, ResolveAndClose,
              AnswerFromCatalogue, Recorded, reqVars, Answer, Statuses
<1>5. /\ stage' \in [Tasks -> Stages]
      /\ \A u \in Tasks \ {t} : stage'[u] = stage[u]
  BY <1>0, <1>3
<1> QED BY <1>1, <1>2, <1>4, <1>5

LEMMA CallsFrame ==
  ASSUME GateInv, NEW t \in Tasks, Calls(t)
  PROVE  /\ \E n \in 0..MaxTokens : Begin(t, req[t].key, n)
         /\ req[t].key \in Keys
         /\ active' = active
         /\ stage[t] = "model"
         /\ stage' = [stage EXCEPT ![t] = "record"]
         /\ req' \in [Tasks -> Requests]
         /\ \A u \in Tasks : /\ req'[u].key = req[u].key
                             /\ req'[u].day = req[u].day
                             /\ req'[u].late = req[u].late
<1>0. req \in [Tasks -> Requests] /\ 0 \in 0..MaxTokens
  BY RecorderAssumption DEF GateInv
<1>1. \E status \in {200, 500, 502} : req' = [req EXCEPT ![t].status = status]
  BY DEF Calls, ModelAnswers, ModelFails
<1>2. /\ req' \in [Tasks -> Requests]
      /\ \A u \in Tasks : /\ req'[u].key = req[u].key
                          /\ req'[u].day = req[u].day
                          /\ req'[u].late = req[u].late
      /\ req[t].key \in Keys
  BY <1>0, <1>1 DEF Requests, Statuses
<1> QED BY <1>0, <1>2 DEF Calls, ModelAnswers, ModelFails, Goto

LEMMA FinishFrame ==
  ASSUME GateInv, NEW t \in Tasks, Finish(t)
  PROVE  /\ UNCHANGED <<today, usage, active>>
         /\ rec' = [rec EXCEPT ![t] = Unrecorded]
         /\ hist' = [hist EXCEPT ![t] = NoHistory]
         /\ stage' = [stage EXCEPT ![t] = "idle"]
         /\ req' = [req EXCEPT ![t] = NoRequest]
         /\ pool' = pool \ {Session(t)}
         /\ stage[t] = "reply"
BY DEF Finish, Goto, ReleaseSession

LEMMA TypeUnrecorded ==
  ASSUME TypeInv,
         today' = today, usage' = usage,
         pool' \subseteq Tasks \X Sessions, Cardinality(pool') <= PoolCapacity,
         \/ /\ rec' = rec /\ hist' = hist
         \/ \E t \in Tasks : /\ rec' = [rec EXCEPT ![t] = Unrecorded]
                             /\ hist' = [hist EXCEPT ![t] = NoHistory]
         \/ /\ rec' = [t \in Tasks |-> Unrecorded]
            /\ hist' = [t \in Tasks |-> NoHistory]
  PROVE  TypeInv'
<1>1. NoHistory \in Histories
  BY DEF NoHistory, Histories
<1>2. Unrecorded.step # "sleep"
  BY DEF Unrecorded
<1>3. rec' \in [Tasks -> Recordings] /\ hist' \in [Tasks -> Histories]
  BY <1>1, UnrecordedFacts DEF TypeInv, RecTypeOK
<1>4. SleepsWithTryLeft'
  BY <1>2 DEF TypeInv, RecTypeOK, SleepsWithTryLeft
<1> QED BY <1>3, <1>4 DEF TypeInv, RecTypeOK

LEMMA GateStep ==
  ASSUME GateInv, [Next]_vars
  PROVE  GateInv'
<1>0. "request" \in Sessions /\ pool \subseteq Tasks \X Sessions
      /\ Cardinality(pool) <= PoolCapacity /\ TypeInv /\ RecTypeOK
  BY DEF Sessions, GateInv, TypeInv, RecTypeOK
<1>1. CASE UNCHANGED vars
  BY <1>1 DEF vars, recVars, reqVars, GateInv, TypeInv, RecTypeOK, SleepsWithTryLeft
<1>2. ASSUME NEW t \in Tasks, Moves(t) PROVE GateInv'
  <2>1. pool' \subseteq Tasks \X Sessions /\ Cardinality(pool') <= PoolCapacity
    BY <1>0, <1>2, MovesFrame, PoolTypeStep DEF Session
  <2> QED BY <1>0, <1>2, <2>1, MovesFrame, TypeUnrecorded DEF GateInv
<1>3. ASSUME NEW t \in Tasks, Calls(t) PROVE GateInv'
  <2>1. TypeInv'
    BY <1>0, <1>3, CallsFrame, TypeBegin
  <2> QED BY <1>3, <2>1, CallsFrame DEF GateInv, Stages
<1>4. ASSUME NEW t \in Tasks, RecorderStep(t) PROVE GateInv'
  BY <1>0, <1>4, TypeStep DEF RecorderStep, reqVars, GateInv
<1>5. ASSUME NEW t \in Tasks, Finish(t) PROVE GateInv'
  <2>1. pool' \subseteq Tasks \X Sessions /\ Cardinality(pool') <= PoolCapacity
    BY <1>0, <1>5, FinishFrame, PoolTypeStep DEF Session
  <2>2. TypeInv'
    BY <1>0, <1>5, <2>1, FinishFrame, TypeUnrecorded
  <2> QED BY <1>5, <2>2, FinishFrame, NoRequestFacts DEF GateInv, Stages
<1>6. ASSUME NEW k \in Keys, Revoke(k) PROVE GateInv'
  BY <1>6 DEF Revoke, recVars, GateInv, TypeInv, RecTypeOK, SleepsWithTryLeft
<1>7. CASE NextMidnight
  BY <1>0, <1>7, TypeMidnight DEF NextMidnight, reqVars, GateInv
<1>8. CASE Restart
  <2>1. pool' \subseteq Tasks \X Sessions /\ Cardinality(pool') <= PoolCapacity
    BY <1>8, FS_EmptySet, RecorderAssumption DEF Restart
  <2>2. TypeInv'
    BY <1>0, <1>8, <2>1, TypeUnrecorded DEF Restart
  <2> QED BY <1>8, <2>2, NoRequestFacts DEF Restart, GateInv, Stages
<1> QED BY <1>1, <1>2, <1>3, <1>4, <1>5, <1>6, <1>7, <1>8, NextCases

(* Every reachable state of the gateway is well typed.                     *)
THEOREM TypeCorrect == Spec => []TypeOK
<1>1. GateInv => TypeOK
  BY DEF GateInv, TypeInv, TypeOK
<1> QED BY <1>1, GateInit, GateStep, PTL DEF Spec

-----------------------------------------------------------------------------
(* Connections                                                             *)

(* The stages at which a request may hold the connection of its session.   *)
Holding == {"select", "touch", "quota", "params", "resolve", "reply"}

SessionsInPlace == \A t \in Tasks : Session(t) \in pool => stage[t] \in Holding

(* A recording is under way only while the request waits for it, and it is *)
(* the recording of the key of that request.                               *)
RecordsInPlace ==
  \A t \in Tasks :
    /\ Recording(t) => stage[t] = "record"
    /\ stage[t] = "record" => rec[t].key = req[t].key

ConnInv ==
  GateInv /\ ConnectionOnlyInTransaction /\ SessionsInPlace /\ RecordsInPlace

LEMMA MovesStage ==
  ASSUME GateInv, SessionsInPlace, NEW t \in Tasks, Moves(t)
  PROVE  /\ Session(t) \in pool' => stage'[t] \in Holding
         /\ stage'[t] # "record"
         /\ stage[t] = "record" => rec[t].phase = "done"
<1> USE DEF Holding
<1>0. stage \in [Tasks -> Stages] /\ (Session(t) \in pool => stage[t] \in Holding)
  BY DEF GateInv, SessionsInPlace
<1>1. CASE (\E k \in Keys : Arrive(t, k)) \/ SelectKey(t) \/ TouchKey(t)
  BY <1>0, <1>1 DEF Arrive, SelectKey, TouchKey, recVars, Goto, Answer, ReleaseSession
<1>2. CASE SessionCheckout(t) \/ SessionTimeout(t) \/ StatementFails(t)
  BY <1>0, <1>2 DEF SessionCheckout, SessionTimeout, StatementFails, Queued, Querying,
                    Goto, Answer, reqVars
<1>3. CASE CheckLimiter(t) \/ CheckQuota(t) \/ CheckParameters(t)
  BY <1>0, <1>3 DEF CheckLimiter, CheckQuota, CheckParameters, recVars, Goto, Answer
<1>4. CASE ResolveAndClose(t) \/ AnswerFromCatalogue(t) \/ Recorded(t)
  BY <1>0, <1>4 DEF ResolveAndClose, AnswerFromCatalogue, Recorded, recVars, Goto,
                    Answer, ReleaseSession
<1> QED BY <1>1, <1>2, <1>3, <1>4 DEF Moves

LEMMA ConnStep ==
  ASSUME ConnInv, [Next]_vars
  PROVE  ConnInv'
<1> USE DEF ConnInv
<1>0. GateInv' /\ TypeInv /\ "request" \in Sessions /\ "recorder" \in Sessions
  BY GateStep DEF GateInv, Sessions
<1>1. CASE UNCHANGED vars
  BY <1>0, <1>1
     DEF vars, recVars, reqVars, ConnectionOnlyInTransaction, InTransaction, Recording,
         Connection, SessionsInPlace, Session, RecordsInPlace
<1>2. ASSUME NEW t \in Tasks, Moves(t) PROVE ConnInv'
  <2>1. /\ rec' = rec /\ stage'[t] # "record"
        /\ \A u \in Tasks \ {t} : stage'[u] = stage[u] /\ req'[u] = req[u]
        /\ pool' = pool \/ pool' = pool \ {Session(t)} \/ pool' = pool \cup {Session(t)}
    BY <1>2, MovesFrame, MovesStage
  <2>2. ConnectionOnlyInTransaction'
    <3>1. \A u \in Tasks : Connection(u) \in pool' <=> Connection(u) \in pool
      BY <2>1 DEF Connection, Session
    <3> QED BY <2>1, <3>1
            DEF ConnectionOnlyInTransaction, InTransaction, Recording, Connection
  <2>3. SessionsInPlace'
    BY <1>2, <2>1, MovesStage DEF SessionsInPlace, Session
  <2>4. RecordsInPlace'
    <3>1. Recording(t) => stage[t] # "record"
      BY <1>2, MovesStage DEF Recording
    <3>2. ~ Recording(t)
      BY <3>1 DEF RecordsInPlace
    <3> QED BY <2>1, <3>2 DEF RecordsInPlace, Recording
  <2> QED BY <1>0, <2>2, <2>3, <2>4
<1>3. ASSUME NEW t \in Tasks, Calls(t) PROVE ConnInv'
  <2>1. PICK n \in 0..MaxTokens : Begin(t, req[t].key, n)
    BY <1>3, CallsFrame
  <2>2. /\ req[t].key \in Keys /\ stage[t] = "model"
        /\ stage' = [stage EXCEPT ![t] = "record"]
        /\ \A u \in Tasks : req'[u].key = req[u].key
        /\ stage \in [Tasks -> Stages]
    BY <1>3, CallsFrame DEF GateInv
  <2>3. /\ pool' = pool /\ rec'[t].key = req[t].key
        /\ \A u \in Tasks \ {t} : rec'[u] = rec[u]
    BY <1>0, <2>1, <2>2, BeginFacts
  <2>4. ConnectionOnlyInTransaction'
    BY <1>0, <2>1, <2>2, ConnectionBegin
  <2>5. SessionsInPlace'
    BY <2>2, <2>3 DEF SessionsInPlace, Session, Holding
  <2>6. RecordsInPlace'
    BY <2>2, <2>3 DEF RecordsInPlace, Recording
  <2> QED BY <1>0, <2>4, <2>5, <2>6
<1>4. ASSUME NEW t \in Tasks, RecorderStep(t) PROVE ConnInv'
  <2>1. RecStep(t) /\ stage' = stage /\ req' = req /\ stage[t] = "record"
    BY <1>4 DEF RecorderStep, reqVars
  <2>2. ConnectionOnlyInTransaction'
    BY <1>0, <2>1, ConnectionStep
  <2>3. SessionsInPlace'
    BY <1>0, <2>1, StepFrame DEF SessionsInPlace, Session
  <2>4. rec'[t].key = rec[t].key
    BY <1>0, <2>1, StepCases, CheckoutFacts, MergeFacts, WakeUpFacts, EndsPhaseFacts,
       FailsTryFacts DEF SameJob
  <2>5. RecordsInPlace'
    BY <1>0, <2>1, <2>4, StepFrame DEF RecordsInPlace, Recording
  <2> QED BY <1>0, <2>2, <2>3, <2>5
<1>5. ASSUME NEW t \in Tasks, Finish(t) PROVE ConnInv'
  <2>1. /\ rec' = [rec EXCEPT ![t] = Unrecorded]
        /\ stage' = [stage EXCEPT ![t] = "idle"]
        /\ req' = [req EXCEPT ![t] = NoRequest]
        /\ pool' = pool \ {Session(t)}
        /\ stage[t] = "reply"
    BY <1>5, FinishFrame
  <2>2. /\ stage \in [Tasks -> Stages] /\ req \in [Tasks -> Requests]
        /\ rec \in [Tasks -> Recordings]
    BY DEF GateInv, TypeInv, RecTypeOK
  <2>3. ~ Recording(t) /\ ~ Recording(t)'
    BY <2>1, <2>2 DEF RecordsInPlace, Recording, Unrecorded
  <2>4. ConnectionOnlyInTransaction'
    BY <2>1, <2>2, <2>3
       DEF ConnectionOnlyInTransaction, InTransaction, Recording, Connection, Session
  <2>5. SessionsInPlace'
    BY <2>1, <2>2 DEF SessionsInPlace, Session
  <2>6. RecordsInPlace'
    BY <2>1, <2>2, <2>3 DEF RecordsInPlace, Recording
  <2> QED BY <1>0, <2>4, <2>5, <2>6
<1>6. ASSUME NEW k \in Keys, Revoke(k) PROVE ConnInv'
  BY <1>0, <1>6
     DEF Revoke, recVars, ConnectionOnlyInTransaction, InTransaction, Recording,
         Connection, SessionsInPlace, Session, RecordsInPlace
<1>7. CASE NextMidnight
  BY <1>0, <1>7
     DEF NextMidnight, Midnight, reqVars, ConnectionOnlyInTransaction, InTransaction,
         Recording, Connection, SessionsInPlace, Session, RecordsInPlace
<1>8. CASE Restart
  BY <1>0, <1>8
     DEF Restart, ConnectionOnlyInTransaction, InTransaction, Recording, Unrecorded,
         Connection, SessionsInPlace, Session, RecordsInPlace
<1> QED BY <1>1, <1>2, <1>3, <1>4, <1>5, <1>6, <1>7, <1>8, NextCases

LEMMA ConnInit == Init => ConnInv
BY GateInit
   DEF Init, RecInit, ConnInv, ConnectionOnlyInTransaction, InTransaction, Recording,
       Unrecorded, Connection, SessionsInPlace, Session, RecordsInPlace

LEMMA ConnImpliesNoHoldAndWait == ConnInv => NoHoldAndWait
<1> SUFFICES ASSUME ConnInv, NEW t \in Tasks
             PROVE  /\ stage[t] \in {"idle", "limit", "model", "record"}
                         => Session(t) \notin pool
                    /\ Waiting(t) => \A s \in Sessions : <<t, s>> \notin pool
  BY DEF NoHoldAndWait
<1>1. stage[t] \in {"idle", "limit", "model", "record"} => Session(t) \notin pool
  BY DEF ConnInv, SessionsInPlace, Holding
<1>2. ASSUME Waiting(t) PROVE Connection(t) \notin pool /\ Session(t) \notin pool
  BY <1>1, <1>2 DEF ConnInv, ConnectionOnlyInTransaction, InTransaction, Waiting,
                    RecordsInPlace
<1> QED BY <1>1, <1>2 DEF Sessions, Connection, Session

(* uow.close() before the model is called does its work: no request holds  *)
(* a connection while the model works, and none holds one while it queues  *)
(* for another, so the pool cannot be exhausted by requests that wait.     *)
THEOREM NeverHoldsAndWaits == Spec => []NoHoldAndWait
BY ConnInit, ConnStep, ConnImpliesNoHoldAndWait, PTL DEF Spec

-----------------------------------------------------------------------------
(* Revocation                                                              *)

(* Strengthening: a key that was revoked when a request arrived stays so.  *)
LateKeysInactive ==
  \A t \in Tasks : req[t].late => ~ active[req[t].key]

RevokedInv == GateInv /\ LateKeysInactive /\ RevokedStaysOut

LEMMA RevokedMoves ==
  ASSUME RevokedInv, NEW t \in Tasks, Moves(t)
  PROVE  /\ req'[t].late => ~ active[req'[t].key]
         /\ req'[t].late => stage'[t] \in {"select", "reply"}
<1>0. /\ req \in [Tasks -> Requests] /\ stage \in [Tasks -> Stages]
      /\ active \in [Keys -> BOOLEAN]
      /\ req[t].late => ~ active[req[t].key]
      /\ req[t].late => stage[t] \in {"select", "reply"}
  BY DEF RevokedInv, GateInv, LateKeysInactive, RevokedStaysOut
<1>1. CASE \E k \in Keys : Arrive(t, k)
  <2>1. PICK k \in Keys : Arrive(t, k)
    BY <1>1
  <2>2. req'[t] = [key |-> k, day |-> 0, status |-> 0, late |-> ~ active[k]]
    BY <1>0, <2>1 DEF Arrive
  <2>3. stage'[t] = "select"
    BY <1>0, <2>1 DEF Arrive, Goto
  <2>4. req'[t].key = k /\ req'[t].late = (~ active[k])
    BY <2>2
  <2> QED BY <2>3, <2>4
<1>2. CASE ~ \E k \in Keys : Arrive(t, k)
  <2>1. req'[t].late = req[t].late /\ req'[t].key = req[t].key
    BY <1>0, <1>2
       DEF Moves, SessionCheckout, SessionTimeout, StatementFails, SelectKey, TouchKey,
           CheckLimiter, CheckQuota, CheckParameters, ResolveAndClose,
           AnswerFromCatalogue, Recorded, reqVars, Answer, Requests
  <2>2. ASSUME req[t].late PROVE stage'[t] \in {"select", "reply"}
    <3>1. ~ active[req[t].key] /\ stage[t] \in {"select", "reply"}
      BY <1>0, <2>2
    <3> QED BY <1>0, <1>2, <3>1
            DEF Moves, SessionCheckout, SessionTimeout, StatementFails, SelectKey,
                TouchKey, CheckLimiter, CheckQuota, CheckParameters, ResolveAndClose,
                AnswerFromCatalogue, Recorded, reqVars, Answer, Goto
  <2> QED BY <1>0, <2>1, <2>2
<1> QED BY <1>1, <1>2

LEMMA RevokedStep ==
  ASSUME RevokedInv, [Next]_vars
  PROVE  RevokedInv'
<1>0. GateInv' /\ GateInv
  BY GateStep DEF RevokedInv
<1> USE DEF RevokedInv, LateKeysInactive, RevokedStaysOut
<1>1. CASE UNCHANGED vars
  BY <1>0, <1>1 DEF vars, reqVars
<1>2. ASSUME NEW t \in Tasks, Moves(t) PROVE RevokedInv'
  BY <1>0, <1>2, MovesFrame, RevokedMoves
<1>3. ASSUME NEW t \in Tasks, Calls(t) PROVE RevokedInv'
  <2>1. ~ req[t].late
    BY <1>3, CallsFrame
  <2>2. \A u \in Tasks \ {t} : stage'[u] = stage[u]
    BY <1>0, <1>3, CallsFrame DEF GateInv
  <2> QED BY <1>0, <1>3, <2>1, <2>2, CallsFrame
<1>4. ASSUME NEW t \in Tasks, RecorderStep(t) PROVE RevokedInv'
  BY <1>0, <1>4 DEF RecorderStep, reqVars
<1>5. ASSUME NEW t \in Tasks, Finish(t) PROVE RevokedInv'
  BY <1>0, <1>5, FinishFrame DEF NoRequest, GateInv
<1>6. ASSUME NEW k \in Keys, Revoke(k) PROVE RevokedInv'
  BY <1>0, <1>6 DEF Revoke, GateInv, Requests
<1>7. CASE NextMidnight
  BY <1>0, <1>7 DEF NextMidnight, reqVars
<1>8. CASE Restart
  BY <1>0, <1>8 DEF Restart, NoRequest
<1> QED BY <1>1, <1>2, <1>3, <1>4, <1>5, <1>6, <1>7, <1>8, NextCases

(* The key is read afresh for every request, so a request that arrives     *)
(* after the revocation committed never gets past authentication.          *)
THEOREM RevokedNeverServed == Spec => []RevokedStaysOut
<1>1. Init => RevokedInv
  BY GateInit DEF Init, RevokedInv, LateKeysInactive, RevokedStaysOut, NoRequest
<1>2. RevokedInv => RevokedStaysOut
  BY DEF RevokedInv
<1> QED BY <1>1, <1>2, RevokedStep, PTL DEF Spec

-----------------------------------------------------------------------------
(* Charges, in the composition                                             *)

(* The invariants of the recorder survive the rest of the request, the     *)
(* reuse of a task and a restart.                                          *)
AccountInv == GateInv /\ ChargeInv /\ RowInv

LEMMA AccountReset ==
  ASSUME AccountInv,
         usage' = usage, today' = today,
         \/ \E t \in Tasks : /\ rec' = [rec EXCEPT ![t] = Unrecorded]
                             /\ hist' = [hist EXCEPT ![t] = NoHistory]
         \/ /\ rec' = [t \in Tasks |-> Unrecorded]
            /\ hist' = [t \in Tasks |-> NoHistory]
  PROVE  ChargeInv' /\ RowInv'
<1>1. rec \in [Tasks -> Recordings] /\ hist \in [Tasks -> Histories]
  BY DEF AccountInv, GateInv, TypeInv, RecTypeOK
<1>2. \A u \in Tasks : /\ rec'[u] = rec[u] \/ rec'[u] = Unrecorded
                       /\ hist'[u] = hist[u] \/ hist'[u] = NoHistory
  BY <1>1
<1>3. Unrecorded.phase = "off" /\ NoHistory.charges = 0
  BY DEF Unrecorded, NoHistory
<1>4. \A u \in Tasks : rec'[u].phase = "usage" => rec'[u] = rec[u]
  BY <1>2, <1>3
<1>5. ChargeInv'
  BY <1>2, <1>3, <1>4 DEF AccountInv, ChargeInv, UsagePhaseUncharged, ChargedAtMostOnce
<1>6. OneWriterPerRow' /\ ReadingCurrent' /\ DayOfRecording'
  BY <1>4 DEF AccountInv, RowInv, OneWriterPerRow, ReadingCurrent, DayOfRecording
<1> QED BY <1>5, <1>6 DEF RowInv

LEMMA AccountKept ==
  ASSUME AccountInv, UNCHANGED <<today, usage, rec, hist>>
  PROVE  ChargeInv' /\ RowInv'
BY DEF AccountInv, ChargeInv, UsagePhaseUncharged, ChargedAtMostOnce, RowInv,
       OneWriterPerRow, ReadingCurrent, DayOfRecording

LEMMA AccountStep ==
  ASSUME ~ LostAcks, AccountInv, [Next]_vars
  PROVE  AccountInv'
<1> USE DEF AccountInv
<1>0. GateInv' /\ TypeInv
  BY GateStep DEF GateInv
<1>1. CASE UNCHANGED vars
  BY <1>0, <1>1, AccountKept DEF vars, recVars
<1>2. ASSUME NEW t \in Tasks, Moves(t) PROVE AccountInv'
  BY <1>0, <1>2, MovesFrame, AccountKept
<1>3. ASSUME NEW t \in Tasks, Calls(t) PROVE AccountInv'
  BY <1>0, <1>3, CallsFrame, ChargeBegin, RowBegin
<1>4. ASSUME NEW t \in Tasks, RecorderStep(t) PROVE AccountInv'
  BY <1>0, <1>4, ChargeStep, RowStep DEF RecorderStep
<1>5. ASSUME NEW t \in Tasks, Finish(t) PROVE AccountInv'
  BY <1>0, <1>5, FinishFrame, AccountReset
<1>6. ASSUME NEW k \in Keys, Revoke(k) PROVE AccountInv'
  BY <1>0, <1>6, AccountKept DEF Revoke, recVars
<1>7. CASE NextMidnight
  <2>1. Midnight
    BY <1>7 DEF NextMidnight
  <2>2. ChargeInv'
    BY <2>1 DEF Midnight, ChargeInv, UsagePhaseUncharged, ChargedAtMostOnce
  <2> QED BY <1>0, <2>1, <2>2, RowMidnight
<1>8. CASE Restart
  BY <1>0, <1>8, AccountReset DEF Restart
<1> QED BY <1>1, <1>2, <1>3, <1>4, <1>5, <1>6, <1>7, <1>8, NextCases

LEMMA AccountInit == Init => AccountInv
BY GateInit
   DEF Init, RecInit, AccountInv, ChargeInv, UsagePhaseUncharged, ChargedAtMostOnce,
       RowInv, OneWriterPerRow, ReadingCurrent, DayOfRecording, Unrecorded, NoHistory

(* The promise of the recorder holds in the gateway, across requests that  *)
(* follow one another and across restarts of the process.                  *)
THEOREM GatewayNeverChargesTwice == ~ LostAcks /\ Spec => []ChargedAtMostOnce
<1> SUFFICES ASSUME ~ LostAcks PROVE Spec => []ChargedAtMostOnce
  BY DEF Spec
<1>1. AccountInv /\ [Next]_vars => AccountInv'
  BY AccountStep
<1>2. AccountInv => ChargedAtMostOnce
  BY DEF AccountInv, ChargeInv
<1> QED BY <1>1, <1>2, AccountInit, PTL DEF Spec

-----------------------------------------------------------------------------
(* The quota                                                               *)

(* The request of t was let through by the quota of k and may still charge *)
(* its tokens to day d.                                                    *)
May(t, k, d) ==
  /\ req[t].key = k
  /\ \/ stage[t] \in {"params", "resolve", "model"} /\ d >= today
     \/ /\ stage[t] = "record"
        /\ rec[t].phase = "usage"
        /\ d >= today \/ rec[t].day = d

MayCharge(k, d) == {t \in Tasks : May(t, k, d)}

(* The strengthening: what is charged, plus what the requests already let  *)
(* through may still charge, stays within the margin.                      *)
QuotaBudget ==
  \A k \in Keys, d \in Days :
    DailyLimit[k] > 0 =>
      usage[k][d] + MaxTokens * Cardinality(MayCharge(k, d)) <= Margin(k)

(* Nothing is charged to a day to come. *)
FutureUnused == \A k \in Keys, d \in Days : d > today => usage[k][d] = 0

(* The day of a quota check is today or the day before. *)
CheckIsRecent ==
  \A t \in Tasks :
    stage[t] = "quota" => req[t].day <= today /\ today <= req[t].day + 1

QuotaInv ==
  AccountInv /\ RecordsInPlace /\ QuotaBudget /\ FutureUnused /\ CheckIsRecent

(* The arithmetic of the margin: S are the requests let through before a   *)
(* step and R those after it, u and v the consumption before and after.    *)
LEMMA TimesMonotone ==
  ASSUME NEW m \in Nat, NEW a \in Nat, NEW b \in Nat, a <= b
  PROVE  m * a <= m * b
<1>1. PICK c \in Nat : b = a + c
  <2>1. b - a \in Nat /\ b = a + (b - a)
    OBVIOUS
  <2> QED BY <2>1
<1>2. m * b = m * a + m * c /\ m * a \in Nat /\ m * c \in Nat
  BY <1>1
<1> QED BY <1>2

LEMMA InFlightFinite ==
  ASSUME NEW S \in SUBSET Tasks
  PROVE  /\ IsFiniteSet(S)
         /\ Cardinality(S) \in Nat
         /\ Cardinality(Tasks) \in Nat
         /\ Cardinality(S) <= Cardinality(Tasks)
         /\ MaxTokens * Cardinality(S) \in Nat
         /\ MaxTokens * Cardinality(S) <= Cardinality(Tasks) * MaxTokens
<1>1. IsFiniteSet(S) /\ Cardinality(S) <= Cardinality(Tasks)
  BY FS_Subset, RecorderAssumption
<1>2. Cardinality(S) \in Nat /\ Cardinality(Tasks) \in Nat /\ MaxTokens \in Nat
  BY <1>1, FS_CardinalityType, RecorderAssumption
<1>3. MaxTokens * Cardinality(S) <= MaxTokens * Cardinality(Tasks)
  BY <1>1, <1>2, TimesMonotone
<1>4. MaxTokens * Cardinality(Tasks) = Cardinality(Tasks) * MaxTokens
  BY <1>2
<1>5. MaxTokens * Cardinality(S) \in Nat
  BY <1>2
<1> QED BY <1>1, <1>2, <1>3, <1>4, <1>5

LEMMA InFlightShrinks ==
  ASSUME NEW S \in SUBSET Tasks, NEW R \in SUBSET S
  PROVE  /\ MaxTokens * Cardinality(R) \in Nat
         /\ MaxTokens * Cardinality(S) \in Nat
         /\ MaxTokens * Cardinality(R) <= MaxTokens * Cardinality(S)
<1>1. IsFiniteSet(S) /\ Cardinality(S) \in Nat /\ Cardinality(R) \in Nat
  BY InFlightFinite
<1>2. Cardinality(R) <= Cardinality(S)
  BY <1>1, FS_Subset
<1>3. MaxTokens * Cardinality(R) <= MaxTokens * Cardinality(S)
  BY <1>1, <1>2, TimesMonotone, RecorderAssumption
<1> QED BY <1>3, InFlightFinite

LEMMA InFlightSpends ==
  ASSUME NEW S \in SUBSET Tasks, NEW t \in S, NEW R \in SUBSET (S \ {t})
  PROVE  /\ MaxTokens * Cardinality(R) \in Nat
         /\ MaxTokens * Cardinality(S) \in Nat
         /\ MaxTokens * Cardinality(R) + MaxTokens <= MaxTokens * Cardinality(S)
<1> DEFINE c == Cardinality(S \ {t})
<1>1. /\ c \in Nat /\ Cardinality(S) = c + 1
  BY InFlightFinite, FS_RemoveElement
<1>2. MaxTokens * Cardinality(R) <= MaxTokens * c
  BY InFlightShrinks
<1>3. MaxTokens \in Nat
  BY RecorderAssumption
<1>4. MaxTokens * Cardinality(S) = MaxTokens * c + MaxTokens
  BY <1>1, <1>3
<1>5. /\ MaxTokens * Cardinality(R) \in Nat /\ MaxTokens * Cardinality(S) \in Nat
      /\ MaxTokens * c \in Nat
  BY InFlightFinite, <1>1, <1>3
<1> HIDE DEF c
<1> QED BY <1>2, <1>3, <1>4, <1>5

(* What a step does to the budget of day d of key k: nothing new is let    *)
(* through; or a request let through spends its part; or a request is let  *)
(* through when the consumption is below the limit.                        *)
Keeps(k, d) ==
  usage'[k][d] = usage[k][d] /\ MayCharge(k, d)' \subseteq MayCharge(k, d)

Spends(k, d) ==
  \E t \in MayCharge(k, d) :
    /\ usage'[k][d] <= usage[k][d] + MaxTokens
    /\ MayCharge(k, d)' \subseteq MayCharge(k, d) \ {t}

Admits(k, d) == usage'[k][d] < DailyLimit[k]

LEMMA BudgetStep ==
  ASSUME GateInv, GateInv', QuotaBudget,
         \A k \in Keys, d \in Days :
           DailyLimit[k] > 0 => Keeps(k, d) \/ Spends(k, d) \/ Admits(k, d)
  PROVE  QuotaBudget'
<1> SUFFICES ASSUME NEW k \in Keys, NEW d \in Days, DailyLimit[k] > 0
             PROVE  usage'[k][d] + MaxTokens * Cardinality(MayCharge(k, d)') <= Margin(k)
  BY DEF QuotaBudget, Margin
<1> DEFINE S == MayCharge(k, d)
           R == MayCharge(k, d)'
<1>1. S \in SUBSET Tasks /\ R \in SUBSET Tasks
  BY DEF MayCharge
<1>2. usage[k][d] \in Nat /\ usage'[k][d] \in Nat /\ DailyLimit[k] \in Nat /\ MaxTokens \in Nat
  BY GatewayAssumption, RecorderAssumption DEF GateInv, TypeInv, RecTypeOK
<1>3. usage[k][d] + MaxTokens * Cardinality(S)
        <= DailyLimit[k] - 1 + Cardinality(Tasks) * MaxTokens
  BY DEF QuotaBudget, Margin
<1>4. /\ MaxTokens * Cardinality(S) \in Nat /\ MaxTokens * Cardinality(R) \in Nat
      /\ Cardinality(Tasks) * MaxTokens \in Nat
      /\ MaxTokens * Cardinality(R) <= Cardinality(Tasks) * MaxTokens
  <2>1. Cardinality(Tasks) \in Nat
    BY <1>1, InFlightFinite
  <2>2. Cardinality(Tasks) * MaxTokens \in Nat
    BY <1>2, <2>1
  <2> QED BY <1>1, <2>2, InFlightFinite
<1>5. CASE Keeps(k, d)
  <2>1. usage'[k][d] = usage[k][d] /\ R \in SUBSET S
    BY <1>5 DEF Keeps
  <2>2. MaxTokens * Cardinality(R) <= MaxTokens * Cardinality(S)
    BY <1>1, <2>1, InFlightShrinks
  <2> HIDE DEF S, R
  <2>3. usage'[k][d] + MaxTokens * Cardinality(R)
          <= DailyLimit[k] - 1 + Cardinality(Tasks) * MaxTokens
    BY <1>2, <1>3, <1>4, <2>1, <2>2
  <2> QED BY <2>3 DEF R, Margin
<1>6. CASE Spends(k, d)
  <2>1. PICK t \in S : usage'[k][d] <= usage[k][d] + MaxTokens /\ R \in SUBSET (S \ {t})
    BY <1>6 DEF Spends
  <2>2. MaxTokens * Cardinality(R) + MaxTokens <= MaxTokens * Cardinality(S)
    BY <1>1, <2>1, InFlightSpends
  <2> HIDE DEF S, R
  <2>3. usage'[k][d] + MaxTokens * Cardinality(R)
          <= DailyLimit[k] - 1 + Cardinality(Tasks) * MaxTokens
    BY <1>2, <1>3, <1>4, <2>1, <2>2
  <2> QED BY <2>3 DEF R, Margin
<1>7. CASE Admits(k, d)
  <2>1. usage'[k][d] <= DailyLimit[k] - 1
    BY <1>2, <1>7 DEF Admits
  <2> HIDE DEF S, R
  <2>2. usage'[k][d] + MaxTokens * Cardinality(R)
          <= DailyLimit[k] - 1 + Cardinality(Tasks) * MaxTokens
    BY <1>2, <1>4, <2>1
  <2> QED BY <2>2 DEF R, Margin
<1> QED BY <1>5, <1>6, <1>7

LEMMA MayFrame ==
  ASSUME GateInv, NEW u \in Tasks, NEW k \in Keys, NEW d \in Days,
         stage'[u] = stage[u], req'[u].key = req[u].key, rec'[u] = rec[u],
         today' \in Nat, today <= today',
         May(u, k, d)'
  PROVE  May(u, k, d)
<1>1. today \in Nat /\ d \in Nat
  BY DEF GateInv, TypeInv, RecTypeOK, Days
<1>2. d >= today' => d >= today
  BY <1>1
<1> QED BY <1>2 DEF May

(* Of the steps of a request, only a passed quota check lets it through.   *)
LEMMA MovesAdmitNothing ==
  ASSUME GateInv, NEW t \in Tasks, Moves(t), ~ CheckQuota(t),
         NEW k \in Keys, NEW d \in Days, DailyLimit[k] > 0,
         May(t, k, d)'
  PROVE  May(t, k, d)
<1>0. stage \in [Tasks -> Stages] /\ req \in [Tasks -> Requests] /\ today' = today
  BY MovesFrame DEF GateInv
<1>1. /\ stage'[t] \in {"params", "resolve", "model"} \/ stage'[t] = "record"
      /\ req'[t].key = k
      /\ (stage'[t] \in {"params", "resolve", "model"} /\ d >= today)
         \/ (stage'[t] = "record")
  BY <1>0 DEF May
<1>2. CASE \/ \E j \in Keys : Arrive(t, j)
           \/ SelectKey(t) \/ TouchKey(t) \/ SessionTimeout(t) \/ StatementFails(t)
           \/ AnswerFromCatalogue(t) \/ Recorded(t)
  BY <1>0, <1>1, <1>2
     DEF Arrive, SelectKey, TouchKey, SessionTimeout, StatementFails,
         AnswerFromCatalogue, Recorded, Goto, Answer
<1>3. CASE SessionCheckout(t)
  <2>1. stage' = stage /\ req' = req /\ rec' = rec
    BY <1>3 DEF SessionCheckout, reqVars
  <2>2. stage[t] # "record"
    BY <1>3 DEF SessionCheckout, Queued, Querying
  <2> QED BY <1>1, <2>1, <2>2 DEF May
<1>4. CASE CheckLimiter(t)
  BY <1>0, <1>1, <1>4, GatewayAssumption DEF CheckLimiter, Goto, Answer
<1>5. CASE CheckParameters(t) \/ ResolveAndClose(t)
  BY <1>0, <1>1, <1>5 DEF CheckParameters, ResolveAndClose, Goto, Answer, May
<1> QED BY <1>2, <1>3, <1>4, <1>5 DEF Moves

(* A quota check that passes for day d finds its consumption below the     *)
(* limit: d is among the days that tokens_since sums.                      *)
LEMMA CheckAdmits ==
  ASSUME GateInv, FutureUnused, CheckIsRecent,
         NEW t \in Tasks, CheckQuota(t),
         NEW k \in Keys, NEW d \in Days, DailyLimit[k] > 0,
         May(t, k, d)'
  PROVE  Admits(k, d)
<1>0. /\ stage \in [Tasks -> Stages] /\ req \in [Tasks -> Requests]
      /\ usage \in [Keys -> [Days -> Nat]]
      /\ today \in Nat /\ d \in Nat /\ MaxDay \in Nat
      /\ req[t].day \in Days /\ req[t].day \in Nat
      /\ DailyLimit[k] \in Nat
  <2>1. req[t] \in Requests
    BY DEF GateInv
  <2>2. req[t].day \in Days
    BY <2>1 DEF Requests
  <2> QED BY <2>2, GatewayAssumption, RecorderAssumption
          DEF GateInv, TypeInv, RecTypeOK, Days
<1>1. UNCHANGED <<today, usage, rec>> /\ stage[t] = "quota"
  BY DEF CheckQuota, recVars
<1>2. /\ ~ (TokensSince(req[t].key, req[t].day) >= DailyLimit[req[t].key])
      /\ stage'[t] = "params" /\ req'[t].key = req[t].key
  BY <1>0 DEF CheckQuota, Goto, Answer, May
<1>3. req[t].key = k /\ d >= today
  BY <1>1, <1>2 DEF May
<1>4. usage[k][d] \in Nat /\ usage[k][req[t].day] \in Nat
  BY <1>0
<1>5. CASE d > today
  <2>1. usage[k][d] = 0
    BY <1>5 DEF FutureUnused
  <2> QED BY <1>0, <1>1, <2>1 DEF Admits
<1>6. CASE d = today
  <2>1. d = req[t].day \/ d = req[t].day + 1
    BY <1>0, <1>1, <1>6 DEF CheckIsRecent
  <2>2. CASE d = req[t].day
    <3>1. req[t].day < MaxDay => usage[k][req[t].day + 1] \in Nat
      BY <1>0 DEF Days
    <3>2. TokensSince(k, d) >= usage[k][d] /\ TokensSince(k, d) \in Nat
      BY <1>4, <2>2, <3>1 DEF TokensSince
    <3> QED BY <1>0, <1>1, <1>2, <1>3, <1>4, <2>2, <3>2 DEF Admits
  <2>3. CASE d = req[t].day + 1
    <3>1. req[t].day < MaxDay
      BY <1>0, <2>3 DEF Days
    <3>2. TokensSince(k, req[t].day) = usage[k][req[t].day] + usage[k][d]
      BY <2>3, <3>1 DEF TokensSince
    <3> QED BY <1>0, <1>1, <1>2, <1>3, <1>4, <3>2 DEF Admits
  <2> QED BY <2>1, <2>2, <2>3
<1> QED BY <1>0, <1>3, <1>5, <1>6

LEMMA CommitSpends ==
  ASSUME GateInv, RowInv, RecordsInPlace,
         NEW t \in Tasks, CommitUsage(t), stage[t] = "record",
         stage' = stage, req' = req,
         NEW k \in Keys, NEW d \in Days
  PROVE  Keeps(k, d) \/ Spends(k, d)
<1>0. /\ TypeInv /\ RecStep(t) /\ rec[t] \in Recordings /\ today \in Nat
      /\ usage \in [Keys -> [Days -> Nat]] /\ MaxTokens \in Nat
  BY RecorderAssumption
     DEF GateInv, TypeInv, RecTypeOK, CommitUsage, RecStep, Progress, Days
<1>1. /\ rec[t].phase = "usage" /\ rec[t].step = "merged"
      /\ rec'[t].phase = "log"
      /\ rec[t].key = req[t].key
      /\ today' = today
      /\ \A u \in Tasks \ {t} : rec'[u] = rec[u]
  BY <1>0, EndsPhaseFacts, StepFrame DEF CommitUsage, EndsPhase, RecordsInPlace
<1>2. MayCharge(k, d)' \subseteq MayCharge(k, d) \ {t}
  <2>1. ~ May(t, k, d)'
    BY <1>1 DEF May
  <2>2. ASSUME NEW u \in Tasks \ {t}, May(u, k, d)' PROVE May(u, k, d)
    BY <1>0, <1>1, <2>2, MayFrame
  <2> QED BY <2>1, <2>2 DEF MayCharge
<1>3. CASE k = rec[t].key /\ d = rec[t].day
  <2>1. usage'[k][d] = rec[t].seen + rec[t].tokens
    BY <1>0, <1>3, ChargedFacts DEF CommitUsage
  <2>2. rec[t].seen = usage[k][d]
    BY <1>1, <1>3 DEF RowInv, ReadingCurrent
  <2>3. rec[t].tokens <= MaxTokens /\ rec[t].tokens \in Nat /\ usage[k][d] \in Nat
    BY <1>0 DEF Recordings
  <2>4. usage'[k][d] <= usage[k][d] + MaxTokens
    BY <1>0, <2>1, <2>2, <2>3
  <2>5. t \in MayCharge(k, d)
    BY <1>1, <1>3 DEF MayCharge, May
  <2> QED BY <1>2, <2>4, <2>5 DEF Spends
<1>4. CASE ~ (k = rec[t].key /\ d = rec[t].day)
  <2>1. usage'[k][d] = usage[k][d]
    BY <1>0, <1>4, ChargedFacts DEF CommitUsage
  <2> QED BY <1>2, <2>1 DEF Keeps
<1> QED BY <1>3, <1>4

LEMMA StepKeepsOrSpends ==
  ASSUME ~ LostAcks, GateInv, GateInv', RowInv, RecordsInPlace,
         NEW t \in Tasks, RecorderStep(t),
         NEW k \in Keys, NEW d \in Days
  PROVE  Keeps(k, d) \/ Spends(k, d)
<1>0. /\ RecStep(t) /\ stage[t] = "record" /\ stage' = stage /\ req' = req
      /\ TypeInv /\ today \in Nat
  BY DEF RecorderStep, reqVars, GateInv, TypeInv, RecTypeOK, Days
<1>1. CASE CommitUsage(t)
  BY <1>0, <1>1, CommitSpends
<1>2. CASE ~ CommitUsage(t)
  <2>1. usage' = usage
    BY <1>0, <1>2
       DEF RecStep, Progress, Faults, Checkout, PoolTimeout, CommitLog,
           WakeUp, Merge, TransientError, PermanentError, LostAck
  <2>2. today' = today /\ \A u \in Tasks \ {t} : rec'[u] = rec[u]
    BY <1>0, StepFrame
  <2>3. ASSUME NEW u \in Tasks \ {t}, May(u, k, d)' PROVE May(u, k, d)
    BY <1>0, <2>2, <2>3, MayFrame
  <2>4. ASSUME May(t, k, d)' PROVE May(t, k, d)
    <3>1. /\ req[t].key = k /\ rec'[t].phase = "usage"
          /\ d >= today \/ rec'[t].day = d
      BY <1>0, <2>2, <2>4 DEF May
    <3>2. rec[t].phase = "usage"
      BY <1>0, <3>1, StepCases, CheckoutFacts, MergeFacts, WakeUpFacts, EndsPhaseFacts,
         FailsTryFacts DEF Merge
    <3>3. rec'[t].day = rec[t].day \/ rec'[t].day = today
      BY <1>0, <3>1, StepCases, CheckoutFacts, MergeFacts, WakeUpFacts, EndsPhaseFacts,
         FailsTryFacts
    <3>4. d >= today \/ rec[t].day = d
      BY <1>0, <3>1, <3>3
    <3> QED BY <1>0, <3>1, <3>2, <3>4 DEF May
  <2>5. MayCharge(k, d)' \subseteq MayCharge(k, d)
    BY <2>3, <2>4 DEF MayCharge
  <2> QED BY <2>1, <2>5 DEF Keeps
<1> QED BY <1>1, <1>2

(* Each step, on each day of a key with a quota.                           *)
LEMMA NextKeepsSpendsOrAdmits ==
  ASSUME ~ LostAcks, QuotaInv, GateInv', [Next]_vars,
         NEW k \in Keys, NEW d \in Days, DailyLimit[k] > 0
  PROVE  Keeps(k, d) \/ Spends(k, d) \/ Admits(k, d)
<1>0. /\ GateInv /\ TypeInv /\ RowInv /\ RecordsInPlace
      /\ FutureUnused /\ CheckIsRecent
      /\ today \in Nat /\ today' \in Nat
  BY DEF QuotaInv, AccountInv, GateInv, TypeInv, RecTypeOK, Days
<1>1. SUFFICES ASSUME usage' = usage, today <= today', ~ Admits(k, d)
               PROVE  \A u \in Tasks : May(u, k, d)' => May(u, k, d)
  <2>1. CASE \E t \in Tasks : RecorderStep(t)
    BY <1>0, <2>1, StepKeepsOrSpends
  <2>2. CASE ~ \E t \in Tasks : RecorderStep(t)
    <3>1. usage' = usage
      <4>1. ASSUME NEW t \in Tasks, Moves(t) \/ Calls(t) \/ Finish(t)
            PROVE  usage' = usage
        BY <1>0, <4>1, MovesFrame, CallsFrame, FinishFrame DEF Begin
      <4> QED BY <2>2, <4>1, NextCases
              DEF Revoke, NextMidnight, Midnight, Restart, vars, recVars
    <3>2. today <= today'
      <4>1. ASSUME NEW t \in Tasks, Moves(t) \/ Calls(t) \/ Finish(t)
            PROVE  today' = today
        BY <1>0, <4>1, MovesFrame, CallsFrame, FinishFrame DEF Begin
      <4>2. today' = today \/ today' = today + 1
        BY <2>2, <4>1, NextCases
           DEF Revoke, NextMidnight, Midnight, Restart, vars, recVars
      <4> QED BY <1>0, <4>2
    <3> QED BY <1>1, <3>1, <3>2 DEF Keeps, MayCharge
  <2> QED BY <2>1, <2>2
<1>2. SUFFICES ASSUME NEW u \in Tasks, May(u, k, d)'
               PROVE  May(u, k, d)
  OBVIOUS
<1>3. CASE UNCHANGED vars
  BY <1>2, <1>3 DEF vars, recVars, reqVars, May
<1>4. ASSUME NEW t \in Tasks, Moves(t) PROVE May(u, k, d)
  <2>1. CASE u # t
    BY <1>0, <1>1, <1>2, <1>4, <2>1, MovesFrame, MayFrame
  <2>2. CASE u = t
    BY <1>0, <1>1, <1>2, <1>4, <2>2, MovesAdmitNothing, CheckAdmits
  <2> QED BY <2>1, <2>2
<1>5. ASSUME NEW t \in Tasks, Calls(t) PROVE May(u, k, d)
  <2>1. PICK n \in 0..MaxTokens : Begin(t, req[t].key, n)
    BY <1>0, <1>5, CallsFrame
  <2>2. /\ req[t].key \in Keys /\ stage[t] = "model"
        /\ stage' = [stage EXCEPT ![t] = "record"]
        /\ req'[u].key = req[u].key
        /\ stage \in [Tasks -> Stages]
    BY <1>0, <1>5, CallsFrame DEF GateInv
  <2>3. /\ rec'[t].day = today /\ today' = today
        /\ \A v \in Tasks \ {t} : rec'[v] = rec[v]
    BY <1>0, <2>1, <2>2, BeginFacts
  <2>4. CASE u # t
    BY <1>0, <1>1, <1>2, <2>2, <2>3, <2>4, MayFrame
  <2>5. CASE u = t
    <3>1. req[t].key = k /\ (d >= today \/ today = d)
      BY <1>2, <2>2, <2>3, <2>5 DEF May
    <3>2. d >= today
      BY <1>0, <3>1
    <3> QED BY <2>2, <2>5, <3>1, <3>2 DEF May
  <2> QED BY <2>4, <2>5
<1>6. ASSUME NEW t \in Tasks, RecorderStep(t) PROVE May(u, k, d)
  <2>1. Keeps(k, d) \/ Spends(k, d)
    BY <1>0, <1>6, StepKeepsOrSpends
  <2> QED BY <1>2, <2>1 DEF Keeps, Spends, MayCharge
<1>7. ASSUME NEW t \in Tasks, Finish(t) PROVE May(u, k, d)
  <2>1. CASE u # t
    BY <1>0, <1>1, <1>2, <1>7, <2>1, FinishFrame, MayFrame DEF GateInv, TypeInv, RecTypeOK
  <2>2. CASE u = t
    BY <1>0, <1>2, <1>7, <2>2, FinishFrame DEF GateInv, May
  <2> QED BY <2>1, <2>2
<1>8. ASSUME NEW j \in Keys, Revoke(j) PROVE May(u, k, d)
  BY <1>2, <1>8 DEF Revoke, recVars, May
<1>9. CASE NextMidnight
  BY <1>0, <1>1, <1>2, <1>9, MayFrame DEF NextMidnight, Midnight, reqVars
<1>10. CASE Restart
  BY <1>2, <1>10 DEF Restart, May
<1> QED BY <1>3, <1>4, <1>5, <1>6, <1>7, <1>8, <1>9, <1>10, NextCases

LEMMA FutureUnusedStep ==
  ASSUME ~ LostAcks, QuotaInv, [Next]_vars
  PROVE  FutureUnused'
<1>0. /\ GateInv /\ TypeInv /\ RowInv /\ FutureUnused
      /\ today \in Nat /\ usage \in [Keys -> [Days -> Nat]]
  BY DEF QuotaInv, AccountInv, GateInv, TypeInv, RecTypeOK, Days
<1>1. CASE usage' = usage /\ (today' = today \/ today' = today + 1)
  <2>1. \A d \in Days : d > today' => d > today
    BY <1>0, <1>1 DEF Days
  <2> QED BY <1>0, <1>1, <2>1 DEF FutureUnused
<1>2. ASSUME NEW t \in Tasks, RecorderStep(t) PROVE FutureUnused'
  <2>1. RecStep(t)
    BY <1>2 DEF RecorderStep
  <2>2. today' = today
    BY <1>0, <2>1, StepFrame
  <2>3. CASE usage' = usage
    BY <1>1, <2>2, <2>3
  <2>4. CASE Writes(t)
    <3>1. rec[t].day <= today /\ rec[t] \in Recordings
      BY <1>0, <2>4 DEF Writes, RowInv, DayOfRecording, TypeInv, RecTypeOK
    <3>2. rec[t].day \in Nat
      BY <3>1 DEF Recordings, Days
    <3>3. SUFFICES ASSUME NEW k \in Keys, NEW d \in Days, d > today
                   PROVE  usage'[k][d] = 0
      BY <2>2 DEF FutureUnused
    <3>4. d # rec[t].day
      BY <1>0, <3>1, <3>2, <3>3 DEF Days
    <3>5. usage'[k][d] = usage[k][d]
      BY <1>0, <2>4, <3>1, <3>4, ChargedFacts DEF Writes
    <3> QED BY <1>0, <3>3, <3>5 DEF FutureUnused
  <2> QED BY <1>0, <2>1, <2>3, <2>4, UsageStep
<1>3. ASSUME NEW t \in Tasks, Moves(t) \/ Calls(t) \/ Finish(t)
      PROVE  usage' = usage /\ today' = today
  BY <1>0, <1>3, MovesFrame, CallsFrame, FinishFrame DEF Begin
<1> QED BY <1>1, <1>2, <1>3, NextCases
        DEF Revoke, NextMidnight, Midnight, Restart, vars, recVars

LEMMA CheckIsRecentStep ==
  ASSUME QuotaInv, [Next]_vars
  PROVE  CheckIsRecent'
<1>0. /\ GateInv /\ TypeInv /\ CheckIsRecent
      /\ today \in Nat /\ stage \in [Tasks -> Stages]
      /\ req \in [Tasks -> Requests]
  BY DEF QuotaInv, AccountInv, GateInv, TypeInv, RecTypeOK, Days
<1>1. CASE UNCHANGED <<stage, req, today>>
  BY <1>0, <1>1 DEF CheckIsRecent
<1>2. ASSUME NEW t \in Tasks, Moves(t) PROVE CheckIsRecent'
  <2>1. /\ today' = today
        /\ \A u \in Tasks \ {t} : stage'[u] = stage[u] /\ req'[u] = req[u]
    BY <1>0, <1>2, MovesFrame
  <2>2. ASSUME stage'[t] = "quota" PROVE req'[t].day <= today /\ today <= req'[t].day + 1
    <3>1. CASE CheckLimiter(t)
      <4>1. req' = [req EXCEPT ![t].day = today]
        BY <1>0, <2>2, <3>1 DEF CheckLimiter, Goto, Answer
      <4>2. req'[t].day = today
        BY <1>0, <4>1 DEF Requests
      <4> QED BY <1>0, <4>2
    <3>2. CASE SessionCheckout(t)
      BY <1>0, <2>2, <3>2 DEF SessionCheckout, reqVars, CheckIsRecent
    <3>3. CASE ~ CheckLimiter(t) /\ ~ SessionCheckout(t)
      BY <1>0, <1>2, <2>2, <3>3
         DEF Moves, Arrive, SessionTimeout, StatementFails, SelectKey, TouchKey,
             CheckQuota, CheckParameters, ResolveAndClose, AnswerFromCatalogue,
             Recorded, Goto, Answer
    <3> QED BY <3>1, <3>2, <3>3
  <2> QED BY <1>0, <2>1, <2>2 DEF CheckIsRecent
<1>3. ASSUME NEW t \in Tasks, Calls(t) PROVE CheckIsRecent'
  <2>1. /\ stage' = [stage EXCEPT ![t] = "record"]
        /\ \A u \in Tasks : req'[u].day = req[u].day
        /\ today' = today
    BY <1>0, <1>3, CallsFrame DEF Begin
  <2> QED BY <1>0, <2>1 DEF CheckIsRecent
<1>4. ASSUME NEW t \in Tasks, RecorderStep(t) PROVE CheckIsRecent'
  <2>1. today' = today
    BY <1>0, <1>4, StepFrame DEF RecorderStep
  <2> QED BY <1>1, <1>4, <2>1 DEF RecorderStep, reqVars
<1>5. ASSUME NEW t \in Tasks, Finish(t) PROVE CheckIsRecent'
  BY <1>0, <1>5, FinishFrame DEF CheckIsRecent
<1>6. CASE NextMidnight
  <2>1. /\ today' = today + 1 /\ stage' = stage /\ req' = req
        /\ \A t \in Tasks : stage[t] = "quota" => req[t].day = today
    BY <1>6 DEF NextMidnight, Midnight, reqVars
  <2> QED BY <1>0, <2>1 DEF CheckIsRecent
<1>7. CASE Restart
  BY <1>7 DEF Restart, CheckIsRecent
<1> QED BY <1>1, <1>2, <1>3, <1>4, <1>5, <1>6, <1>7, NextCases
        DEF Revoke, vars, recVars, reqVars

LEMMA QuotaInit == Init => QuotaInv
<1> SUFFICES ASSUME Init PROVE QuotaInv
  OBVIOUS
<1>1. AccountInv /\ GateInv /\ RecordsInPlace
  BY AccountInit, ConnInit DEF ConnInv, AccountInv
<1>2. \A k \in Keys, d \in Days : usage[k][d] = 0
  BY DEF Init, RecInit, NoUsage
<1>3. FutureUnused /\ CheckIsRecent
  BY <1>2 DEF FutureUnused, CheckIsRecent, Init
<1>4. ASSUME NEW k \in Keys, NEW d \in Days, DailyLimit[k] > 0
      PROVE  usage[k][d] + MaxTokens * Cardinality(MayCharge(k, d)) <= Margin(k)
  <2>1. /\ MaxTokens * Cardinality(MayCharge(k, d)) \in Nat
        /\ MaxTokens * Cardinality(MayCharge(k, d)) <= Cardinality(Tasks) * MaxTokens
        /\ Cardinality(Tasks) \in Nat /\ MaxTokens \in Nat
    BY InFlightFinite, RecorderAssumption DEF MayCharge
  <2>2. Cardinality(Tasks) * MaxTokens \in Nat
    BY <2>1
  <2>3. DailyLimit[k] \in Nat
    BY GatewayAssumption
  <2> QED BY <1>2, <1>4, <2>1, <2>2, <2>3 DEF Margin
<1> QED BY <1>1, <1>3, <1>4 DEF QuotaInv, QuotaBudget

LEMMA QuotaImpliesBound == QuotaInv => QuotaOvershootBounded
<1> SUFFICES ASSUME QuotaInv, NEW k \in Keys, NEW d \in Days, DailyLimit[k] > 0
             PROVE  usage[k][d] <= Margin(k)
  BY DEF QuotaOvershootBounded
<1>1. /\ MaxTokens * Cardinality(MayCharge(k, d)) \in Nat
      /\ Cardinality(Tasks) \in Nat /\ MaxTokens \in Nat
  BY InFlightFinite, RecorderAssumption DEF MayCharge
<1>2. Cardinality(Tasks) * MaxTokens \in Nat /\ DailyLimit[k] \in Nat
  BY <1>1, GatewayAssumption
<1>3. Margin(k) \in Int
  BY <1>2 DEF Margin
<1>4. usage[k][d] \in Nat
  BY DEF QuotaInv, AccountInv, GateInv, TypeInv, RecTypeOK
<1>5. usage[k][d] + MaxTokens * Cardinality(MayCharge(k, d)) <= Margin(k)
  BY DEF QuotaInv, QuotaBudget
<1> QED BY <1>1, <1>3, <1>4, <1>5

(* The margin of the daily quota that the README accepts is a bound: with  *)
(* no acknowledgement lost, a key never ends a day more than one request's *)
(* tokens per request in flight above its limit, whatever the midnights,   *)
(* the retries, the failures and the restarts in between.                  *)
THEOREM QuotaBounded == ~ LostAcks /\ Spec => []QuotaOvershootBounded
<1> DEFINE Inv == ConnInv /\ QuotaInv
<1> SUFFICES ASSUME ~ LostAcks PROVE Spec => []QuotaOvershootBounded
  BY DEF Spec
<1>1. Init => Inv
  BY ConnInit, QuotaInit
<1>2. Inv /\ [Next]_vars => Inv'
  <2> SUFFICES ASSUME Inv, [Next]_vars PROVE Inv'
    OBVIOUS
  <2>1. ConnInv' /\ GateInv' /\ RecordsInPlace'
    BY ConnStep DEF ConnInv
  <2>2. AccountInv'
    BY AccountStep DEF QuotaInv
  <2>3. QuotaBudget'
    BY <2>1, NextKeepsSpendsOrAdmits, BudgetStep DEF QuotaInv, ConnInv
  <2>4. FutureUnused' /\ CheckIsRecent'
    BY FutureUnusedStep, CheckIsRecentStep
  <2> QED BY <2>1, <2>2, <2>3, <2>4 DEF QuotaInv
<1>3. Inv => QuotaOvershootBounded
  BY QuotaImpliesBound
<1> QED BY <1>1, <1>2, <1>3, PTL DEF Spec

-----------------------------------------------------------------------------
(* The gateway implements the ledger of a server                           *)

(* A task that was not recorded carries nothing of an earlier request.     *)
NothingLeftOver == \A t \in Tasks : rec[t].phase = "off" => rec[t] = Unrecorded

ServerInv == AccountInv /\ ConnInv /\ NothingLeftOver

LEMMA NothingLeftOverStep ==
  ASSUME ServerInv, [Next]_vars
  PROVE  NothingLeftOver'
<1> USE DEF ServerInv, NothingLeftOver
<1>0. TypeInv /\ rec \in [Tasks -> Recordings]
  BY DEF ConnInv, GateInv, TypeInv, RecTypeOK
<1>1. CASE UNCHANGED rec
  BY <1>1
<1>2. ASSUME NEW t \in Tasks, Calls(t) PROVE NothingLeftOver'
  <2>1. PICK n \in 0..MaxTokens : Begin(t, req[t].key, n)
    BY <1>2, CallsFrame DEF ConnInv
  <2>2. rec'[t].phase # "off" /\ \A u \in Tasks \ {t} : rec'[u] = rec[u]
    BY <1>0, <1>2, <2>1, CallsFrame, BeginFacts DEF ConnInv
  <2> QED BY <2>2
<1>3. ASSUME NEW t \in Tasks, RecorderStep(t) PROVE NothingLeftOver'
  <2>1. RecStep(t) /\ \A u \in Tasks \ {t} : rec'[u] = rec[u]
    BY <1>0, <1>3, StepFrame DEF RecorderStep
  <2>2. rec'[t].phase # "off"
    BY <1>0, <2>1, StepCases, CheckoutFacts, MergeFacts, WakeUpFacts, EndsPhaseFacts,
       FailsTryFacts
       DEF Checkout, WakeUp, Waiting, Recording
  <2> QED BY <2>1, <2>2
<1>4. ASSUME NEW t \in Tasks, Finish(t) PROVE NothingLeftOver'
  BY <1>0, <1>4 DEF Finish
<1>5. CASE Restart
  BY <1>5 DEF Restart
<1>6. ASSUME NEW t \in Tasks, Moves(t) PROVE UNCHANGED rec
  BY <1>6, MovesFrame DEF ConnInv
<1>7. (\E k \in Keys : Revoke(k)) \/ NextMidnight \/ UNCHANGED vars => UNCHANGED rec
  BY DEF Revoke, NextMidnight, Midnight, vars, recVars
<1> QED BY <1>1, <1>2, <1>3, <1>4, <1>5, <1>6, <1>7, NextCases

(* A request that is torn down forgets its entry, if it had one.           *)
LEMMA FinishForgets ==
  ASSUME ServerInv, NEW t \in Tasks, Finish(t)
  PROVE  L!Forget(t) \/ UNCHANGED L!ledgerVars
<1>0. /\ rec \in [Tasks -> Recordings] /\ hist \in [Tasks -> Histories]
      /\ GateInv
  BY DEF ServerInv, ConnInv, GateInv, TypeInv, RecTypeOK
<1>1. /\ UNCHANGED <<usage, today>>
      /\ rec' = [rec EXCEPT ![t] = Unrecorded]
      /\ hist' = [hist EXCEPT ![t] = NoHistory]
      /\ stage[t] = "reply"
  BY <1>0, FinishFrame
<1>2. ~ Recording(t)
  BY <1>1 DEF ServerInv, ConnInv, RecordsInPlace
<1>3. rec[t].phase \in {"off", "done"}
  BY <1>0, <1>2 DEF Recording, Recordings, Phases
<1> DEFINE blank == [state |-> "none", key |-> AnyKey, tokens |-> 0, since |-> 0]
<1>4. EntryOf(rec'[t], WasCharged(t)') = blank
  <2>1. rec'[t] = Unrecorded /\ WasCharged(t)' \in BOOLEAN
    BY <1>0, <1>1 DEF WasCharged
  <2>2. EntryState(rec'[t], WasCharged(t)') = "none"
    BY <2>1, EntryStateFacts DEF Unrecorded
  <2> QED BY <2>1, <2>2 DEF EntryOf, Unrecorded
<1>5. \A u \in Tasks \ {t} : EntryOf(rec'[u], WasCharged(u)') = Entries[u]
  <2>1. \A u \in Tasks \ {t} : rec'[u] = rec[u] /\ hist'[u] = hist[u]
    BY <1>0, <1>1
  <2> QED BY <2>1, EntriesFacts DEF WasCharged
<1>6. Entries' = [u \in Tasks |-> EntryOf(rec'[u], WasCharged(u)')]
  BY DEF Entries, EntryOf
<1>7. Entries' = [Entries EXCEPT ![t] = blank]
  BY <1>4, <1>5, <1>6, EntriesFacts
<1>8. CASE rec[t].phase = "off"
  <2>1. Entries[t] = blank
    <3>1. rec[t] = Unrecorded /\ WasCharged(t) \in BOOLEAN
      BY <1>8 DEF ServerInv, NothingLeftOver, WasCharged
    <3>2. EntryState(rec[t], WasCharged(t)) = "none"
      BY <3>1, EntryStateFacts DEF Unrecorded
    <3> QED BY <3>1, <3>2, EntriesFacts DEF EntryOf, Unrecorded
  <2>2. Entries' = Entries
    BY <1>7, <2>1, EntriesFacts
  <2> QED BY <1>1, <2>2 DEF L!ledgerVars
<1>9. CASE rec[t].phase = "done"
  <2>1. Entries[t].state = "closed"
    BY <1>9, EntriesFacts DEF EntryState
  <2>2. blank \in L!Blank
    BY RecorderAssumption DEF L!Blank, AnyKey
  <2> HIDE DEF blank
  <2> QED BY <1>1, <1>7, <2>1, <2>2 DEF L!Forget
<1> QED BY <1>3, <1>8, <1>9

LEMMA RestartIsCrash ==
  ASSUME Restart
  PROVE  L!Crash
<1>1. \A t \in Tasks : EntryOf(rec'[t], WasCharged(t)')
                         = [state |-> "none", key |-> AnyKey, tokens |-> 0, since |-> 0]
  <2> TAKE t \in Tasks
  <2>1. rec'[t] = Unrecorded /\ WasCharged(t)' \in BOOLEAN
    BY DEF Restart, WasCharged
  <2>2. EntryState(rec'[t], WasCharged(t)') = "none"
    BY <2>1, EntryStateFacts DEF Unrecorded
  <2> QED BY <2>1, <2>2 DEF EntryOf, Unrecorded
<1>2. Entries' = [t \in Tasks |-> EntryOf(rec'[t], WasCharged(t)')]
  BY DEF Entries, EntryOf
<1>3. AnyKey \in Keys
  BY RecorderAssumption DEF AnyKey
<1>4. Entries' \in [Tasks -> L!Blank]
  BY <1>1, <1>2, <1>3 DEF L!Blank
<1> QED BY <1>4 DEF L!Crash, Restart

LEMMA NextInLedger ==
  ASSUME ~ LostAcks, ServerInv, [Next]_vars
  PROVE  L!ServerNext \/ UNCHANGED L!ledgerVars
<1> USE DEF ServerInv, L!ServerNext
<1>0. GateInv /\ TypeInv
  BY DEF ConnInv, GateInv
<1>1. CASE UNCHANGED <<today, usage, rec, hist>>
  BY <1>1 DEF L!ledgerVars, Entries, EntryState, WasCharged
<1>2. ASSUME NEW t \in Tasks, Moves(t) PROVE UNCHANGED <<today, usage, rec, hist>>
  BY <1>0, <1>2, MovesFrame
<1>3. ASSUME NEW t \in Tasks, Calls(t) PROVE L!ServerNext
  <2>1. PICK n \in 0..MaxTokens : Begin(t, req[t].key, n)
    BY <1>0, <1>3, CallsFrame
  <2>2. L!Open(t)
    BY <1>0, <1>3, <2>1, CallsFrame, BeginInLedger
  <2> QED BY <2>2 DEF L!LedgerNext
<1>4. ASSUME NEW t \in Tasks, RecorderStep(t)
      PROVE  L!ServerNext \/ UNCHANGED L!ledgerVars
  BY <1>0, <1>4, StepInLedger DEF RecorderStep, AccountInv
<1>5. ASSUME NEW t \in Tasks, Finish(t)
      PROVE  L!ServerNext \/ UNCHANGED L!ledgerVars
  BY <1>5, FinishForgets
<1>6. CASE NextMidnight
  <2>1. L!NextDay
    BY <1>6 DEF NextMidnight, Midnight, L!NextDay, Entries, EntryState, WasCharged
  <2> QED BY <2>1 DEF L!LedgerNext
<1>7. CASE Restart
  BY <1>7, RestartIsCrash
<1>8. (\E k \in Keys : Revoke(k)) \/ UNCHANGED vars
        => UNCHANGED <<today, usage, rec, hist>>
  BY DEF Revoke, vars, recVars
<1> QED BY <1>1, <1>2, <1>3, <1>4, <1>5, <1>6, <1>7, <1>8, NextCases

(* Through admission, retries, revocations, midnights and restarts, every  *)
(* step of the gateway is a step of the ledger of a server or leaves it    *)
(* alone: an answered request is charged once or not at all, on a day of   *)
(* its recording, and nothing else touches the usage.                      *)
THEOREM GatewayImplementsLedger == ~ LostAcks /\ Spec => ImplementsServerLedger
<1> SUFFICES ASSUME ~ LostAcks PROVE Spec => ImplementsServerLedger
  BY DEF Spec
<1>1. Init => ServerInv
  BY AccountInit, ConnInit DEF Init, RecInit, ServerInv, NothingLeftOver
<1>2. Init => L!LedgerInit
  BY RecorderInitInLedger DEF Init
<1>3. ServerInv /\ [Next]_vars => ServerInv'
  BY AccountStep, ConnStep, NothingLeftOverStep DEF ServerInv
<1>4. ServerInv /\ [Next]_vars => [L!ServerNext]_(L!ledgerVars)
  BY NextInLedger
<1> QED BY <1>1, <1>2, <1>3, <1>4, PTL DEF Spec, ImplementsServerLedger, L!ServerSpec

-----------------------------------------------------------------------------
(* Each step of a request is one less                                      *)

LEMMA StageNumbers ==
  /\ StepsOfStage["idle"] = 0    /\ StepsOfStage["reply"] = 1
  /\ StepsOfStage["record"] = 2  /\ StepsOfStage["model"] = 27
  /\ StepsOfStage["resolve"] = 28 /\ StepsOfStage["params"] = 30
  /\ StepsOfStage["quota"] = 31  /\ StepsOfStage["limit"] = 33
  /\ StepsOfStage["touch"] = 34  /\ StepsOfStage["select"] = 36
  /\ \A s \in Stages : StepsOfStage[s] \in Nat /\ (s # "idle" => StepsOfStage[s] > 0)
  /\ MaxIntentos = 3
BY DEF StepsOfStage, Stages, MaxIntentos

(* Before the recording only the stage and the queue count.                *)
LEMMA StepsBeforeRecord ==
  ASSUME GateInv, NEW t \in Tasks
  PROVE  /\ stage[t] # "record" /\ ~ Queued(t) =>
              RequestStepsLeft(t) = StepsOfStage[stage[t]]
         /\ stage[t] # "record" /\ Queued(t) =>
              RequestStepsLeft(t) = StepsOfStage[stage[t]] + 1
         /\ stage[t] = "record" => RequestStepsLeft(t) = 2 + StepsLeft(rec[t])
         /\ RequestStepsLeft(t) >= StepsOfStage[stage[t]]
         /\ RequestStepsLeft(t) \in Nat
<1>1. stage[t] \in Stages /\ rec[t] \in Recordings
  BY DEF GateInv, TypeInv, RecTypeOK
<1>2. StepsOfStage[stage[t]] \in Nat /\ StepsLeft(rec[t]) \in Nat
  BY <1>1, StageNumbers, StepsBounds
<1>3. stage[t] = "record" => ~ Queued(t)
  BY DEF Queued, Querying
<1> QED BY <1>2, <1>3, StageNumbers DEF RequestStepsLeft

LEMMA Replies ==
  ASSUME GateInv, GateInv', NEW t \in Tasks,
         stage[t] \notin {"idle", "reply"}, stage'[t] = "reply"
  PROVE  RequestStepsLeft(t)' < RequestStepsLeft(t)
<1>1. stage[t] \in Stages /\ RequestStepsLeft(t) \in Nat
      /\ RequestStepsLeft(t) >= StepsOfStage[stage[t]]
  BY StepsBeforeRecord DEF GateInv
<1>2. StepsOfStage[stage[t]] >= 2
  BY <1>1, StageNumbers DEF Stages
<1>3. RequestStepsLeft(t)' = 1
  BY StageNumbers DEF RequestStepsLeft, Queued, Querying
<1>4. StepsOfStage[stage[t]] \in Nat
  BY <1>1, StageNumbers
<1> QED BY <1>1, <1>2, <1>3, <1>4

(* From a stage to a later one.                                            *)
LEMMA Descends ==
  ASSUME GateInv, GateInv', NEW t \in Tasks,
         stage'[t] # "record",
         \/ StepsOfStage[stage'[t]] + 1 < StepsOfStage[stage[t]]
         \/ StepsOfStage[stage'[t]] < StepsOfStage[stage[t]] /\ ~ Queued(t)'
  PROVE  RequestStepsLeft(t)' < RequestStepsLeft(t)
<1>1. /\ stage[t] \in Stages /\ RequestStepsLeft(t) \in Nat
      /\ RequestStepsLeft(t) >= StepsOfStage[stage[t]]
  BY StepsBeforeRecord DEF GateInv
<1>2. stage'[t] \in Stages
  BY DEF GateInv
<1>3. RequestStepsLeft(t)' = StepsOfStage[stage'[t]] + (IF Queued(t)' THEN 1 ELSE 0)
  BY <1>2, StageNumbers DEF RequestStepsLeft, StepsOfStage, MaxIntentos
<1>4. StepsOfStage[stage'[t]] \in Nat /\ StepsOfStage[stage[t]] \in Nat
  BY <1>1, <1>2, StageNumbers
<1> QED BY <1>1, <1>3, <1>4

LEMMA MovesAdvance ==
  ASSUME GateInv, GateInv', SessionsInPlace, NEW t \in Tasks, Moves(t),
         stage[t] # "idle"
  PROVE  RequestStepsLeft(t)' < RequestStepsLeft(t)
<1>0. stage \in [Tasks -> Stages] /\ MaxIntentos = 3
  BY DEF GateInv, MaxIntentos
<1>1. CASE \E k \in Keys : Arrive(t, k)
  BY <1>1 DEF Arrive
<1>2. CASE SessionCheckout(t)
  <2>1. stage' = stage /\ Queued(t) /\ ~ Queued(t)'
    BY <1>2 DEF SessionCheckout, reqVars, Queued
  <2>2. stage[t] # "record"
    BY <2>1 DEF Queued, Querying
  <2>3. RequestStepsLeft(t) = StepsOfStage[stage[t]] + 1
    BY <2>1, <2>2, StepsBeforeRecord
  <2>4. RequestStepsLeft(t)' = StepsOfStage[stage[t]]
    <3>1. StepsOfStage[stage[t]] \in Nat
      BY <1>0, StageNumbers
    <3> QED BY <2>1, <2>2, <3>1 DEF RequestStepsLeft, StepsOfStage, MaxIntentos
  <2>5. StepsOfStage[stage[t]] \in Nat
    BY <1>0, StageNumbers
  <2> QED BY <2>3, <2>4, <2>5
<1>3. CASE SessionTimeout(t) \/ StatementFails(t) \/ AnswerFromCatalogue(t)
  <2>1. stage[t] \notin {"idle", "reply"} /\ stage'[t] = "reply"
    BY <1>0, <1>3 DEF SessionTimeout, StatementFails, AnswerFromCatalogue, Queued,
                      Querying, Answer, Goto
  <2> QED BY <2>1, Replies
<1>4. CASE SelectKey(t)
  <2>1. /\ stage[t] = "select" /\ Session(t) \in pool /\ pool' = pool
        /\ stage'[t] \in {"touch", "reply"}
    BY <1>0, <1>4 DEF SelectKey, Answer, Goto, recVars
  <2> QED BY <2>1, Replies, Descends, StageNumbers
<1>5. CASE TouchKey(t)
  <2>1. stage[t] = "touch" /\ stage'[t] = "limit"
    BY <1>0, <1>5 DEF TouchKey, Goto
  <2>2. ~ Queued(t)'
    BY <2>1 DEF Queued, Querying
  <2> QED BY <2>1, <2>2, Descends, StageNumbers
<1>6. CASE CheckLimiter(t)
  <2>1. stage[t] = "limit" /\ stage'[t] \in {"reply", "params", "quota"}
    BY <1>0, <1>6 DEF CheckLimiter, Answer, Goto
  <2> QED BY <2>1, Replies, Descends, StageNumbers
<1>7. CASE CheckQuota(t)
  <2>1. stage[t] = "quota" /\ stage'[t] \in {"reply", "params"}
    BY <1>0, <1>7 DEF CheckQuota, Answer, Goto
  <2>2. stage'[t] = "params" => ~ Queued(t)'
    BY DEF Queued, Querying
  <2> QED BY <2>1, <2>2, Replies, Descends, StageNumbers
<1>8. CASE CheckParameters(t)
  <2>1. stage[t] = "params" /\ stage'[t] \in {"reply", "resolve"}
    BY <1>0, <1>8 DEF CheckParameters, Answer, Goto
  <2> QED BY <2>1, Replies, Descends, StageNumbers
<1>9. CASE ResolveAndClose(t)
  <2>1. stage[t] = "resolve" /\ stage'[t] = "model"
    BY <1>0, <1>9 DEF ResolveAndClose, Goto
  <2>2. ~ Queued(t)'
    BY <2>1 DEF Queued, Querying
  <2> QED BY <2>1, <2>2, Descends, StageNumbers
<1>10. CASE Recorded(t)
  <2>1. stage[t] = "record" /\ stage'[t] = "reply"
    BY <1>0, <1>10 DEF Recorded, Goto
  <2> QED BY <2>1, Replies
<1> QED BY <1>1, <1>2, <1>3, <1>4, <1>5, <1>6, <1>7, <1>8, <1>9, <1>10 DEF Moves

LEMMA CallsAdvance ==
  ASSUME GateInv, GateInv', NEW t \in Tasks, Calls(t)
  PROVE  RequestStepsLeft(t)' < RequestStepsLeft(t)
<1>1. /\ stage \in [Tasks -> Stages] /\ rec' \in [Tasks -> Recordings]
  BY DEF GateInv, TypeInv, RecTypeOK
<1>2. stage[t] = "model" /\ stage'[t] = "record"
  BY <1>1, CallsFrame
<1>3. RequestStepsLeft(t) = 27
  <2>1. ~ Queued(t)
    BY <1>2 DEF Queued, Querying
  <2> QED BY <1>2, <2>1, StepsBeforeRecord, StageNumbers
<1>4. StepsLeft(rec'[t]) \in 0..24
  BY <1>1, StepsBounds DEF MaxIntentos
<1>5. RequestStepsLeft(t)' = 2 + StepsLeft(rec'[t])
  <2>1. ~ Queued(t)'
    BY <1>2 DEF Queued, Querying
  <2>2. RequestStepsLeft(t)' = StepsOfStage["record"] + StepsLeft(rec'[t]) + 0
    BY <1>2, <2>1 DEF RequestStepsLeft, StepsOfStage, StepsLeft, StepsOfTries,
                      StepsOfTry, MaxIntentos
  <2> QED BY <1>4, <2>2, StageNumbers
<1> QED BY <1>3, <1>4, <1>5

LEMMA RecorderAdvances ==
  ASSUME GateInv, GateInv', NEW t \in Tasks, RecorderStep(t)
  PROVE  RequestStepsLeft(t)' < RequestStepsLeft(t)
<1>1. rec \in [Tasks -> Recordings] /\ rec' \in [Tasks -> Recordings] /\ TypeInv
  BY DEF GateInv, TypeInv, RecTypeOK
<1>2. stage[t] = "record" /\ stage'[t] = "record" /\ RecStep(t)
  BY DEF RecorderStep, reqVars
<1>3. StepsLeft(rec'[t]) < StepsLeft(rec[t])
  BY <1>1, <1>2, RecordingAdvances
<1>4. StepsLeft(rec'[t]) \in Nat /\ StepsLeft(rec[t]) \in Nat
  BY <1>1, StepsBounds DEF MaxIntentos
<1>5. RequestStepsLeft(t) = 2 + StepsLeft(rec[t])
  BY <1>2, StepsBeforeRecord
<1>6. RequestStepsLeft(t)' = 2 + StepsLeft(rec'[t])
  <2>1. ~ Queued(t)'
    BY <1>2 DEF Queued, Querying
  <2>2. RequestStepsLeft(t)' = StepsOfStage["record"] + StepsLeft(rec'[t]) + 0
    BY <1>2, <2>1 DEF RequestStepsLeft, StepsOfStage, StepsLeft, StepsOfTries,
                      StepsOfTry, MaxIntentos
  <2> QED BY <1>4, <2>2, StageNumbers
<1> QED BY <1>3, <1>4, <1>5, <1>6

(* Every step of a request, of its recording included, is one of the steps *)
(* it had left, and no step of another request or of the world gives it    *)
(* more: with a bound of 37 for a request that arrives, this is the safety *)
(* half of EveryRequestEnds, and fairness is only needed for each step.    *)
THEOREM RequestsNeverGoBack == Spec => RequestsAdvance
<1>1. ConnInv /\ ConnInv' /\ [Next]_vars =>
        \A t \in Tasks :
          stage[t] = "idle" \/ Rests(t) \/ RequestStepsLeft(t)' < RequestStepsLeft(t)
  <2> SUFFICES ASSUME ConnInv, ConnInv', [Next]_vars, NEW t \in Tasks, stage[t] # "idle"
               PROVE  Rests(t) \/ RequestStepsLeft(t)' < RequestStepsLeft(t)
    OBVIOUS
  <2>0. GateInv /\ GateInv' /\ TypeInv /\ SessionsInPlace
    BY DEF ConnInv, GateInv
  <2>1. ASSUME NEW u \in Tasks, Moves(u)
        PROVE  Rests(t) \/ RequestStepsLeft(t)' < RequestStepsLeft(t)
    <3>1. CASE u = t
      BY <2>0, <2>1, <3>1, MovesAdvance
    <3>2. CASE u # t
      <4>1. rec' = rec /\ stage'[t] = stage[t]
        BY <2>0, <2>1, <3>2, MovesFrame
      <4>2. \/ pool' = pool \/ pool' = pool \ {Session(u)} \/ pool' = pool \cup {Session(u)}
        BY <2>0, <2>1, MovesFrame
      <4>3. Session(t) \in pool' <=> Session(t) \in pool
        BY <3>2, <4>2 DEF Session
      <4> QED BY <4>1, <4>3 DEF Rests
    <3> QED BY <3>1, <3>2
  <2>2. ASSUME NEW u \in Tasks, Calls(u)
        PROVE  Rests(t) \/ RequestStepsLeft(t)' < RequestStepsLeft(t)
    <3>1. CASE u = t
      BY <2>0, <2>2, <3>1, CallsAdvance
    <3>2. CASE u # t
      <4>1. PICK n \in 0..MaxTokens : Begin(u, req[u].key, n)
        BY <2>0, <2>2, CallsFrame
      <4>2. rec'[t] = rec[t] /\ pool' = pool
        BY <2>0, <2>2, <3>2, <4>1, CallsFrame, BeginFacts
      <4>3. stage'[t] = stage[t]
        BY <2>0, <2>2, <3>2, CallsFrame DEF GateInv
      <4> QED BY <4>2, <4>3 DEF Rests
    <3> QED BY <3>1, <3>2
  <2>3. ASSUME NEW u \in Tasks, RecorderStep(u)
        PROVE  Rests(t) \/ RequestStepsLeft(t)' < RequestStepsLeft(t)
    <3>1. CASE u = t
      BY <2>0, <2>3, <3>1, RecorderAdvances
    <3>2. CASE u # t
      <4>1. RecStep(u) /\ stage' = stage /\ "request" \in Sessions
        BY <2>3 DEF RecorderStep, reqVars, Sessions
      <4>2. rec'[t] = rec[t] /\ (Session(t) \in pool' <=> Session(t) \in pool)
        BY <2>0, <3>2, <4>1, StepFrame DEF Session
      <4> QED BY <4>1, <4>2 DEF Rests
    <3> QED BY <3>1, <3>2
  <2>4. ASSUME NEW u \in Tasks, Finish(u)
        PROVE  Rests(t) \/ RequestStepsLeft(t)' < RequestStepsLeft(t)
    <3>0. stage \in [Tasks -> Stages] /\ rec \in [Tasks -> Recordings]
      BY <2>0 DEF GateInv, TypeInv, RecTypeOK
    <3>1. CASE u = t
      <4>1. stage[t] = "reply" /\ stage'[t] = "idle"
        BY <2>0, <2>4, <3>0, <3>1, FinishFrame
      <4>2. ~ Queued(t)
        BY <4>1 DEF Queued, Querying
      <4>3. ~ Queued(t)'
        BY <4>1 DEF Queued, Querying
      <4> QED BY <2>0, <4>1, <4>2, <4>3, Descends, StageNumbers
    <3>2. CASE u # t
      <4>1. /\ stage'[t] = stage[t] /\ rec'[t] = rec[t]
            /\ pool' = pool \ {Session(u)}
        BY <2>0, <2>4, <3>0, <3>2, FinishFrame
      <4> QED BY <3>2, <4>1 DEF Rests, Session
    <3> QED BY <3>1, <3>2
  <2>5. CASE Restart
    <3>1. stage'[t] = "idle" /\ stage[t] \in Stages
      BY <2>0, <2>5 DEF Restart, GateInv
    <3>2. ~ Queued(t)'
      BY <3>1 DEF Queued, Querying
    <3>3. StepsOfStage[stage'[t]] < StepsOfStage[stage[t]]
      BY <3>1, StageNumbers
    <3> QED BY <2>0, <3>1, <3>2, <3>3, Descends
  <2>6. (\E k \in Keys : Revoke(k)) \/ NextMidnight \/ UNCHANGED vars => Rests(t)
    BY DEF Revoke, NextMidnight, Midnight, vars, recVars, reqVars, Rests
  <2> QED BY <2>1, <2>2, <2>3, <2>4, <2>5, <2>6, NextCases
<1> QED BY <1>1, ConnInit, ConnStep, PTL DEF Spec, RequestsAdvance
=============================================================================
