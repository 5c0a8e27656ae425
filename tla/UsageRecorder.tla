---------------------------- MODULE UsageRecorder ----------------------------
(***************************************************************************)
(* ScopedRecordUsage: how the consumption of an answered request reaches   *)
(* the table ApiKeyUsage and the table RequestLogs.                        *)
(*                                                                         *)
(* A recording has two phases, "usage" (what is charged) and "log" (the    *)
(* audit row).  Each phase is tried at most MaxIntentos times, and every   *)
(* try has a session, hence a connection and a transaction, of its own.    *)
(* The MERGE of the usage phase reads the row of (key, day) and writes it  *)
(* back under HOLDLOCK, so that row is locked from the MERGE to the end of *)
(* the transaction.  The whole recording is shielded from cancellation.    *)
(*                                                                         *)
(* A transaction ends in one of five ways: committed; aborted with an      *)
(* error that es_transitorio calls transient; aborted with another error;  *)
(* never begun because the pool gave no connection in time; or committed   *)
(* by the server while the client sees its connection die (LostAcks).      *)
(***************************************************************************)
EXTENDS Naturals, FiniteSets

CONSTANTS Tasks,         \* the requests being recorded
          Keys,          \* the API keys
          MaxTokens,     \* bound: the most tokens one request consumes
          MaxDay,        \* bound: the last day of the model
          PoolCapacity,  \* DB_POOL_SIZE + DB_MAX_OVERFLOW
          LostAcks       \* may the answer to a COMMIT be lost?

ASSUME RecorderAssumption ==
  /\ IsFiniteSet(Tasks)
  /\ Keys # {}
  /\ MaxTokens \in Nat
  /\ MaxDay \in Nat
  /\ PoolCapacity \in Nat \ {0}
  /\ LostAcks \in BOOLEAN

VARIABLES today,  \* the UTC day
          usage,  \* ApiKeyUsage: usage[k][d] is TotalTokens of row (k, d)
          pool,   \* the connections checked out: <<task, which session>>
          rec,    \* rec[t]: where the recording of t is
          hist    \* history variable: what happened to the recording of t

recVars == <<today, usage, pool, rec, hist>>

-----------------------------------------------------------------------------
(* Values                                                                  *)

MaxIntentos == 3

Days == 0..MaxDay

(* A task may use the session of its request and the one of its recorder.  *)
Sessions == {"request", "recorder"}

Phases == {"off", "usage", "log", "done"}

(* Inside a phase: queued for a connection, transaction begun, MERGE done  *)
(* and row locked, or sleeping before the next try.                        *)
Steps == {"idle", "waiting", "connected", "merged", "sleep"}

Recordings ==
  [phase : Phases, step : Steps, intento : 1..MaxIntentos, key : Keys,
   tokens : 0..MaxTokens, day : Days, seen : Nat, since : Days]

Histories ==
  [charges : Nat, rows : Nat, faults : Nat, errors : Nat]

AnyKey == CHOOSE k \in Keys : TRUE

Unrecorded ==
  [phase |-> "off", step |-> "idle", intento |-> 1, key |-> AnyKey,
   tokens |-> 0, day |-> 0, seen |-> 0, since |-> 0]

NoHistory == [charges |-> 0, rows |-> 0, faults |-> 0, errors |-> 0]

NoUsage == [k \in Keys |-> [d \in Days |-> 0]]

-----------------------------------------------------------------------------
(* The connection pool                                                     *)

PoolHasRoom == Cardinality(pool) < PoolCapacity

Connection(t) == <<t, "recorder">>

Recording(t) == rec[t].phase \in {"usage", "log"}

Waiting(t) == Recording(t) /\ rec[t].step = "waiting"

InTransaction(t) == Recording(t) /\ rec[t].step \in {"connected", "merged"}

(* Mutant: a try that does not leave `async with` leaks its connection.    *)
ReleaseConnectionLeaks(t) == pool' = pool

(* Leaving `async with session` gives the connection back.                 *)
ReleaseConnection(t) == pool' = pool \ {Connection(t)}

-----------------------------------------------------------------------------
(* The row of (key, day)                                                   *)

(* Mutant: the transaction of the usage phase is never ended, so its row   *)
(* stays locked.                                                           *)
LocksRowForGood(t, k, d) ==
  /\ rec[t].phase \in {"log", "done"}
  /\ rec[t].key = k
  /\ rec[t].day = d

(* t has run its MERGE on row (k, d) and has not ended its transaction.    *)
LocksRow(t, k, d) ==
  /\ rec[t].phase = "usage"
  /\ rec[t].step = "merged"
  /\ rec[t].key = k
  /\ rec[t].day = d

(* Mutant: the MERGE without HOLDLOCK.                                     *)
RowFreeUnlocked(k, d) == TRUE

RowFree(k, d) == \A u \in Tasks : ~ LocksRow(u, k, d)

(* Mutant: a row that was found is set to the tokens, not increased.       *)
ChargedOverwrites(r) ==
  [usage EXCEPT ![r.key][r.day] = r.tokens]

(* The row as the MERGE of r leaves it.                                    *)
Charged(r) ==
  [usage EXCEPT ![r.key][r.day] = r.seen + r.tokens]

-----------------------------------------------------------------------------
(* The two phases and their tries                                          *)

(* execute(): the day is read when the first try of the usage phase        *)
(* starts; with no tokens that phase returns before it asks for anything.  *)
Started(k, n) ==
  [phase |-> IF n > 0 THEN "usage" ELSE "log", step |-> "waiting",
   intento |-> 1, key |-> k, tokens |-> n, day |-> today, seen |-> 0,
   since |-> today]

(* The phase of r is over, whatever its outcome.                           *)
NextPhase(r) ==
  IF r.phase = "usage"
  THEN [r EXCEPT !.phase = "log", !.step = "waiting", !.intento = 1, !.seen = 0]
  ELSE [r EXCEPT !.phase = "done", !.step = "idle"]

(* Mutant: `intento <= _MAX_INTENTOS`, one try too many.                   *)
AfterTransientOneMore(r) ==
  IF r.intento <= MaxIntentos
  THEN [r EXCEPT !.step = "sleep", !.seen = 0]
  ELSE NextPhase(r)

(* Mutant: the last try is given up instead of made.                       *)
AfterTransientOneLess(r) ==
  IF r.intento + 1 < MaxIntentos
  THEN [r EXCEPT !.step = "sleep", !.seen = 0]
  ELSE NextPhase(r)

(* Mutant: one retry around both phases, which applies the increment again *)
(* when the log row fails.                                                 *)
AfterTransientBothPhases(r) ==
  IF r.intento < MaxIntentos
  THEN [r EXCEPT !.step = "sleep", !.seen = 0,
                 !.phase = IF r.tokens > 0 THEN "usage" ELSE "log"]
  ELSE NextPhase(r)

(* A try of r failed with a transient error: sleep and try again, or give  *)
(* the phase up after the last try.                                        *)
AfterTransient(r) ==
  IF r.intento < MaxIntentos
  THEN [r EXCEPT !.step = "sleep", !.seen = 0]
  ELSE NextPhase(r)

Begin(t, k, n) ==
  /\ rec[t].phase = "off"
  /\ rec' = [rec EXCEPT ![t] = Started(k, n)]
  /\ hist' = [hist EXCEPT ![t] = NoHistory]
  /\ UNCHANGED <<today, usage, pool>>

Checkout(t) ==
  /\ Waiting(t)
  /\ PoolHasRoom
  /\ pool' = pool \cup {Connection(t)}
  /\ rec' = [rec EXCEPT ![t].step = "connected"]
  /\ UNCHANGED <<today, usage, hist>>

(* The MERGE: it waits for the row and reads the accumulated tokens.       *)
Merge(t) ==
  /\ rec[t].phase = "usage"
  /\ rec[t].step = "connected"
  /\ RowFree(rec[t].key, rec[t].day)
  /\ rec' = [rec EXCEPT ![t] =
               [@ EXCEPT !.step = "merged", !.seen = usage[rec[t].key][rec[t].day]]]
  /\ UNCHANGED <<today, usage, pool, hist>>

CommitUsage(t) ==
  /\ rec[t].phase = "usage"
  /\ rec[t].step = "merged"
  /\ usage' = Charged(rec[t])
  /\ hist' = [hist EXCEPT ![t].charges = @ + 1]
  /\ rec' = [rec EXCEPT ![t] = NextPhase(@)]
  /\ ReleaseConnection(t)
  /\ UNCHANGED today

(* INSERT into RequestLogs and COMMIT.                                     *)
CommitLog(t) ==
  /\ rec[t].phase = "log"
  /\ rec[t].step = "connected"
  /\ hist' = [hist EXCEPT ![t].rows = @ + 1]
  /\ rec' = [rec EXCEPT ![t] = NextPhase(@)]
  /\ ReleaseConnection(t)
  /\ UNCHANGED <<today, usage>>

(* Faults of the usage phase, for the history.                             *)
Faulted(t, transient) ==
  IF rec[t].phase # "usage" THEN hist[t]
  ELSE IF transient THEN [hist[t] EXCEPT !.faults = @ + 1]
  ELSE [hist[t] EXCEPT !.errors = @ + 1]

(* DBAPIError that es_transitorio accepts: deadlock victim, lock timeout,  *)
(* or a connection that died before the COMMIT was applied.                *)
TransientError(t) ==
  /\ Waiting(t) \/ InTransaction(t)
  /\ rec' = [rec EXCEPT ![t] = AfterTransient(@)]
  /\ hist' = [hist EXCEPT ![t] = Faulted(t, TRUE)]
  /\ ReleaseConnection(t)
  /\ UNCHANGED <<today, usage>>

(* Any other exception: logged, and the phase is given up.                 *)
PermanentError(t) ==
  /\ Waiting(t) \/ InTransaction(t)
  /\ rec' = [rec EXCEPT ![t] = NextPhase(@)]
  /\ hist' = [hist EXCEPT ![t] = Faulted(t, FALSE)]
  /\ ReleaseConnection(t)
  /\ UNCHANGED <<today, usage>>

(* The pool's TimeoutError is no DBAPIError, so it is never retried.       *)
PoolTimeout(t) ==
  /\ Waiting(t)
  /\ ~ PoolHasRoom
  /\ rec' = [rec EXCEPT ![t] = NextPhase(@)]
  /\ hist' = [hist EXCEPT ![t] = Faulted(t, FALSE)]
  /\ UNCHANGED <<today, usage, pool>>

(* The server commits and the connection dies before the client knows:     *)
(* connection_invalidated, hence transient, although it was applied.       *)
LostAck(t) ==
  /\ LostAcks
  /\ \/ /\ rec[t].phase = "usage"
        /\ rec[t].step = "merged"
        /\ usage' = Charged(rec[t])
        /\ hist' = [hist EXCEPT ![t].charges = @ + 1, ![t].faults = @ + 1]
     \/ /\ rec[t].phase = "log"
        /\ rec[t].step = "connected"
        /\ hist' = [hist EXCEPT ![t].rows = @ + 1]
        /\ UNCHANGED usage
  /\ rec' = [rec EXCEPT ![t] = AfterTransient(@)]
  /\ ReleaseConnection(t)
  /\ UNCHANGED today

(* Mutant: the loop does not count its tries.                              *)
WakeUpUncounted(t) ==
  /\ Recording(t)
  /\ rec[t].step = "sleep"
  /\ rec' = [rec EXCEPT ![t] = [@ EXCEPT !.step = "waiting", !.day = today]]
  /\ UNCHANGED <<today, usage, pool, hist>>

(* After the sleep a new try starts, and with it the day is read again.    *)
WakeUp(t) ==
  /\ Recording(t)
  /\ rec[t].step = "sleep"
  /\ rec' = [rec EXCEPT ![t] =
               [@ EXCEPT !.step = "waiting", !.day = today,
                         !.intento = rec[t].intento + 1]]
  /\ UNCHANGED <<today, usage, pool, hist>>

Midnight ==
  /\ today < MaxDay
  /\ today' = today + 1
  /\ UNCHANGED <<usage, pool, rec, hist>>

-----------------------------------------------------------------------------
RecInit ==
  /\ today = 0
  /\ usage = NoUsage
  /\ pool = {}
  /\ rec = [t \in Tasks |-> Unrecorded]
  /\ hist = [t \in Tasks |-> NoHistory]

(* What the event loop, the pool and the database do unasked.              *)
Progress(t) ==
  Checkout(t) \/ PoolTimeout(t) \/ CommitUsage(t) \/ CommitLog(t) \/ WakeUp(t)

Faults(t) == TransientError(t) \/ PermanentError(t) \/ LostAck(t)

RecStep(t) == Progress(t) \/ Merge(t) \/ Faults(t)

RecNext ==
  \/ \E t \in Tasks :
       \/ \E k \in Keys, n \in 0..MaxTokens : Begin(t, k, n)
       \/ RecStep(t)
  \/ Midnight

(* A queued session gets a connection or its timeout, a transaction ends,  *)
(* a sleep ends: weak fairness.  The row may be taken over and over by     *)
(* others, but the lock queue of the server is first come, first served:   *)
(* strong fairness.  No fault, no request and no midnight has to happen.   *)
RecFairness == \A t \in Tasks : WF_recVars(Progress(t)) /\ SF_recVars(Merge(t))

RecSpec == RecInit /\ [][RecNext]_recVars /\ RecFairness

-----------------------------------------------------------------------------
(* Properties                                                              *)

(* Type correctness: the tries of a phase never pass _MAX_INTENTOS, and    *)
(* never more connections are out than the pool has.                       *)
RecTypeOK ==
  /\ today \in Days
  /\ usage \in [Keys -> [Days -> Nat]]
  /\ pool \subseteq Tasks \X Sessions
  /\ Cardinality(pool) <= PoolCapacity
  /\ rec \in [Tasks -> Recordings]
  /\ hist \in [Tasks -> Histories]

(* One answered request is charged at most once, whatever is retried in    *)
(* either phase: scoped_record_usage.py retries each phase on its own so   *)
(* that an increment already confirmed is not applied again.               *)
ChargedAtMostOnce == \A t \in Tasks : hist[t].charges <= 1

(* Even when acknowledgements are lost (LostAcks), which breaks the      *)
(* promise above, one request is charged at most once per try.             *)
OverchargeBounded == \A t \in Tasks : hist[t].charges <= MaxIntentos

(* A recording holds a connection exactly while it is in a transaction:    *)
(* no outcome of a try leaks one, and none is held through the sleep.      *)
ConnectionOnlyInTransaction ==
  \A t \in Tasks : Connection(t) \in pool <=> InTransaction(t)

(* Consumption is lost only when the three tries all failed or an error    *)
(* that is not retried was met: fewer transient faults, even across        *)
(* midnight and with other writers on the row, never lose a charge.        *)
LostOnlyWhenExhausted ==
  \A t \in Tasks :
    /\ rec[t].phase \in {"log", "done"}
    /\ rec[t].tokens > 0
    /\ hist[t].charges = 0
    => hist[t].errors > 0 \/ hist[t].faults = MaxIntentos

(* A shielded recording ends: no retry loop, no queue for the pool and no  *)
(* queue for the row keeps the request waiting for ever.                   *)
RecordingEnds == \A t \in Tasks : Recording(t) ~> rec[t].phase = "done"

(* The most steps that recording r may still take: what is left of its     *)
(* try, four for each further try, and the log phase after the usage.      *)
StepsOfTry == [idle |-> 0, sleep |-> 0, merged |-> 1, connected |-> 2, waiting |-> 3]

StepsOfTries(r) == 4 * (MaxIntentos - r.intento) + StepsOfTry[r.step]

StepsLeft(r) ==
  CASE r.phase = "usage" -> 4 * MaxIntentos + 1 + StepsOfTries(r)
    [] r.phase = "log"   -> 1 + StepsOfTries(r)
    [] OTHER             -> 0

(* A transaction of the usage phase of t was committed.                    *)
WasCharged(t) == hist[t].charges > 0

(* The accounting entry that recording t stands for.                       *)
EntryState(r, charged) ==
  CASE r.phase = "off"   -> "none"
    [] r.phase = "usage" -> "open"
    [] r.phase = "log"   -> IF charged THEN "charged" ELSE "dropped"
    [] r.phase = "done"  -> "closed"

Entries ==
  [t \in Tasks |->
     [state  |-> EntryState(rec[t], WasCharged(t)), key |-> rec[t].key,
      tokens |-> rec[t].tokens, since |-> rec[t].since]]

L == INSTANCE Ledger WITH entry <- Entries

(* The recorder implements the ledger: concurrent MERGEs on one row lose   *)
(* no update, an aborted try leaves no trace, and the day charged is one   *)
(* on which the recording was under way.                                   *)
ImplementsLedger == L!LedgerSpec
=============================================================================
