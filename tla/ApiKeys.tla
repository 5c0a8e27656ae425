------------------------------- MODULE ApiKeys -------------------------------
(***************************************************************************)
(* Table ApiKeys and the requests that work on it: an administrator, or a  *)
(* script, creates, lists and revokes keys while clients authenticate with *)
(* them.  A request is a transaction of a few statements with awaits in    *)
(* between; readers see committed rows, an UPDATE or an INSERT keeps its   *)
(* row locked until the COMMIT, and any statement may fail.                *)
(***************************************************************************)
EXTENDS Instants

CONSTANTS Requests,  \* the requests under way
          MaxKeys,   \* bound: the values of the IDENTITY column
          Expiries   \* the expires_at of the requests that create a key

ASSUME ApiKeysAssumption ==
  /\ MaxKeys \in Nat
  /\ Expiries \subseteq Dates

VARIABLES apiKeys,    \* apiKeys[id]: the committed row of a key, or Null
          lastKeyId,  \* the last value of the IDENTITY column
          requests,   \* requests[r]: where request r is
          meant,      \* history variables: the instant the expiry of a key
          told        \* was meant for, and what was answered about it

keysVars == <<apiKeys, lastKeyId, requests, meant, told>>

KeyIds == 1..MaxKeys

NoKey == 0  \* what a raw key that hashes to no row stands for

Rows == [active : BOOLEAN, expires : Int \cup {Null}, used : Int \cup {Null}]

ASSUME RowsAssumption == Null \notin Rows

Operations == {"create", "script", "list", "revoke", "authenticate"}

Idle == [at |-> "idle", op |-> "none"]

Request(op, id) ==
  [at |-> "begun", op |-> op, key |-> id, row |-> Null, stamp |-> 0,
   status |-> 0, view |-> Null, known |-> told]

Going(r, ats, ops) == requests[r].at \in ats /\ requests[r].op \in ops

AnswerWith(r, status) ==
  requests' = [requests EXCEPT ![r].at = "answered", ![r].status = status]

Row(id) == IF id = NoKey THEN Null ELSE apiKeys[id]

(* The lock of a row from its UPDATE or INSERT to the COMMIT.              *)
Locked(id) ==
  \E r \in Requests : requests[r].at = "written" /\ requests[r].key = id

-----------------------------------------------------------------------------
HandedOut == {id \in KeyIds : "created" \in told[id]}

(* A client knows the keys that it was handed out; require_admin has let   *)
(* the requests of the administrator through.                              *)
KeyArrive(r, op, id) ==
  /\ requests[r].at \in {"idle", "answered"}
  /\ op = "authenticate" => id \in {NoKey} \cup HandedOut
  /\ op = "revoke" => id # NoKey
  /\ op \in {"create", "script", "list"} => id = NoKey
  /\ requests' = [requests EXCEPT ![r] = Request(op, id)]
  /\ UNCHANGED <<clock, apiKeys, lastKeyId, meant, told>>

(* The user does not exist: DomainError.                                   *)
RefuseUser(r) ==
  /\ Going(r, {"begun"}, {"create", "script"})
  /\ AnswerWith(r, 400)
  /\ UNCHANGED <<clock, apiKeys, lastKeyId, meant, told>>

(* The row of a new key, in the table's column types.                      *)
NewRow(expires) ==
  [active |-> TRUE, used |-> Null,
   expires |-> IF expires = Null THEN Null ELSE Stamp(expires)]

MeantInstant(date) ==
  IF date = Null THEN Null
  ELSE date.wall - (IF date.offset = Null THEN 0 ELSE date.offset)

Insert(r, date) ==
  LET id == lastKeyId + 1
  IN  /\ requests[r].at = "begun"
      /\ id \in KeyIds
      /\ lastKeyId' = id
      /\ meant' = [meant EXCEPT ![id] = MeantInstant(date)]
      /\ requests' = [requests EXCEPT ![r].at = "written", ![r].key = id,
                                      ![r].row = NewRow(AsUtc(date))]
      /\ UNCHANGED <<clock, apiKeys, told>>

CreateKey(r) ==
  /\ requests[r].op = "create"
  /\ \E date \in Expiries \cup {Null} : Insert(r, date)

(* create_admin_key has no option for the expiry.                          *)
CreateFromScript(r) ==
  /\ requests[r].op = "script"
  /\ Insert(r, Null)

ListKeys(r) ==
  /\ Going(r, {"begun"}, {"list"})
  /\ requests' = [requests EXCEPT ![r].at = "answered", ![r].status = 200,
                                  ![r].view = apiKeys]
  /\ UNCHANGED <<clock, apiKeys, lastKeyId, meant, told>>

(* get_by_hash                                                             *)
FindKey(r) ==
  /\ Going(r, {"begun"}, {"authenticate"})
  /\ IF Row(requests[r].key) = Null
     THEN AnswerWith(r, 401)
     ELSE requests' = [requests EXCEPT ![r].at = "found",
                                       ![r].row = Row(requests[r].key)]
  /\ UNCHANGED <<clock, apiKeys, lastKeyId, meant, told>>

IsUsable(row, now) == row.active /\ (row.expires = Null \/ row.expires > now)

(* The clock is read after the row; touch() reads it again, in the same    *)
(* breath, for the value of LastUsedAt.                                    *)
CheckUsable(r) ==
  /\ Going(r, {"found"}, {"authenticate"})
  /\ requests' = [requests EXCEPT ![r] =
       IF IsUsable(@.row, clock)
       THEN [@ EXCEPT !.at = "usable", !.stamp = clock]
       ELSE [@ EXCEPT !.at = "answered", !.stamp = clock, !.status = 401]]
  /\ UNCHANGED <<clock, apiKeys, lastKeyId, meant, told>>

(* The UPDATE of touch() or of revoke(), which waits for the row's lock.   *)
(* revoke() finds out by the row count that there is no such key.          *)
Update(r) ==
  /\ Going(r, {"usable"}, {"authenticate"}) \/ Going(r, {"begun"}, {"revoke"})
  /\ ~ Locked(requests[r].key)
  /\ IF Row(requests[r].key) = Null
     THEN AnswerWith(r, 400)
     ELSE requests' = [requests EXCEPT ![r].at = "written"]
  /\ UNCHANGED <<clock, apiKeys, lastKeyId, meant, told>>

(* Mutant: the entity that was read is written back as a whole.            *)
TouchedFromRead(r) == [requests[r].row EXCEPT !.used = Stamp(requests[r].stamp)]

Touched(r) ==
  [Row(requests[r].key) EXCEPT !.used = Stamp(requests[r].stamp)]

Revoked(r) == [Row(requests[r].key) EXCEPT !.active = FALSE]

Written(r) ==
  CASE requests[r].op \in {"create", "script"} -> requests[r].row
    [] requests[r].op = "revoke" -> Revoked(r)
    [] requests[r].op = "authenticate" -> Touched(r)

Apply(r) == apiKeys' = [apiKeys EXCEPT ![requests[r].key] = Written(r)]

Commit(r) ==
  /\ requests[r].at = "written"
  /\ Apply(r)
  /\ requests' = [requests EXCEPT ![r].at = "committed"]
  /\ UNCHANGED <<clock, lastKeyId, meant, told>>

(* The connection breaks, or the process dies, before the answer of the    *)
(* COMMIT is read: the change is made and the request is a 500.            *)
CommitUnacknowledged(r) ==
  /\ requests[r].at = "written"
  /\ Apply(r)
  /\ AnswerWith(r, 500)
  /\ UNCHANGED <<clock, lastKeyId, meant, told>>

(* A statement fails: the unit of work rolls back, and the value of the    *)
(* IDENTITY column is lost.                                                *)
KeyStatementFails(r) ==
  /\ requests[r].at \in {"begun", "found", "usable", "written"}
  /\ AnswerWith(r, 500)
  /\ UNCHANGED <<clock, apiKeys, lastKeyId, meant, told>>

(* Mutant: the unit of work is not committed before the answer.            *)
ReplyReadyUncommitted(r) == requests[r].at \in {"written", "committed"}

ReplyReady(r) == requests[r].at = "committed"

(* 201 with the raw key, 204, or the authenticated key.                    *)
Reply(r) ==
  /\ ReplyReady(r)
  /\ LET status == CASE requests[r].op \in {"create", "script"} -> 201
                     [] requests[r].op = "revoke" -> 204
                     [] requests[r].op = "authenticate" -> 200
         fact == CASE status = 201 -> "created"
                   [] status = 204 -> "revoked"
                   [] status = 200 -> "served"
     IN  /\ AnswerWith(r, status)
         /\ told' = [told EXCEPT ![requests[r].key] = @ \cup {fact}]
  /\ UNCHANGED <<clock, apiKeys, lastKeyId, meant>>

KeysInit ==
  /\ apiKeys = [id \in KeyIds |-> Null]
  /\ lastKeyId = 0
  /\ requests = [r \in Requests |-> Idle]
  /\ meant = [id \in KeyIds |-> Null]
  /\ told = [id \in KeyIds |-> {}]

KeysStep(r) ==
  \/ \E op \in Operations, id \in KeyIds \cup {NoKey} : KeyArrive(r, op, id)
  \/ RefuseUser(r) \/ CreateKey(r) \/ CreateFromScript(r) \/ ListKeys(r)
  \/ FindKey(r) \/ CheckUsable(r) \/ Update(r)
  \/ Commit(r) \/ CommitUnacknowledged(r) \/ KeyStatementFails(r) \/ Reply(r)

KeysTick == ClockTick /\ UNCHANGED keysVars

KeysNext == KeysTick \/ \E r \in Requests : KeysStep(r)

KeysSpec == clock = 0 /\ KeysInit /\ [][KeysNext]_<<clock, keysVars>>

-----------------------------------------------------------------------------
(* Properties                                                              *)

(* Revocation is final: no request that read the key while it was active   *)
(* and writes LastUsedAt later ever makes it active again, and nothing     *)
(* moves the expiry or removes the row.                                    *)
RevokedForGood ==
  [][\A id \in KeyIds :
       apiKeys[id] # Null =>
         /\ apiKeys'[id] # Null
         /\ apiKeys'[id].active => apiKeys[id].active
         /\ apiKeys'[id].expires = apiKeys[id].expires]_apiKeys

(* What was answered is so for every request that arrives later: a key     *)
(* that was handed out is listed and can be revoked, a revoked one is      *)
(* listed as inactive and authenticates nobody, and one that has served is *)
(* listed as used.                                                         *)
AnswersHold ==
  \A r \in Requests :
    requests[r].at = "answered" =>
      /\ requests[r].op = "list" /\ requests[r].status = 200 =>
           \A id \in KeyIds :
             LET row == requests[r].view[id]
             IN  /\ requests[r].known[id] # {} => row # Null
                 /\ "revoked" \in requests[r].known[id] => ~ row.active
                 /\ "served" \in requests[r].known[id] => row.used # Null
      /\ requests[r].op = "revoke" /\ requests[r].status = 400 =>
           requests[r].known[requests[r].key] = {}
      /\ requests[r].op = "authenticate" /\ requests[r].status = 200 =>
           "revoked" \notin requests[r].known[requests[r].key]

(* A key expires at the instant that its administrator meant, whatever the *)
(* zone the date came in, but for the half second of the column: no later  *)
(* request is served, and no earlier one is refused unless the key has     *)
(* been revoked.                                                           *)
ExpiresAsMeant ==
  \A r \in Requests :
    Going(r, {"usable", "written", "committed", "answered"}, {"authenticate"})
      /\ requests[r].row # Null =>
      LET end == meant[requests[r].key]
      IN  IF requests[r].status = 401
          THEN \/ ~ requests[r].row.active
               \/ end # Null /\ 2 * (end - requests[r].stamp) < Second
          ELSE requests[r].at = "answered" \/ end = Null
                 \/ 2 * (requests[r].stamp - end) < Second
=============================================================================
