--------------------------- MODULE ApiKeys_proofs ---------------------------
(***************************************************************************)
(* Proofs about ApiKeys, for any number of requests and keys, any expiry,  *)
(* and every order in which their statements, commits and failures come.   *)
(***************************************************************************)
EXTENDS ApiKeys, TLAPS

-----------------------------------------------------------------------------
(* The types of what a request carries.                                    *)
Views == [KeyIds -> Rows \cup {Null}]

Facts == [KeyIds -> SUBSET {"created", "revoked", "served"}]

Ats == {"begun", "found", "usable", "written", "committed", "answered"}

RequestRecords ==
  [at : Ats, op : Operations, key : KeyIds \cup {NoKey}, row : Rows \cup {Null},
   stamp : Nat, status : Nat, view : Views \cup {Null}, known : Facts]

KeysTypeOK ==
  /\ clock \in Nat
  /\ apiKeys \in Views
  /\ lastKeyId \in {NoKey} \cup KeyIds
  /\ requests \in [Requests -> {Idle} \cup RequestRecords]
  /\ meant \in [KeyIds -> Int \cup {Null}]
  /\ told \in Facts

-----------------------------------------------------------------------------
(* What a row expires at, given what was meant.                            *)
ExpiryOf(id) == IF meant[id] = Null THEN Null ELSE Stamp(meant[id])

(* The rows and what was answered about them.                              *)
RowsAsTold ==
  \A id \in KeyIds :
    /\ id > lastKeyId => apiKeys[id] = Null
    /\ told[id] # {} => apiKeys[id] # Null
    /\ apiKeys[id] # Null =>
         /\ "revoked" \in told[id] => ~ apiKeys[id].active
         /\ "served" \in told[id] => apiKeys[id].used # Null
         /\ apiKeys[id].expires = ExpiryOf(id)

(* Two transactions never hold the same row.                               *)
LocksExclude ==
  \A r, s \in Requests :
    /\ r # s
    /\ requests[r].at = "written"
    /\ requests[s].at = "written"
    => requests[r].key # requests[s].key

KnowsWhatWasTold(r) ==
  requests[r].at # "idle" =>
    \A id \in KeyIds : requests[r].known[id] \subseteq told[id]

BegunRight(r) ==
  requests[r].at = "begun" =>
    /\ requests[r].op = "revoke" => requests[r].key \in KeyIds
    /\ requests[r].row = Null
    /\ requests[r].status = 0

(* What a request that authenticates has read and decided.                 *)
FoundRight(r) ==
  requests[r].op = "authenticate" /\ requests[r].at \in Ats \ {"begun"} =>
    /\ requests[r].row # Null =>
         /\ requests[r].key \in KeyIds
         /\ requests[r].key <= lastKeyId
         /\ requests[r].row.expires = ExpiryOf(requests[r].key)
         /\ requests[r].at \in {"found", "usable", "written", "committed"} =>
              /\ requests[r].status = 0
              /\ apiKeys[requests[r].key] # Null
         /\ requests[r].at = "found" =>
              ("revoked" \in requests[r].known[requests[r].key]
                 => ~ requests[r].row.active)
         /\ requests[r].at \in {"usable", "written", "committed"} =>
              /\ IsUsable(requests[r].row, requests[r].stamp)
              /\ "revoked" \notin requests[r].known[requests[r].key]
         /\ requests[r].at = "answered" /\ requests[r].status = 401 =>
              ~ IsUsable(requests[r].row, requests[r].stamp)
    /\ requests[r].at # "answered" => requests[r].row # Null

WrittenRight(r) ==
  requests[r].at = "written" =>
    /\ requests[r].key \in KeyIds
    /\ requests[r].key <= lastKeyId
    /\ requests[r].op # "list"
    /\ requests[r].op \in {"create", "script"} =>
         /\ apiKeys[requests[r].key] = Null
         /\ requests[r].row \in Rows
         /\ requests[r].row.expires = ExpiryOf(requests[r].key)
    /\ requests[r].op \in {"revoke", "authenticate"} =>
         apiKeys[requests[r].key] # Null

CommittedRight(r) ==
  requests[r].at = "committed" =>
    /\ requests[r].key \in KeyIds
    /\ requests[r].op # "list"
    /\ apiKeys[requests[r].key] # Null
    /\ requests[r].op = "revoke" => ~ apiKeys[requests[r].key].active
    /\ requests[r].op = "authenticate" => apiKeys[requests[r].key].used # Null

(* The answers of AnswersHold, of one request.                             *)
AnsweredRight(r) ==
  requests[r].at = "answered" =>
    /\ requests[r].op = "list" /\ requests[r].status = 200 =>
         \A id \in KeyIds :
           LET row == requests[r].view[id]
           IN  /\ requests[r].known[id] # {} => row # Null
               /\ "revoked" \in requests[r].known[id] => ~ row.active
               /\ "served" \in requests[r].known[id] => row.used # Null
    /\ requests[r].op = "revoke" /\ requests[r].status = 400 =>
         requests[r].known[requests[r].key] = {}
    /\ requests[r].op = "authenticate" /\ requests[r].status = 200 =>
         "revoked" \notin requests[r].known[requests[r].key]

RequestRight(r) ==
  /\ KnowsWhatWasTold(r)
  /\ BegunRight(r)
  /\ FoundRight(r)
  /\ WrittenRight(r)
  /\ CommittedRight(r)
  /\ AnsweredRight(r)

KeysInv ==
  /\ KeysTypeOK
  /\ RowsAsTold
  /\ LocksExclude
  /\ \A r \in Requests : RequestRight(r)

-----------------------------------------------------------------------------
(* Requests as records.                                                    *)

LEMMA SetAt ==
  ASSUME NEW q \in RequestRecords, NEW a \in Ats
  PROVE  /\ [q EXCEPT !.at = a] \in RequestRecords
         /\ [q EXCEPT !.at = a].at = a
BY DEF RequestRecords

LEMMA SetStatus ==
  ASSUME NEW q \in RequestRecords, NEW n \in Nat
  PROVE  [q EXCEPT !.status = n] \in RequestRecords
BY DEF RequestRecords

LEMMA SetStamp ==
  ASSUME NEW q \in RequestRecords, NEW n \in Nat
  PROVE  [q EXCEPT !.stamp = n] \in RequestRecords
BY DEF RequestRecords

LEMMA SetRow ==
  ASSUME NEW q \in RequestRecords, NEW row \in Rows \cup {Null}
  PROVE  [q EXCEPT !.row = row] \in RequestRecords
BY DEF RequestRecords

LEMMA SetKey ==
  ASSUME NEW q \in RequestRecords, NEW id \in KeyIds
  PROVE  [q EXCEPT !.key = id] \in RequestRecords
BY DEF RequestRecords

LEMMA SetView ==
  ASSUME NEW q \in RequestRecords, NEW view \in Views
  PROVE  [q EXCEPT !.view = view] \in RequestRecords
BY DEF RequestRecords

LEMMA RecordFields ==
  ASSUME NEW q \in RequestRecords
  PROVE  /\ q.at \in Ats /\ q.op \in Operations /\ q.key \in KeyIds \cup {NoKey}
         /\ q.row \in Rows \cup {Null} /\ q.stamp \in Nat /\ q.status \in Nat
         /\ q.view \in Views \cup {Null} /\ q.known \in Facts
BY DEF RequestRecords

(* Every request that is not idle is such a record.                        *)
LEMMA NotIdle ==
  ASSUME KeysTypeOK, NEW r \in Requests, requests[r].at # "idle"
  PROVE  requests[r] \in RequestRecords
BY DEF KeysTypeOK, Idle

LEMMA RowFields ==
  ASSUME NEW row \in Rows
  PROVE  /\ row.active \in BOOLEAN
         /\ row.expires \in Int \cup {Null}
         /\ row.used \in Int \cup {Null}
         /\ row # Null
BY RowsAssumption DEF Rows

-----------------------------------------------------------------------------
(* The column rounds an instant by no more than half a second.             *)
LEMMA StampRounds ==
  ASSUME NEW t \in Int
  PROVE  /\ Stamp(t) \in Int
         /\ 2 * Stamp(t) <= 2 * t + Second
         /\ 2 * t < 2 * Stamp(t) + Second
<1> DEFINE a == 2 * t + Second
           b == 2 * Second
           q == a \div b
<1>1. Second \in Nat \ {0}
  BY InstantsAssumption
<1>2. a \in Int /\ b \in Nat \ {0}
  BY <1>1
<1> HIDE DEF a, b
<1>3. /\ q \in Int /\ a % b \in 0..(b - 1)
      /\ a = b * q + (a % b)
  BY <1>2
<1> HIDE DEF q
<1>4. b * q <= a /\ a < b * q + b
  BY <1>2, <1>3
<1>5. b * q = 2 * (q * Second)
  BY <1>1, <1>3 DEF b
<1>6. Stamp(t) = q * Second
  BY DEF Stamp, q, a, b
<1>7. q * Second \in Int
  BY <1>1, <1>3
<1> QED BY <1>1, <1>4, <1>5, <1>6, <1>7 DEF a, b

-----------------------------------------------------------------------------
(* What a step of the tables may do: it adds to what was told, and to the  *)
(* rows, and changes a row only in the ways of revoke() and touch().       *)
KeysGrow ==
  /\ lastKeyId <= lastKeyId'
  /\ \A id \in KeyIds :
       /\ told[id] \subseteq told'[id]
       /\ id <= lastKeyId => meant'[id] = meant[id]
       /\ apiKeys[id] # Null =>
            /\ apiKeys'[id] # Null
            /\ apiKeys'[id].active => apiKeys[id].active
            /\ apiKeys[id].used # Null => apiKeys'[id].used # Null
            /\ apiKeys'[id].expires = apiKeys[id].expires

(* The requests that a step is not about stay right.                       *)
LEMMA OthersKept ==
  ASSUME KeysInv, KeysGrow, lastKeyId' \in {NoKey} \cup KeyIds,
         NEW s \in Requests, requests'[s] = requests[s],
         requests[s].at = "written" =>
           (apiKeys[requests[s].key] = Null => apiKeys'[requests[s].key] = Null)
  PROVE  RequestRight(s)'
<1>1. RequestRight(s) /\ KeysTypeOK
  BY DEF KeysInv
<1>2. CASE requests[s].at = "idle"
  BY <1>2 DEF RequestRight, KnowsWhatWasTold, BegunRight, FoundRight,
       WrittenRight, CommittedRight, AnsweredRight, Ats
<1>3. CASE requests[s].at # "idle"
  <2>1. requests[s] \in RequestRecords
    BY <1>1, <1>3, NotIdle
  <2> DEFINE q == requests[s]
  <2>2. /\ q.at \in Ats /\ q.key \in KeyIds \cup {NoKey}
        /\ q.row \in Rows \cup {Null} /\ q.known \in Facts
    BY <2>1, RecordFields
  <2>3. KeyIds \subseteq Nat /\ lastKeyId \in Nat /\ lastKeyId' \in Nat
    BY <1>1 DEF KeyIds, KeysTypeOK, NoKey
  <2>4. \A id \in KeyIds : id <= lastKeyId =>
          id <= lastKeyId' /\ ExpiryOf(id)' = ExpiryOf(id)
    BY <2>3 DEF KeysGrow, ExpiryOf
  <2>5. KnowsWhatWasTold(s)'
    BY <1>1, <1>3 DEF RequestRight, KnowsWhatWasTold, KeysGrow
  <2>6. BegunRight(s)'
    BY <1>1 DEF RequestRight, BegunRight
  <2>7. FoundRight(s)'
    BY <1>1, <2>4 DEF RequestRight, FoundRight, KeysGrow, IsUsable
  <2>8. WrittenRight(s)'
    BY <1>1, <2>4 DEF RequestRight, WrittenRight, KeysGrow
  <2>9. CommittedRight(s)'
    BY <1>1 DEF RequestRight, CommittedRight, KeysGrow
  <2>10. AnsweredRight(s)'
    BY <1>1 DEF RequestRight, AnsweredRight
  <2> QED BY <2>5, <2>6, <2>7, <2>8, <2>9, <2>10 DEF RequestRight
<1> QED BY <1>2, <1>3

(* A step of one request that leaves the tables alone.                     *)
LEMMA RequestMoves ==
  ASSUME KeysInv, NEW r \in Requests, NEW q \in RequestRecords,
         requests' = [requests EXCEPT ![r] = q],
         UNCHANGED <<clock, apiKeys, lastKeyId, meant, told>>,
         q.at = "written" =>
           \A s \in Requests \ {r} :
             requests[s].at = "written" => requests[s].key # q.key,
         requests'[r] = q => RequestRight(r)'
  PROVE  KeysInv'
<1>1. KeysTypeOK'
  BY DEF KeysInv, KeysTypeOK
<1>2. requests'[r] = q /\ \A s \in Requests \ {r} : requests'[s] = requests[s]
  BY DEF KeysInv, KeysTypeOK
<1>3. RowsAsTold'
  BY DEF KeysInv, RowsAsTold, ExpiryOf
<1>4. LocksExclude'
  BY <1>2 DEF KeysInv, LocksExclude
<1>5. KeysGrow
  <2>1. lastKeyId \in Nat
    BY DEF KeysInv, KeysTypeOK, KeyIds, NoKey
  <2> QED BY <2>1 DEF KeysGrow
<1>6. lastKeyId' \in {NoKey} \cup KeyIds
  BY DEF KeysInv, KeysTypeOK
<1>7. ASSUME NEW s \in Requests
      PROVE  RequestRight(s)'
  <2>1. CASE s = r
    BY <1>2, <2>1
  <2>2. CASE s # r
    BY <1>2, <1>5, <1>6, <2>2, OthersKept
  <2> QED BY <2>1, <2>2
<1> QED BY <1>1, <1>3, <1>4, <1>7 DEF KeysInv

-----------------------------------------------------------------------------
(* The steps that leave the tables alone.                                  *)

LEMMA ArriveKeeps ==
  ASSUME KeysInv, NEW r \in Requests, NEW op \in Operations,
         NEW id \in KeyIds \cup {NoKey}, KeyArrive(r, op, id)
  PROVE  KeysInv'
<1> DEFINE q == Request(op, id)
<1>1. q \in RequestRecords
  BY DEF KeysInv, KeysTypeOK, RequestRecords, Request, Ats
<1>2. /\ q.at = "begun" /\ q.known = told /\ q.op = op /\ q.key = id
      /\ q.row = Null /\ q.status = 0
  BY DEF Request
<1>3. /\ op = "revoke" => id # NoKey
      /\ requests' = [requests EXCEPT ![r] = q]
      /\ UNCHANGED <<clock, apiKeys, lastKeyId, meant, told>>
  BY DEF KeyArrive
<1> HIDE DEF q
<1>4. ASSUME requests'[r] = q
      PROVE  RequestRight(r)'
  BY <1>2, <1>3, <1>4 DEF RequestRight, KnowsWhatWasTold, BegunRight,
       FoundRight, WrittenRight, CommittedRight, AnsweredRight
<1> QED BY <1>1, <1>2, <1>3, <1>4, RequestMoves

(* A request is answered with a refusal or an error before it has changed  *)
(* anything.                                                               *)
LEMMA AnswerKeeps ==
  ASSUME KeysInv, NEW r \in Requests, NEW n \in {400, 401, 500},
         requests[r].at # "idle", AnswerWith(r, n),
         UNCHANGED <<clock, apiKeys, lastKeyId, meant, told>>,
         n = 400 /\ requests[r].op = "revoke" =>
           requests[r].key \in KeyIds /\ apiKeys[requests[r].key] = Null,
         n = 401 => requests[r].row = Null
  PROVE  KeysInv'
<1> DEFINE p == [requests[r] EXCEPT !.at = "answered"]
           q == [p EXCEPT !.status = n]
<1>1. requests[r] \in RequestRecords /\ RequestRight(r) /\ RowsAsTold
  BY NotIdle DEF KeysInv
<1>2. p \in RequestRecords
  BY <1>1, SetAt DEF Ats
<1>3. q \in RequestRecords
  <2>1. n \in Nat
    OBVIOUS
  <2> HIDE DEF p
  <2> QED BY <1>2, <2>1, SetStatus
<1>4. /\ q.at = "answered" /\ q.status = n
      /\ q.op = requests[r].op /\ q.key = requests[r].key
      /\ q.row = requests[r].row /\ q.known = requests[r].known
  BY <1>1 DEF RequestRecords
<1>5. requests' = [requests EXCEPT ![r] = q]
  <2>1. requests' = [requests EXCEPT ![r].at = "answered", ![r].status = n]
    BY DEF AnswerWith
  <2>2. requests \in [Requests -> {Idle} \cup RequestRecords]
    BY DEF KeysInv, KeysTypeOK
  <2> DEFINE f == [requests EXCEPT ![r].at = "answered"]
  <2>3. f = [requests EXCEPT ![r] = p]
    BY <2>2
  <2>4. requests' = [f EXCEPT ![r].status = n]
    BY <2>1
  <2> HIDE DEF f, p
  <2>5. f[r] = p
    BY <2>2, <2>3
  <2>6. requests' = [f EXCEPT ![r] = q]
    BY <2>4, <2>5
  <2> HIDE DEF q
  <2> QED BY <2>2, <2>3, <2>6
<1> HIDE DEF p, q
<1>6. requests[r].at \in Ats
  BY <1>1, RecordFields
<1>7. ASSUME requests'[r] = q
      PROVE  RequestRight(r)'
  <2>1. KnowsWhatWasTold(r)'
    BY <1>1, <1>4, <1>7 DEF RequestRight, KnowsWhatWasTold
  <2>2. BegunRight(r)' /\ WrittenRight(r)' /\ CommittedRight(r)'
    BY <1>4, <1>7 DEF BegunRight, WrittenRight, CommittedRight
  <2>3. FoundRight(r)'
    <3>1. CASE requests[r].at = "begun"
      BY <1>1, <1>4, <1>7, <3>1 DEF RequestRight, BegunRight, FoundRight
    <3>2. CASE requests[r].at # "begun"
      BY <1>1, <1>4, <1>6, <1>7, <3>2 DEF RequestRight, FoundRight, ExpiryOf
    <3> QED BY <3>1, <3>2
  <2>4. AnsweredRight(r)'
    <3>1. n = 400 /\ requests[r].op = "revoke" => q.known[q.key] = {}
      BY <1>1, <1>4 DEF RequestRight, KnowsWhatWasTold, RowsAsTold
    <3> QED BY <1>4, <1>7, <3>1 DEF AnsweredRight
  <2> QED BY <2>1, <2>2, <2>3, <2>4 DEF RequestRight
<1> QED BY <1>3, <1>4, <1>5, <1>7, RequestMoves

LEMMA ListKeeps ==
  ASSUME KeysInv, NEW r \in Requests, ListKeys(r)
  PROVE  KeysInv'
<1> DEFINE p == [requests[r] EXCEPT !.at = "answered"]
           s == [p EXCEPT !.status = 200]
           q == [s EXCEPT !.view = apiKeys]
<1>1. /\ requests[r].at = "begun" /\ requests[r].op = "list"
      /\ UNCHANGED <<clock, apiKeys, lastKeyId, meant, told>>
  BY DEF ListKeys, Going
<1>2. requests[r] \in RequestRecords /\ RequestRight(r) /\ RowsAsTold
  BY <1>1, NotIdle DEF KeysInv
<1>3. p \in RequestRecords
  BY <1>2, SetAt DEF Ats
<1>4. s \in RequestRecords
  BY <1>3, SetStatus
<1>5. q \in RequestRecords
  BY <1>4, SetView DEF KeysInv, KeysTypeOK
<1>6. /\ q.at = "answered" /\ q.status = 200 /\ q.view = apiKeys
      /\ q.op = "list" /\ q.known = requests[r].known
  BY <1>1, <1>2 DEF RequestRecords
<1>7. requests' = [requests EXCEPT ![r] = q]
  BY DEF ListKeys, KeysInv, KeysTypeOK
<1> HIDE DEF p, s, q
<1>8. ASSUME requests'[r] = q
      PROVE  RequestRight(r)'
  <2>1. KnowsWhatWasTold(r)'
    BY <1>1, <1>2, <1>6, <1>8 DEF RequestRight, KnowsWhatWasTold
  <2>2. /\ BegunRight(r)' /\ FoundRight(r)' /\ WrittenRight(r)'
        /\ CommittedRight(r)'
    BY <1>6, <1>8 DEF BegunRight, FoundRight, WrittenRight, CommittedRight
  <2>3. AnsweredRight(r)'
    BY <1>1, <1>2, <1>6, <1>8
    DEF RequestRight, KnowsWhatWasTold, RowsAsTold, AnsweredRight
  <2> QED BY <2>1, <2>2, <2>3 DEF RequestRight
<1> QED BY <1>1, <1>5, <1>6, <1>7, <1>8, RequestMoves

LEMMA FindKeeps ==
  ASSUME KeysInv, NEW r \in Requests, FindKey(r)
  PROVE  KeysInv'
<1>1. /\ requests[r].at = "begun" /\ requests[r].op = "authenticate"
      /\ UNCHANGED <<clock, apiKeys, lastKeyId, meant, told>>
  BY DEF FindKey, Going
<1>2. requests[r] \in RequestRecords /\ RequestRight(r) /\ RowsAsTold
  BY <1>1, NotIdle DEF KeysInv
<1>3. CASE Row(requests[r].key) = Null
  <2>1. AnswerWith(r, 401)
    BY <1>3 DEF FindKey
  <2>2. requests[r].row = Null
    BY <1>1, <1>2 DEF RequestRight, BegunRight
  <2> QED BY <1>1, <2>1, <2>2, AnswerKeeps
<1>4. CASE Row(requests[r].key) # Null
  <2> DEFINE id == requests[r].key
             p == [requests[r] EXCEPT !.at = "found"]
             q == [p EXCEPT !.row = apiKeys[id]]
  <2>1. id \in KeyIds /\ apiKeys[id] # Null /\ Row(id) = apiKeys[id]
    BY <1>2, <1>4, RecordFields DEF Row
  <2>2. apiKeys[id] \in Rows \cup {Null}
    BY <2>1 DEF KeysInv, KeysTypeOK, Views
  <2>3. p \in RequestRecords
    BY <1>2, SetAt DEF Ats
  <2>4. q \in RequestRecords
    BY <2>2, <2>3, SetRow
  <2>5. /\ q.at = "found" /\ q.row = apiKeys[id] /\ q.status = 0
        /\ q.op = "authenticate" /\ q.key = id
        /\ q.known = requests[r].known
    BY <1>1, <1>2 DEF RequestRecords, RequestRight, BegunRight
  <2>6. requests' = [requests EXCEPT ![r] = q]
    BY <1>4, <2>1 DEF FindKey, KeysInv, KeysTypeOK
  <2>7. id <= lastKeyId
    BY <1>2, <2>1 DEF RowsAsTold, KeysInv, KeysTypeOK, KeyIds, NoKey
  <2> HIDE DEF p, q
  <2>8. ASSUME requests'[r] = q
        PROVE  RequestRight(r)'
    <3>1. KnowsWhatWasTold(r)'
      BY <1>1, <1>2, <2>5, <2>8 DEF RequestRight, KnowsWhatWasTold
    <3>2. BegunRight(r)' /\ WrittenRight(r)' /\ CommittedRight(r)' /\ AnsweredRight(r)'
      BY <2>5, <2>8 DEF BegunRight, WrittenRight, CommittedRight, AnsweredRight
    <3>3. q.known[id] \subseteq told[id]
      BY <1>1, <1>2, <2>1, <2>5 DEF RequestRight, KnowsWhatWasTold
    <3>4. q.row.expires = ExpiryOf(id)
      BY <1>2, <2>1, <2>5 DEF RowsAsTold
    <3>5. "revoked" \in q.known[id] => ~ q.row.active
      BY <1>2, <2>1, <2>5, <3>3 DEF RowsAsTold
    <3>6. \A j \in KeyIds : ExpiryOf(j)' = ExpiryOf(j)
      BY <1>1 DEF ExpiryOf
    <3>7. FoundRight(r)'
      BY <1>1, <2>1, <2>5, <2>7, <2>8, <3>4, <3>5, <3>6 DEF FoundRight
    <3> QED BY <3>1, <3>2, <3>7 DEF RequestRight
  <2> QED BY <1>1, <2>4, <2>5, <2>6, <2>8, RequestMoves
<1> QED BY <1>3, <1>4

LEMMA UsableKeeps ==
  ASSUME KeysInv, NEW r \in Requests, CheckUsable(r)
  PROVE  KeysInv'
<1>1. /\ requests[r].at = "found" /\ requests[r].op = "authenticate"
      /\ UNCHANGED <<clock, apiKeys, lastKeyId, meant, told>>
  BY DEF CheckUsable, Going
<1>2. requests[r] \in RequestRecords /\ RequestRight(r) /\ clock \in Nat
  BY <1>1, NotIdle DEF KeysInv, KeysTypeOK
<1>3. FoundRight(r) /\ KnowsWhatWasTold(r)
  BY <1>2 DEF RequestRight
<1>4. CASE IsUsable(requests[r].row, clock)
  <2> DEFINE p == [requests[r] EXCEPT !.at = "usable"]
             q == [p EXCEPT !.stamp = clock]
  <2>1. p \in RequestRecords
    BY <1>2, SetAt DEF Ats
  <2>2. q \in RequestRecords
    BY <1>2, <2>1, SetStamp
  <2>3. /\ q.at = "usable" /\ q.stamp = clock
        /\ q.op = "authenticate" /\ q.key = requests[r].key
        /\ q.row = requests[r].row /\ q.status = requests[r].status
        /\ q.known = requests[r].known
    BY <1>1, <1>2 DEF RequestRecords
  <2>4. requests' = [requests EXCEPT ![r] = q]
    BY <1>4 DEF CheckUsable, KeysInv, KeysTypeOK
  <2> HIDE DEF p, q
  <2>5. ASSUME requests'[r] = q
        PROVE  RequestRight(r)'
    <3>1. KnowsWhatWasTold(r)'
      BY <1>1, <1>3, <2>3, <2>5 DEF KnowsWhatWasTold
    <3>2. BegunRight(r)' /\ WrittenRight(r)' /\ CommittedRight(r)' /\ AnsweredRight(r)'
      BY <2>3, <2>5 DEF BegunRight, WrittenRight, CommittedRight, AnsweredRight
    <3>3. requests[r].row.active
      BY <1>4 DEF IsUsable
    <3>4. FoundRight(r)'
      BY <1>1, <1>3, <1>4, <2>3, <2>5, <3>3 DEF FoundRight, Ats, ExpiryOf
    <3> QED BY <3>1, <3>2, <3>4 DEF RequestRight
  <2> QED BY <1>1, <2>2, <2>3, <2>4, <2>5, RequestMoves
<1>5. CASE ~ IsUsable(requests[r].row, clock)
  <2> DEFINE p == [requests[r] EXCEPT !.at = "answered"]
             s == [p EXCEPT !.stamp = clock]
             q == [s EXCEPT !.status = 401]
  <2>1. p \in RequestRecords
    BY <1>2, SetAt DEF Ats
  <2>2. s \in RequestRecords
    BY <1>2, <2>1, SetStamp
  <2>3. q \in RequestRecords
    <3>1. 401 \in Nat
      OBVIOUS
    <3> HIDE DEF p, s
    <3> QED BY <2>2, <3>1, SetStatus
  <2>4. /\ q.at = "answered" /\ q.stamp = clock /\ q.status = 401
        /\ q.op = "authenticate" /\ q.key = requests[r].key
        /\ q.row = requests[r].row /\ q.known = requests[r].known
    BY <1>1, <1>2 DEF RequestRecords
  <2>5. requests' = [requests EXCEPT ![r] = q]
    BY <1>5 DEF CheckUsable, KeysInv, KeysTypeOK
  <2> HIDE DEF p, s, q
  <2>6. ASSUME requests'[r] = q
        PROVE  RequestRight(r)'
    <3>1. KnowsWhatWasTold(r)'
      BY <1>1, <1>3, <2>4, <2>6 DEF KnowsWhatWasTold
    <3>2. BegunRight(r)' /\ WrittenRight(r)' /\ CommittedRight(r)' /\ AnsweredRight(r)'
      BY <2>4, <2>6 DEF BegunRight, WrittenRight, CommittedRight, AnsweredRight
    <3>3. FoundRight(r)'
      BY <1>1, <1>3, <1>5, <2>4, <2>6 DEF FoundRight, Ats, ExpiryOf
    <3> QED BY <3>1, <3>2, <3>3 DEF RequestRight
  <2> QED BY <1>1, <2>3, <2>4, <2>5, <2>6, RequestMoves
<1> QED BY <1>4, <1>5

LEMMA UpdateKeeps ==
  ASSUME KeysInv, NEW r \in Requests, Update(r)
  PROVE  KeysInv'
<1>1. /\ \/ requests[r].at = "usable" /\ requests[r].op = "authenticate"
         \/ requests[r].at = "begun" /\ requests[r].op = "revoke"
      /\ ~ Locked(requests[r].key)
      /\ UNCHANGED <<clock, apiKeys, lastKeyId, meant, told>>
  BY DEF Update, Going
<1>2. requests[r] \in RequestRecords /\ RequestRight(r) /\ RowsAsTold
  BY <1>1, NotIdle DEF KeysInv
<1>3. FoundRight(r) /\ BegunRight(r) /\ KnowsWhatWasTold(r)
  BY <1>2 DEF RequestRight
<1>4. requests[r].key \in KeyIds
  BY <1>1, <1>3 DEF FoundRight, BegunRight, Ats
<1>5. Row(requests[r].key) = apiKeys[requests[r].key]
  BY <1>4 DEF Row, KeyIds, NoKey
<1>6. CASE apiKeys[requests[r].key] = Null
  <2>1. AnswerWith(r, 400)
    BY <1>5, <1>6 DEF Update
  <2> QED BY <1>1, <1>4, <1>6, <2>1, AnswerKeeps
<1>7. CASE apiKeys[requests[r].key] # Null
  <2> DEFINE q == [requests[r] EXCEPT !.at = "written"]
  <2>1. q \in RequestRecords
    BY <1>2, SetAt DEF Ats
  <2>2. /\ q.at = "written" /\ q.op = requests[r].op
        /\ q.key = requests[r].key /\ q.stamp = requests[r].stamp
        /\ q.row = requests[r].row /\ q.status = requests[r].status
        /\ q.known = requests[r].known
    BY <1>2 DEF RequestRecords
  <2>3. requests' = [requests EXCEPT ![r] = q]
    BY <1>5, <1>7 DEF Update, KeysInv, KeysTypeOK
  <2>4. requests[r].key <= lastKeyId
    BY <1>2, <1>4, <1>7 DEF RowsAsTold, KeysInv, KeysTypeOK, KeyIds, NoKey
  <2> HIDE DEF q
  <2>5. \A s \in Requests : requests[s].at = "written" => requests[s].key # q.key
    BY <1>1, <2>2 DEF Locked
  <2>6. ASSUME requests'[r] = q
        PROVE  RequestRight(r)'
    <3>1. KnowsWhatWasTold(r)'
      BY <1>1, <1>3, <2>2, <2>6 DEF KnowsWhatWasTold
    <3>2. BegunRight(r)' /\ CommittedRight(r)' /\ AnsweredRight(r)'
      BY <2>2, <2>6 DEF BegunRight, CommittedRight, AnsweredRight
    <3>3. WrittenRight(r)'
      BY <1>1, <1>4, <1>7, <2>2, <2>4, <2>6 DEF WrittenRight
    <3>4. FoundRight(r)'
      BY <1>1, <1>3, <2>2, <2>6 DEF FoundRight, Ats, ExpiryOf
    <3> QED BY <3>1, <3>2, <3>3, <3>4 DEF RequestRight
  <2> QED BY <1>1, <2>1, <2>2, <2>3, <2>5, <2>6, RequestMoves
<1> QED BY <1>6, <1>7

(* Nothing but the request has moved.                                      *)
LEMMA NothingGrows ==
  ASSUME KeysInv, UNCHANGED <<apiKeys, lastKeyId, meant, told>>
  PROVE  KeysGrow
<1>1. lastKeyId \in Nat
  BY DEF KeysInv, KeysTypeOK, KeyIds, NoKey
<1> QED BY <1>1 DEF KeysGrow

-----------------------------------------------------------------------------
(* The steps that change the tables.                                       *)

(* The row of a new key expires as its date was meant.                     *)
LEMMA NewRowFacts ==
  ASSUME NEW date \in Dates \cup {Null}
  PROVE  /\ MeantInstant(date) \in Int \cup {Null}
         /\ NewRow(AsUtc(date)) \in Rows
         /\ NewRow(AsUtc(date)).expires =
              IF MeantInstant(date) = Null THEN Null
              ELSE Stamp(MeantInstant(date))
<1>1. CASE date = Null
  BY <1>1 DEF MeantInstant, AsUtc, NewRow, Rows
<1>2. CASE date # Null
  <2>1. date.wall \in Int /\ date.offset \in Int \cup {Null}
    BY <1>2 DEF Dates
  <2>2. AsUtc(date) = MeantInstant(date) /\ MeantInstant(date) \in Int
    BY <1>2, <2>1, InstantsAssumption DEF AsUtc, MeantInstant
  <2>3. Stamp(MeantInstant(date)) \in Int /\ MeantInstant(date) # Null
    BY <2>2, StampRounds, InstantsAssumption
  <2> QED BY <2>2, <2>3 DEF NewRow, Rows
<1> QED BY <1>1, <1>2

LEMMA InsertKeeps ==
  ASSUME KeysInv, NEW r \in Requests, NEW date \in Dates \cup {Null},
         requests[r].op \in {"create", "script"}, Insert(r, date)
  PROVE  KeysInv' /\ KeysGrow
<1> DEFINE id == lastKeyId + 1
           row == NewRow(AsUtc(date))
           a == [requests[r] EXCEPT !.at = "written"]
           b == [a EXCEPT !.key = id]
           q == [b EXCEPT !.row = row]
<1>1. /\ requests[r].at = "begun" /\ id \in KeyIds /\ lastKeyId' = id
      /\ meant' = [meant EXCEPT ![id] = MeantInstant(date)]
      /\ requests' = [requests EXCEPT ![r].at = "written", ![r].key = id,
                                      ![r].row = row]
      /\ UNCHANGED <<clock, apiKeys, told>>
  BY DEF Insert
<1>2. requests[r] \in RequestRecords /\ RequestRight(r) /\ RowsAsTold /\ KeysTypeOK
  BY <1>1, NotIdle DEF KeysInv
<1>3. /\ row \in Rows /\ MeantInstant(date) \in Int \cup {Null}
      /\ row.expires = IF MeantInstant(date) = Null THEN Null
                       ELSE Stamp(MeantInstant(date))
  BY NewRowFacts
<1>4. lastKeyId \in Nat /\ KeyIds \subseteq Nat
  BY <1>2 DEF KeysTypeOK, KeyIds, NoKey
<1> HIDE DEF row
<1>5. q \in RequestRecords
  <2>1. a \in RequestRecords
    BY <1>2, SetAt DEF Ats
  <2> HIDE DEF a
  <2>2. b \in RequestRecords
    BY <1>1, <2>1, SetKey
  <2> HIDE DEF b
  <2> QED BY <1>3, <2>2, SetRow
<1>6. /\ q.at = "written" /\ q.op = requests[r].op /\ q.key = id
      /\ q.row = row /\ q.known = requests[r].known
  BY <1>2 DEF RequestRecords
<1>7. requests' = [requests EXCEPT ![r] = q]
  BY <1>1, <1>2 DEF KeysTypeOK
<1> HIDE DEF a, b, q
<1>8. requests'[r] = q /\ \A s \in Requests \ {r} : requests'[s] = requests[s]
  BY <1>2, <1>7 DEF KeysTypeOK
<1>9. /\ meant'[id] = MeantInstant(date)
      /\ \A j \in KeyIds : j # id => meant'[j] = meant[j]
  BY <1>1, <1>2 DEF KeysTypeOK
<1> HIDE DEF id
<1>10. id \in Nat /\ lastKeyId < id
  BY <1>4 DEF id
<1>11. KeysGrow
  BY <1>1, <1>4, <1>9, <1>10 DEF KeysGrow
<1>12. KeysTypeOK'
  BY <1>1, <1>2, <1>3, <1>5, <1>7 DEF KeysTypeOK
<1>13. RowsAsTold'
  <2> SUFFICES ASSUME NEW j \in KeyIds
               PROVE  /\ j > lastKeyId' => apiKeys'[j] = Null
                      /\ told'[j] # {} => apiKeys'[j] # Null
                      /\ apiKeys'[j] # Null =>
                           /\ "revoked" \in told'[j] => ~ apiKeys'[j].active
                           /\ "served" \in told'[j] => apiKeys'[j].used # Null
                           /\ apiKeys'[j].expires = ExpiryOf(j)'
    BY DEF RowsAsTold
  <2>1. j > lastKeyId' => j > lastKeyId
    BY <1>1, <1>4, <1>10
  <2>2. CASE j = id
    <3>1. apiKeys[j] = Null
      BY <1>2, <1>4, <1>10, <2>2 DEF RowsAsTold
    <3> QED BY <1>1, <1>2, <3>1 DEF RowsAsTold
  <2>3. CASE j # id
    <3>1. ExpiryOf(j)' = ExpiryOf(j)
      BY <1>9, <2>3 DEF ExpiryOf
    <3> QED BY <1>1, <1>2, <2>1, <3>1 DEF RowsAsTold
  <2> QED BY <2>2, <2>3
<1>14. LocksExclude'
  <2>1. \A s \in Requests : requests[s].at = "written" => requests[s].key # id
    <3> SUFFICES ASSUME NEW s \in Requests, requests[s].at = "written"
                 PROVE  requests[s].key # id
      OBVIOUS
    <3>1. requests[s].key \in KeyIds /\ requests[s].key <= lastKeyId
      BY DEF KeysInv, RequestRight, WrittenRight
    <3> QED BY <1>4, <1>10, <3>1
  <2> QED BY <1>6, <1>8, <2>1 DEF KeysInv, LocksExclude
<1>15. RequestRight(r)'
  <2>1. apiKeys'[id] = Null
    BY <1>1, <1>2, <1>4, <1>10 DEF RowsAsTold
  <2>2. ExpiryOf(requests[r].key)' = row.expires
    BY <1>3, <1>6, <1>8, <1>9 DEF ExpiryOf
  <2>3. KnowsWhatWasTold(r)'
    BY <1>1, <1>2, <1>6, <1>8 DEF RequestRight, KnowsWhatWasTold
  <2>4. /\ BegunRight(r)' /\ FoundRight(r)' /\ CommittedRight(r)'
        /\ AnsweredRight(r)'
    BY <1>6, <1>8 DEF BegunRight, FoundRight, CommittedRight, AnsweredRight
  <2>5. WrittenRight(r)'
    BY <1>1, <1>3, <1>4, <1>6, <1>8, <2>1, <2>2 DEF WrittenRight
  <2> QED BY <2>3, <2>4, <2>5 DEF RequestRight
<1>16. lastKeyId' \in {NoKey} \cup KeyIds
  BY <1>1
<1>17. ASSUME NEW s \in Requests
       PROVE  RequestRight(s)'
  <2>1. CASE s = r
    BY <1>15, <2>1
  <2>2. CASE s # r
    BY <1>1, <1>8, <1>11, <1>16, <2>2, OthersKept
  <2> QED BY <2>1, <2>2
<1> QED BY <1>11, <1>12, <1>13, <1>14, <1>17 DEF KeysInv

(* What a COMMIT makes of the row.                                         *)
LEMMA WrittenFacts ==
  ASSUME KeysInv, NEW r \in Requests, requests[r].at = "written"
  PROVE  LET id == requests[r].key
             row == Written(r)
         IN  /\ id \in KeyIds /\ id <= lastKeyId
             /\ row \in Rows
             /\ row.expires = ExpiryOf(id)
             /\ apiKeys[id] # Null =>
                  /\ row.active => apiKeys[id].active
                  /\ apiKeys[id].used # Null => row.used # Null
             /\ requests[r].op # "list"
             /\ requests[r].op = "revoke" => ~ row.active
             /\ requests[r].op = "authenticate" => row.used # Null
<1> DEFINE id == requests[r].key
<1>1. requests[r] \in RequestRecords /\ WrittenRight(r) /\ RowsAsTold /\ KeysTypeOK
  BY NotIdle DEF KeysInv, RequestRight
<1>2. /\ id \in KeyIds /\ id <= lastKeyId
      /\ requests[r].op \in {"create", "script", "revoke", "authenticate"}
      /\ requests[r].stamp \in Nat
      /\ apiKeys[id] \in Rows \cup {Null}
  BY <1>1, RecordFields DEF WrittenRight, Operations, KeysTypeOK, Views
<1>3. id # NoKey
  BY <1>2 DEF KeyIds, NoKey
<1>4. CASE requests[r].op \in {"create", "script"}
  <2>1. Written(r) = requests[r].row
    BY <1>4 DEF Written
  <2> QED BY <1>1, <1>2, <1>4, <2>1 DEF WrittenRight
<1>5. CASE requests[r].op = "revoke"
  <2>1. Written(r) = [apiKeys[id] EXCEPT !.active = FALSE]
    BY <1>3, <1>5 DEF Written, Revoked, Row
  <2>2. apiKeys[id] \in Rows
    BY <1>1, <1>2, <1>5 DEF WrittenRight
  <2>3. apiKeys[id].expires = ExpiryOf(id)
    BY <1>1, <1>2, <1>5 DEF WrittenRight, RowsAsTold
  <2> QED BY <1>2, <1>5, <2>1, <2>2, <2>3 DEF Rows
<1>6. CASE requests[r].op = "authenticate"
  <2>1. Written(r) = [apiKeys[id] EXCEPT !.used = Stamp(requests[r].stamp)]
    BY <1>3, <1>6 DEF Written, Touched, Row
  <2>2. apiKeys[id] \in Rows
    BY <1>1, <1>2, <1>6 DEF WrittenRight
  <2>3. apiKeys[id].expires = ExpiryOf(id)
    BY <1>1, <1>2, <1>6 DEF WrittenRight, RowsAsTold
  <2>4. Stamp(requests[r].stamp) \in Int /\ Stamp(requests[r].stamp) # Null
    BY <1>2, StampRounds, InstantsAssumption
  <2> QED BY <1>2, <1>6, <2>1, <2>2, <2>3, <2>4 DEF Rows
<1> QED BY <1>2, <1>4, <1>5, <1>6

(* A COMMIT, whether its answer is read or not.                            *)
LEMMA ApplyKeeps ==
  ASSUME KeysInv, NEW r \in Requests, requests[r].at = "written",
         Apply(r), UNCHANGED <<clock, lastKeyId, meant, told>>,
         NEW q \in RequestRecords, requests' = [requests EXCEPT ![r] = q],
         q.op = requests[r].op, q.key = requests[r].key,
         q.row = requests[r].row, q.known = requests[r].known,
         q.stamp = requests[r].stamp,
         \/ q.at = "committed" /\ q.status = requests[r].status
         \/ q.at = "answered" /\ q.status = 500
  PROVE  KeysInv' /\ KeysGrow
<1> DEFINE id == requests[r].key
           row == Written(r)
<1>1. /\ RequestRight(r) /\ RowsAsTold /\ KeysTypeOK
      /\ apiKeys' = [apiKeys EXCEPT ![id] = row]
  BY DEF KeysInv, Apply
<1>2. /\ id \in KeyIds /\ id <= lastKeyId
      /\ row \in Rows
      /\ row.expires = ExpiryOf(id)
      /\ apiKeys[id] # Null =>
           /\ row.active => apiKeys[id].active
           /\ apiKeys[id].used # Null => row.used # Null
      /\ requests[r].op # "list"
      /\ requests[r].op = "revoke" => ~ row.active
      /\ requests[r].op = "authenticate" => row.used # Null
  BY WrittenFacts
<1> HIDE DEF id, row
<1>3. row # Null
  BY <1>2, RowFields
<1>4. /\ apiKeys'[id] = row
      /\ \A j \in KeyIds : j # id => apiKeys'[j] = apiKeys[j]
  BY <1>1, <1>2 DEF KeysTypeOK, Views
<1>5. requests'[r] = q /\ \A s \in Requests \ {r} : requests'[s] = requests[s]
  BY <1>1 DEF KeysTypeOK
<1>6. lastKeyId \in Nat /\ KeyIds \subseteq Nat
  BY <1>1 DEF KeysTypeOK, KeyIds, NoKey
<1>7. \A j \in KeyIds : ExpiryOf(j)' = ExpiryOf(j)
  BY DEF ExpiryOf
<1>8. \A j \in KeyIds : apiKeys[j] # Null => apiKeys[j].expires = ExpiryOf(j)
  BY <1>1 DEF RowsAsTold
<1>9. KeysGrow
  BY <1>2, <1>3, <1>4, <1>6, <1>8 DEF KeysGrow
<1>10. KeysTypeOK'
  <2>1. apiKeys' \in Views
    BY <1>1, <1>2 DEF KeysTypeOK, Views
  <2>2. requests' \in [Requests -> {Idle} \cup RequestRecords]
    BY <1>1 DEF KeysTypeOK
  <2> QED BY <1>1, <2>1, <2>2 DEF KeysTypeOK
<1>11. RowsAsTold'
  <2>1. ASSUME NEW j \in KeyIds
        PROVE  /\ j > lastKeyId' => apiKeys'[j] = Null
               /\ told'[j] # {} => apiKeys'[j] # Null
               /\ apiKeys'[j] # Null =>
                    /\ "revoked" \in told'[j] => ~ apiKeys'[j].active
                    /\ "served" \in told'[j] => apiKeys'[j].used # Null
                    /\ apiKeys'[j].expires = ExpiryOf(j)'
    <3>1. CASE j = id
      <4>1. ~ (j > lastKeyId')
        BY <1>2, <1>6, <3>1
      <4>2. "revoked" \in told[j] => apiKeys[j] # Null /\ ~ apiKeys[j].active
        BY <1>1 DEF RowsAsTold
      <4>3. "served" \in told[j] => apiKeys[j] # Null /\ apiKeys[j].used # Null
        BY <1>1 DEF RowsAsTold
      <4> QED BY <1>2, <1>3, <1>4, <1>7, <3>1, <4>1, <4>2, <4>3
    <3>2. CASE j # id
      BY <1>1, <1>4, <1>7, <3>2 DEF RowsAsTold
    <3> QED BY <3>1, <3>2
  <2> QED BY <2>1 DEF RowsAsTold
<1>12. LocksExclude'
  BY <1>5 DEF KeysInv, LocksExclude
<1>13. RequestRight(r)'
  <2>1. KnowsWhatWasTold(r)'
    BY <1>1, <1>5 DEF RequestRight, KnowsWhatWasTold
  <2>2. BegunRight(r)' /\ WrittenRight(r)'
    BY <1>5 DEF BegunRight, WrittenRight
  <2>3. CommittedRight(r)'
    BY <1>2, <1>3, <1>4, <1>5 DEF CommittedRight, id
  <2>4. AnsweredRight(r)'
    BY <1>5 DEF AnsweredRight
  <2>5. FoundRight(r)'
    <3>1. FoundRight(r)
      BY <1>1 DEF RequestRight
    <3>2. ExpiryOf(q.key)' = ExpiryOf(requests[r].key)
      BY <1>2, <1>7 DEF id
    <3>3. apiKeys'[q.key] # Null
      BY <1>3, <1>4 DEF id
    <3> QED BY <1>5, <3>1, <3>2, <3>3 DEF FoundRight, Ats, IsUsable
  <2> QED BY <2>1, <2>2, <2>3, <2>4, <2>5 DEF RequestRight
<1>14. ASSUME NEW s \in Requests
       PROVE  RequestRight(s)'
  <2>1. CASE s = r
    BY <1>13, <2>1
  <2>2. CASE s # r
    <3>1. requests[s].at = "written" => requests[s].key # id
      BY <2>2 DEF KeysInv, LocksExclude, id
    <3>2. requests[s].at = "written" => requests[s].key \in KeyIds
      BY DEF KeysInv, RequestRight, WrittenRight
    <3>3. lastKeyId' \in {NoKey} \cup KeyIds
      BY <1>10 DEF KeysTypeOK
    <3> QED BY <1>4, <1>5, <1>9, <2>2, <3>1, <3>2, <3>3, OthersKept
  <2> QED BY <2>1, <2>2
<1> QED BY <1>9, <1>10, <1>11, <1>12, <1>14 DEF KeysInv

LEMMA CommitKeeps ==
  ASSUME KeysInv, NEW r \in Requests, Commit(r)
  PROVE  KeysInv' /\ KeysGrow
<1> DEFINE q == [requests[r] EXCEPT !.at = "committed"]
<1>1. /\ requests[r].at = "written" /\ Apply(r)
      /\ requests' = [requests EXCEPT ![r].at = "committed"]
      /\ UNCHANGED <<clock, lastKeyId, meant, told>>
  BY DEF Commit
<1>2. requests[r] \in RequestRecords /\ KeysTypeOK
  BY <1>1, NotIdle DEF KeysInv
<1>3. q \in RequestRecords
  BY <1>2, SetAt DEF Ats
<1>4. /\ q.at = "committed" /\ q.op = requests[r].op /\ q.key = requests[r].key
      /\ q.row = requests[r].row /\ q.known = requests[r].known
      /\ q.stamp = requests[r].stamp /\ q.status = requests[r].status
  BY <1>2 DEF RequestRecords
<1>5. requests' = [requests EXCEPT ![r] = q]
  BY <1>1, <1>2 DEF KeysTypeOK
<1> HIDE DEF q
<1> QED BY <1>1, <1>3, <1>4, <1>5, ApplyKeeps

(* An answer, as one change of the record of the request.                  *)
LEMMA AnswerRecord ==
  ASSUME KeysInv, NEW r \in Requests, requests[r].at # "idle",
         NEW n \in Nat, AnswerWith(r, n)
  PROVE  \E q \in RequestRecords :
           /\ requests' = [requests EXCEPT ![r] = q]
           /\ q.at = "answered" /\ q.status = n
           /\ q.op = requests[r].op /\ q.key = requests[r].key
           /\ q.row = requests[r].row /\ q.known = requests[r].known
           /\ q.stamp = requests[r].stamp
<1> DEFINE p == [requests[r] EXCEPT !.at = "answered"]
           q == [p EXCEPT !.status = n]
<1>1. requests[r] \in RequestRecords /\ KeysTypeOK
  BY NotIdle DEF KeysInv
<1>2. p \in RequestRecords
  BY <1>1, SetAt DEF Ats
<1>3. q \in RequestRecords
  <2> HIDE DEF p
  <2> QED BY <1>2, SetStatus
<1>4. /\ q.at = "answered" /\ q.status = n
      /\ q.op = requests[r].op /\ q.key = requests[r].key
      /\ q.row = requests[r].row /\ q.known = requests[r].known
      /\ q.stamp = requests[r].stamp
  BY <1>1 DEF RequestRecords
<1>5. requests' = [requests EXCEPT ![r] = q]
  <2>1. requests' = [requests EXCEPT ![r].at = "answered", ![r].status = n]
    BY DEF AnswerWith
  <2>2. requests \in [Requests -> {Idle} \cup RequestRecords]
    BY <1>1 DEF KeysTypeOK
  <2> DEFINE f == [requests EXCEPT ![r].at = "answered"]
  <2>3. f = [requests EXCEPT ![r] = p]
    BY <2>2
  <2>4. requests' = [f EXCEPT ![r].status = n]
    BY <2>1
  <2> HIDE DEF f, p
  <2>5. f[r] = p
    BY <2>2, <2>3
  <2>6. requests' = [f EXCEPT ![r] = q]
    BY <2>4, <2>5
  <2> HIDE DEF q
  <2> QED BY <2>2, <2>3, <2>6
<1> HIDE DEF p, q
<1> QED BY <1>3, <1>4, <1>5

LEMMA UnacknowledgedKeeps ==
  ASSUME KeysInv, NEW r \in Requests, CommitUnacknowledged(r)
  PROVE  KeysInv' /\ KeysGrow
<1>1. /\ requests[r].at = "written" /\ Apply(r) /\ AnswerWith(r, 500)
      /\ UNCHANGED <<clock, lastKeyId, meant, told>>
  BY DEF CommitUnacknowledged
<1>2. PICK q \in RequestRecords :
        /\ requests' = [requests EXCEPT ![r] = q]
        /\ q.at = "answered" /\ q.status = 500
        /\ q.op = requests[r].op /\ q.key = requests[r].key
        /\ q.row = requests[r].row /\ q.known = requests[r].known
        /\ q.stamp = requests[r].stamp
  BY <1>1, AnswerRecord
<1> QED BY <1>1, <1>2, ApplyKeeps

(* What is told about a key is so when it is told.                         *)
LEMMA ReplyKeeps ==
  ASSUME KeysInv, NEW r \in Requests, Reply(r)
  PROVE  KeysInv' /\ KeysGrow
<1> DEFINE id == requests[r].key
<1>1. /\ requests[r].at = "committed"
      /\ UNCHANGED <<clock, apiKeys, lastKeyId, meant>>
  BY DEF Reply, ReplyReady
<1>2. requests[r] \in RequestRecords /\ RequestRight(r) /\ RowsAsTold /\ KeysTypeOK
  BY <1>1, NotIdle DEF KeysInv
<1>3. CommittedRight(r) /\ FoundRight(r) /\ KnowsWhatWasTold(r)
  BY <1>2 DEF RequestRight
<1>4. requests[r].op \in {"create", "script", "revoke", "authenticate"}
  BY <1>1, <1>2, <1>3, RecordFields DEF CommittedRight, Operations
<1>5. PICK n \in {200, 201, 204}, fact \in {"created", "revoked", "served"} :
        /\ AnswerWith(r, n)
        /\ told' = [told EXCEPT ![id] = @ \cup {fact}]
        /\ fact = "revoked" => requests[r].op = "revoke"
        /\ fact = "served" => requests[r].op = "authenticate"
        /\ n = 200 => requests[r].op = "authenticate"
  <2>1. CASE requests[r].op \in {"create", "script"}
    <3>1. requests[r].op # "revoke" /\ requests[r].op # "authenticate"
      BY <2>1
    <3>2. AnswerWith(r, 201) /\ told' = [told EXCEPT ![id] = @ \cup {"created"}]
      <4>1. CASE requests[r].op = "create"
        BY <4>1 DEF Reply
      <4>2. CASE requests[r].op = "script"
        BY <4>2 DEF Reply
      <4> QED BY <2>1, <4>1, <4>2
    <3> QED BY <3>1, <3>2
  <2>2. CASE requests[r].op = "revoke"
    BY <2>2 DEF Reply
  <2>3. CASE requests[r].op = "authenticate"
    BY <2>3 DEF Reply
  <2> QED BY <1>4, <2>1, <2>2, <2>3
<1>6. PICK q \in RequestRecords :
        /\ requests' = [requests EXCEPT ![r] = q]
        /\ q.at = "answered" /\ q.status = n
        /\ q.op = requests[r].op /\ q.key = requests[r].key
        /\ q.row = requests[r].row /\ q.known = requests[r].known
        /\ q.stamp = requests[r].stamp
  <2>1. n \in Nat
    OBVIOUS
  <2> QED BY <1>1, <1>5, <2>1, AnswerRecord
<1>7. /\ id \in KeyIds /\ apiKeys[id] # Null
      /\ requests[r].op = "revoke" => ~ apiKeys[id].active
      /\ requests[r].op = "authenticate" => apiKeys[id].used # Null
  BY <1>1, <1>3 DEF CommittedRight
<1> HIDE DEF id
<1>8. requests'[r] = q /\ \A s \in Requests \ {r} : requests'[s] = requests[s]
  BY <1>2, <1>6 DEF KeysTypeOK
<1>9. /\ told'[id] = told[id] \cup {fact}
      /\ \A j \in KeyIds : j # id => told'[j] = told[j]
  BY <1>2, <1>5, <1>7 DEF KeysTypeOK, Facts
<1>10. KeysGrow
  <2>1. lastKeyId \in Nat
    BY <1>2 DEF KeysTypeOK, KeyIds, NoKey
  <2> QED BY <1>1, <1>9, <2>1 DEF KeysGrow
<1>11. KeysTypeOK'
  <2>1. told' \in Facts
    BY <1>2, <1>5, <1>7 DEF KeysTypeOK, Facts
  <2>2. requests' \in [Requests -> {Idle} \cup RequestRecords]
    BY <1>2, <1>6 DEF KeysTypeOK
  <2> QED BY <1>1, <1>2, <2>1, <2>2 DEF KeysTypeOK
<1>12. RowsAsTold'
  <2>1. \A j \in KeyIds : ExpiryOf(j)' = ExpiryOf(j)
    BY <1>1 DEF ExpiryOf
  <2> QED BY <1>1, <1>2, <1>5, <1>7, <1>9, <2>1 DEF RowsAsTold
<1>13. LocksExclude'
  BY <1>6, <1>8 DEF KeysInv, LocksExclude
<1>14. RequestRight(r)'
  <2>1. KnowsWhatWasTold(r)'
    BY <1>1, <1>3, <1>6, <1>8, <1>10 DEF KnowsWhatWasTold, KeysGrow
  <2>2. BegunRight(r)' /\ WrittenRight(r)' /\ CommittedRight(r)'
    BY <1>6, <1>8 DEF BegunRight, WrittenRight, CommittedRight
  <2>3. n # 400 /\ n # 401
    OBVIOUS
  <2>4. FoundRight(r)'
    BY <1>1, <1>3, <1>6, <1>8, <2>3 DEF FoundRight, Ats, ExpiryOf
  <2>5. AnsweredRight(r)'
    <3>1. requests[r].op = "authenticate" =>
            "revoked" \notin requests[r].known[requests[r].key]
      BY <1>1, <1>3 DEF FoundRight, Ats
    <3> QED BY <1>4, <1>6, <1>8, <2>3, <3>1 DEF AnsweredRight
  <2> QED BY <2>1, <2>2, <2>4, <2>5 DEF RequestRight
<1>15. ASSUME NEW s \in Requests
       PROVE  RequestRight(s)'
  <2>1. CASE s = r
    BY <1>14, <2>1
  <2>2. CASE s # r
    <3>1. lastKeyId' \in {NoKey} \cup KeyIds
      BY <1>11 DEF KeysTypeOK
    <3> QED BY <1>1, <1>8, <1>10, <2>2, <3>1, OthersKept
  <2> QED BY <2>1, <2>2
<1> QED BY <1>10, <1>11, <1>12, <1>13, <1>15 DEF KeysInv

-----------------------------------------------------------------------------
(* The invariant holds, and the tables only grow.                          *)

LEMMA KeysInvInit == clock = 0 /\ KeysInit => KeysInv
<1> SUFFICES ASSUME clock = 0, KeysInit
             PROVE  KeysInv
  OBVIOUS
<1>1. KeysTypeOK
  BY DEF KeysInit, KeysTypeOK, Views, Facts, NoKey
<1>2. RowsAsTold
  BY DEF KeysInit, RowsAsTold
<1>3. \A r \in Requests : requests[r].at = "idle"
  BY DEF KeysInit, Idle
<1>4. LocksExclude
  BY <1>3 DEF LocksExclude
<1>5. \A r \in Requests : RequestRight(r)
  BY <1>3 DEF RequestRight, KnowsWhatWasTold, BegunRight, FoundRight,
       WrittenRight, CommittedRight, AnsweredRight, Ats
<1> QED BY <1>1, <1>2, <1>4, <1>5 DEF KeysInv

LEMMA KeysInvStep ==
  KeysInv /\ [KeysNext]_<<clock, keysVars>> => KeysInv' /\ KeysGrow
<1> SUFFICES ASSUME KeysInv, [KeysNext]_<<clock, keysVars>>
             PROVE  KeysInv' /\ KeysGrow
  OBVIOUS
<1>1. ASSUME UNCHANGED keysVars, clock' \in Nat
      PROVE  KeysInv' /\ KeysGrow
  <2>1. UNCHANGED <<apiKeys, lastKeyId, requests, meant, told>>
    BY <1>1 DEF keysVars
  <2>2. KeysGrow
    BY <2>1, NothingGrows
  <2>3. KeysTypeOK' /\ RowsAsTold' /\ LocksExclude'
    BY <1>1, <2>1 DEF KeysInv, KeysTypeOK, RowsAsTold, LocksExclude, ExpiryOf
  <2>4. \A s \in Requests : RequestRight(s)'
    <3>1. lastKeyId' \in {NoKey} \cup KeyIds
      BY <2>3 DEF KeysTypeOK
    <3> QED BY <2>1, <2>2, <3>1, OthersKept
  <2> QED BY <2>2, <2>3, <2>4 DEF KeysInv
<1>2. CASE KeysTick
  BY <1>1, <1>2 DEF KeysTick, ClockTick, KeysInv, KeysTypeOK
<1>3. CASE UNCHANGED <<clock, keysVars>>
  BY <1>1, <1>3 DEF KeysInv, KeysTypeOK
<1>4. ASSUME NEW r \in Requests, KeysStep(r)
      PROVE  KeysInv' /\ KeysGrow
  <2>1. ASSUME NEW op \in Operations, NEW id \in KeyIds \cup {NoKey},
               KeyArrive(r, op, id)
        PROVE  KeysInv' /\ KeysGrow
    <3>1. KeysInv'
      BY <2>1, ArriveKeeps
    <3> QED BY <2>1, <3>1, NothingGrows DEF KeyArrive
  <2>2. CASE RefuseUser(r)
    <3>1. /\ requests[r].at = "begun" /\ requests[r].op \in {"create", "script"}
          /\ AnswerWith(r, 400)
          /\ UNCHANGED <<clock, apiKeys, lastKeyId, meant, told>>
      BY <2>2 DEF RefuseUser, Going
    <3>2. KeysInv'
      BY <3>1, AnswerKeeps
    <3> QED BY <3>1, <3>2, NothingGrows
  <2>3. CASE CreateKey(r)
    <3>1. PICK date \in Expiries \cup {Null} : Insert(r, date)
      BY <2>3 DEF CreateKey
    <3>2. date \in Dates \cup {Null} /\ requests[r].op \in {"create", "script"}
      BY <2>3, <3>1, ApiKeysAssumption DEF CreateKey
    <3> QED BY <3>1, <3>2, InsertKeeps
  <2>4. CASE CreateFromScript(r)
    <3>1. requests[r].op \in {"create", "script"} /\ Insert(r, Null)
          /\ Null \in Dates \cup {Null}
      BY <2>4 DEF CreateFromScript
    <3> QED BY <3>1, InsertKeeps
  <2>5. CASE ListKeys(r)
    <3>1. KeysInv'
      BY <2>5, ListKeeps
    <3> QED BY <2>5, <3>1, NothingGrows DEF ListKeys
  <2>6. CASE FindKey(r)
    <3>1. KeysInv'
      BY <2>6, FindKeeps
    <3> QED BY <2>6, <3>1, NothingGrows DEF FindKey
  <2>7. CASE CheckUsable(r)
    <3>1. KeysInv'
      BY <2>7, UsableKeeps
    <3> QED BY <2>7, <3>1, NothingGrows DEF CheckUsable
  <2>8. CASE Update(r)
    <3>1. KeysInv'
      BY <2>8, UpdateKeeps
    <3> QED BY <2>8, <3>1, NothingGrows DEF Update
  <2>9. CASE Commit(r)
    BY <2>9, CommitKeeps
  <2>10. CASE CommitUnacknowledged(r)
    BY <2>10, UnacknowledgedKeeps
  <2>11. CASE KeyStatementFails(r)
    <3>1. /\ requests[r].at \in {"begun", "found", "usable", "written"}
          /\ AnswerWith(r, 500)
          /\ UNCHANGED <<clock, apiKeys, lastKeyId, meant, told>>
      BY <2>11 DEF KeyStatementFails
    <3>2. KeysInv'
      BY <3>1, AnswerKeeps
    <3> QED BY <3>1, <3>2, NothingGrows
  <2>12. CASE Reply(r)
    BY <2>12, ReplyKeeps
  <2> QED BY <1>4, <2>1, <2>2, <2>3, <2>4, <2>5, <2>6, <2>7, <2>8, <2>9,
             <2>10, <2>11, <2>12 DEF KeysStep
<1> QED BY <1>2, <1>3, <1>4 DEF KeysNext

LEMMA KeysInvAlways == KeysSpec => []KeysInv
<1> QED BY KeysInvInit, KeysInvStep, PTL DEF KeysSpec

-----------------------------------------------------------------------------
(* Revocation is final: touch() and revoke() of concurrent requests change *)
(* their own columns only, so no interleaving makes a key active again,    *)
(* moves its expiry or removes it.                                         *)
THEOREM NoKeyComesBack == KeysSpec => RevokedForGood
<1>1. KeysGrow => [\A id \in KeyIds :
       apiKeys[id] # Null =>
         /\ apiKeys'[id] # Null
         /\ apiKeys'[id].active => apiKeys[id].active
         /\ apiKeys'[id].expires = apiKeys[id].expires]_apiKeys
  BY DEF KeysGrow
<1> QED BY <1>1, KeysInvInit, KeysInvStep, PTL DEF KeysSpec, RevokedForGood

(* What was answered about a key is so for every request that arrives      *)
(* later, although rows are read and written with awaits in between and    *)
(* COMMITs may go unacknowledged.                                          *)
THEOREM AnswersStayTrue == KeysSpec => []AnswersHold
<1>1. KeysInv => AnswersHold
  BY DEF KeysInv, RequestRight, AnsweredRight, AnswersHold
<1> QED BY <1>1, KeysInvAlways, PTL

(* A key expires when its administrator meant, to within half a second,    *)
(* for every expiry, every offset and every instant of the request.        *)
THEOREM KeysExpireAsMeant == KeysSpec => []ExpiresAsMeant
<1>1. KeysInv => ExpiresAsMeant
  <2> SUFFICES ASSUME KeysInv, NEW r \in Requests,
                      Going(r, {"usable", "written", "committed", "answered"},
                            {"authenticate"}),
                      requests[r].row # Null
               PROVE  LET end == meant[requests[r].key]
                      IN  IF requests[r].status = 401
                          THEN \/ ~ requests[r].row.active
                               \/ /\ end # Null
                                  /\ 2 * (end - requests[r].stamp) < Second
                          ELSE \/ requests[r].at = "answered"
                               \/ end = Null
                               \/ 2 * (requests[r].stamp - end) < Second
    BY DEF ExpiresAsMeant
  <2> DEFINE end == meant[requests[r].key]
             stamp == requests[r].stamp
             row == requests[r].row
  <2>1. /\ requests[r].at \in {"usable", "written", "committed", "answered"}
        /\ requests[r].op = "authenticate"
    BY DEF Going
  <2>2. requests[r] \in RequestRecords /\ FoundRight(r) /\ KeysTypeOK
    BY <2>1, NotIdle DEF KeysInv, RequestRight
  <2>3. /\ requests[r].key \in KeyIds
        /\ row.expires = ExpiryOf(requests[r].key)
        /\ requests[r].at \in {"usable", "written", "committed"} =>
             requests[r].status = 0 /\ IsUsable(row, stamp)
        /\ requests[r].at = "answered" /\ requests[r].status = 401 =>
             ~ IsUsable(row, stamp)
    BY <2>1, <2>2 DEF FoundRight, Ats
  <2>4. end \in Int \cup {Null} /\ stamp \in Nat /\ Second \in Nat \ {0}
    BY <2>2, <2>3, RecordFields, InstantsAssumption DEF KeysTypeOK
  <2>5. IsUsable(row, stamp) <=>
          row.active /\ (row.expires = Null \/ row.expires > stamp)
    BY DEF IsUsable
  <2>6. row.expires = IF end = Null THEN Null ELSE Stamp(end)
    BY <2>3 DEF ExpiryOf
  <2> HIDE DEF end, stamp, row
  <2>7. CASE end = Null
    BY <2>1, <2>3, <2>5, <2>6, <2>7 DEF end, row, stamp
  <2>8. CASE end # Null
    <3>1. end \in Int
      BY <2>4, <2>8
    <3>2. /\ Stamp(end) \in Int
          /\ 2 * Stamp(end) <= 2 * end + Second
          /\ 2 * end < 2 * Stamp(end) + Second
      BY <3>1, StampRounds
    <3>3. row.expires = Stamp(end) /\ row.expires # Null
      BY <2>6, <2>8, <3>2, InstantsAssumption
    <3>4. CASE Stamp(end) > stamp
      <4>1. 2 * (stamp - end) < Second
        BY <2>4, <3>1, <3>2, <3>4
      <4>2. requests[r].status = 401 => ~ row.active
        BY <2>1, <2>3, <2>5, <3>3, <3>4
      <4> QED BY <2>8, <4>1, <4>2 DEF end, stamp, row
    <3>5. CASE ~ (Stamp(end) > stamp)
      <4>1. 2 * (end - stamp) < Second
        BY <2>4, <3>1, <3>2, <3>5
      <4>2. requests[r].at = "answered"
        BY <2>1, <2>3, <2>5, <3>3, <3>5
      <4> QED BY <2>8, <4>1, <4>2 DEF end, stamp, row
    <3> QED BY <3>4, <3>5
  <2> QED BY <2>7, <2>8
<1> QED BY <1>1, KeysInvAlways, PTL
=============================================================================
