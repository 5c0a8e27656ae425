------------------------------- MODULE Ledger -------------------------------
(***************************************************************************)
(* What the accounting of the gateway promises, with no connection, no     *)
(* transaction and no retry in sight.  A request that was answered opens   *)
(* an entry for its key and its tokens; the entry is charged once, to one  *)
(* day of the key, or it is dropped; then it is closed.  What was charged  *)
(* is in the usage for good, and nothing else is.  UsageRecorder, which    *)
(* models the code, implements this.                                       *)
(***************************************************************************)
EXTENDS Naturals

CONSTANTS Tasks,      \* the requests whose consumption is recorded
          Keys,       \* the API keys
          MaxTokens,  \* bound: the most tokens one request consumes
          MaxDay      \* bound: the last day of the model

VARIABLES usage,      \* usage[k][d]: tokens charged to key k on day d
          today,      \* the UTC day
          entry       \* entry[t]: the accounting entry of request t

ledgerVars == <<usage, today, entry>>

Days == 0..MaxDay

Blank == [state : {"none"}, key : Keys, tokens : {0}, since : {0}]

LedgerInit ==
  /\ usage = [k \in Keys |-> [d \in Days |-> 0]]
  /\ today = 0
  /\ entry \in [Tasks -> Blank]

(* An answered request opens its entry; one without tokens is dropped at   *)
(* once.                                                                   *)
Open(t) ==
  /\ entry[t].state = "none"
  /\ \E k \in Keys, n \in 0..MaxTokens :
       entry' = [entry EXCEPT ![t] =
                   [state  |-> IF n > 0 THEN "open" ELSE "dropped",
                    key    |-> k, tokens |-> n, since  |-> today]]
  /\ UNCHANGED <<usage, today>>

(* The tokens go, all of them and once, to a day on which the entry was    *)
(* open.                                                                   *)
Charge(t) ==
  /\ entry[t].state = "open"
  /\ \E d \in entry[t].since..today :
       usage' = [usage EXCEPT ![entry[t].key][d] = @ + entry[t].tokens]
  /\ entry' = [entry EXCEPT ![t].state = "charged"]
  /\ UNCHANGED today

(* An entry may be lost, but then it leaves no trace in the usage.         *)
Drop(t) ==
  /\ entry[t].state = "open"
  /\ entry' = [entry EXCEPT ![t].state = "dropped"]
  /\ UNCHANGED <<usage, today>>

Close(t) ==
  /\ entry[t].state \in {"charged", "dropped"}
  /\ entry' = [entry EXCEPT ![t].state = "closed"]
  /\ UNCHANGED <<usage, today>>

NextDay ==
  /\ today < MaxDay
  /\ today' = today + 1
  /\ UNCHANGED <<usage, entry>>

LedgerNext ==
  \/ \E t \in Tasks : Open(t) \/ Charge(t) \/ Drop(t) \/ Close(t)
  \/ NextDay

LedgerSpec == LedgerInit /\ [][LedgerNext]_ledgerVars

(* The ledger of a server, where requests follow one another: an entry is  *)
(* forgotten once it is closed, and a crash forgets them all.              *)
Forget(t) ==
  /\ entry[t].state = "closed"
  /\ \E blank \in Blank : entry' = [entry EXCEPT ![t] = blank]
  /\ UNCHANGED <<usage, today>>

Crash ==
  /\ entry' \in [Tasks -> Blank]
  /\ UNCHANGED <<usage, today>>

ServerNext == LedgerNext \/ (\E t \in Tasks : Forget(t)) \/ Crash

ServerSpec == LedgerInit /\ [][ServerNext]_ledgerVars
=============================================================================
