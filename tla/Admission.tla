------------------------------ MODULE Admission ------------------------------
(***************************************************************************)
(* The daily quota of a key, as one request is checked against it while    *)
(* other requests of the key are recorded and midnight passes: the date is *)
(* read, the consumption since that date is awaited, and the clock is read *)
(* again for the Retry-After of a refusal.                                 *)
(***************************************************************************)
EXTENDS Instants

CONSTANTS DayLength,     \* seconds of a day
          TokenLimits,   \* the values of DailyTokenLimit that are tried
          DefaultLimit,  \* DEFAULT_TOKENS_PER_DAY
          MaxSpent       \* bound: the tokens recorded on one day

ASSUME AdmissionAssumption ==
  /\ DayLength \in Nat \ {0}
  /\ TokenLimits \subseteq Nat \cup {Null}
  /\ DefaultLimit \in Nat
  /\ MaxSpent \in Nat

VARIABLES spent,     \* spent[d]: TotalTokens of the key on day d
          admission  \* the request that is checked

admissionVars == <<spent, admission>>

TicksPerDay == DayLength * Second

Day(t) == t \div TicksPerDay

QuotaDays == 0..Day(LastInstant)

(* api_key.daily_token_limit or the default: zero counts as no limit given.*)
TokensPerDay(limit) == IF limit \in {Null, 0} THEN DefaultLimit ELSE limit

(* int(): towards zero.                                                    *)
Truncate(ticks) ==
  IF ticks >= 0 THEN ticks \div Second ELSE - ((- ticks) \div Second)

MidnightAfter(day) == (day + 1) * TicksPerDay

(* Mutant: the midnight after the second reading of the clock.             *)
WaitFromNow(day) == Truncate(MidnightAfter(Day(clock)) - clock)

(* manana - ahora                                                          *)
Wait(day) == Truncate(MidnightAfter(day) - clock)

(* `if espera`: a zero sends no header.                                    *)
RetryAfter(wait) == IF wait = 0 THEN Null ELSE wait

-----------------------------------------------------------------------------
(* The limiter has let the request through; the date is read.              *)
ReadDay ==
  /\ admission.at \in {"idle", "admitted", "refused"}
  /\ \E limit \in TokenLimits :
       admission' =
         IF TokensPerDay(limit) = 0 THEN [at |-> "admitted"]
         ELSE [at |-> "querying", limit |-> TokensPerDay(limit),
               day |-> Day(clock)]
  /\ UNCHANGED <<clock, spent>>

(* tokens_since: Day >= today.                                             *)
Since(day) ==
  LET sum[d \in QuotaDays] ==
        (IF d >= day THEN spent[d] ELSE 0) + (IF d = 0 THEN 0 ELSE sum[d - 1])
  IN  sum[Day(LastInstant)]

Query ==
  /\ admission.at = "querying"
  /\ admission' = [at |-> "counted", limit |-> admission.limit,
                   day |-> admission.day, used |-> Since(admission.day)]
  /\ UNCHANGED <<clock, spent>>

AdmitOrRefuse ==
  /\ admission.at = "counted"
  /\ admission' =
       IF admission.used >= admission.limit
       THEN [at |-> "refused", limit |-> admission.limit, day |-> admission.day,
             since |-> clock, retry |-> RetryAfter(Wait(admission.day))]
       ELSE [at |-> "admitted"]
  /\ UNCHANGED <<clock, spent>>

(* Another request of the key is recorded.                                 *)
RecordTokens ==
  /\ spent[Day(clock)] < MaxSpent
  /\ spent' = [spent EXCEPT ![Day(clock)] = @ + 1]
  /\ UNCHANGED <<clock, admission>>

AdmissionTick == ClockTick /\ UNCHANGED admissionVars

AdmissionInit ==
  /\ clock = 0
  /\ spent = [d \in QuotaDays |-> 0]
  /\ admission = [at |-> "idle"]

AdmissionNext ==
  ReadDay \/ Query \/ AdmitOrRefuse \/ RecordTokens \/ AdmissionTick

AdmissionSpec == AdmissionInit /\ [][AdmissionNext]_<<clock, admissionVars>>

-----------------------------------------------------------------------------
(* Properties                                                              *)

(* A client that waits for Retry-After, or not at all without it, and a    *)
(* second more, comes back on a new day, and has not waited past its       *)
(* start, whenever midnight passes between the two readings of the clock.  *)
WaitEndsAtMidnight ==
  admission.at = "refused" =>
    LET wait == IF admission.retry = Null THEN 0 ELSE admission.retry
        midnight == MidnightAfter(admission.day)
    IN  /\ admission.since + (wait + 1) * Second > midnight
        /\ wait > 0 => admission.since + wait * Second <= midnight

(* docs/frontend-guide.md, "Cabeceras": a 429 has a Retry-After with the   *)
(* seconds to wait.                                                        *)
RefusalSaysHowLong ==
  admission.at = "refused" => admission.retry # Null /\ admission.retry > 0
=============================================================================
