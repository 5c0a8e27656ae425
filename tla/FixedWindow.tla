---------------------------- MODULE FixedWindow ----------------------------
(***************************************************************************)
(* What a requests-per-minute limiter promises: of the requests that came  *)
(* in one window, a key gets no more than its limit admitted.  Time goes   *)
(* by in windows, and a request of an earlier window may be decided late.  *)
(* InMemoryRateLimiter and RedisRateLimiter implement this.                *)
(***************************************************************************)
EXTENDS Naturals

CONSTANTS Keys,    \* the API keys with a limit
          Limit,   \* Limit[k]: requests per window of key k
          Windows  \* bound: the windows of the model

VARIABLES window,   \* the current window
          admitted  \* admitted[k][w]: requests of window w that passed

windowVars == <<window, admitted>>

WindowInit ==
  /\ window = 0
  /\ admitted = [k \in Keys |-> [w \in Windows |-> 0]]

Admit(k, w) ==
  /\ w <= window
  /\ admitted[k][w] < Limit[k]
  /\ admitted' = [admitted EXCEPT ![k][w] = @ + 1]
  /\ UNCHANGED window

NextWindow ==
  /\ window + 1 \in Windows
  /\ window' = window + 1
  /\ UNCHANGED admitted

WindowNext ==
  \/ \E k \in Keys, w \in Windows : Admit(k, w)
  \/ NextWindow

WindowSpec == WindowInit /\ [][WindowNext]_windowVars
=============================================================================
