------------------------------ MODULE Windows ------------------------------
(***************************************************************************)
(* The minutes in which the limiters count, and a record of what they      *)
(* decided.  time.time() has fractions of a second: the clock counts       *)
(* ticks.  A counter is a place where requests are counted from zero: the  *)
(* dictionary of one worker process, or Redis since it last lost its data. *)
(***************************************************************************)
EXTENDS Naturals

CONSTANTS Keys,              \* the API keys with a limit
          Limit,             \* Limit[k]: requests_per_minute of key k
          SecondsPerWindow,  \* 60
          TicksPerSecond,    \* fractions of a second that are told apart
          MaxTime,           \* bound: the last tick of the model
          MaxCounters,       \* bound: counters there ever are, besides the first
          MaxRefused         \* bound: requests past the limit in one window

ASSUME WindowsAssumption ==
  /\ Limit \in [Keys -> Nat \ {0}]
  /\ SecondsPerWindow \in Nat \ {0}
  /\ TicksPerSecond \in Nat \ {0}
  /\ MaxTime \in Nat
  /\ MaxCounters \in Nat
  /\ MaxRefused \in Nat

VARIABLES now,      \* time.time(), in ticks
          counted,  \* history variables: what each counter has counted of a
          admitted  \* key in a window, and what of it was let through

historyVars == <<counted, admitted>>

TicksPerWindow == SecondsPerWindow * TicksPerSecond

(* int(time.time() // 60)                                                  *)
Window(t) == t \div TicksPerWindow

(* int(time.time() % 60)                                                   *)
SecondOfWindow(t) == (t % TicksPerWindow) \div TicksPerSecond

(* Mutant: the second under way is taken for one that is over.             *)
ResetInEarly(t) == SecondsPerWindow - 1 - SecondOfWindow(t)

(* reset_in_seconds                                                        *)
ResetIn(t) == SecondsPerWindow - SecondOfWindow(t)

AllWindows == 0..Window(MaxTime)

Counters == 0..MaxCounters

HasBound(c, k, w) == counted[<<c, k>>][w] < Limit[k] + MaxRefused

CountOne(c, k, w) == counted' = [counted EXCEPT ![<<c, k>>][w] = @ + 1]

AdmitOne(c, k, w) == admitted' = [admitted EXCEPT ![<<c, k>>][w] = @ + 1]

WindowsInit ==
  /\ now = 0
  /\ counted = [ck \in Counters \X Keys |-> [w \in AllWindows |-> 0]]
  /\ admitted = [ck \in Counters \X Keys |-> [w \in AllWindows |-> 0]]

WindowsTypeOK ==
  /\ now \in 0..MaxTime
  /\ counted \in [Counters \X Keys -> [AllWindows -> Nat]]
  /\ admitted \in [Counters \X Keys -> [AllWindows -> Nat]]
=============================================================================
