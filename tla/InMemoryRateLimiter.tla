------------------------ MODULE InMemoryRateLimiter ------------------------
(***************************************************************************)
(* The limiter of one worker process: a dictionary from the key to the     *)
(* window it was last seen in and the requests counted in it.  check()     *)
(* has no await, so the event loop runs it in one go.                      *)
(***************************************************************************)
EXTENDS Windows

CONSTANT Workers  \* the worker processes

VARIABLES windows,  \* windows[p]: _windows of the limiter of process p
          memory    \* memory[p]: the counter that this dictionary is

memoryVars == <<windows, memory>>

NotSeen == [window |-> 0, count |-> 0]

(* Mutant: the count of an earlier window is not thrown away.              *)
CountKept(p, k) == windows[p][k].count

(* The count of k in this window: the entry of another window is stale.    *)
Count(p, k) ==
  IF windows[p][k].window = Window(now) THEN windows[p][k].count ELSE 0

(* Mutant: `count <= limit` is asked before the request is counted.        *)
AllowedBeforeCounting(p, k) == Count(p, k) <= Limit[k]

Allowed(p, k) == Count(p, k) + 1 <= Limit[k]

CheckInMemory(p, k) ==
  /\ HasBound(memory[p], k, Window(now))
  /\ windows' = [windows EXCEPT ![p][k] =
                   [window |-> Window(now), count |-> Count(p, k) + 1]]
  /\ CountOne(memory[p], k, Window(now))
  /\ IF Allowed(p, k)
     THEN AdmitOne(memory[p], k, Window(now))
     ELSE UNCHANGED admitted
  /\ UNCHANGED <<now, memory>>

(* A new limiter starts with an empty dictionary.                          *)
NewDictionary(p, c) ==
  /\ windows' = [windows EXCEPT ![p] = [k \in Keys |-> NotSeen]]
  /\ memory' = [memory EXCEPT ![p] = c]

MemoryInit ==
  /\ windows = [p \in Workers |-> [k \in Keys |-> NotSeen]]
  /\ memory = [p \in Workers |-> 0]

MemoryTypeOK ==
  /\ windows \in [Workers -> [Keys -> [window : AllWindows, count : Nat]]]
  /\ memory \in [Workers -> Counters]
=============================================================================
