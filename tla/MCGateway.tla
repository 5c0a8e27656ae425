------------------------------ MODULE MCGateway ------------------------------
(* Instances of Gateway for TLC. *)
EXTENDS Gateway, TLC

CONSTANTS k1, k2

(* One key with a quota. *)
OneQuota == [k \in Keys |-> 2]

(* A key with a quota and a key without one. *)
MixedQuota == [k \in Keys |-> IF k = k1 THEN 1 ELSE 0]

TaskSymmetry == Permutations(Tasks)

(* Bound: all requests of a behaviour are of the same key, whichever. *)
Untouched(k) ==
  /\ active'[k]
  /\ \A d \in Days : usage'[k][d] = 0
  /\ \A t \in Tasks : stage'[t] # "idle" => req'[t].key # k

OneKeyUsed == \E k \in Keys : \A j \in Keys \ {k} : Untouched(j)

NextOneKey ==
  \/ \E t \in Tasks :
       \/ \E k \in Keys : Arrive(t, k) /\ OneKeyUsed
       \/ Advance(t)
       \/ RecorderStep(t)
       \/ StatementFails(t)
  \/ \E k \in Keys : Revoke(k) /\ OneKeyUsed
  \/ Restart

SpecOneKey == Init /\ [][NextOneKey]_vars /\ Fairness
=============================================================================
