------------------------------ MODULE MCTables ------------------------------
(* The tables and the payloads, for TLC.  They share nothing but the clock, *)
(* so a behaviour works on one of them: their interleavings show nothing    *)
(* that each does not show alone.                                           *)
EXTENDS ApiKeys, RequestLogs, UsageReport, Admission, Catalog, Payload, TLC

VARIABLE part

tableVars ==
  <<part, clock, keysVars, logsVars, reportVars, admissionVars, catalogVars,
    payloadVars>>

Init ==
  /\ part \in {"keys", "logs", "usage", "admission", "catalog", "payload"}
  /\ KeysInit /\ LogsInit /\ ReportInit /\ AdmissionInit
  /\ CatalogInit /\ PayloadInit

KeysPart ==
  /\ part = "keys" /\ KeysNext
  /\ UNCHANGED <<part, logsVars, reportVars, admissionVars, catalogVars,
                  payloadVars>>

LogsPart ==
  /\ part = "logs" /\ LogsNext
  /\ UNCHANGED <<part, keysVars, reportVars, admissionVars, catalogVars,
                  payloadVars>>

UsagePart ==
  /\ part = "usage" /\ ReportNext
  /\ UNCHANGED <<part, clock, keysVars, logsVars, admissionVars,
                  catalogVars, payloadVars>>

AdmissionPart ==
  /\ part = "admission" /\ AdmissionNext
  /\ UNCHANGED <<part, keysVars, logsVars, reportVars, catalogVars,
                  payloadVars>>

CatalogPart ==
  /\ part = "catalog" /\ CatalogNext
  /\ UNCHANGED <<part, clock, keysVars, logsVars, reportVars,
                  admissionVars, payloadVars>>

PayloadPart ==
  /\ part = "payload" /\ PayloadNext
  /\ UNCHANGED <<part, clock, keysVars, logsVars, reportVars,
                  admissionVars, catalogVars>>

Next ==
  \/ KeysPart \/ LogsPart \/ UsagePart
  \/ AdmissionPart \/ CatalogPart \/ PayloadPart

Spec == Init /\ [][Next]_tableVars

-----------------------------------------------------------------------------
(* An hour of the zones is two ticks, a second.                             *)
ExpiryDates == {[wall |-> 4, offset |-> 2], [wall |-> 3, offset |-> Null]}

UntilDates == {Null, [wall |-> 4, offset |-> 2]}

ErrorTexts == UNION {[1..n -> {1, 2}] : n \in 0..3}

(* One option at a time, at both ends of what it admits and past them; or   *)
(* all of them, or none.                                                    *)
SomeSettings ==
  LET Given(field, v) ==
        [f \in DOMAIN Bounds |-> IF f = field THEN v ELSE None]
  IN  {Given(field, v) : field \in DOMAIN Bounds, v \in {-3, -2, -1, 0, 1, 2, 3}}
        \cup {Given("max_tokens", v) : v \in {131072, 131073}}
        \cup {[f \in DOMAIN Bounds |-> v] : v \in {None, 1}}

RequestSymmetry == Permutations(Requests) \cup Permutations(Seeds)
=============================================================================
