------------------------------ MODULE Instants ------------------------------
(***************************************************************************)
(* Instants as the tables keep them.  A column DATETIME2(0) has no time    *)
(* zone and holds whole seconds; the clocks of the program and of SQL      *)
(* Server have fractions.  A date that comes in a request is the time of a *)
(* wall clock with the offset of its zone, or with none.                   *)
(***************************************************************************)
EXTENDS Integers

CONSTANTS Null,         \* None in Python, NULL in a table
          Second,       \* ticks in a second
          LastInstant   \* bound: the last tick of the model

ASSUME InstantsAssumption ==
  /\ Null \notin Int
  /\ Second \in Nat \ {0}
  /\ LastInstant \in Nat

VARIABLE clock  \* UTC, in ticks

(* SQL Server rounds to the seconds of the column, halves upwards.         *)
Stamp(t) == ((2 * t + Second) \div (2 * Second)) * Second

(* Mutant: the offset is dropped, which is what pyodbc does with it.       *)
AsUtcNaive(date) == IF date = Null THEN Null ELSE date.wall

(* _a_utc_naive, _naive_utc: a date without an offset is taken for UTC.    *)
AsUtc(date) ==
  IF date = Null THEN Null
  ELSE IF date.offset = Null THEN date.wall
  ELSE date.wall - date.offset

Dates == [wall : Int, offset : Int \cup {Null}]

ClockTick ==
  /\ clock < LastInstant
  /\ clock' = clock + 1
=============================================================================
