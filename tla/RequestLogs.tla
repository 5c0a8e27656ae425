----------------------------- MODULE RequestLogs -----------------------------
(***************************************************************************)
(* Table RequestLogs: recordings insert rows, each in a transaction of its *)
(* own, while an administrator reads the log page by page with             *)
(* /admin/logs.  The IDENTITY value and CreatedAt are taken by the INSERT, *)
(* so rows become visible in the order of their COMMITs, not of their ids. *)
(***************************************************************************)
EXTENDS Instants, Sequences, FiniteSets, SequencesExt

CONSTANTS MaxLogs,   \* bound: the values of the IDENTITY column
          Errors,    \* the messages a failed request may have
          MaxError,  \* the width of column Error, in UTF-16 units
          PageSize,  \* the limit that the reader asks for
          Untils     \* the values of `until` that the reader may ask for

ASSUME RequestLogsAssumption ==
  /\ MaxLogs \in Nat
  /\ Errors \subseteq Seq({1, 2})
  /\ MaxError \in Nat
  /\ PageSize \in Nat \ {0}
  /\ Untils \subseteq Dates \cup {Null}

VARIABLES logs,       \* logs[id]: "none", or the insert of the row is
                      \* "pending", "committed", "failed" or "rejected"
          createdAt,  \* createdAt[id]: CreatedAt of the row
          lastLogId,  \* the last value of the IDENTITY column
          reader,     \* the administrator who pages through the log
          errorText   \* history variable: the last message, and what of it
                      \* went into the INSERT

logsVars == <<logs, createdAt, lastLogId, reader, errorText>>

LogIds == 1..MaxLogs

(* A text is the sequence of its characters, each of one or two units, in  *)
(* which the column counts.                                                *)
Units(text) == FoldLeft(LAMBDA n, c : n + c, 0, text)

(* Mutant: the text is cut by characters, text[:1000].                     *)
ClampByCharacters(text, units) ==
  IF Len(text) <= units THEN text ELSE SubSeq(text, 1, units)

(* encode("utf-16-le"): each byte with its place in its character, which   *)
(* has two or, in two halves, four of them.                                *)
Encode(text) ==
  FoldLeft(LAMBDA bytes, c :
             bytes \o [i \in 1..2 * c |-> [place |-> i, of |-> 2 * c]],
           <<>>, text)

(* decode("utf-16-le", "ignore"): a character is there when its last byte  *)
(* is; the bytes of one that is not complete are passed over.              *)
DecodeIgnore(bytes) ==
  FoldLeft(LAMBDA text, b : IF b.place = b.of THEN Append(text, b.of \div 2)
                            ELSE text,
           <<>>, bytes)

(* _clamp_nvarchar: a slice of the bytes, whatever characters it parts.    *)
Clamp(text, units) ==
  IF Len(Encode(text)) <= 2 * units THEN text
  ELSE DecodeIgnore(SubSeq(Encode(text), 1, 2 * units))

-----------------------------------------------------------------------------
(* add() of the repository.  SQL Server does not truncate: it rejects an   *)
(* INSERT whose value does not fit, and the recording is given up.         *)
InsertLog ==
  /\ lastLogId < MaxLogs
  /\ \E text \in Errors :
       /\ errorText' = [whole |-> text, kept |-> Clamp(text, MaxError)]
       /\ logs' = [logs EXCEPT ![lastLogId + 1] =
                     IF Units(errorText'.kept) <= MaxError
                     THEN "pending" ELSE "rejected"]
  /\ lastLogId' = lastLogId + 1
  /\ createdAt' = [createdAt EXCEPT ![lastLogId + 1] = Stamp(clock)]
  /\ UNCHANGED <<clock, reader>>

CommitInsert(id) ==
  /\ logs[id] = "pending"
  /\ logs' = [logs EXCEPT ![id] = "committed"]
  /\ UNCHANGED <<clock, createdAt, lastLogId, reader, errorText>>

InsertFails(id) ==
  /\ logs[id] = "pending"
  /\ logs' = [logs EXCEPT ![id] = "failed"]
  /\ UNCHANGED <<clock, createdAt, lastLogId, reader, errorText>>

-----------------------------------------------------------------------------
(* The rows that a search finds: CreatedAt <= until.                       *)
Found(until) ==
  {id \in LogIds : /\ logs[id] = "committed"
                   /\ until = Null \/ createdAt[id] <= until}

(* Mutant: ORDER BY CreatedAt DESC and nothing else.                       *)
BeforeByTime(a, b) == createdAt[a] > createdAt[b]

(* ORDER BY CreatedAt DESC, RequestLogId DESC                              *)
Before(a, b) ==
  createdAt[a] > createdAt[b] \/ (createdAt[a] = createdAt[b] /\ a > b)

(* The orders in which ORDER BY may return the rows.                       *)
Sorted(rows) ==
  {s \in [1..Cardinality(rows) -> rows] :
     /\ \A i, j \in DOMAIN s : i # j => s[i] # s[j]
     /\ \A i, j \in DOMAIN s : i < j => ~ Before(s[j], s[i])}

(* offset, limit                                                           *)
Page(rows, offset) ==
  {SubSeq(s, offset + 1, IF offset + PageSize < Len(s) THEN offset + PageSize
                         ELSE Len(s)) : s \in Sorted(rows)}

(* The reader asks for the first page; the dates come with a zone.         *)
StartReading ==
  /\ reader.at = "idle"
  /\ \E date \in Untils :
       LET until == AsUtc(date)
       IN  reader' = [at |-> "reading", until |-> until, seen |-> <<>>,
                      there |-> Found(until)]
  /\ UNCHANGED <<clock, logs, createdAt, lastLogId, errorText>>

(* A page, and another one until a page is not full.                       *)
ReadPage ==
  /\ reader.at = "reading"
  /\ \E page \in Page(Found(reader.until), Len(reader.seen)) :
       reader' = [reader EXCEPT
                    !.seen = @ \o page,
                    !.at = IF Len(page) < PageSize THEN "done" ELSE "reading"]
  /\ UNCHANGED <<clock, logs, createdAt, lastLogId, errorText>>

LogsInit ==
  /\ logs = [id \in LogIds |-> "none"]
  /\ createdAt = [id \in LogIds |-> 0]
  /\ lastLogId = 0
  /\ reader = [at |-> "idle", until |-> Null, seen |-> <<>>, there |-> {}]
  /\ errorText = [whole |-> <<>>, kept |-> <<>>]

LogsTick == ClockTick /\ UNCHANGED logsVars

LogsNext ==
  \/ LogsTick
  \/ InsertLog
  \/ \E id \in LogIds : CommitInsert(id) \/ InsertFails(id)
  \/ StartReading
  \/ ReadPage

LogsSpec == clock = 0 /\ LogsInit /\ [][LogsNext]_<<clock, logsVars>>

-----------------------------------------------------------------------------
(* Properties                                                              *)

SeenRows == {reader.seen[i] : i \in DOMAIN reader.seen}

(* Paging by offset misses nothing: a reader who goes on until a page is   *)
(* not full has seen every row that was there when he began, although rows *)
(* of the same second are inserted, and committed out of order, meanwhile. *)
PagesMissNothing == reader.at = "done" => reader.there \subseteq SeenRows

(* It repeats rows only when others have come in between: whoever has seen *)
(* a row twice has had at least as many rows added to what he searches.    *)
RepeatsOnlyWhenAdded ==
  Len(reader.seen) - Cardinality(SeenRows)
    <= Cardinality(Found(reader.until) \ reader.there)

(* However the slice falls among the bytes, what is decoded of it fits the *)
(* column, or the row would be lost; it is a beginning of the message, no  *)
(* half character in it; and no longer beginning would have fitted.        *)
ErrorFits ==
  /\ \A id \in LogIds : logs[id] # "rejected"
  /\ errorText.kept \in Prefixes(errorText.whole)
  /\ \A longer \in Prefixes(errorText.whole) :
       Len(longer) > Len(errorText.kept) => Units(longer) > MaxError
=============================================================================
