---------------------------- MODULE UsageReport ----------------------------
(***************************************************************************)
(* GET /admin/usage: the consumption of one key, or of all of them, from a *)
(* first to a last day.  The SELECT reads the rows of table ApiKeyUsage    *)
(* one by one, in the order of their days, while recordings go on adding   *)
(* to them and midnight passes.                                            *)
(***************************************************************************)
EXTENDS Integers, FiniteSets

CONSTANTS Everyone,     \* api_key_id is not given
          ReportKeys,   \* the keys
          LastDay,      \* bound: the last day
          MaxRecorded   \* bound: the recordings of a key on a day

ASSUME UsageReportAssumption ==
  /\ Everyone \notin ReportKeys
  /\ IsFiniteSet(ReportKeys)
  /\ LastDay \in Nat
  /\ MaxRecorded \in Nat

VARIABLES today,     \* the date, in UTC
          usageRows, \* usageRows[<<k, d>>]: a row of table ApiKeyUsage; a row
                     \* that is not there has consumed nothing
          report     \* the query and what it has read

reportVars == <<today, usageRows, report>>

ReportDays == 0..LastDay

Columns == {"prompt", "completion", "total", "requests"}

NoRow == [c \in Columns |-> 0]

(* The MERGE of a recording.  One without tokens, as of a model that has   *)
(* failed, is not accumulated; an embedding has no tokens of completion.   *)
AddUsage(k, prompt, completion) ==
  /\ prompt + completion > 0
  /\ usageRows[<<k, today>>].requests < MaxRecorded
  /\ usageRows' = [usageRows EXCEPT ![<<k, today>>] =
       [prompt |-> @.prompt + prompt, completion |-> @.completion + completion,
        total |-> @.total + prompt + completion, requests |-> @.requests + 1]]
  /\ UNCHANGED <<today, report>>

DayPasses ==
  /\ today < LastDay
  /\ today' = today + 1
  /\ UNCHANGED <<usageRows, report>>

-----------------------------------------------------------------------------
(* Mutant: the last day of the range is left out.                          *)
QueryRangeWithoutEnd(q) ==
  {kd \in ReportKeys \X ReportDays :
     kd[2] >= q.start /\ kd[2] < q.end /\ q.key \in {Everyone, kd[1]}}

(* get_range: Day >= start, Day <= end, and the key if it is given.        *)
QueryRange(q) ==
  {kd \in ReportKeys \X ReportDays :
     kd[2] >= q.start /\ kd[2] <= q.end /\ q.key \in {Everyone, kd[1]}}

Total(rows, column) ==
  LET sum[S \in SUBSET DOMAIN rows] ==
        IF S = {} THEN 0
        ELSE LET x == CHOOSE x \in S : TRUE
             IN  rows[x][column] + sum[S \ {x}]
  IN  sum[DOMAIN rows]

Summary(rows) == [c \in Columns |-> Total(rows, c)]

(* What a query has to find at this moment.                                *)
Consumed(q) ==
  Summary([kd \in {kd \in ReportKeys \X ReportDays :
                     /\ q.start <= kd[2]
                     /\ kd[2] <= q.end
                     /\ q.key \in {kd[1], Everyone}} |-> usageRows[kd]])

AskUsage ==
  /\ report.at \in {"idle", "answered"}
  /\ \E start, end \in ReportDays, key \in ReportKeys \cup {Everyone} :
       LET q == [start |-> start, end |-> end, key |-> key]
       IN  report' = [at |-> "reading", query |-> q, rows |-> <<>>,
                      before |-> Consumed(q), after |-> NoRow]
  /\ UNCHANGED <<today, usageRows>>

(* ORDER BY Day.  A row of which there is nothing yet is not there.        *)
ReadRow ==
  /\ report.at = "reading"
  /\ LET left == QueryRange(report.query) \ DOMAIN report.rows
     IN  \E kd \in left :
           /\ \A other \in left : kd[2] <= other[2]
           /\ report' = [report EXCEPT !.rows =
                [x \in DOMAIN @ \cup {kd} |->
                   IF x = kd THEN usageRows[kd] ELSE @[x]]]
  /\ UNCHANGED <<today, usageRows>>

(* The totals are the sums of the rows that were read.                     *)
AnswerUsage ==
  /\ report.at = "reading"
  /\ QueryRange(report.query) \subseteq DOMAIN report.rows
  /\ report' = [report EXCEPT !.at = "answered",
                              !.after = Consumed(report.query)]
  /\ UNCHANGED <<today, usageRows>>

ReportInit ==
  /\ today = 0
  /\ usageRows = [kd \in ReportKeys \X ReportDays |-> NoRow]
  /\ report = [at |-> "idle"]

ReportNext ==
  \/ \E k \in ReportKeys, prompt, completion \in {0, 1} :
       AddUsage(k, prompt, completion)
  \/ DayPasses \/ AskUsage \/ ReadRow \/ AnswerUsage

ReportSpec == ReportInit /\ [][ReportNext]_reportVars

-----------------------------------------------------------------------------
(* Properties                                                              *)

(* The totals of a report have everything that its keys had consumed, on   *)
(* the days asked for, first and last included, when it was asked for, and *)
(* nothing they had not when it was answered; they add up although the     *)
(* rows were read at different moments.                                    *)
ReportIsCurrent ==
  report.at = "answered" =>
    LET sums == Summary(report.rows)
    IN  /\ \A c \in Columns :
             report.before[c] <= sums[c] /\ sums[c] <= report.after[c]
        /\ sums.total = sums.prompt + sums.completion
=============================================================================
