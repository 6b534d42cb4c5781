---------------------------- MODULE SessionSummary ----------------------------
(***************************************************************************)
(* One entry of the session list of the DaaS page (DaaS.js): the loops of  *)
(* GenerateSession and RefreshSessionInList over the diagnosers of a       *)
(* session, one step per diagnoser, in any order.  The entry shows an icon *)
(* per collector and analyzer and one summary line, whose text is the      *)
(* aggregate of the statuses; "StartAnalysis" in it is a button.  A        *)
(* session is generated when it is not in the list and refreshed in place  *)
(* when it is; the two paths repeat the same rules in separate code.       *)
(***************************************************************************)
EXTENDS Naturals

CONSTANTS Diagnoser,    \* the diagnosers of the session
          CollectorStatuses,          \* what the server may report of a collector
          AnalyzerStatuses            \* and of an analyzer

\* statusenum of the page; a number it does not list is shown as unknown.
Status == {"NotRequested", "WaitingForInputs", "InProgress", "Error",
           "Cancelled", "Complete", "Unknown"}

VARIABLES
  pc,             \* "idle", or the loop that runs: "generate" or "refresh"
  reply,          \* the statuses of the session in the reply being applied
  done,           \* the diagnosers the loop has been through
  collectStatus, analyzeStatus,     \* the aggregates so far
  listed,         \* the entry is in the list
  icon,           \* the icons of the entry, per diagnoser
  summary         \* the text, colour and cursor of its summary line

summaryVars == <<pc, reply, done, collectStatus, analyzeStatus, listed, icon, summary>>

------------------------------------------------------------------------------
(* What a status looks like.                                               *)

\* Mutant: what is complete goes first.
CompleteFirst(status) ==
  CASE status = "Complete"         -> 0
    [] status = "Cancelled"        -> 1
    [] status = "Error"            -> 2
    [] status = "WaitingForInputs" -> 3
    [] status = "InProgress"       -> 4
    [] status = "NotRequested"     -> 5
    [] OTHER                       -> 6

GetStatusPrecedence(status) ==
  CASE status = "Cancelled"        -> 0
    [] status = "Error"            -> 1
    [] status = "WaitingForInputs" -> 2
    [] status = "InProgress"       -> 3
    [] status = "Complete"         -> 4
    [] status = "NotRequested"     -> 5
    [] OTHER                       -> 6

ComputeAggregateStatus(current, new) ==
  IF GetStatusPrecedence(current) < GetStatusPrecedence(new) THEN current ELSE new

GetStatusClass(status, type) ==
  CASE status = "NotRequested"     -> "notrequested"
    [] status = "WaitingForInputs" -> "waiting"
    [] status = "InProgress"       -> "running"
    [] status = "Complete"         -> IF type = "collector" THEN "log" ELSE "report"
    [] status = "Error"            -> "error"
    [] status = "Cancelled"        -> "aborted"
    [] OTHER                       -> "unknown"

GetStatusColor(status) ==
  CASE status = "Error"            -> "salmon"
    [] status = "WaitingForInputs" -> "darkgray"
    [] status = "InProgress"       -> "lightblue"
    [] status = "Complete"         -> "lightgreen"
    [] OTHER                       -> "lightgray"

\* The icons of one diagnoser: the analyzer of a failed collector is aborted,
\* unless it failed itself or was never asked for.
DiagnoserIcons(d) ==
  LET c == GetStatusClass(d.collector, "collector")
      a == GetStatusClass(d.analyzer, "analyzer")
  IN [collector |-> c,
      analyzer  |-> IF c = "error" /\ a \notin {"error", "notrequested"}
                    THEN "aborted" ELSE a]

\* The analysis column of the summary line.
Startable(collect, analyze) == analyze = "NotRequested" /\ collect = "Complete"
Aborted(collect, analyze) ==
  collect = "Error" /\ analyze \notin {"Error", "NotRequested"}

GetFriendlyStatus(status) == IF status \in Status THEN status ELSE "Unknown"

AnalysisText(collect, analyze) ==
  CASE Startable(collect, analyze) -> "StartAnalysis"
    [] Aborted(collect, analyze)   -> "Aborted"
    [] OTHER                       -> GetFriendlyStatus(analyze)

AnalysisColor(collect, analyze) ==
  CASE Startable(collect, analyze) -> "black"
    [] Aborted(collect, analyze)   -> "lightgray"
    [] OTHER                       -> GetStatusColor(analyze)

------------------------------------------------------------------------------
Icons == [collector : {"notrequested", "waiting", "running", "log", "error",
                       "aborted", "unknown"},
          analyzer  : {"notrequested", "waiting", "running", "report", "error",
                       "aborted", "unknown"}]
Colors == {"salmon", "darkgray", "lightblue", "lightgreen", "lightgray", "black"}
Columns == [collect : Status, analyze : Status \cup {"StartAnalysis", "Aborted"},
            collectColor : Colors, analyzeColor : Colors, pointer : BOOLEAN]

NoIcons == [collector |-> "unknown", analyzer |-> "unknown"]
NoSummary == [collect |-> "Unknown", analyze |-> "Unknown",
              collectColor |-> "lightgray", analyzeColor |-> "lightgray",
              pointer |-> FALSE]

\* GenerateSessionSummary builds the line from nothing.
GenerateSessionSummary(collect, analyze) ==
  LET text == AnalysisText(collect, analyze)
  IN [collect |-> GetFriendlyStatus(collect), analyze |-> text,
      collectColor |-> GetStatusColor(collect),
      analyzeColor |-> AnalysisColor(collect, analyze),
      pointer |-> text = "StartAnalysis"]

\* Mutant: the cursor becomes a pointer and stays one.
RefreshKeepsPointer(shown, collect, analyze) ==
  [shown EXCEPT !.collect = GetFriendlyStatus(collect),
                !.collectColor = GetStatusColor(collect),
                !.analyze = AnalysisText(collect, analyze),
                !.analyzeColor = AnalysisColor(collect, analyze),
                !.pointer = @ \/ AnalysisText(collect, analyze) = "StartAnalysis"]

\* RefreshSessionSummary writes over the columns of the line that is shown.
RefreshSessionSummary(shown, collect, analyze) ==
  [shown EXCEPT !.collect = GetFriendlyStatus(collect),
                !.collectColor = GetStatusColor(collect),
                !.analyze = AnalysisText(collect, analyze),
                !.analyzeColor = AnalysisColor(collect, analyze),
                !.pointer = AnalysisText(collect, analyze) = "StartAnalysis"]

\* RefreshDiagnoserSummary touches an icon only where its class changes.
RefreshDiagnoserSummary(shown, d) ==
  [column \in DOMAIN shown |->
     IF shown[column] # DiagnoserIcons(d)[column]
     THEN DiagnoserIcons(d)[column] ELSE shown[column]]

------------------------------------------------------------------------------
Replies == [Diagnoser -> [collector : CollectorStatuses \cap Status,
                         analyzer : AnalyzerStatuses \cap Status]]

SummaryInit ==
  /\ pc = "idle"
  /\ reply = [d \in Diagnoser |-> [collector |-> "Unknown", analyzer |-> "Unknown"]]
  /\ done = {}
  /\ collectStatus = "Unknown" /\ analyzeStatus = "Unknown"
  /\ listed = FALSE
  /\ icon = [d \in Diagnoser |-> NoIcons]
  /\ summary = NoSummary

\* A reply names the session: a loop starts, on the path the list decides.
Begin(r) ==
  /\ pc = "idle"
  /\ pc' = IF listed THEN "refresh" ELSE "generate"
  /\ reply' = r
  /\ done' = {}
  /\ collectStatus' = "Unknown" /\ analyzeStatus' = "Unknown"
  /\ UNCHANGED <<listed, icon, summary>>

\* One turn of the loop of either path.
Aggregate(d) ==
  /\ d \notin done
  /\ done' = done \cup {d}
  /\ collectStatus' = ComputeAggregateStatus(collectStatus, reply[d].collector)
  /\ analyzeStatus' = ComputeAggregateStatus(analyzeStatus, reply[d].analyzer)
  /\ UNCHANGED <<pc, reply, listed, summary>>

GenerateDiagnoser(d) ==
  /\ pc = "generate"
  /\ Aggregate(d)
  /\ icon' = [icon EXCEPT ![d] = DiagnoserIcons(reply[d])]

RefreshDiagnoser(d) ==
  /\ pc = "refresh"
  /\ Aggregate(d)
  /\ icon' = [icon EXCEPT ![d] = RefreshDiagnoserSummary(icon[d], reply[d])]

\* The loop is over: the summary line goes in front of the icons, or is updated.
Finish ==
  /\ pc # "idle"
  /\ done = Diagnoser
  /\ pc' = "idle"
  /\ listed' = TRUE
  /\ summary' = IF pc = "generate"
                THEN GenerateSessionSummary(collectStatus, analyzeStatus)
                ELSE RefreshSessionSummary(summary, collectStatus, analyzeStatus)
  /\ UNCHANGED <<reply, done, collectStatus, analyzeStatus, icon>>

\* The list is emptied before it is filled again (repopulateNeeded).
EmptyList ==
  /\ pc = "idle" /\ listed
  /\ listed' = FALSE
  /\ UNCHANGED <<pc, reply, done, collectStatus, analyzeStatus, icon, summary>>

SummaryNext ==
  \/ \E r \in Replies : Begin(r)
  \/ \E d \in Diagnoser : GenerateDiagnoser(d) \/ RefreshDiagnoser(d)
  \/ Finish
  \/ EmptyList

SummarySpec == SummaryInit /\ [][SummaryNext]_summaryVars

------------------------------------------------------------------------------
SummaryTypeOK ==
  /\ pc \in {"idle", "generate", "refresh"}
  /\ reply \in [Diagnoser -> [collector : Status, analyzer : Status]]
  /\ done \subseteq Diagnoser
  /\ collectStatus \in Status /\ analyzeStatus \in Status
  /\ listed \in BOOLEAN
  /\ icon \in [Diagnoser -> Icons]
  /\ summary \in Columns

\* Analysis is offered for a session only when no diagnoser of it still collects
\* or failed to, at least one has collected, and none has an analysis of its own.
StartOnlyWhenCollected ==
  pc = "idle" /\ listed /\ summary.analyze = "StartAnalysis" =>
    /\ \A d \in Diagnoser : reply[d].collector \in {"Complete", "NotRequested", "Unknown"}
    /\ \E d \in Diagnoser : reply[d].collector = "Complete"
    /\ \A d \in Diagnoser : reply[d].analyzer \in {"NotRequested", "Unknown"}

\* An entry refreshed in place looks exactly like one generated from the same
\* reply: the two copies of the rules agree, whatever was shown before.
RefreshedAsGenerated ==
  pc = "idle" /\ listed =>
    /\ summary = GenerateSessionSummary(collectStatus, analyzeStatus)
    /\ \A d \in Diagnoser : icon[d] = DiagnoserIcons(reply[d])

\* The summary line never claims more than the icons under it: where a column
\* says Complete, no icon of it is still running or failed.  An analyzer icon may
\* be aborted by a failed collector under such a line only when the collection
\* column says Cancelled, which takes precedence over Error.
SummaryAgreesWithIcons ==
  pc = "idle" /\ listed =>
    \A d \in Diagnoser :
      /\ summary.collect = "Complete" =>
           icon[d].collector \in {"log", "notrequested", "unknown"}
      /\ summary.analyze = "Complete" =>
           \/ icon[d].analyzer \in {"report", "notrequested", "unknown"}
           \/ icon[d].analyzer = "aborted" /\ summary.collect = "Cancelled"

\* The one status that GetStatusPrecedence makes of many is true to all of them: in
\* what the line offers, and in what it says over the icons.
SummaryTruthful == StartOnlyWhenCollected /\ SummaryAgreesWithIcons

=============================================================================
