--------------------------- MODULE MCSessionViewer ---------------------------
(***************************************************************************)
(* A small instance of three parts that share nothing: the viewer of the   *)
(* DaaS page, one entry of its session list, and the report of the CLR     *)
(* profiling analyzer.  A behaviour is one of one of the parts; the        *)
(* variables of the others keep their initial values.                      *)
(***************************************************************************)
EXTENDS SessionViewer, SessionSummary, ReportPage

VARIABLE part

allVars == <<part, vars, summaryVars, reportPageVars>>

MCInit == part \in {"viewer", "summary", "report"} /\ Init /\ SummaryInit /\ ReportInit

Viewing(A) == part = "viewer" /\ A /\ UNCHANGED <<part, summaryVars, reportPageVars>>

MCNext ==
  \/ Viewing(Next)
  \/ part = "summary" /\ SummaryNext /\ UNCHANGED <<part, vars, reportPageVars>>
  \/ part = "report" /\ ReportNext /\ UNCHANGED <<part, vars, summaryVars>>

\* The fairness of SessionViewer, for its part.
MCSpec ==
  /\ MCInit /\ [][MCNext]_allVars
  /\ SF_allVars(Viewing(AskSessions))
  /\ \A c \in Slot : WF_allVars(Viewing(Answer(c))) /\ WF_allVars(Viewing(Deliver(c)))

==============================================================================
