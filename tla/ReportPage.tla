----------------------------- MODULE ReportPage -----------------------------
(***************************************************************************)
(* The report of the CLR profiling analyzer (controller.js): the requests  *)
(* of the trace and those of ASP.NET Core each have a panel for the stacks *)
(* of the request that was clicked, read from one file per request, view   *)
(* and filter.  A file that arrives replaces what its target shows; files  *)
(* may arrive in any order, or not exist.                                  *)
(***************************************************************************)
EXTENDS Naturals, Sequences, SequencesExt

CONSTANTS Requests, CoreRequests,     \* the rows of the two tables
          HasThread, HasActivity,     \* those with a thread view, with an activity view
          Elsewhere,                  \* whose slowest event is of the AspNetCoreModule
          Unfinished,                 \* of a known module, its last thread unknown
          MaxGets                     \* bound on the files asked for at a time, per target

NoRequest == "none"
ASSUME ReportAssumption == MaxGets \in Nat /\ NoRequest \notin Requests \cup CoreRequests

Panel == {"request", "core"}
Target == Panel \cup {"timeline"}     \* two trees of stacks, and the events of a core request
PanelOf(t) == IF t = "timeline" THEN "core" ELSE t

VARIABLES
  active,       \* activeRequest, activeCoreRequest
  framework,    \* cbJustMyCode, cbJustMyCodeCore: with the frames of the framework
  stackType,    \* the radio buttons threadView and activityView
  panel,        \* what is displayed: "nothing", "details" or "stack"
  showing,      \* the file each target shows
  gets,         \* the files asked for, in the order in which they were
  latest        \* what became of the file that was asked for last

reportPageVars == <<active, framework, stackType, panel, showing, gets, latest>>

------------------------------------------------------------------------------
File == [of : Requests \cup CoreRequests, framework : BOOLEAN, async : BOOLEAN]
NoFile == [of |-> NoRequest, framework |-> FALSE, async |-> FALSE]
Exists(file) == file.of \in IF file.async THEN HasActivity ELSE HasThread

Ask(targets, file) ==
  /\ \A t \in targets : Len(gets[t]) < MaxGets
  /\ gets' = [t \in Target |-> IF t \in targets THEN Append(gets[t], file) ELSE gets[t]]
  /\ latest' = [t \in Target |-> IF t \in targets THEN "awaited" ELSE latest[t]]
  /\ UNCHANGED showing

\* individualRequestController: the stacks of a request that has some, unless the
\* time was spent in the AspNetCoreModule; else, and over the stacks of a request
\* that did not finish, the text about the module.
IndividualRequest(r, withFramework, async) ==
  IF r \in (HasThread \cup HasActivity) \ Elsewhere
  THEN /\ panel' = [panel EXCEPT !["request"] = IF r \in Unfinished THEN "details" ELSE "stack"]
       /\ Ask({"request"}, [of |-> r, framework |-> withFramework, async |-> async])
  ELSE /\ panel' = [panel EXCEPT !["request"] = "details"]
       /\ UNCHANGED <<gets, latest, showing>>

\* Mutant: the filter is left as it was for the request before.
UpdateKeepsFilter(r) ==
  LET view == IF r \in HasThread THEN "thread"
              ELSE IF r \in HasActivity THEN "activity" ELSE stackType
  IN /\ active' = [active EXCEPT !["request"] = r]
     /\ stackType' = view
     /\ IndividualRequest(r, FALSE, view # "thread")
     /\ UNCHANGED framework

UpdateRequest(r) ==
  LET view == IF r \in HasThread THEN "thread"
              ELSE IF r \in HasActivity THEN "activity" ELSE stackType
  IN /\ active' = [active EXCEPT !["request"] = r]
     /\ framework' = [framework EXCEPT !["request"] = FALSE]
     /\ stackType' = view
     /\ IndividualRequest(r, FALSE, view # "thread")

\* The radio buttons and the filter of the panel, while it shows the stacks.
ChangeView(view) ==
  /\ panel["request"] = "stack"
  /\ active["request"] \in IF view = "thread" THEN HasThread ELSE HasActivity
  /\ stackType' = view
  /\ IndividualRequest(active["request"], framework["request"], view # "thread")
  /\ UNCHANGED <<active, framework>>

ChangeFilter ==
  /\ panel["request"] = "stack"
  /\ framework' = [framework EXCEPT !["request"] = ~@]
  /\ IndividualRequest(active["request"], ~framework["request"], stackType # "thread")
  /\ UNCHANGED <<active, stackType>>

\* individualCoreRequestController: the stacks and the events.
IndividualCoreRequest(r, withFramework) ==
  IF r \in HasActivity
  THEN /\ panel' = [panel EXCEPT !["core"] = "stack"]
       /\ Ask({"core", "timeline"}, [of |-> r, framework |-> withFramework, async |-> TRUE])
  ELSE /\ panel' = [panel EXCEPT !["core"] = "nothing"]
       /\ UNCHANGED <<gets, latest, showing>>

\* activityView is a radio button of the other panel.
UpdateCoreRequest(r) ==
  /\ active' = [active EXCEPT !["core"] = r]
  /\ framework' = [framework EXCEPT !["core"] = FALSE]
  /\ stackType' = IF r \in HasActivity THEN "activity" ELSE stackType
  /\ IndividualCoreRequest(r, FALSE)

ChangeCoreFilter ==
  /\ panel["core"] = "stack"
  /\ framework' = [framework EXCEPT !["core"] = ~@]
  /\ IndividualCoreRequest(active["core"], ~framework["core"])
  /\ UNCHANGED <<active, stackType>>

\* A file arrives, or does not exist, which nobody handles.
Receive(t, k) ==
  /\ k \in DOMAIN gets[t]
  /\ gets' = [gets EXCEPT ![t] = RemoveAt(@, k)]
  /\ showing' = [showing EXCEPT ![t] = IF Exists(gets[t][k]) THEN gets[t][k] ELSE @]
  /\ latest' = [latest EXCEPT ![t] =
       IF @ = "awaited" /\ k = Len(gets[t])
       THEN IF Exists(gets[t][k]) THEN "shown" ELSE "missing"
       ELSE IF @ = "shown" /\ Exists(gets[t][k]) THEN "replaced" ELSE @]
  /\ UNCHANGED <<active, framework, stackType, panel>>

ReportInit ==
  /\ active = [p \in Panel |-> NoRequest] /\ framework = [p \in Panel |-> FALSE]
  /\ stackType = "none"
  /\ panel = [p \in Panel |-> "nothing"]
  /\ showing = [t \in Target |-> NoFile] /\ gets = [t \in Target |-> <<>>]
  /\ latest = [t \in Target |-> "none"]

ReportNext ==
  \/ \E r \in Requests : UpdateRequest(r)
  \/ \E view \in {"thread", "activity"} : ChangeView(view)
  \/ ChangeFilter
  \/ \E r \in CoreRequests : UpdateCoreRequest(r)
  \/ ChangeCoreFilter
  \/ \E t \in Target, k \in 1..MaxGets : Receive(t, k)

ReportSpec == ReportInit /\ [][ReportNext]_reportPageVars

------------------------------------------------------------------------------
ReportTypeOK ==
  /\ active \in [Panel -> Requests \cup CoreRequests \cup {NoRequest}]
  /\ active["request"] \in Requests \cup {NoRequest} /\ active["core"] \in CoreRequests \cup {NoRequest}
  /\ framework \in [Panel -> BOOLEAN] /\ stackType \in {"thread", "activity", "none"}
  /\ panel \in [Panel -> {"nothing", "details", "stack"}]
  /\ showing \in [Target -> File \cup {NoFile}]
  /\ gets \in [Target -> Seq(File)] /\ \A t \in Target : Len(gets[t]) <= MaxGets
  /\ latest \in [Target -> {"none", "awaited", "shown", "missing", "replaced"}]

\* In whatever order files arrive, the file of what is selected in a panel is shown
\* from its arrival on, until a file that was asked for before it arrives later: the
\* request, the filter and the view are those of the panel, except that a click on a
\* core request checks the activity view of the other panel.
ShowsWhatIsActive ==
  \A t \in Target :
    LET p == PanelOf(t) IN
    panel[p] = "stack" /\ latest[t] = "shown" =>
      /\ showing[t].of = active[p] /\ showing[t].framework = framework[p]
      /\ t = "request" => \/ showing[t].async <=> stackType # "thread"
                          \/ active["core"] # NoRequest

==============================================================================
