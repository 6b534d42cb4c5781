---------------------------- MODULE SessionViewer ----------------------------
(***************************************************************************)
(* The viewer of the DaaS page (DaaS.js): the list of sessions, which a    *)
(* timer refreshes from GET sessions/all, the drill-down into one session, *)
(* and the links of its reports, which POST downloadreports brings to the  *)
(* disk of the web server first.  A reply carries what the server held     *)
(* when it answered; replies may be delivered in any order.                *)
(*                                                                         *)
(* Sessions are numbered in the order in which they are submitted.  The    *)
(* stage of a session stands for its statuses; from stage 1 on it has      *)
(* reports.                                                                *)
(***************************************************************************)
EXTENDS Integers, Sequences, FiniteSets

CONSTANTS MaxSession,   \* bound on the sessions submitted
          MaxStage,     \* the stage of a finished session
          Slots,        \* bound on the requests outstanding at a time
          MaxFault      \* bound on the sessions deleted on the server and the requests that fail

ASSUME ViewerAssumption ==
  /\ MaxSession \in Nat \ {0} /\ MaxStage \in Nat \ {0}
  /\ Slots \in Nat \ {0}
  /\ MaxFault \in Nat

Session == 1..MaxSession
Slot == 1..Slots
None == 0               \* null, in the place of a session
Absent == -1            \* the stage of a session that is not there

VARIABLES
  created, stage, deleted,  \* the server: sessions submitted, their stage, those deleted
  onDisk,                   \* the sessions whose reports are on the web server's disk
  call, failures,           \* the outstanding requests, and how many failed so far
  list, shown,              \* #sessions-container from top to bottom, and the stage it shows
  repopulateNeeded,
  drilled,                  \* the screen shows the drill-down, not the list
  currentSessionId,
  container,                \* #session-container: whose nodes, and whose report links
  currentSessionReportsDownloaded,
  overlay                   \* #reports-download-overlay

serverVars == <<created, stage, deleted, onDisk>>
listVars == <<list, shown, repopulateNeeded>>
drillVars == <<drilled, currentSessionId, container>>
reportVars == <<currentSessionReportsDownloaded, overlay>>
callVars == <<call, failures>>
vars == <<serverVars, callVars, listVars, drillVars, reportVars>>

------------------------------------------------------------------------------
OnServer(s) == s <= created /\ s \notin deleted

Snapshot == [Session -> {Absent} \cup 0..MaxStage]
Nothing == [s \in Session |-> Absent]
\* What the server holds of what is asked for.
Asked(request) ==
  [s \in Session |->
     IF /\ OnServer(s)
        /\ \/ request.kind \in {"refresh", "populate"}
           \/ request.kind = "session" /\ request.id = s
     THEN stage[s] ELSE Absent]

\* A request names a session, or none; a reply that failed has ok FALSE.
Call == [kind : {"idle", "refresh", "populate", "session", "download"},
         id : {None} \cup Session, answered : BOOLEAN, ok : BOOLEAN, body : Snapshot]
Idle == [kind |-> "idle", id |-> None, answered |-> FALSE, ok |-> TRUE, body |-> Nothing]

\* A request takes the first free slot; replies come back in any order.
Send(kind, id) ==
  \E c \in Slot :
    /\ call[c] = Idle /\ \A d \in 1..(c - 1) : call[d] # Idle
    /\ call' = [call EXCEPT ![c] = [Idle EXCEPT !.kind = kind, !.id = id]]
    /\ UNCHANGED failures

\* Mutant: an empty drill-down has a link.
EmptyLink == [of |-> None, reports |-> {None}]

Empty == [of |-> None, reports |-> {}]

Listed(s) == \E k \in DOMAIN list : list[k] = s

\* GET sessions/all is taken to list the newest session first, as the session managers
\* do: the sessions of S in that order.
Rank(S, s) == Cardinality({t \in S : s <= t})
Descending(S) == [k \in 1..Cardinality(S) |-> CHOOSE s \in S : Rank(S, s) = k]
IdsOf(body, omitted) == Descending({s \in Session : body[s] # Absent} \ omitted)

------------------------------------------------------------------------------
(* The server.                                                             *)

\* A session is submitted, from this page or from anywhere else.
Submit ==
  /\ created < MaxSession
  /\ created' = created + 1
  /\ UNCHANGED <<stage, deleted, onDisk, callVars, listVars, drillVars, reportVars>>

Progress(s) ==
  /\ OnServer(s) /\ stage[s] < MaxStage
  /\ stage' = [stage EXCEPT ![s] = @ + 1]
  /\ UNCHANGED <<created, deleted, onDisk, callVars, listVars, drillVars, reportVars>>

Delete(s) ==
  /\ OnServer(s) /\ Cardinality(deleted) + failures < MaxFault
  /\ deleted' = deleted \cup {s}
  /\ UNCHANGED <<created, stage, onDisk, callVars, listVars, drillVars, reportVars>>

\* A request is answered with what the server holds now.  The reports of a
\* session that is gone cannot be retrieved.
Answer(c) ==
  /\ call[c].kind # "idle" /\ ~call[c].answered
  /\ call' = [call EXCEPT ![c].answered = TRUE, ![c].body = Asked(call[c]),
                ![c].ok = call[c].kind = "download" => OnServer(call[c].id)]
  /\ onDisk' = IF call[c].kind = "download" /\ OnServer(call[c].id)
               THEN onDisk \cup {call[c].id} ELSE onDisk
  /\ UNCHANGED <<created, stage, deleted, failures, listVars, drillVars, reportVars>>

Fail(c) ==
  /\ call[c].kind # "idle" /\ ~call[c].answered
  /\ Cardinality(deleted) + failures < MaxFault
  /\ failures' = failures + 1
  /\ call' = [call EXCEPT ![c].answered = TRUE, ![c].ok = FALSE]
  /\ UNCHANGED <<serverVars, listVars, drillVars, reportVars>>

------------------------------------------------------------------------------
(* The list.                                                               *)

\* The timer of 15 seconds, or a submission that went through: RefreshViewer()
\* asks for all the sessions.
AskSessions ==
  /\ Send("refresh", None)
  /\ UNCHANGED <<serverVars, listVars, drillVars, reportVars>>

\* The reply of GET sessions/{id}/true renewed: the nodes are found by the name of
\* the diagnoser, the missing links are appended.
RefreshSessionInDrilldown(body) ==
  IF currentSessionId # None /\ body[currentSessionId] # Absent /\ container.of # None
  THEN [container EXCEPT !.reports =
          IF body[currentSessionId] > 0 THEN @ \cup {currentSessionId} ELSE @]
  ELSE container

Ids(entries) == {entries[k] : k \in DOMAIN entries}

\* Mutant: only the newest one is added.
AddNewest(body, kept) ==
  LET missing == IdsOf(body, Ids(kept))
  IN IF missing = <<>> THEN kept ELSE <<missing[1]>> \o kept

\* Sessions that are not in the list are added on top.
AddMissing(body, kept) == IdsOf(body, Ids(kept)) \o kept

\* Mutant: an entry is left as it was generated.
GenerateMissing(body, kept) ==
  [s \in Session |-> IF s \in Ids(kept) THEN shown[s] ELSE body[s]]

\* RefreshSessionInList, or GenerateSession.
RefreshEntries(body, kept) ==
  [s \in Session |-> IF body[s] # Absent THEN body[s]
                     ELSE IF s \in Ids(kept) THEN shown[s] ELSE Absent]

\* RefreshViewer(sessions); after a change of the settings the list is emptied first,
\* whatever the reply.
RefreshViewer(body, ok) ==
  LET kept == IF repopulateNeeded THEN <<>> ELSE list
      reply == IF ok THEN body ELSE Nothing
  IN /\ repopulateNeeded' = FALSE
     /\ list' = AddMissing(reply, kept)
     /\ shown' = RefreshEntries(reply, kept)
     /\ container' = IF ok THEN RefreshSessionInDrilldown(body) ELSE container
     /\ UNCHANGED <<drilled, currentSessionId, reportVars>>

\* PopulateSessionsView(sessions), once, after the page is loaded.
PopulateSessionsView(body, ok) ==
  /\ list' = IF ok THEN IdsOf(body, {}) ELSE list
  /\ shown' = IF ok THEN body ELSE shown
  /\ UNCHANGED <<repopulateNeeded, drillVars, reportVars>>

\* The wizard has changed the storage settings.
ChangeSettings ==
  /\ ~repopulateNeeded
  /\ repopulateNeeded' = TRUE
  /\ UNCHANGED <<serverVars, callVars, list, shown, drillVars, reportVars>>

------------------------------------------------------------------------------
(* The drill-down and its reports.  The overlay takes every click while it *)
(* is on the screen.                                                       *)

Covered == overlay # "hidden"

\* Mutant: the reports of any session count as retrieved.
DrilldownKeepsFlag(s) ==
  /\ Listed(s) /\ ~drilled /\ ~Covered
  /\ drilled' = TRUE
  /\ currentSessionId' = s
  /\ Send("session", s)
  /\ UNCHANGED <<serverVars, listVars, container, reportVars>>

Drilldown(s) ==
  /\ Listed(s) /\ ~drilled /\ ~Covered
  /\ drilled' = TRUE
  /\ currentSessionId' = s
  /\ currentSessionReportsDownloaded' = FALSE
  /\ Send("session", s)
  /\ UNCHANGED <<serverVars, listVars, container, overlay>>

Back ==
  /\ drilled /\ ~Covered
  /\ drilled' = FALSE
  /\ UNCHANGED <<serverVars, callVars, listVars, currentSessionId, container, reportVars>>

\* The reply that fills the drill-down does not ask which session is current.
PopulateSessionView(id, body, ok) ==
  /\ container' = IF ~ok THEN container
                  ELSE IF body[id] = Absent THEN Empty
                  ELSE [of |-> id, reports |-> IF body[id] > 0 THEN {id} ELSE {}]
  /\ UNCHANGED <<listVars, drilled, currentSessionId, reportVars>>

\* A link of a report is clicked.  Reports that were retrieved open at once.
OpenReportLink(r) ==
  /\ drilled /\ r \in container.reports /\ ~Covered
  /\ ~currentSessionReportsDownloaded
  /\ overlay' = "waiting"
  /\ Send("download", currentSessionId)
  /\ UNCHANGED <<serverVars, listVars, drillVars, currentSessionReportsDownloaded>>

ReportsRetrieved(ok) ==
  /\ overlay' = IF ok THEN "retrieved" ELSE "failed"
  /\ currentSessionReportsDownloaded' = (ok \/ currentSessionReportsDownloaded)
  /\ UNCHANGED <<listVars, drillVars>>

CloseOverlay ==
  /\ overlay \in {"retrieved", "failed"}
  /\ overlay' = "hidden"
  /\ UNCHANGED <<serverVars, callVars, listVars, drillVars, currentSessionReportsDownloaded>>

------------------------------------------------------------------------------
\* A reply reaches the page.
Deliver(c) ==
  /\ call[c].answered
  /\ call' = [call EXCEPT ![c] = Idle]
  /\ LET r == call[c]
     IN \/ r.kind = "refresh" /\ RefreshViewer(r.body, r.ok)
        \/ r.kind = "populate" /\ PopulateSessionsView(r.body, r.ok)
        \/ r.kind = "session" /\ PopulateSessionView(r.id, r.body, r.ok)
        \/ r.kind = "download" /\ ReportsRetrieved(r.ok)
  /\ UNCHANGED <<serverVars, failures>>

Init ==
  /\ created = 0 /\ deleted = {} /\ onDisk = {}
  /\ stage = [s \in Session |-> 0]
  /\ call = [c \in Slot |-> IF c = 1 THEN [Idle EXCEPT !.kind = "populate"] ELSE Idle]
  /\ failures = 0
  /\ list = <<>> /\ shown = Nothing /\ repopulateNeeded = FALSE
  /\ drilled = FALSE /\ currentSessionId = None /\ container = Empty
  /\ currentSessionReportsDownloaded = FALSE /\ overlay = "hidden"

Next ==
  \/ Submit
  \/ \E s \in Session : Progress(s) \/ Delete(s) \/ Drilldown(s) \/ OpenReportLink(s)
  \/ \E c \in Slot : Answer(c) \/ Fail(c) \/ Deliver(c)
  \/ AskSessions
  \/ ChangeSettings
  \/ Back
  \/ CloseOverlay

Spec == Init /\ [][Next]_vars

\* The timer keeps asking (strongly fair: a free slot is a bound of the model, not
\* of the browser), the server answers, the browser delivers.
FairSpec ==
  /\ Spec
  /\ SF_vars(AskSessions)
  /\ \A c \in Slot : WF_vars(Answer(c)) /\ WF_vars(Deliver(c))

------------------------------------------------------------------------------
TypeOK ==
  /\ created \in 0..MaxSession /\ stage \in [Session -> 0..MaxStage]
  /\ deleted \subseteq Session /\ onDisk \subseteq Session
  /\ call \in [Slot -> Call] /\ failures \in 0..MaxFault
  /\ list \in Seq(Session) /\ shown \in Snapshot /\ repopulateNeeded \in BOOLEAN
  /\ drilled \in BOOLEAN /\ currentSessionId \in {None} \cup Session
  /\ container \in [of : {None} \cup Session, reports : SUBSET Session]
  /\ currentSessionReportsDownloaded \in BOOLEAN
  /\ overlay \in {"hidden", "waiting", "retrieved", "failed"}

\* A session is listed at most once, whatever the order in which the replies to
\* overlapping requests arrive.
ListedOnce == \A j, k \in DOMAIN list : list[j] = list[k] => j = k

\* The list has no holes: with a session it lists every older one that the server
\* still has.  A reply may be late, but it is a whole picture.
NoHoles ==
  \A s \in Session : Listed(s) =>
    \A t \in Session : t < s /\ OnServer(t) => Listed(t)

\* Of the sessions the server still has, a newer one stands above an older one.
NewestFirst ==
  \A j, k \in DOMAIN list :
    OnServer(list[j]) /\ OnServer(list[k]) /\ list[j] > list[k] => j < k

\* The list of the page is a list of the sessions of the server, whatever the order in
\* which the replies of RefreshViewer and PopulateSessionsView arrive: once each, with
\* no holes, the newest first.
ListCoherent == ListedOnce /\ NoHoles /\ NewestFirst

\* What was retrieved for the session that is drilled into is on the disk: a flag
\* set by the reply for one session never vouches for the next.
DownloadedIsCurrent ==
  currentSessionReportsDownloaded => currentSessionId \in onDisk

\* Once the server is quiet (its steps are bounded here) and the settings are left
\* alone, the list shows every session of the server at the stage it has reached:
\* the late replies of the past, and the replies that failed, do not last.
Settles ==
  <>[]~repopulateNeeded =>
    <>[](\A s \in Session : OnServer(s) => Listed(s) /\ shown[s] = stage[s])

=============================================================================
