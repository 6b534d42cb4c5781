-------------------------- MODULE MonitoringAnalysis --------------------------
(***************************************************************************)
(* The analysis of the dumps of monitoring sessions: AnalyzeSession and    *)
(* AddReportToLog of DaaS/Monitoring/MonitoringSessionController.cs, and   *)
(* the queue of analysis requests that the analysis thread of every        *)
(* DaaSRunner works off (DaaS/Monitoring/MonitoringAnalysisController.cs). *)
(*                                                                         *)
(* A request is a file <session>_<dump>.request.  A machine takes it by    *)
(* renaming it to .inprogress and keeps its expiration time in the future  *)
(* while the analyzer runs; a file whose time has passed is renamed back,  *)
(* with a higher retry count, by any machine.                              *)
(***************************************************************************)
EXTENDS MonitoringSession

CONSTANT
  AnalyzerStarts   \* the analyzer process always starts, and lives for a heartbeat

ASSUME AnalysisAssumption == AnalyzerStarts \in BOOLEAN

\* A file name of the queue, without its extension.
Key == Session \X Dump

VARIABLES
  request,     \* the .request files
  inProgress,  \* the .inprogress files
  overdue      \* keys queued more than MAX_ANALYSISTIME_ON_SAME_INSTANCE ago

queueVars == <<request, inProgress, overdue>>
vars == <<monitoringVars, queueVars>>

TypeOK ==
  /\ active \in SUBSET Session /\ expired \in SUBSET Session
  /\ stops \in [Monitors -> [0..MaxSession -> SUBSET Session]]
  /\ completed \in [Session -> SessionFile]
  /\ lock \in SUBSET Thread
  /\ mode \in [Session -> SessionMode]
  /\ created \in 0..MaxSession
  /\ executed \in [Session -> SUBSET Dump] /\ moved \in [Session -> SUBSET Dump]
  /\ blobs \in [Session -> SUBSET Dump] /\ reports \in [Session -> SUBSET Dump]
  /\ rule \in [Monitors -> 0..MaxSession]
  /\ count \in [Monitors -> 0..ThresholdCount]
  /\ failedStop \in [Monitors -> BOOLEAN]
  /\ decided \in [Monitors -> 0..MaxSession]
  /\ thread \in [Thread -> Local]
  /\ requests \in 0..MaxRequest /\ deletes \in 0..MaxDelete /\ failures \in 0..MaxFailure /\ crashes \in 0..MaxCrash
  /\ request \in [Key -> AnalysisRequest \cup {NoRequest}]
  /\ inProgress \in [Key -> AnalysisRequest \cup {NoRequest}]
  /\ overdue \in SUBSET Key

InitAll ==
  /\ Init
  /\ request = [k \in Key |-> NoRequest]
  /\ inProgress = [k \in Key |-> NoRequest]
  /\ overdue = {}

\* The file the thread works on.
KeyOf(t) == <<thread[t].sid, thread[t].dump>>

unchangedSession == <<sessionVars, folderVars, ruleVars, faultVars, lock>>

-----------------------------------------------------------------------------
(* AnalyzeSession, called by a request or by a monitoring thread after it *)
(* has stopped a session                                                  *)

\* When every dump is queued, the copy of the session read before is saved.
QueueNext(local) ==
  IF local.todo = {}
  THEN [local EXCEPT !.pc = "acquire", !.then = "idle", !.copy.status = "InProgress", !.dump = NoDump]
  ELSE [local EXCEPT !.pc = "queue", !.dump = NoDump]

RequestAnalysis(t, s) ==
  /\ At(t, "idle") /\ requests < MaxRequest
  /\ requests' = requests + 1
  /\ Become(t, [Idle EXCEPT !.pc = "getSession", !.sid = s])
  /\ UNCHANGED <<active, completed, mode, created, expired, stops, deletes,
                 folderVars, ruleVars, faultVars, lock, queueVars>>

\* GetSession: null throws; otherwise the dumps without a report are queued.
GetSession(t) ==
  LET file == completed[thread[t].sid] IN
  /\ At(t, "getSession")
  /\ Become(t, IF file = NoFile THEN Idle
               ELSE QueueNext([thread[t] EXCEPT !.copy = file, !.todo = file.files \ file.reported]))
  /\ UNCHANGED <<unchangedSession, queueVars>>

\* Nothing is queued for a dump the queue has any file of.
CheckExistingRequest(t) ==
  /\ At(t, "queue")
  /\ \E d \in thread[t].todo :
       LET k == <<thread[t].sid, d>> IN
       Become(t, IF request[k] = NoRequest /\ inProgress[k] = NoRequest
                 THEN [thread[t] EXCEPT !.pc = "enqueue", !.dump = d]
                 ELSE QueueNext([thread[t] EXCEPT !.todo = @ \ {d}]))
  /\ UNCHANGED <<unchangedSession, queueVars>>

QueueAnalysisRequest(t) ==
  /\ At(t, "enqueue")
  /\ request' = [request EXCEPT ![KeyOf(t)] = [retry |-> 0, expires |-> "never"]]
  /\ overdue' = overdue \ {KeyOf(t)}
  /\ Become(t, QueueNext([thread[t] EXCEPT !.todo = @ \ {thread[t].dump}]))
  /\ UNCHANGED <<unchangedSession, inProgress>>

-----------------------------------------------------------------------------
(* The analysis thread: DequeueAnalysisRequest *)

\* Files are listed by name: session, machine (in any order here), time.
Before(k, l) ==
  \/ k[1] < l[1]
  \/ k[1] = l[1] /\ Owner(k[2]) = Owner(l[2]) /\ k[2][2] < l[2][2]

\* A machine looks at the first request only, and takes it when it is for a dump
\* of its own or was queued long ago.
DequeueAnalysisRequest(i) ==
  /\ At(Analyzer(i), "idle")
  /\ \E k \in Key :
       /\ request[k] # NoRequest /\ \A l \in Key : request[l] # NoRequest => ~Before(l, k)
       /\ Owner(k[2]) = i \/ k \in overdue
       /\ Become(Analyzer(i), [Idle EXCEPT !.pc = "clearTarget", !.sid = k[1], !.dump = k[2]])
  /\ UNCHANGED <<unchangedSession, queueVars>>

\* MoveFile deletes the target, then renames; a missing source throws.
ClearTarget(i) ==
  /\ At(Analyzer(i), "clearTarget")
  /\ inProgress' = [inProgress EXCEPT ![KeyOf(Analyzer(i))] = NoRequest]
  /\ Goto(Analyzer(i), "rename")
  /\ UNCHANGED <<unchangedSession, request, overdue>>

RenameRequest(i) ==
  LET k == KeyOf(Analyzer(i)) IN
  /\ At(Analyzer(i), "rename")
  /\ IF request[k] # NoRequest
     THEN /\ inProgress' = [inProgress EXCEPT ![k] = request[k]]
          /\ request' = [request EXCEPT ![k] = NoRequest]
          /\ Goto(Analyzer(i), "load")
     ELSE /\ Become(Analyzer(i), Idle)
          /\ UNCHANGED <<request, inProgress>>
  /\ UNCHANGED <<unchangedSession, overdue>>

LoadRequest(i) ==
  LET file == inProgress[KeyOf(Analyzer(i))] IN
  /\ At(Analyzer(i), "load")
  /\ Become(Analyzer(i), IF file = NoRequest THEN Idle
                         ELSE [thread[Analyzer(i)] EXCEPT !.pc = "analyzing", !.request = file])
  /\ UNCHANGED <<unchangedSession, queueVars>>

\* AnalyzeDumpFile, while the process runs: writes the file, be it there or not.
Heartbeat(i) ==
  LET alive == [thread[Analyzer(i)] EXCEPT !.request.expires = "later"] IN
  /\ At(Analyzer(i), "analyzing")
  /\ Become(Analyzer(i), alive)
  /\ inProgress' = [inProgress EXCEPT ![KeyOf(Analyzer(i))] = alive.request]
  /\ UNCHANGED <<unchangedSession, request, overdue>>

\* The analyzer process writes the report into the log folder of the session.
WriteReport(i) ==
  LET t == Analyzer(i) IN
  /\ At(t, "analyzing")
  /\ AnalyzerStarts => thread[t].request.expires # "never"
  /\ reports' = [reports EXCEPT ![thread[t].sid] = @ \cup {thread[t].dump}]
  /\ UNCHANGED <<sessionVars, executed, moved, blobs, ruleVars, faultVars, lock, thread, queueVars>>

\* Mutant: a process that ends without an error has written a report.
EndsWithReport(i, how) ==
  LET t == Analyzer(i) IN
  /\ At(t, "analyzing")
  /\ AnalyzerStarts \/ how = "cancelled" => thread[t].request.expires # "never"
  /\ Become(t, [thread[t] EXCEPT !.pc = "result", !.outcome = how])
  /\ UNCHANGED <<unchangedSession, queueVars>>

\* The process ends, with an error or not, or is killed when
\* MaxAnalyzerTimeInMinutes have passed; it may have written its report by then.
AnalysisEnds(i, how) ==
  LET t == Analyzer(i) IN
  /\ At(t, "analyzing")
  /\ AnalyzerStarts \/ how = "cancelled" => thread[t].request.expires # "never"
  /\ Become(t, IF how = "report" THEN [thread[t] EXCEPT !.pc = "list"]
               ELSE [thread[t] EXCEPT !.pc = "result", !.outcome = how])
  /\ UNCHANGED <<unchangedSession, queueVars>>

\* The folder is listed for a report of the dump, one of an earlier attempt included.
ListReports(i) ==
  LET t == Analyzer(i)
      found == thread[t].dump \in reports[thread[t].sid] IN
  /\ At(t, "list")
  /\ Become(t, [thread[t] EXCEPT !.pc = "result", !.outcome = IF found THEN "report" ELSE "error"])
  /\ UNCHANGED <<unchangedSession, queueVars>>

\* Whether this was the last attempt.
IsFinal(local) == local.outcome \in {"report", "cancelled"} \/ local.request.retry >= MaxRetry

\* Mutant: the last attempt completes the session whatever the other dumps are.
CompletesAlways(file, local) ==
  LET listed == file.files \cap {local.dump}
      marked == IF local.outcome = "report" THEN [file EXCEPT !.reported = @ \cup listed]
                ELSE file IN
  IF IsFinal(local) THEN [marked EXCEPT !.status = "Completed"] ELSE marked

\* AddReportToLog: the result goes to the dump, if the session lists it; after
\* the last attempt the session is complete when no dump is without a result.
WithResult(file, local) ==
  LET listed == file.files \cap {local.dump}
      marked == IF local.outcome = "report" THEN [file EXCEPT !.reported = @ \cup listed]
                ELSE [file EXCEPT !.errors = @ \cup listed] IN
  IF IsFinal(local) /\ marked.files \subseteq marked.reported \cup marked.errors
  THEN [marked EXCEPT !.status = "Completed"]
  ELSE marked

\* The session is read before the lock is taken.  If it is gone the exception is
\* swallowed.  After a failure that is not final the request stays, to expire.
AddReportToLog(i) ==
  LET t == Analyzer(i)
      file == completed[thread[t].sid]
      next == IF IsFinal(thread[t]) THEN "cleanup" ELSE "idle" IN
  /\ At(t, "result")
  /\ Become(t, IF file # NoFile
               THEN [thread[t] EXCEPT !.pc = "acquire", !.then = next, !.copy = WithResult(file, thread[t])]
               ELSE IF next = "idle" THEN Idle
               ELSE [thread[t] EXCEPT !.pc = next])
  /\ UNCHANGED <<unchangedSession, queueVars>>

DeleteInProgress(i) ==
  /\ At(Analyzer(i), "cleanup")
  /\ inProgress' = [inProgress EXCEPT ![KeyOf(Analyzer(i))] = NoRequest]
  /\ Become(Analyzer(i), Idle)
  /\ UNCHANGED <<unchangedSession, request, overdue>>

-----------------------------------------------------------------------------
(* ReSubmitExpiredRequests *)

FindExpired(i) ==
  /\ At(Analyzer(i), "idle")
  /\ \E k \in Key :
       /\ inProgress[k].expires = "passed"
       /\ Become(Analyzer(i), [Idle EXCEPT !.pc = "expired", !.sid = k[1], !.dump = k[2],
                                          !.request = inProgress[k]])
  /\ UNCHANGED <<unchangedSession, queueVars>>

\* Mutant: a retry is not counted.
RetryNotCounted(i) ==
  LET t == Analyzer(i) IN
  /\ At(t, "expired")
  /\ inProgress' = [inProgress EXCEPT ![KeyOf(t)] = NoRequest]
  /\ Become(t, IF thread[t].request.retry < MaxRetry
               THEN [thread[t] EXCEPT !.pc = "requeue", !.request.expires = "never"]
               ELSE Idle)
  /\ UNCHANGED <<unchangedSession, request, overdue>>

\* Once the retries are used up the request is dropped.
DeleteExpired(i) ==
  LET t == Analyzer(i) IN
  /\ At(t, "expired")
  /\ inProgress' = [inProgress EXCEPT ![KeyOf(t)] = NoRequest]
  /\ Become(t, IF thread[t].request.retry < MaxRetry
               THEN [thread[t] EXCEPT !.pc = "requeue", !.request.retry = @ + 1,
                                      !.request.expires = "never"]
               ELSE Idle)
  /\ UNCHANGED <<unchangedSession, request, overdue>>

ReSubmit(i) ==
  /\ At(Analyzer(i), "requeue")
  /\ request' = [request EXCEPT ![KeyOf(Analyzer(i))] = thread[Analyzer(i)].request]
  /\ Become(Analyzer(i), Idle)
  /\ UNCHANGED <<unchangedSession, inProgress, overdue>>

(* Time *)

\* Two minutes without a heartbeat: the analyzer is gone or waits for the lock of
\* the session; that it runs on a machine that has stalled counts as a failure.
RequestExpires(k) ==
  LET running == \E i \in Analyzers : At(Analyzer(i), "analyzing") /\ KeyOf(Analyzer(i)) = k IN
  /\ inProgress[k].expires = "later"
  /\ running => failures < MaxFailure
  /\ failures' = IF running THEN failures + 1 ELSE failures
  /\ inProgress' = [inProgress EXCEPT ![k].expires = "passed"]
  /\ UNCHANGED <<sessionVars, folderVars, ruleVars, crashes, lock, thread, request, overdue>>

RequestOverdue(k) ==
  /\ request[k] # NoRequest /\ k \notin overdue
  /\ overdue' = overdue \cup {k}
  /\ UNCHANGED <<unchangedSession, thread, request, inProgress>>

-----------------------------------------------------------------------------
(* Specification *)

AnalyzeStep(t) == GetSession(t) \/ CheckExistingRequest(t) \/ QueueAnalysisRequest(t)

AnalyzerStep(i) ==
  \/ DequeueAnalysisRequest(i) \/ ClearTarget(i) \/ RenameRequest(i) \/ LoadRequest(i)
  \/ Heartbeat(i) \/ WriteReport(i) \/ (\E how \in Outcome \ {"none"} : AnalysisEnds(i, how))
  \/ ListReports(i) \/ AddReportToLog(i) \/ DeleteInProgress(i)
  \/ FindExpired(i) \/ DeleteExpired(i) \/ ReSubmit(i)

Next ==
  \/ MonitoringNext /\ UNCHANGED queueVars
  \/ \E t \in Thread : AnalyzeStep(t)
  \/ \E u \in User, s \in Session : RequestAnalysis(Request(u), s)
  \/ \E i \in Analyzers : AnalyzerStep(i)
  \/ \E k \in Key : RequestExpires(k) \/ RequestOverdue(k)

Spec == InitAll /\ [][Next]_vars

\* The steps of one thread.
MonitorThread(i) ==
  \/ RuleStep(i) /\ UNCHANGED queueVars
  \/ StopStep(Monitor(i)) /\ UNCHANGED queueVars
  \/ AnalyzeStep(Monitor(i))
AnalyzerThread(i) ==
  \/ StopStep(Analyzer(i)) /\ UNCHANGED queueVars
  \/ AnalyzerStep(i)
RequestThread(t) ==
  \/ StopStep(t) /\ UNCHANGED queueVars
  \/ DeleteDirectoryContents(t) /\ UNCHANGED queueVars
  \/ CreateSession(t) /\ UNCHANGED queueVars
  \/ DeleteStep(t) /\ UNCHANGED queueVars
  \/ AnalyzeStep(t)

\* A thread that can go on does, and time passes.
MonitoringFairness ==
  /\ \A i \in Monitors : WF_vars(MonitorThread(i))
  /\ \A u \in User : WF_vars(RequestThread(Request(u)))
  /\ \A s \in Session : WF_vars(TimePasses(s) /\ UNCHANGED queueVars)

\* An analysis comes to an end.
AnalysisFairness ==
  /\ \A i \in Analyzers :
       /\ WF_vars(AnalyzerThread(i))
       /\ WF_vars(\E how \in Outcome \ {"none"} : AnalysisEnds(i, how))
  /\ \A k \in Key : WF_vars(RequestExpires(k)) /\ WF_vars(RequestOverdue(k))

MonitoringSpec == Spec /\ MonitoringFairness
FairSpec == Spec /\ MonitoringFairness /\ AnalysisFairness

-----------------------------------------------------------------------------
(* Properties *)

\* The machines count the actions of all of them, each before it takes its own:
\* together they exceed MaxActions by at most one action per other machine.
ActionsBounded ==
  \A s \in Session : Cardinality(executed[s]) <= MaxActions + Cardinality(Monitors) - 1

\* A runner stops sessions only because the one of its rule had reached its limit or
\* its time, and once for that: it may be late and stop the next session in its place,
\* but never a second one, though stops fail and are tried again.
StopsOnce ==
  \A i \in Monitors :
    /\ stops[i][0] = {}
    /\ \A r \in Session : \A s, u \in stops[i][r] : s = u

\* Active until stopped, completed from then on, whichever machines stop the
\* session at a time and wherever they fail or die: it is never in neither place.
Stage == [s \in Session |-> IF s \in active THEN "active"
                           ELSE IF completed[s] # NoFile THEN "closed" ELSE "none"]
Lifecycle == INSTANCE SessionLifecycle WITH stage <- Stage
ImplementsLifecycle == Lifecycle!Spec

\* Every session is stopped in the end, though runners die and stops fail.
EventuallyStopped == \A s \in Session : (s \in active) ~> (s \notin active)

\* A session whose analysis is completed has a report or an error for every dump,
\* though machines write whole copies they read before others wrote.
CompletedMeansDecided ==
  \A s \in Session : completed[s].status = "Completed" =>
     completed[s].files \subseteq completed[s].reported \cup completed[s].errors

\* A session names only reports that were written.
ReportsExist == deletes = 0 => \A s \in Session : completed[s].reported \subseteq reports[s]

\* No file stays in the queue for ever: a request is taken, and ends with a
\* result or is retried until the retries are used up.
QueueDrains ==
  \A k \in Key : []<>(/\ request[k] = NoRequest /\ inProgress[k] = NoRequest
                     /\ \A i \in Analyzers : KeyOf(Analyzer(i)) # k)

=============================================================================
