--------------------------- MODULE MonitoringSession ---------------------------
(***************************************************************************)
(* CPU monitoring sessions: the requests that create, stop and delete one  *)
(* (DaaS/Monitoring/MonitoringSessionController.cs), and the monitoring    *)
(* thread of every DaaSRunner (ActualMonitoringTask of DaaSRunner/Program.cs*)
(* with CpuMonitoring.cs and DiagnosticCpuRule.cs), which samples the CPU, *)
(* takes a memory dump when it stays high, and stops the session when the  *)
(* machines together have taken enough dumps or its time is over.          *)
(*                                                                         *)
(* A session is a file in Active until it is stopped; then a file of the   *)
(* same name is written to Completed and the first one is deleted.  All    *)
(* machines share both directories, the log folder of the session and its  *)
(* blobs, and nothing else.  An access to one of these is a step.          *)
(*                                                                         *)
(* The module holds the rule type Diagnostics.  Ids are time stamps, 1 the *)
(* oldest.  MonitoringAnalysis adds the analysis of the dumps.             *)
(***************************************************************************)
EXTENDS Naturals, FiniteSets

CONSTANTS
  Machine,         \* the machines of the app
  Monitors,        \* those whose monitoring thread runs
  Analyzers,       \* those whose analysis thread runs
  User,            \* requests of the REST API that may be served at a time
  Modes,           \* the modes each session may be created with
  MaxActions,      \* MaxActions of a session
  ThresholdCount,  \* samples above CpuThreshold that make ThresholdSeconds
  MaxRetry,        \* MAX_ANALYSIS_RETRY_COUNT
  MaxSession,      \* bound: how many sessions are created
  MaxRequest,      \* bound: how many requests stop or analyse a session
  MaxDelete,       \* bound: how many sessions are deleted
  MaxFailure,      \* bound: how often an access to the file system fails
  MaxCrash         \* bound: how many runners die

Session == 1..MaxSession
SessionMode == {"Kill", "Collect", "CollectAndKill", "CollectKillAndAnalyze"}

\* The name of a dump begins with its machine.  A machine counts its own dumps
\* before it takes another one: it needs MaxActions names, and has one more.
Dump == Machine \X (1..(MaxActions + 1))
Owner(d) == d[1]
NoDump == <<>>

ASSUME MonitoringAssumption ==
  /\ IsFiniteSet(Machine) /\ Monitors \subseteq Machine /\ Analyzers \subseteq Machine
  /\ Modes \in [Session -> SUBSET SessionMode]
  /\ MaxActions \in Nat /\ ThresholdCount \in Nat \ {0} /\ MaxRetry \in Nat
  /\ MaxSession \in Nat /\ MaxRequest \in Nat /\ MaxDelete \in Nat /\ MaxFailure \in Nat /\ MaxCrash \in Nat

\* What a file in Completed says: the status of the analysis, the dumps, those
\* with a report and those with an error.
AnalysisStatus == {"NotStarted", "InProgress", "Completed"}
SessionFile == [status : AnalysisStatus \cup {"Absent"}, files : SUBSET Dump,
                reported : SUBSET Dump, errors : SUBSET Dump]
NoFile == [status |-> "Absent", files |-> {}, reported |-> {}, errors |-> {}]

Monitor(i) == <<i, "monitor">>
Analyzer(i) == <<i, "analyzer">>
Request(u) == <<u, "request">>
Thread == {Monitor(i) : i \in Monitors} \cup {Analyzer(i) : i \in Analyzers}
          \cup {Request(u) : u \in User}

PC == {"idle",
       "sample", "act", "dump", "moved", "wait",                  \* the rule
       "stop", "exists", "collect", "acquire", "write", "writeUnlocked", "delete",  \* stopping and saving
       "clear", "create", "rmBlobs", "rmFile", "rmFolder",         \* creating and deleting
       "getSession", "queue", "enqueue",                           \* MonitoringAnalysis
       "clearTarget", "rename", "load", "analyzing", "list", "result", "cleanup", "expired", "requeue"}

\* What a file of the analysis queue says: how often the request was retried and
\* whether its expiration time is DateTime.MaxValue, in the future or past.
AnalysisRequest == [retry : 0..MaxRetry, expires : {"never", "later", "passed"}]
NoRequest == [retry |-> 0, expires |-> "absent"]
Outcome == {"none", "report", "error", "cancelled"}

\* sid, dump: what the thread works on; copy: the session file it is going to
\* write; then: where it goes on when it has written it; todo: dumps to queue;
\* request, outcome: the request it analyses and how the analyzer ended.
Local == [pc : PC, sid : 0..MaxSession, dump : Dump \cup {NoDump}, copy : SessionFile,
          then : PC, todo : SUBSET Dump, request : AnalysisRequest \cup {NoRequest},
          outcome : Outcome]
Idle == [pc |-> "idle", sid |-> 0, dump |-> NoDump, copy |-> NoFile, then |-> "idle",
         todo |-> {}, request |-> NoRequest, outcome |-> "none"]

VARIABLES
  active,     \* the sessions with a file in Active
  completed,  \* the session files in Completed
  lock,       \* the thread that has Completed.lock open, or had when a save failed
  mode,       \* the mode of each session
  created,    \* how many sessions were created
  expired,    \* the sessions older than MaximumNumberOfHours
  executed,   \* the .customaction files in the log folder of each session
  moved,      \* the .customactioncompleted files
  blobs,      \* the dumps in blob storage
  reports,    \* the report files in the log folder
  rule,       \* m_CpuMonitoringRule: the session each runner monitors, or 0
  count,      \* ThresholdExceededCount of the process each runner watches
  failedStop, \* m_FailedStoppingSession of each runner
  thread,     \* where each thread is
  decided,    \* history: the session whose end each runner last found and acts upon, or 0
  stops,      \* history: the sessions each runner stopped upon each such finding
  requests, deletes, failures, crashes  \* what the bounds count

sessionVars == <<active, completed, mode, created, expired, stops, requests, deletes>>
folderVars == <<executed, moved, blobs, reports>>
ruleVars == <<rule, count, failedStop, decided>>
faultVars == <<failures, crashes>>
monitoringVars == <<sessionVars, folderVars, ruleVars, faultVars, lock, thread>>

Init ==
  /\ active = {}
  /\ completed = [s \in Session |-> NoFile]
  /\ lock = {}
  /\ mode \in [Session -> SessionMode] /\ \A s \in Session : mode[s] \in Modes[s]
  /\ created = 0
  /\ expired = {}
  /\ executed = [s \in Session |-> {}]
  /\ moved = [s \in Session |-> {}]
  /\ blobs = [s \in Session |-> {}]
  /\ reports = [s \in Session |-> {}]
  /\ rule = [i \in Monitors |-> 0]
  /\ count = [i \in Monitors |-> 0]
  /\ failedStop = [i \in Monitors |-> FALSE]
  /\ thread = [t \in Thread |-> Idle]
  /\ decided = [i \in Monitors |-> 0]
  /\ stops = [i \in Monitors |-> [r \in 0..MaxSession |-> {}]]
  /\ requests = 0 /\ deletes = 0 /\ failures = 0 /\ crashes = 0

At(t, pc) == thread[t].pc = pc
Become(t, local) == thread' = [thread EXCEPT ![t] = local]
Goto(t, pc) == Become(t, [thread[t] EXCEPT !.pc = pc])

-----------------------------------------------------------------------------
(* The monitoring thread.  m_MonitoringEnabled is left out: it only decides *)
(* whether the list of processes is made anew, which happens exactly when   *)
(* the rule changes.  One process per machine is watched; a process that is *)
(* killed starts again with count 0.                                        *)

\* Directories are listed by name.
IsFirstActive(s) == s \in active /\ \A r \in active : s <= r

\* CheckMonitoringEnabled: take the active session as the rule; a stop that
\* failed is tried again first.
CheckMonitoringEnabled(i) ==
  /\ At(Monitor(i), "idle")
  /\ \E s \in active :
       /\ IsFirstActive(s)
       /\ rule' = [rule EXCEPT ![i] = s]
       /\ count' = IF rule[i] = s THEN count ELSE [count EXCEPT ![i] = 0]
       /\ Goto(Monitor(i), IF failedStop[i] THEN "stop" ELSE "sample")
  /\ UNCHANGED <<sessionVars, folderVars, faultVars, lock, failedStop, decided>>

\* Mutant: one action too many is allowed.
LimitPassed(s) == Cardinality(executed[s]) > MaxActions

LimitReached(s) == Cardinality(executed[s]) >= MaxActions

\* Of the machines together, or its time is over.
ShouldTerminateRule(s) == LimitReached(s) \/ s \in expired

\* A sample that finds the rule at its end goes on to wait for the dumps.
RuleEnds(i) ==
  /\ At(Monitor(i), "sample") /\ ShouldTerminateRule(rule[i])
  /\ decided' = [decided EXCEPT ![i] = rule[i]]
  /\ Goto(Monitor(i), "wait")
  /\ UNCHANGED <<sessionVars, folderVars, faultVars, lock, rule, count, failedStop>>

CpuLow(i) ==
  /\ At(Monitor(i), "sample") /\ ~ShouldTerminateRule(rule[i])
  /\ count' = [count EXCEPT ![i] = 0]
  /\ Goto(Monitor(i), "idle")
  /\ UNCHANGED <<sessionVars, folderVars, faultVars, lock, rule, failedStop, decided>>

\* count stays at the threshold when the action throws; it is never reset then.
CpuHigh(i) ==
  LET n == IF count[i] < ThresholdCount THEN count[i] + 1 ELSE ThresholdCount IN
  /\ At(Monitor(i), "sample") /\ ~ShouldTerminateRule(rule[i])
  /\ IF n < ThresholdCount
     THEN /\ count' = [count EXCEPT ![i] = n]
          /\ Goto(Monitor(i), "idle")
     ELSE IF mode[rule[i]] = "Kill"       \* the process is killed, nothing is collected
     THEN /\ count' = [count EXCEPT ![i] = 0]
          /\ Goto(Monitor(i), "idle")
     ELSE /\ count' = [count EXCEPT ![i] = n]
          /\ Goto(Monitor(i), "act")
  /\ UNCHANGED <<sessionVars, folderVars, faultVars, lock, rule, failedStop, decided>>

\* CreateCustomActionFile: the action counts from now on.
CreateCustomActionFile(i) ==
  /\ At(Monitor(i), "act")
  /\ \E d \in Dump \ executed[rule[i]] :
       /\ Owner(d) = i
       /\ \A e \in Dump \ executed[rule[i]] : Owner(e) = i => d[2] <= e[2]
       /\ executed' = [executed EXCEPT ![rule[i]] = @ \cup {d}]
       /\ Become(Monitor(i), [thread[Monitor(i)] EXCEPT !.pc = "dump", !.dump = d])
  /\ UNCHANGED <<sessionVars, moved, blobs, reports, ruleVars, faultVars, lock>>

\* ExecuteAction and MoveToPermanentStorage, which swallows a failing upload.
MoveToPermanentStorage(i) ==
  /\ At(Monitor(i), "dump")
  /\ \/ blobs' = [blobs EXCEPT ![rule[i]] = @ \cup {thread[Monitor(i)].dump}] /\ UNCHANGED failures
     \/ failures < MaxFailure /\ failures' = failures + 1 /\ UNCHANGED blobs
  /\ Goto(Monitor(i), "moved")
  /\ UNCHANGED <<sessionVars, executed, moved, reports, ruleVars, crashes, lock>>

\* procdump does not start: the exception leaves MonitorCpu.
ExecuteActionThrows(i) ==
  /\ At(Monitor(i), "dump") /\ failures < MaxFailure
  /\ failures' = failures + 1
  /\ Become(Monitor(i), Idle)
  /\ UNCHANGED <<sessionVars, folderVars, ruleVars, crashes, lock>>

\* The action is done, and the actions of all machines are counted again.
ActionCompleted(i) ==
  /\ At(Monitor(i), "moved")
  /\ moved' = [moved EXCEPT ![rule[i]] = @ \cup {thread[Monitor(i)].dump}]
  /\ count' = [count EXCEPT ![i] = 0]
  /\ decided' = IF LimitReached(rule[i]) THEN [decided EXCEPT ![i] = rule[i]] ELSE decided
  /\ Become(Monitor(i), [Idle EXCEPT !.pc = IF LimitReached(rule[i]) THEN "stop" ELSE "idle"])
  /\ UNCHANGED <<sessionVars, executed, blobs, reports, faultVars, lock, rule, failedStop>>

\* ShouldTerminateRule goes on when every action is done, or after 20 rounds of
\* 15 seconds whether or not it is.
EndWait(i) ==
  /\ At(Monitor(i), "wait")
  /\ Goto(Monitor(i), "stop")
  /\ UNCHANGED <<sessionVars, folderVars, ruleVars, faultVars, lock>>

-----------------------------------------------------------------------------
(* StopMonitoringSessionAsync, called by a monitoring thread or a request *)

\* Back from a stop: a runner drops its rule and, for sessions to be analysed,
\* calls AnalyzeSession with the id it had in its rule.
AfterStop(t) ==
  IF \E i \in Monitors : t = Monitor(i) /\ rule[i] # 0 /\ mode[rule[i]] = "CollectKillAndAnalyze"
  THEN [Idle EXCEPT !.pc = "getSession", !.sid = rule[t[1]]]
  ELSE Idle

\* Mutant: a stop that failed once counts as failed for ever.
DropRuleOnly(t) ==
  IF t[2] = "monitor"
  THEN /\ rule' = [rule EXCEPT ![t[1]] = 0]
       /\ decided' = [decided EXCEPT ![t[1]] = 0]
       /\ UNCHANGED failedStop
  ELSE UNCHANGED <<rule, failedStop, decided>>

DropRule(t) ==
  IF t[2] = "monitor"
  THEN /\ rule' = [rule EXCEPT ![t[1]] = 0]
       /\ failedStop' = [failedStop EXCEPT ![t[1]] = FALSE]
       /\ decided' = [decided EXCEPT ![t[1]] = 0]
  ELSE UNCHANGED <<rule, failedStop, decided>>

\* Whichever session is active, or none, in which case the stop has succeeded.
StopMonitoringSession(t) ==
  /\ At(t, "stop")
  /\ \/ active = {} /\ DropRule(t) /\ Become(t, AfterStop(t))
     \/ \E s \in active :
          /\ IsFirstActive(s)
          /\ Become(t, [thread[t] EXCEPT !.pc = "exists", !.sid = s])
          /\ UNCHANGED <<rule, failedStop, decided>>
  /\ UNCHANGED <<sessionVars, folderVars, faultVars, lock, count>>

\* Mutant: the active file is deleted before the completed one is written.
DeletesFirst(t) ==
  /\ At(t, "exists")
  /\ Goto(t, "delete")
  /\ UNCHANGED <<sessionVars, folderVars, ruleVars, faultVars, lock>>

\* Another instance may have written the completed file already.
CheckCompleted(t) ==
  /\ At(t, "exists")
  /\ Goto(t, IF completed[thread[t].sid] = NoFile THEN "collect" ELSE "delete")
  /\ UNCHANGED <<sessionVars, folderVars, ruleVars, faultVars, lock>>

\* GetCollectedLogsForSessionAsync: the blobs, with the reports there are; when
\* the storage fails, none.
GetCollectedLogs(t) ==
  LET s == thread[t].sid
      Save(files) == Become(t, [thread[t] EXCEPT !.pc = "acquire", !.then = "delete",
                       !.copy = [status |-> "NotStarted", files |-> files,
                                 reported |-> files \cap reports[s], errors |-> {}]]) IN
  /\ At(t, "collect")
  /\ \/ Save(blobs[s]) /\ UNCHANGED failures
     \/ failures < MaxFailure /\ failures' = failures + 1 /\ Save({})
  /\ UNCHANGED <<sessionVars, folderVars, ruleVars, crashes, lock>>

DeleteActiveFile(t) ==
  /\ At(t, "delete")
  /\ active' = active \ {thread[t].sid}
  /\ stops' = IF t[2] = "monitor"
              THEN [stops EXCEPT ![t[1]][decided[t[1]]] = @ \cup {thread[t].sid}]
              ELSE stops
  /\ DropRule(t)
  /\ Become(t, AfterStop(t))
  /\ UNCHANGED <<completed, mode, created, expired, requests, deletes, folderVars, faultVars, lock, count>>

\* A stop that returns false.
NoteFailedStop(t) ==
  failedStop' = IF t[2] = "monitor" THEN [failedStop EXCEPT ![t[1]] = TRUE] ELSE failedStop

\* The file system stays read-only, or an access fails.
StopFails(t) ==
  /\ thread[t].pc \in {"exists", "collect", "delete"} /\ failures < MaxFailure
  /\ failures' = failures + 1
  /\ NoteFailedStop(t)
  /\ Become(t, Idle)
  /\ UNCHANGED <<sessionVars, folderVars, crashes, lock, rule, count, decided>>

(* SaveSession: the lock is one file for all completed sessions, since its *)
(* name is made of the directory.                                          *)

AcquireSessionLock(t) ==
  /\ At(t, "acquire") /\ lock = {}
  /\ lock' = {t}
  /\ Goto(t, "write")
  /\ UNCHANGED <<sessionVars, folderVars, ruleVars, faultVars>>

\* Mutant: a thread waits for the lock as long as it takes.
WaitsForLock(t) ==
  /\ At(t, "acquire") /\ failures < MaxFailure
  /\ failures' = failures + 1
  /\ Goto(t, "writeUnlocked")
  /\ UNCHANGED <<sessionVars, folderVars, ruleVars, crashes, lock>>

\* A thread goes on without the lock when it has waited for 15 minutes, even for a
\* handle of its own, and where the disk is read-only or full, for Lock returns true.
GoOnUnlocked(t) ==
  /\ At(t, "acquire")
  /\ \/ lock # {} /\ UNCHANGED failures
     \/ failures < MaxFailure /\ failures' = failures + 1
  /\ Goto(t, "writeUnlocked")
  /\ UNCHANGED <<sessionVars, folderVars, ruleVars, crashes, lock>>

\* What a thread goes on with when it has saved.
AfterSave(l) ==
  IF l.then = "idle" THEN Idle ELSE [l EXCEPT !.pc = l.then, !.then = "idle", !.copy = NoFile]

SaveSession(t) ==
  /\ thread[t].pc \in {"write", "writeUnlocked"}
  /\ completed' = [completed EXCEPT ![thread[t].sid] = thread[t].copy]
  /\ lock' = IF At(t, "write") THEN lock \ {t} ELSE lock
  /\ Become(t, AfterSave(thread[t]))
  /\ UNCHANGED <<active, mode, created, expired, stops, requests, deletes, folderVars, ruleVars, faultVars>>

\* SaveToDisk throws and Release is skipped: the lock file stays open.  A stop has
\* failed; the caller of AddReportToLog swallows the exception and goes on.
SaveFails(t) ==
  /\ thread[t].pc \in {"write", "writeUnlocked"} /\ failures < MaxFailure
  /\ failures' = failures + 1
  /\ IF thread[t].then = "delete"
     THEN NoteFailedStop(t) /\ Become(t, Idle)
     ELSE Become(t, AfterSave(thread[t])) /\ UNCHANGED failedStop
  /\ UNCHANGED <<sessionVars, folderVars, crashes, lock, rule, count, decided>>

\* The stream nobody refers to any more is finalized, which closes it.
FinalizeLock(t) ==
  /\ t \in lock /\ ~At(t, "write")
  /\ lock' = lock \ {t}
  /\ UNCHANGED <<sessionVars, folderVars, ruleVars, faultVars, thread>>

-----------------------------------------------------------------------------
(* Requests *)

\* CreateSession: refused while there is an active session; otherwise the
\* directory is emptied and the new file written.
CheckForActiveSession(t) ==
  /\ At(t, "idle") /\ active = {} /\ created < MaxSession
  /\ Goto(t, "clear")
  /\ UNCHANGED <<sessionVars, folderVars, ruleVars, faultVars, lock>>

DeleteDirectoryContents(t) ==
  /\ At(t, "clear")
  /\ active' = {}
  /\ Goto(t, "create")
  /\ UNCHANGED <<completed, mode, created, expired, stops, requests, deletes, folderVars, ruleVars, faultVars, lock>>

CreateSession(t) ==
  /\ At(t, "create") /\ created < MaxSession
  /\ created' = created + 1
  /\ active' = active \cup {created + 1}
  /\ Become(t, Idle)
  /\ UNCHANGED <<completed, mode, expired, stops, requests, deletes, folderVars, ruleVars, faultVars, lock>>

RequestStop(t) ==
  /\ At(t, "idle") /\ requests < MaxRequest
  /\ requests' = requests + 1
  /\ Goto(t, "stop")
  /\ UNCHANGED <<active, completed, mode, created, expired, stops, deletes, folderVars, ruleVars, faultVars, lock>>

\* DeleteSessionAsync, for a request or for the cleanup of old sessions, which both
\* take one from the list of completed sessions: the blobs if the session is there
\* (a failing storage is ignored), the completed file, and the log folder.
RequestDelete(t) ==
  /\ At(t, "idle") /\ deletes < MaxDelete
  /\ deletes' = deletes + 1
  /\ \E s \in Session : /\ completed[s] # NoFile
                        /\ Become(t, [Idle EXCEPT !.pc = "rmBlobs", !.sid = s])
  /\ UNCHANGED <<active, completed, mode, created, expired, stops, requests, folderVars, ruleVars, faultVars, lock>>

DeleteFilesFromStorage(t) ==
  LET s == thread[t].sid IN
  /\ At(t, "rmBlobs")
  /\ \/ /\ blobs' = IF completed[s] = NoFile THEN blobs ELSE [blobs EXCEPT ![s] = {}]
        /\ UNCHANGED failures
     \/ failures < MaxFailure /\ failures' = failures + 1 /\ UNCHANGED blobs
  /\ Goto(t, "rmFile")
  /\ UNCHANGED <<sessionVars, executed, moved, reports, ruleVars, crashes, lock>>

DeleteSessionFile(t) ==
  /\ At(t, "rmFile")
  /\ completed' = [completed EXCEPT ![thread[t].sid] = NoFile]
  /\ Goto(t, "rmFolder")
  /\ UNCHANGED <<active, mode, created, expired, stops, requests, deletes, folderVars, ruleVars, faultVars, lock>>

DeleteLogFolder(t) ==
  LET s == thread[t].sid IN
  /\ At(t, "rmFolder")
  /\ executed' = [executed EXCEPT ![s] = {}]
  /\ moved' = [moved EXCEPT ![s] = {}]
  /\ reports' = [reports EXCEPT ![s] = {}]
  /\ Become(t, Idle)
  /\ UNCHANGED <<sessionVars, blobs, ruleVars, faultVars, lock>>

\* MaximumNumberOfHours pass.
TimePasses(s) ==
  /\ s \in active \ expired
  /\ expired' = expired \cup {s}
  /\ UNCHANGED <<active, completed, mode, created, stops, requests, deletes, folderVars, ruleVars, faultVars, lock, thread>>

\* A runner dies and is started again; the system closes its lock file.
CrashRunner(i) ==
  LET own == {Monitor(i), Analyzer(i)} IN
  /\ crashes < MaxCrash
  /\ \E t \in own \cap Thread : ~At(t, "idle")
  /\ crashes' = crashes + 1
  /\ thread' = [t \in Thread |-> IF t \in own THEN Idle ELSE thread[t]]
  /\ lock' = lock \ own
  /\ IF i \in Monitors
     THEN /\ rule' = [rule EXCEPT ![i] = 0]
          /\ count' = [count EXCEPT ![i] = 0]
          /\ failedStop' = [failedStop EXCEPT ![i] = FALSE]
          /\ decided' = [decided EXCEPT ![i] = 0]
     ELSE UNCHANGED ruleVars
  /\ UNCHANGED <<sessionVars, folderVars, failures>>

-----------------------------------------------------------------------------
(* Next-state relation *)

RuleStep(i) ==
  \/ CheckMonitoringEnabled(i) \/ RuleEnds(i) \/ CpuLow(i) \/ CpuHigh(i)
  \/ CreateCustomActionFile(i) \/ MoveToPermanentStorage(i) \/ ExecuteActionThrows(i)
  \/ ActionCompleted(i) \/ EndWait(i)

StopStep(t) ==
  \/ StopMonitoringSession(t) \/ CheckCompleted(t) \/ GetCollectedLogs(t)
  \/ DeleteActiveFile(t) \/ StopFails(t)
  \/ AcquireSessionLock(t) \/ GoOnUnlocked(t) \/ SaveSession(t) \/ SaveFails(t)

CreateStep(t) == CheckForActiveSession(t) \/ DeleteDirectoryContents(t) \/ CreateSession(t)

DeleteStep(t) == DeleteFilesFromStorage(t) \/ DeleteSessionFile(t) \/ DeleteLogFolder(t)

MonitoringNext ==
  \/ \E i \in Monitors : RuleStep(i)
  \/ \E t \in Thread : StopStep(t) \/ FinalizeLock(t)
  \/ \E u \in User : \/ CreateStep(Request(u)) \/ RequestStop(Request(u))
                     \/ RequestDelete(Request(u)) \/ DeleteStep(Request(u))
  \/ \E s \in Session : TimePasses(s)
  \/ \E i \in Machine : CrashRunner(i)

=============================================================================
