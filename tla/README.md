# A formal model of Diagnostics as a Service (DaaS)

DaaS collects diagnostics (memory dumps, profiler traces, HTTP logs) on the
machines of an Azure web app and analyses them.  A request creates a *session*
that names a tool, a mode (collect, or collect and analyse) and a set of
machines; each machine runs the tool for its own part, and some machine closes
the session when every part is in.  The machines share one file system or one
pair of Azure tables and nothing else: no machine is in charge, and every
machine may be restarted at any time.  Users see sessions on a web page, which
polls the REST API and keeps a state of its own.

This directory holds TLA+ modules of that protocol and of its pages, the TLC configurations that
check them and proofs, for every value of the constants, of the facts that
matter most.  Paths are relative to the repository; `SM:724` means line 724 of
the file with that short name:

| short | file |
|---|---|
| SM  | `DaaS/Sessions/SessionManager.cs` |
| ASM | `DaaS/Sessions/AzureStorageSessionManager.cs` |
| SMB | `DaaS/Sessions/SessionManagerBase.cs` |
| RP  | `DaaSRunner/Program.cs` |
| DL  | `DiagLauncher/Program.cs` |
| LF  | `DaaS/LockFile.cs` |
| FS  | `DaaS/Storage/FileSystem.cs` |
| MSC | `DaaS/Monitoring/MonitoringSessionController.cs` |
| MAC | `DaaS/Monitoring/MonitoringAnalysisController.cs` |
| JS  | `DiagnosticsExtension/Scripts/DaaS.js` |
| CTL | `ClrProfilingAnalyzer/staticcontent/js/controller.js` |

## Inventory

**File based session manager** (SM, LF, FS).  *State*: one JSON file per
session in `ActiveSessions`, moved to `CompletedSessions` when the session is
over; one `<id>.json.lock` per session; `activesession.json.lock` for
submissions.  *Operations*: submit, set the status of an instance, append logs,
add reports, cancel orphaned instances, enforce the time limit, mark complete
and move, list, delete.  *Hard*: every update is lock, load, change, write on a
network share; readers take no lock; the update loads *the active session*, not
the session whose lock it holds; the lock is released through one static field
per process which all tasks of the process share.  *Correct when* no update is
lost, a closed session stays closed, whoever writes a file has its lock, an
instance does not skip or repeat a stage, and every session is closed.

**DaaSRunner polling loop** (RP).  *State*: the dictionaries `_runningSessions`
and `_runningV2Sessions` of tasks with their cancellation sources.
*Operations*: every 30 s take the active session, complete it if all parts are
in, add orphans, enforce the limit, start the tool as a task; the same for V2
with queued analyses.  *Hard*: decisions on a snapshot several calls old, one
loop and several tasks of one process, two processes on two machines.
*Correct when* the dictionaries know exactly the tasks that run.

**Azure table session manager, "V2"** (ASM).  *State*: a row per session, a row
per session and instance, blobs.  *Operations*: the same as above, each a
sequence of table operations; instance rows are updated under their ETag,
session rows under `ETag.All`.  *Hard*: no lock at all.  *Correct when* no
instance update is lost, a session is closed only when all instances are in or
its time is up, deletion hits closed sessions only, and a queued analysis is
done.

**DiagLauncher** (DL).  One process per collection, started by Kudu or by
auto-heal; it must be alone on its machine (ASM:431).

**LockFile** (LF).  A file opened without sharing; a synchronous `Lock`, an
asynchronous queue of waiters, `Release`.

**Monitoring** (MSC, MAC, `CpuMonitoring.cs`, the CPU rules, `ProfileManager.cs`).
A monitoring session is a file too; every machine watches the CPU of its
processes, takes dumps when a rule fires, and stops the session when the rule's
limit or the expiry is reached.  Analysis requests are files moved between
directories by any machine, with a heartbeat and retries.  *Hard*: limits
counted across machines without a lock, requests taken twice, results that come
before the session that waits for them was saved.

**DaaS page** (JS).  One page of callbacks: clicks, timers, replies of the REST
API, ends of fades and slides.  *State*: the list of sessions and the drill-down
into one of them, the two lists of every diagnoser in it, the summary line of
every session, the overlays of a launch, the five blades of the wizard with
their shields.  *Operations*: refresh every 15 s, drill down, open a report
(which is retrieved first), start an analysis, launch an express or a custom
session, walk through the wizard and submit.  *Hard*: replies overtake each
other and describe what is gone by now; blades are moved relative to where they
are while late replies put them back; an overlay without a button locks the page;
two copies of the code that shows a session must agree.  *Correct when* the page
lists what the server has, offers and launches only what it may, submits once,
and never covers itself for good.

**Report page of the CLR profiling analyzer** (CTL).  *State*: the request that is
selected, its view and filter, the stacks on the screen.  *Operations*: select,
change the view or the filter, each of which reads a file.  *Correct when* the
stacks shown are those of what is selected, once the files are there.

**Tools and analyzers** (`DaaS/Diagnostics`, MemoryDumpCollector,
ClrProfilingCollector and -Analyzer, DiagnosticAnalysisLauncher, StackTracer,
jStackParser).  Separate processes, mostly I/O around other programs; the pure
parts are the choice of the processes to dump, the pairing of request events,
and the parsing of a thread dump.

**The rest**: settings, storage wrappers, REST controllers, connection, database
and certificate checks, log parsers, DaaSConsole, the jStack report page, tests
and third-party scripts.  They keep no state of their own or only format what
others write.  `PROJECT.json` lists
each with what is modelled of it.

## Modules

| module | role |
|---|---|
| `SessionLifecycle` | abstract specification: submitted, closed, deleted, in that order |
| `FileSession` | the file based manager with the runner loops and tool tasks |
| `MCFileSession` | the machines and target sets TLC uses for it |
| `FileSessionProofs` | theorems about `FileSession` |
| `TableSession` | the table based manager with Kudu, DiagLauncher and the runner loop |
| `MCTableSession` | the targets TLC uses for it |
| `TableSessionProofs` | theorems about `TableSession`: launchers, life cycle, rows, completion, analysis |
| `MonitoringSession` | CPU monitoring sessions: requests, the rule of every runner, stopping and saving |
| `MonitoringAnalysis` | composes it with the queue of analysis requests and the analyzers; the properties of both |
| `MCMonitoring` | the machines TLC uses for it |
| `MonitoringProofs` | theorems about `MonitoringAnalysis`: its files, how sessions came to where they are, the life cycle |
| `SessionViewer` | the list of sessions, the drill-down and the links of reports, JS:1313-1366, 1492-1527, 1653-1666, 1939-1965, 2153-2303 |
| `SessionViewerProofs` | theorems about `SessionViewer` |
| `SessionSummary` | one entry of that list: its icons and its summary line, JS:1668-1937, 2166-2247 |
| `SessionSummaryProofs` | theorems about `SessionSummary` |
| `DiagnoserLists` | the lists of a diagnoser that slide open and shut, JS:1144-1311, 1970-2163 |
| `DiagnoserListsProofs` | theorems about `DiagnoserLists` |
| `SessionWizard` | the blades of the wizard, its shields and its submission, JS:221-414, 533-939, 942-1138 |
| `DaaSPage` | composes the wizard with the launch controls and their overlays, JS:1532-1585, 2321-2512 |
| `DaaSPageProofs` | theorems about `SessionWizard` and `DaaSPage` |
| `ReportPage` | the stacks in the report of the CLR profiling analyzer, CTL:321-506 |
| `ReportPageProofs` | theorems about `ReportPage` |
| `MCSessionViewer`, `MCDaaSPage` | small instances: several parts side by side, one of which runs in a behaviour |

### FileSession

`activeDir` and `completedDir` are the two directories, `lockFile` says who has
`<id>.json.lock` open, `sessionLock` is the static field `_sessionLockFile` of
each process.  `thread[<<i, 0>>]` is the polling loop of machine `i`,
`thread[<<i, s>>]` the tool task it runs for session `s`.  One action is what a
thread does between two accesses to the shared file system:

| action | code |
|---|---|
| `Poll`, `CheckAndComplete`, `CancelOrphaned`, `EnforceTimeLimit`, `StartTask`/`SkipTask` | one round of `RunActiveSession`, RP:540-640, and what it calls |
| `AcquireAndLoad`, `Truncate`, `WriteAndRelease`, `AcquireTimesOut` | `UpdateActiveSessionAsync`, SM:520-600, 700-760, with the callbacks as the operators `SetStatus`, `AppendLogs`, `AddReports`, `AddOrphans` |
| `CheckFileExists`, `AcquireForMove`, `MoveToCompleted`, `MoveFails` | the end of `MarkSessionAsCompleteAsync`, SM:880-940 |
| `CollectLogs`, `AnalyzeLogs` | the tool task, SM:190-290, 400-450 |
| `SubmitNewSession` ... `WriteNewSession` | `SubmitNewSessionAsync`, SM:80-180 |
| `CrashRunner`, `CrashWorker`, `FinalizeLock` | the end of a process, the finaliser of an abandoned lock |

`PROJECT.json`, "map", gives the exact lines of every definition.

*Abstractions.*  With `AtomicWrites`, overwriting a file is one step; without it
readers can see the truncated file.  `Stalls` lets a waiter give up on a lock
whose holder works longer than 60 attempts; without it a waiter gives up only on
a lock nobody works under.  A failing move is counted by `MaxMoveFail`.  The age
of a session is one of four classes, separated by the thresholds the code
compares it with.  Logs and reports are Booleans.

### TableSession

`session` and `row` are the two tables; `agent` holds the control state and the
locals of Kudu requests, DiagLauncher processes (two may coexist on a machine),
runner loops and analysis tasks; `deletion` is the deletion in progress.  Every
table operation is an action.  An update of an instance row is `ReadRow` then
`PutRow`, which fails if the row was written in between (`etag`).
`finished` is a history: the instances whose row was once closed.

*Abstractions.*  Reading a session (its row and its instance rows) is one step;
reading and rewriting the session row when it is closed is one step too, because
only its status ever changes.  The limits on sessions submitted by automation
are a nondeterministic refusal.  One deletion runs at a time.  Cancelling an
analysis task only shortens it and is not a step.

### MonitoringSession and MonitoringAnalysis

`active` and `completed` are the directories Active and Completed, `lock` says
who has `Completed.lock` open, or left it open when a save failed.  The log folder of a session holds `executed` (the
`.customaction` files by which the machines count dumps), `moved` (the
`.customactioncompleted` files) and `reports`; `blobs` are the dumps in blob
storage.  `rule`, `count` and `failedStop` are the memory of each runner.
`request` and `inProgress` are the files of the two queue directories, `overdue`
the requests nobody took for five minutes (MAC:23).  There are three kinds of threads:
`Monitor(i)` and `Analyzer(i)`, one each in the runner of a machine, and
`Request(u)`, a call of the REST API.

| actions | code |
|---|---|
| `CheckMonitoringEnabled`, `CpuLow`, `CpuHigh`, `RuleEnds`, `CreateCustomActionFile`, `MoveToPermanentStorage`, `ActionCompleted`, `EndWait` | a round of the monitoring thread, RP:227-350, `CpuMonitoring.cs`:71-195, `DiagnosticCpuRule.cs`:34-118 |
| `StopMonitoringSession`, `CheckCompleted`, `GetCollectedLogs`, `DeleteActiveFile`, `StopFails` | stopping a session, MSC:222-348 |
| `AcquireSessionLock`, `GoOnUnlocked` | `AcquireSessionLock`, MSC:414-441, which gives up after 900 s and saves without the lock, as it does where `LockFile.Lock` succeeds on a read-only or full disk, LF:183-203 |
| `SaveSession`, `SaveFails`, `FinalizeLock` | `SaveSession`, MSC:443-457; a `SaveToDisk` that throws (MSC:452) skips the `Release`, and the lock stays open until the stream is finalized |
| `CheckForActiveSession`, `DeleteDirectoryContents`, `CreateSession` | MSC:60-91 |
| `RequestDelete`, `DeleteFilesFromStorage`, `DeleteSessionFile`, `DeleteLogFolder` | deleting a session, MSC:171-210, an access at a time |
| `RequestAnalysis`, `GetSession`, `CheckExistingRequest`, `QueueAnalysisRequest` | `AnalyzeSession`, MSC:151-169, MAC:219-281 |
| `DequeueAnalysisRequest` ... `Heartbeat`, `WriteReport`, `AnalysisEnds`, `ListReports` | taking and running a request, MAC:43-187: the analyzer writes the report while it runs, and when it has ended the runner lists what is there (MAC:183) |
| `AddReportToLog`, `DeleteInProgress` | the result, MSC:350-388 |
| `FindExpired`, `DeleteExpired`, `ReSubmit` | expired requests, MAC:297-340 |

The thread that reads a session file keeps its own `copy` of it until it writes
it back; that is where results get lost, and what makes the properties
worthwhile.  `decided` and `stops` are histories: the session whose end a runner
found and acts upon, and what it stopped upon that finding.

*Abstractions.*  Only the rule type Diagnostics is modelled, with one watched
process per machine.  `m_MonitoringEnabled`, the moving of `.log` files, truncated
files, errors while a request is queued, requests made for `IsActiveSession`, and
`TerminateActiveMonitoringSession`, which nothing calls, are left out.  An
analysis that stalls without dying and a lock that is granted without being had
are counted by `MaxFailure`; giving up after 900 s is always possible while
somebody has the lock.  Sessions are listed by name, which is the time they were
created (NTFS does so; .NET promises no order); the order of the machines in a
directory is arbitrary.

### SessionViewer, SessionSummary, DiagnoserLists, ReportPage

JavaScript runs one callback at a time, so a callback is an action.  A request is
sent by one action, answered by another (with what the server holds then, or a
failure) and delivered by a third, in any order.

| module, actions | code |
|---|---|
| `SessionViewer`: `AskSessions`, `Deliver` with `RefreshViewer`, `PopulateSessionsView`, `PopulateSessionView`, `ReportsRetrieved` | the timer and the replies, JS:2249-2288, 1939-1965, 1492-1527, 1345-1366 |
| `Drilldown`, `Back`, `OpenReportLink`, `CloseOverlay`, `ChangeSettings` | clicks, JS:1653-1666, 2292-2303, 1331-1345, 1313-1329, and the wizard's request to empty the list, JS:1007 |
| `SessionSummary`: `Begin`, `GenerateDiagnoser`, `RefreshDiagnoser`, `Finish`, `EmptyList` | the loops of `GenerateSession`, JS:1906-1937, and `RefreshSessionInList`, JS:2232-2247 |
| `DiagnoserLists`: `ClickIcon`, `Walk`, `SlideEnds`, `RefreshSessionInDrilldown` | the handlers and timers of the lists, JS:1144-1311, and the refresh, JS:1970-2163 |
| `ReportPage`: `UpdateRequest`, `ChangeView`, `ChangeFilter`, `UpdateCoreRequest`, `ChangeCoreFilter`, `Receive` | CTL:468-506 with the controllers CTL:321-466 |

`Submit`, `Progress`, `Delete`, `Answer`, `Produce` are the server, whose
controllers are external here: the page knows only its replies.  In `SessionViewer`
the statuses of a session are one number, its stage; `SessionSummary` is where they
are told apart.  Replies list sessions newest first, which is an assumption: the
controllers that would sort them are not in the repository (below), and the session
managers do order them by descending start time.  `latest` in `ReportPage` is a
history: what became of the file that was asked for last.  A target may wait for any
number of files (`MaxGets`), and both panels at a time.

### SessionWizard and DaaSPage

`zIndex` is the order of the five blades, `Layering(p)` the order that shows page
`p`.  `toggles` counts the fades of the overlay that run or are queued, `exiting`
is the flag of the code, `trigger` and `storage` are the two shields; a shield
that fades together with its overlay is `"closing"`.  `getting` and `posting` count
the outstanding requests.

| actions | code |
|---|---|
| `Tick`, `SettingsReply`, `InstancesReply`, `DiagnosersReply` | `ResetSchedulerWizard` and what fills the blades, JS:260-414, 597-734, 1137 |
| `Forward`, `WizardReverse`, `Select`, `Exit`, `FadeEnds` | turning and leaving, JS:556-595, 899-939 |
| `CloseTriggerShield`, `CloseStorageShield`, `ShieldFaded` | JS:533-546, 863-877; the button stays clickable while its shield fades, and its class is gone by then |
| `WizardSubmit`, `PostSettingsReply`, `PostSessionReply` | JS:942-1117 |
| `DaaSPage`: `Ask`, `ConfirmExpressLaunch`, `ExpressContinue`, `ExpressCancel` | asking for a launch, JS:1568-1585, 2396-2416, 2486-2495 |
| `RunningSessionsReply`, `ConfirmContinue`, `ConfirmCancel` | the confirmation, JS:2419-2484; `Proceed` carries the launch out |
| `ExpressSettingsReply`, `ExpressPostReply`, `AnalysisReply`, `ExpressClose` | JS:1532-1558, 2321-2394 |
| `WizardStep` | a step of `SessionWizard` |

`asked` and `launches` are histories: what was asked for last, and how often it was
carried out.  The user may click whatever is not covered, at any time.
`DaaSPage` implements `SessionWizard` (`ImplementsWizard`): its launches open the
wizard only as the wizard's own `Launch` allows.

### SessionLifecycle

The promise the managers share, whatever the store.  `FileSession` maps "has a
file in ActiveSessions" to active and "has one in CompletedSessions only" to
closed; `TableSession` maps the status of the session row; `MonitoringAnalysis`
maps a file in Active to active and else a file in Completed to closed.

## Runs

| run | question | bounds and why they suffice |
|---|---|---|
| `file_two_runners` | two machines work on one session that names both, one process crash: locking, no lost logs, no repeated or skipped stage, not closed early | the conflicts of this protocol are between two writers, or a writer and the loop of another machine; machines are symmetric |
| `file_restart` | readers can see truncated files, one move fails, a process dies, the time limit is enforced: the task table is right, a file is in one directory at a time, and the session ends | one machine named, the second one only supervises; all four age classes |
| `file_sequence` | two sessions in a row, two requests racing, a crash: one active session, life cycle | the second session meets what the first one left behind |
| `file_lost` | violated: a completed session stays on disk | see findings |
| `table_both` | two machines collect and analyse: one launcher per machine, no analysis skipped and no newer list of logs overwritten while the session is active, complete only when both are done with | three requests, so that both machines are asked and one is asked twice; two launchers per machine; one runner that gives up orphans; one crash |
| `table_auto` | auto-heal sessions with queued analysis, collection only, deletion, the next session: updates of a status lose neither logs nor reports, every queued session analysed, life cycle | two sessions one after the other |
| `table_restart` | launchers and runners die: the session ends | all age classes, one crash |
| `table_two_active` | violated: one active session | see findings |
| `monitoring_rule` | two machines stop two sessions, one after the other: dumps within the limit, a finding that a session is at its end stops one session at most, none is lost between the directories, each is stopped in the end | two sessions, so that a late stop meets the successor; the first one is not analysed, the second one is; one dump allowed, so that both machines can reach the limit at once; one sample makes a dump; one failing access, save or lock, one crash.  Stops on request are in `monitoring_queue` |
| `monitoring_queue` | one dump, two analyzers: no early completion, named reports exist, the queue drains, although whoever waits for the lock may give up and write without it | a retry, a deletion at any point; no crash and no failure (see below) |
| `viewer` | the list, the drill-down and the report links under late, failed and overtaking replies; one entry under every sequence of replies; the stacks of the report | two sessions, two requests outstanding, one session deleted or one request failed: a reply can be older than the one before it and than the deletion.  Two diagnosers and the statuses that can be confused: an aggregate is made pairwise.  Three requests (with both views, with one, and of the AspNetCoreModule) and two of ASP.NET Core (with stacks, and without), two files awaited per target, by both panels at once; no request with an unknown last thread (`Unfinished`) |
| `page` | launching, confirming, walking through the wizard, submitting and leaving; the lists of a diagnoser | one diagnoser (checked or not), one session, two requests of a kind at a time, a confirmation clicked twice while it fades; two files per list and two handlers per icon |

The type invariant of every module is a theorem, for every value of the constants;
the runs repeat only the viewer's.

`OnPage`, `SubmittedOnce`, `ListCoherent`, `SummaryTruthful`, `ListsSettle` and
`WaysOut` are conjunctions of named parts, which the modules state one by one.

Deadlock is not checked: when every session is submitted, closed and deleted,
the bounded instance has nothing more to do.

### Fairness

*FileSession*: a runnable thread runs; the loop polls for ever (RP:180, a
`while (true)` with a sleep); an abandoned lock is finalised; a tool ends once
its task was cancelled, and need not end otherwise (collectors are allowed to
hang).  *TableSession*: an agent that can make its next table call makes it; the
loop runs its cleanup part again and again (every five minutes); nothing is
assumed of a collector, which is a process of its own.  *MonitoringAnalysis*: a
thread that can go on does (both loops are a `while` with a sleep); an analyzer
ends, as its process is killed after a time limit; sessions grow old, a request
nobody takes becomes overdue, and one without a heartbeat expires.  *Pages*: a
request is answered, well or not, and its reply delivered (the browser times it
out otherwise); timers fire and fades and slides end (`setInterval`, jQuery);
nobody has to click.  Two assumptions are strong: the timer of the viewer finds a
free slot if there is one again and again (slots are a bound of the model, not of
the browser), and refreshes of the drill-down arrive also between the transitions
of its lists, however often the user starts one (a refresh every 15 s, a
transition of a second).

`EventuallyClosed` of `FileSession` exempts one case: a process that dies between
truncating a session file and writing it leaves an empty file, which nobody
completes (SM:724).

### Findings

- `file_lost`: two runners may both move a finished session; the second
  `MoveFile` deletes the completed file, then fails on the missing source
  (FS:320), and the session is gone (SM:924).
- `table_two_active`: the check for an active session and the insertion of the
  new row are separate table operations, and the row key is the new id (ASM:328):
  two machines that submit at once both succeed.

### Behaviour the runs keep out

Larger instances show more, all of it in the actions as they stand:

- FileSession, an instance that was orphaned may start afterwards, so a session
  can be closed while it works (SM:387); `ClosedWhenFinished` exempts orphans.
- FileSession, two sessions and two runners: a late task of the first session
  updates the second one under the lock of the first (SM:546), so
  `WriterHoldsLock` is checked with one session.
- FileSession, three sessions and two runners: such a late task has loaded the second
  session when that is completed, under its own lock, and the third one submitted;
  then it writes the second one back, and two sessions are active.  `AtMostOneActive`
  is proved for two sessions, and for more while the locks are respected.
- FileSession, truncated files and two requests: a reader that finds the active
  file empty sees no active session (SM:93), and an analysis that finds it empty
  is skipped (SM:411).  `AtMostOneActive` and `CompleteMeansAnalyzed` are checked
  with `AtomicWrites`, and proved with truncated files as well, where these two
  reads alone do not fall between truncation and writing.
- FileSession: a finished task stays in `_runningSessions` until the next task
  starts (RP:564), and until then its runner leaves completion to others.
- TableSession: a forced timeout reads the active session again and may hit the
  next one (ASM:1068); a second launcher takes a finished instance back to Active
  (ASM:267); a session is closed on rows read before an orphan started after all
  (ASM:221), or because its time is up, while a launcher is still at work, and then
  the analysis of its logs may be skipped, which is why `CompleteMeansAnalyzed` speaks
  of sessions that are active and `CompleteWhenAllIn` of instances that were once done
  with; a request that is
  delayed until its session was deleted submits it again, and the session may be
  closed by an agent that read the rows before; an analysis uses the logs of the
  active session (ASM:133); an instance left Analyzing by a crash is not resumed
  (SMB:50).
- TableSession, an active session with an instance reported complete over logs that
  were not analysed (TLC finds each of these in an instance like those of the runs):
  a session in mode Collect is active beside it and has the smaller key, so that the
  analysis ends with nothing to do (ASM:136); auto-heal and a user submit sessions of
  one machine, the launcher of auto-heal finds its own closed and runs the user's
  instead, queues the analysis, and the task completes the row over the logs a later
  launcher has recorded meanwhile (49 steps, one of them a crash); a session is deleted
  while its launcher is at work, which brings its row back, finds no session to
  analyse, and completes the row after a delayed request submitted the id again.
  `CompleteMeansAnalyzed` is checked, and proved, of one session that is not deleted.
- TableSession, a list of logs is overwritten that nobody recorded since (ASM:868-876
  reads the row again, and replaces its list by the one read before the analysis).  TLC
  finds three ways, all on one machine: two sessions are active, and the analysis of
  one has listed the logs of the other (ASM:133, 28 steps); a launcher that was started
  for another session records logs while the analysis task is at work (47 steps, one
  of them a crash); a deleted session is submitted again (33 steps).  `LogsKept` is
  checked, and proved, without these; `StatusKeepsResults`, which is about the other
  updates, with them.
- Monitoring, analysis: `AnalyzeSession` saves the copy it read before it queued
  the dumps (MSC:167), so a report that comes fast is lost and the session stays
  InProgress; a session without dumps stays InProgress as well; the error of an
  attempt that is retried counts as decided, so a session may be Completed while
  the retry runs; two machines may analyse one dump at the same time.
- Monitoring, queue: a request whose analyzer dies between the rename and its
  first heartbeat never expires (MAC:329); after a stall the old retry count can
  be written back, and the retries go on.  `QueueDrains` is checked without
  crashes and stalls, and with `AnalyzerStarts`: a started analyzer is seen
  running once before it ends.
- Monitoring, the next session: a runner decides on the session of its own rule
  (RP:233, `DiagnosticCpuRule.cs`:96) but stops the session that is active by then
  (MSC:226); a runner that is late stops the successor, which has reached neither
  its limit nor its end, and so does one that tries a failed stop again (RP:244).
  This happens in `monitoring_rule`; `StopsOnce` is what is left of the rule: one
  finding stops one session, however often the stop fails.
- Monitoring, the lock: two threads may write a session file at a time, since one of
  them gave up waiting or was told it had the lock.  This too happens in the runs;
  none of the properties there rests on the lock.
- Monitoring, sessions: a second stop may overwrite the completed file (MSC:244);
  a late save recreates the file of a deleted session, so the life cycle is
  checked without deletion; a machine that stops the session because of its own
  dump does not wait for the dumps of the others; two requests at a time may both
  pass the check for an active session (MSC:65).
- Viewer: the reply that fills the drill-down does not ask which session is
  current (JS:1506); after going back and into another session, the late reply of
  the first one is shown, and its report links retrieve the reports of the second.
- Page: settings that arrive between the two POSTs of a submission change what the
  second one sends (JS:1036); YES can be clicked again while the confirmation fades
  (JS:2420) and launches once more, which is why `MaxLaunch` exists; the POST of an
  express session has no error handler, and its overlay stays (JS:2343, `lost`,
  exempted in `ExpressLaunchEnds`); a wizard whose diagnosers could not be had is
  never reset, can be left once and then no more (JS:931, exempted in `ExitEnds`).
- Report: files of one target that arrive out of order leave the stacks of an
  earlier selection (CTL:337), and a file that does not exist leaves those shown
  before; `ShowsWhatIsActive` speaks of the time from the arrival of the file of the
  selection until one asked for earlier arrives (`latest`).  The radio button `activityView` is shared
  by both panels (CTL:500).

## Proofs

`FileSessionProofs` proves, for every set of machines, runners and requests,
every number of sessions and every bound:

- `TypeCorrect`: `Spec => []TypeOK`.
- `TasksAreTracked`: `Spec => []TaskTracked`.
- as long as nobody writes or moves a session file without having its lock open
  (`LockRespected`): `RespectedLocksOneDirectory`, `Spec /\ []LockRespected =>
  []OneLocation`; `RespectedLocksImplementLifecycle`, `... => ImplementsLifecycle`, the
  refinement; and in behaviours with `[][~ChecksTorn]_vars`, `RespectedLocksOneActive`,
  `... => []AtMostOneActive`.
- with `MaxSession <= 2` and `~Stalls`: `TwoSessionsOneActive`,
  `Spec /\ [][~ChecksTorn]_vars => []AtMostOneActive`.
- with `MaxSession = 1` and `~Stalls`: `OneSessionIsLocked`, `Spec => []WriterHoldsLock`;
  `OneSessionIsInOneDirectory`, `Spec => []OneLocation`; and `OneSessionImplementsLifecycle`,
  `Spec => ImplementsLifecycle`, the refinement.
  And in behaviours with `[][~AnalyzesTorn]_vars`: `OneSessionIsAnalyzed`,
  `[]CompleteMeansAnalyzed`; `OneSessionClosesWhenFinished`, `ClosedWhenFinished`.
- with `AtomicWrites` besides: `OneSessionKeepsLogs`, `Spec => LogsKept`;
  `OneSessionNeverRestarts`, `Spec => FinishedNeverRestarts`.  These two compare the
  content of the file before and after a step, and a truncated file has none.

`WriteTextAsync` truncates a file before it writes it (SM:718-728), so whole writes are
not to be had.  `ChecksTorn` and `AnalyzesTorn` are the two steps that go wrong on a
truncated file: a submission that looks for an active session (SM:93), and a task that
looks for the logs of its machine (SM:411).  The theorems say that nothing else
breaks these properties; every other access may find the file truncated.

The invariant of the first two is `IInv == TypeOK /\ ControlOK /\ TaskTracked`.
`ControlOK` says in which control states a loop and a task can be and that what
they work on is a session; without it, a task could return from an update to a
place that belongs to the loop, and types would be lost.  `OneSessionIsLocked` adds
`LockInv`: a thread inside its critical section has the lock file open *and* is
what the static field of its process points at.  This is where the assumptions
come from: with two sessions a release can close the file of another thread, and
with stalls a waiter of the same process clears the field.

`DirInv` says what the directories owe to the threads.  A session no request has written
yet is `Unseen`: no file but an empty one, and no thread that knows its name, so no file
can be made of it but by its request (`NamesStep` says how a thread comes to know a
session: it reads one, or is started for one that was read).  Whoever is about to write
a session finds it in ActiveSessions, torn or whole.  So a writer cannot bring back a
file that was moved, and every step that changes the files is a rewriting, a move, a
creation or a deletion (`HowFilesMove`).  It is all that is needed of the locks that a
thread has open the file it works on; that is `LockRespected`, an assumption about the
behaviour, because several sessions break it (above).  With one session it holds
(`OneSessionRespectsLock`), which makes `OneSessionIsInOneDirectory` and
`OneSessionImplementsLifecycle` corollaries.  `DiskInv` says the same of a single session
for the theorems below.

`OneLive` adds that one session at a time is in ActiveSessions, or about to be written
there by a request or by a thread that truncated it: whoever holds
activesession.json.lock, and did not look while a file was truncated, saw the only one.
With two sessions the locks are *not* respected, and still one is active at a time.  The
proof has two phases.  In `FirstPhase` nobody knows of the second session, and everything
is done under the lock of the first.  Once the second one is written (`SecondPhase`) the
first is gone, whoever still works on it loads what is active, and so writes nothing but
the second: `FirstPhase \/ SecondPhase` is inductive.

`SessionInv` is about what is in the file.  While it is truncated, that is what its writer
is about to write (`Now`), and the writer has made its update already (`AsWritten`): so
truncating is the step that counts, and writing changes nothing.  The decision of a
thread is made on one reading of the session and carried out several steps later; what
it still relies on by then is `Relies`: the entry of its own machine is not complete, or
is only because another machine orphaned it; the logs it analysed are those listed.
`Completing` says that whoever is on the way to move the file saw the session over, or
its time up, and that both stay so.  `Sound` is what readers of the file may conclude.
An update keeps all of it because the buffer of the writer is still the update of what
is on disk (`Fits`): nobody else writes under the lock, and the lock leaks only when
the session is gone (`LeakedWhenGone`), which is when a waiter gives up.
`UpdateEffect` states once what each of the seven updates does to an entry;
`UpdateOthers` is the heart of the argument, that no update of one thread takes away
what another thread relies on.

The proofs have a lemma per action and a lemma per operator that changes
records; steps that change one thread share `OneThreadStep`.

`TableSessionProofs` proves, with no assumption on the bounds:

- `TypeCorrect`: `Spec => []TypeOK`.
- `OneLauncherCollects`: `Spec => []OneLauncher`.
- `ImplementsLifecycleHolds`: `Spec => ImplementsLifecycle`, the refinement.

The invariant is `TypeOK /\ SessionsKnown /\ OneLauncher /\ DeletesClosed`.
`SessionsKnown` says that an agent past its choice of a session has one to work
on; without it a step could write the row of a session that does not exist.
`DeletesClosed` says that the deletion in progress works on a closed session,
which makes its last step the abstract Delete.  `StageStep` splits the
refinement: a step that changes the status of at most one row as the life cycle
allows is an abstract step or a stutter.

On top of that invariant it proves about the rows:

- `StatusesKeepResults`: `Spec => StatusKeepsResults`, with no assumption on the bounds.
- `CompleteOnlyWhenAllIn`: without deletions (`MaxDelete = 0`), `Spec => CompleteWhenAllIn`.

The invariant is `RowsSound /\ (\A a \in Agent : Fits(a, agent[a])) /\ NoneDeleted`.
`Latest` is what the ETag vouches for: as long as it is valid, the row an agent holds is
the row in the table.  `Aimed` keeps agents on rows of instances their session names,
and `AllIn` says that whoever is about to complete a session, not forced by the time
limit, found all its instances done with at one moment; `finished` only grows, so this
stays true however late the write comes.  A deletion takes a session out of `finished`,
and a delayed request can submit it again; hence the assumption.

And about the first session of an app, until it is deleted (`MaxSession = 1`,
`MaxDelete = 0`), for every set of machines, agents and modes, requests that are
repeated, launchers that hang, and crashes:

- `OneSessionIsAnalyzed`: `Spec => []CompleteMeansAnalyzed`.
- `OneSessionKeepsLogs`: `Spec => LogsKept`.

With a second session, or a deletion, the code keeps neither (see above).

`CompleteMeansAnalyzed` is not inductive, because an agent decides to record
logs, or to complete the row, several reads and writes before it does.  `AInv` says
what is true of the row meanwhile: Active while logs are recorded, analysed when it is
about to be completed.  Both hold if no other agent writes the row, which is
`Exclusive`, and the whole second half of the argument is why that is so.  `OInv` says
who may be at work on a machine: under auto-heal, one DiagLauncher that alone submits
its session (`OneSubmits`) and leaves the row alone once the analysis is queued, and
then the task that found it queued (`Late`); elsewhere, one DiagLauncher, which queues
nothing.  `OneLauncher` settles two launchers, the status of the row a launcher and a
task, and the list of running sessions two tasks.  All this is shown of sessions that
share no machine between auto-heal and users (`Apart`), where the session an analysis
asks for is not one that only collects (`Served`); with one session both hold.  `SteadyOwns` and `OwnsStep` reduce a
step that submits nothing and writes no row to the agent that takes it; what is left
are `AddSessionEntityOwns` and `PutRowOwns`.  For `LogsKept`, `Current` says that an
agent about to record reports has the list the row still holds; nobody else writes the
row while the session is active (`Exclusive` again), and `Carries` that the agent keeps
the list from the analysis to the write.

`MonitoringProofs` proves, for every set of machines and every bound:

- `TypeCorrect`: `Spec => []TypeOK`.
- `CompletedIsDecided`: `Spec => []CompletedMeansDecided`.
- `ActionsAreBounded`: with at least one monitoring machine,
  `Spec => []ActionsBounded`.

The invariant has the typing of each group of variables and `ThreadInv`.
`CompletedMeansDecided` is not inductive, because threads write back files they
read long before: every copy a thread holds must be a `GoodFile`, and `Good` says
so, with what a thread works on in each control state.  For the bound, a machine
that has checked the limit and not yet written its file is `Acting`; what stays
within `MaxActions + Cardinality(Monitors) - 1` is the sum of the files and the
acting machines.  Only `CpuHigh` makes a machine act, and only while the files are
below the limit and the machine itself is not acting; writing the file moves it
from one summand to the other.

On top of that invariant it proves, for every set of monitors and analyzers:

- `NamedReportsExist`: `Spec => []ReportsExist`.
- `StopsAreCounted`: `Spec => []StopsOnce`.
- `ImplementsLifecycleHolds`: with requests served one at a time and no deletion,
  `Spec => ImplementsLifecycle`.

The assumptions are those the code needs.  A deletion may meet a thread that still
holds a copy of the file and writes it again (`ReportsExist` itself ends with the first
deletion); a request that found no active session empties the directory another request
has since put one in.  Nothing is assumed of the lock, which two threads may hold, or
believe they hold.
`History` says what the disk owes to the threads: the reports a held copy names are
written, and a thread that will write or delete works on a session that is known in one
of the directories.  No step but a deletion takes any of it back (`Grows`), so that a
step of one thread has to be looked at for that thread only (`ThreadStep`).
`AllDecide` carries `StopsAreCounted`.  What a runner knows of is no younger than what
is active (`Ordered`), so a session that is past never becomes its rule again; a runner
on the way to stop has found one at its end, and stops that one as long as it is active
(`Found`).
The mapping then moves in three steps:
creating is `Submit`, deleting the active file is `Close` where another machine has not
closed the session before, and saving a file is a stutter, because the session is known.

`SessionViewerProofs` proves, for any number of sessions and of requests outstanding:

- `TypeCorrect`: `Spec => []TypeOK`.
- `ListStaysCoherent`: `Spec => []ListCoherent`.
- `LinksOpenWhatIsThere`: `Spec => []DownloadedIsCurrent`.

A refresh puts what the list lacks on top and keeps the rest, which leaves the list
sorted only if a reply is a whole picture: whatever it leaves out below a session it
has is gone for good (`RepliesWhole`).  Replies may still be delivered in any order,
because a session that went away never comes back, and a new one is newer than all
the list and the replies know of.  `Descending` lists the sessions of a set from the
newest; that it lists each once rests on counting the sessions that are newer, a
bijection (`FiniteSetTheorems`).  `Downloads` says that while reports are retrieved
the overlay keeps the user on the session they are of.

`ReportPageProofs` proves, for every set of requests and whatever views they have:

- `ReportTypeCorrect`: `ReportSpec => []ReportTypeOK`.
- `StacksAreOfTheSelected`: `ReportSpec => []ShowsWhatIsActive`.

The property is about the time after the file of the selection has arrived, the
invariant about every moment: `Follows` says what the *last* file asked for is while it
is awaited, namely the one of the request and the filter selected in the panel, and
that it is shown once it has come.  Nothing is assumed of the order of arrival.

`DiagnoserListsProofs` proves, for any number of files and of click handlers:

- `ListsTypeCorrect`: `ListsSpec => []ListsTypeOK`.
- `OneListIsShown`: `ListsSpec => []OneListShown`.
- `ExpansionsShowAll`: `ListsSpec => ExpandedShowsAll`.

What is displayed at a moment says little, since elements are on the move; the
invariant speaks of where they end up when the slides under way are over (`Goes`).
While a list expands, the elements behind the walk end up displayed, and the slides
down are those of this walk in its order, so that the slide that ends the expansion is
the last one.  The handlers of an icon run one after the other, a recursive function
whose every value leads from a possible node to a possible node: the least number of
handlers for which it did not would be a contradiction (`WFMin` on the naturals, the
way around induction here).

`SessionSummaryProofs` proves, for every set of diagnosers and every set of
statuses a server may report:

- `TypeCorrect`: `SummarySpec => []SummaryTypeOK`: every status has a text, a colour
  and an icon.
- `RefreshAgrees`: `SummarySpec => []RefreshedAsGenerated`.
- `SummaryIsTruthful`: `SummarySpec => []SummaryTruthful`.

The invariant is that of the loop: the aggregate precedes, or equals, the status of
every diagnoser done so far, and is the status of one of them unless it is still
unknown.  `PrecedenceInjective`, that `GetStatusPrecedence` tells the statuses apart,
is what makes the end of the loop independent of its order.

`DaaSPageProofs` proves of the wizard, for every set of diagnosers and every bound:

- `TypeCorrect`: `Spec => []TypeOK`.
- `StaysOnPage`: `Spec => []OnPage`.
- `SubmitsOnce`: `Spec => []SubmittedOnce`.

That a closed wizard is on its first blade is not inductive: a wizard that was never
filled is not reset when it is left.  `Unfilled` says what then holds instead, that it
can be left at most once and only from the shield over its first blade.

It proves of the page, for every set of sessions and every bound:

- `PageTypeCorrect`: `PageSpec => []PageTypeOK`.
- `PageImplementsWizard`: `PageSpec => ImplementsWizard`, the composition: what is
  proved of the wizard holds in the page.
- `TogglesOpen`: `PageSpec => []ToggleOpens`, which is why that step is an opening.
- `LaunchesWhatIsAsked`: `PageSpec => LaunchedIsAsked`.

Its invariant adds `DialogInv` to that of the wizard: while a launch is checked or
confirmed the wizard is closed, and YES carries the class of what was asked for.

*Model-checked only*: liveness (`EventuallyClosed`, `QueuedIsAnalyzed`,
`EventuallyStopped`, `QueueDrains`, `Settles`, `ListsSettle`, `WaysOut`), which is out
of reach of the prover; and, of `FileSession`, `AtMostOneActive` for more than two
sessions, `WriterHoldsLock` for more than one, and `AtMostOneActive` and
`CompleteMeansAnalyzed` where the two reads named above meet a truncated
file, where TLC finds them false (above).

## Assumptions of the models

- A file opened without sharing excludes every other opener, on all machines,
  and is closed when its process ends.
- An ETag update fails when the row changed since it was read.
- Clocks of the machines agree up to the age classes.
- External code (the Azure table and blob SDK, the operating system, the tools)
  does what the calls in the code rely on.

## Not modelled

- *DaaS page*: unfolding an entry of the list (JS:1587-1651, guarded and timed by the
  entry alone), `PushMessages` (JS:2044-2103), the check of the times that are entered
  (JS:467-531), the checks of the storage inputs, info boxes and scrolling.  *Report
  page*: `updateCpuStacks`, and what is shown when a file cannot be read.  *jStack
  report page*: it only filters a table.
- The controllers the page calls: `WebApiConfig.cs` routes `api/sessions` and
  `api/session/{id}` to controllers (`Sessions`, `SingleSession`) that the repository no
  longer holds; the page's modules take their replies as snapshots of what the server
  holds when it answers.
- Third-party scripts (jQuery, jQuery UI, jQuery Validate, Knockout, with their
  IntelliSense files) make up nine tenths of the JavaScript, thirty thousand lines.
  `Views/Home/Index.cshtml` loads other versions of jQuery and jQuery UI from a CDN; the
  bundled files are not part of the running page, and what the page uses of them (fades,
  slides, `$.ajax`) is modelled as external.  A coverage counted over all JavaScript
  therefore stays small, whatever is modelled of the first-party scripts.
- Validators, settings, logging, parsers of logs and certificates, connection and
  database checks, DaaSConsole's formatting, stack tracers: they compute or format and
  keep no state.  The Hyper-V session manager and the session controller facade
  delegate to the managers modelled here.
- Known hazards no property covers: the analysis of one session may list and record the
  logs of the session that is active by then (ASM:146), an interleaving the model
  has; and the drill-down that shows another session (JS:1506), above.

## Plan

1. Done: `FileSession`, `TableSession`, `SessionLifecycle`, `MonitoringSession`,
   `MonitoringAnalysis`, the pages, and the proofs above.
2. The other rule type, `AlwaysOnCpuRule`, and its limits per day;
   `ProfileManager`: starting and stopping profiling sessions, among them one whose
   second command fails (`ProfileManager.cs`:108).
3. `RunnerUpdate` with `RetryHelper`, whose loop goes on after its last attempt when
   it is told not to throw (`RetryHelper.cs`:31); the asynchronous queue of `LockFile`;
   the flag of `SessionController.cs`:62 that is tested outside its lock.
4. Pure algorithms against reference definitions, in one run: choice of processes
   to dump, pairing of request events, jStack threads, argument validators.
5. Proofs: what of `OneSessionKeepsLogs`, `OneSessionIsAnalyzed`,
   `OneSessionNeverRestarts` and `OneSessionClosesWhenFinished` holds for any number of
   sessions while the locks are respected.
