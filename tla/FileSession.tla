----------------------------- MODULE FileSession -----------------------------
(***************************************************************************)
(* The file based session manager (DaaS/Sessions/SessionManager.cs) driven *)
(* by the DaaSRunner polling loop (DaaSRunner/Program.cs, RunActiveSession)*)
(* of every instance of an app.  All instances share one file system:      *)
(*   - <id>.json in the ActiveSessions directory, then, once the session   *)
(*     is over, in the CompletedSessions directory;                        *)
(*   - <id>.json.lock, the lock that serialises the writers of one session;*)
(*   - activesession.json.lock, the lock that serialises submissions.      *)
(* Inside one runner process the polling loop and the tool tasks it starts *)
(* share the dictionary _runningSessions and the STATIC field              *)
(* _sessionLockFile, through which every lock of <id>.json is released.    *)
(*                                                                         *)
(* Session ids are time stamps: 1 is the oldest session.  Session age is   *)
(* abstracted to the thresholds the runner compares it with:               *)
(*   0  younger than OrphanInstanceTimeoutInMinutes                        *)
(*   1  older than that        2  older than MaxSessionTimeInMinutes       *)
(*   3  older than MaxSessionTimeInMinutes + 5                             *)
(***************************************************************************)
EXTENDS Naturals, FiniteSets

CONSTANTS
  Instance,      \* the machines of the app
  Runner,        \* the machines whose DaaSRunner process is running
  Free,          \* stands for: nobody has the lock file open
  NoThread,      \* stands for: _sessionLockFile is null
  Worker,        \* requests that submit sessions (Kudu site, console)
  MaxSession,    \* bound: how many sessions are ever submitted
  TargetSets,    \* the instance lists a request may name
  MaxAge,        \* bound: how old a session may grow (at most 3)
  MaxCrash,      \* bound: how many process crashes
  MaxMoveFail,   \* bound: how many file moves fail (a reader has it open)
  AtomicWrites,  \* TRUE: overwriting a file is one step for its readers
  Modes,         \* the modes a request may ask for
  Stalls         \* TRUE: a live lock holder may exceed the 60 s of a waiter

Session == 1..MaxSession

ASSUME ParametersAssumption ==
  /\ Runner \subseteq Instance
  /\ MaxSession \in Nat
  /\ TargetSets \subseteq SUBSET Instance
  /\ MaxAge \in 0..3
  /\ MaxCrash \in Nat
  /\ MaxMoveFail \in Nat
  /\ AtomicWrites \in BOOLEAN
  /\ Modes \subseteq {"Collect", "CollectAndAnalyze"}
  /\ Stalls \in BOOLEAN

\* A thread of a runner: <<i, 0>> is its polling loop, <<i, s>> the task that
\* runs the tool for session s.
Thread == Runner \X (0..MaxSession)

ASSUME SentinelAssumption == NoThread \notin Thread /\ Free \notin Thread \cup Worker

Absent == "Absent"     \* the instance has no entry in ActiveInstances
InstanceStatus == {"Active", "Started", "Analyzing", "Complete"}
Entry == [st : InstanceStatus \cup {Absent}, logs : BOOLEAN,
          reports : BOOLEAN, orphan : BOOLEAN]
NoEntry == [st |-> Absent, logs |-> FALSE, reports |-> FALSE, orphan |-> FALSE]

\* The content of a session file.
SessionData == [targets : SUBSET Instance,
                mode    : {"Collect", "CollectAndAnalyze"},
                status  : {"Active", "Complete", "TimedOut"},
                inst    : [Instance -> Entry]]
\* What a path may hold besides: nothing, or a file truncated by
\* FileMode.Create whose new content is not written yet.
Missing == [targets |-> {}, mode |-> "Collect", status |-> "Missing",
            inst |-> [i \in Instance |-> NoEntry]]
Empty   == [targets |-> {}, mode |-> "Collect", status |-> "Empty",
            inst |-> [i \in Instance |-> NoEntry]]
File == SessionData \cup {Missing, Empty}

NotRequested == "NotRequested"  \* the session does not name this instance

Update == {"Started", "Append", "Analyzing", "Reports", "Complete",
           "Orphan", "Mark"}

VARIABLES
  activeDir,     \* [Session -> File]: the ActiveSessions directory
  completedDir,  \* [Session -> File]: the CompletedSessions directory
  lockFile,      \* who has <id>.json.lock open
  sessionLock,   \* _sessionLockFile of each runner: [by, sid]
  running,       \* the keys of _runningSessions of each runner
  cancelled,     \* the sessions whose CancellationTokenSource is cancelled
  thread,        \* the control state and the locals of each thread
  submitLock,    \* who has activesession.json.lock open
  worker,        \* the control state of each submitting request
  issued,        \* how many session ids have been issued
  age,           \* the age of each session, see above
  deleted,       \* the sessions DeleteSessionAsync has removed
  crashes, moveFails

files == <<activeDir, completedDir>>
runnerVars == <<running, cancelled>>
submitVars == <<submitLock, worker, issued>>
envVars == <<age, deleted, crashes, moveFails>>
vars == <<files, lockFile, sessionLock, runnerVars, thread, submitVars, envVars>>

-----------------------------------------------------------------------------
(* Reading session files *)

\* LoadSessionsAsync lists the files in name order, the oldest session first.
Listed == {s \in Session : activeDir[s] # Missing}
Oldest(S) == CHOOSE s \in S : \A u \in S : s <= u

\* GetActiveSessionAsync: the first file of the directory whatever its status;
\* 0 stands for null.  A truncated file deserialises to a null session, and a
\* null first element reads as "there is no active session".
GetActiveSession ==
  IF Listed = {} THEN 0
  ELSE LET s == Oldest(Listed) IN IF activeDir[s] = Empty THEN 0 ELSE s

\* The same with IncludeSasUri set, as the Kudu controllers set it: decorating
\* a null session throws, so the truncated file is left out of the list.
GetActiveSessionForKudu ==
  LET readable == {s \in Listed : activeDir[s] # Empty}
  IN IF readable = {} THEN 0 ELSE Oldest(readable)

\* What the two directories hold of session s that can be read.
Content(s) == IF activeDir[s] \notin {Missing, Empty} THEN activeDir[s] ELSE completedDir[s]

Present(d) == {i \in Instance : d.inst[i].st # Absent}

\* Mutant: the listed instances are all finished, requested ones may be missing.
AllListedFinished(d) == Present(d) # {} /\ \A i \in Present(d) : d.inst[i].st = "Complete"

\* The finished instances must be exactly the requested ones (SequenceEqual).
AllInstancesFinished(d) == {i \in Instance : d.inst[i].st = "Complete"} = d.targets

NewSession(T, m) == [targets |-> T, mode |-> m, status |-> "Active",
                     inst |-> [i \in Instance |-> NoEntry]]

-----------------------------------------------------------------------------
(* Threads *)

PC == {"idle", "check", "orphans", "limits", "collectCheck", "acquire", "truncate",
       "write", "collecting", "analyze", "finish", "exists", "acquireMove", "move", "done"}

\* cur: the session the loop polled; seen: the status of this instance in the
\* snapshot the task was given; op, sid: the update in progress and the session
\* whose lock it takes; tgt, buf: the file it loaded and will write; names:
\* the orphans found; flag: forceCompletion, or whether there are logs.
ThreadState == [pc : PC, op : Update, cur : 0..MaxSession, seen : InstanceStatus \cup {Absent, NotRequested},
                sid : 0..MaxSession, tgt : 0..MaxSession, buf : SessionData \cup {Missing},
                names : SUBSET Instance, flag : BOOLEAN]
IdleThread == [pc |-> "idle", op |-> "Mark", cur |-> 0, seen |-> Absent, sid |-> 0,
               tgt |-> 0, buf |-> Missing, names |-> {}, flag |-> FALSE]
WorkerState == [pc : {"idle", "checked", "locked", "writing"}, sid : 0..MaxSession,
                new : SessionData \cup {Missing}]

IsLoop(t) == t[2] = 0

Goto(t, p) == thread' = [thread EXCEPT ![t].pc = p]
EndLoop(t) == thread' = [thread EXCEPT ![t] = IdleThread]

\* A call of UpdateActiveSessionAsync for the lock of session s.
Calling(r, o, s, f) == [r EXCEPT !.pc = "acquire", !.op = o, !.sid = s, !.flag = f]

\* Where MarkSessionAsCompleteAsync returns to.
MarkReturn(t, r) ==
  IF IsLoop(t)
  THEN IF r.flag THEN [r EXCEPT !.pc = "collectCheck", !.sid = 0, !.op = "Mark", !.flag = FALSE]
                 ELSE IdleThread
  ELSE [IdleThread EXCEPT !.pc = "done"]

\* Where UpdateActiveSessionAsync returns to, after each of its updates.
UpdateReturn(t, r) ==
  LET clean == [r EXCEPT !.tgt = 0, !.buf = Missing, !.names = {}]
  IN CASE r.op = "Started"   -> [clean EXCEPT !.pc = "collecting"]
       [] r.op = "Append"    -> Calling(clean, "Analyzing", t[2], FALSE)
       [] r.op = "Analyzing" -> [clean EXCEPT !.pc = "analyze"]
       [] r.op = "Reports"   -> Calling(clean, "Complete", t[2], FALSE)
       [] r.op = "Complete"  -> [clean EXCEPT !.pc = "finish"]
       [] r.op = "Orphan"    -> [clean EXCEPT !.pc = "limits", !.sid = 0]
       [] r.op = "Mark"      -> [clean EXCEPT !.pc = "exists"]

-----------------------------------------------------------------------------
(* The lock of a session file and the static field that refers to it *)

NoLock == [by |-> NoThread, sid |-> 0]

CriticalPC == {"truncate", "write", "move"}
InCritical(t) == thread[t].pc \in CriticalPC

\* Mutant: the file is opened without exclusion.
TakeSharedLock(t, s) ==
  /\ lockFile' = [lockFile EXCEPT ![s] = t]
  /\ sessionLock' = [sessionLock EXCEPT ![t[1]] = [by |-> t, sid |-> s]]

\* Lock() opens <id>.json.lock; the handle is then known to the static field only.
TakeLock(t, s) ==
  /\ lockFile[s] = Free
  /\ lockFile' = [lockFile EXCEPT ![s] = t]
  /\ sessionLock' = [sessionLock EXCEPT ![t[1]] = [by |-> t, sid |-> s]]

\* _sessionLockFile.Release(), whichever thread of the process opened it.
ReleaseSessionLock(i) ==
  LET l == sessionLock[i]
  IN /\ lockFile' = [s \in Session |->
                       IF l.by # NoThread /\ l.sid = s /\ lockFile[s] = l.by
                       THEN Free ELSE lockFile[s]]
     /\ sessionLock' = [sessionLock EXCEPT ![i] = NoLock]

\* Nobody is working under the lock, yet its file is open.
Leaked(s) == /\ lockFile[s] \in Thread
             /\ ~(InCritical(lockFile[s]) /\ thread[lockFile[s]].sid = s)

\* AcquireSessionLockAsync gives up after 60 attempts and returns null.
GiveUpOnLock(t, s) ==
  /\ lockFile[s] # Free
  /\ Stalls \/ Leaked(s)
  /\ sessionLock' = [sessionLock EXCEPT ![t[1]] = NoLock]

\* A lock object no field refers to any more is finalised, which closes its file.
FinalizeLock(s) ==
  /\ lockFile[s] \in Thread
  /\ sessionLock[lockFile[s][1]] # [by |-> lockFile[s], sid |-> s]
  /\ lockFile' = [lockFile EXCEPT ![s] = Free]
  /\ UNCHANGED <<files, sessionLock, runnerVars, thread, submitVars, envVars>>

-----------------------------------------------------------------------------
(* UpdateActiveSessionAsync and the updates it is called with *)

\* Mutant: the entry is created afresh.
SetStatusAfresh(d, i, st) == [d EXCEPT !.inst[i] = [NoEntry EXCEPT !.st = st]]

SetStatus(d, i, st) == [d EXCEPT !.inst[i].st = st]

AppendLogs(d, i, ok) ==
  LET e == d.inst[i]
  IN [d EXCEPT !.inst[i] = [e EXCEPT !.st = IF e.st = Absent THEN "Active" ELSE e.st,
                                     !.logs = e.logs \/ ok]]

\* hadLogs: the session that was analysed listed logs for i.
AddReports(d, i, hadLogs) ==
  LET e == d.inst[i]
  IN [d EXCEPT !.inst[i] = [e EXCEPT !.reports = e.reports \/ (hadLogs /\ e.logs)]]

Orphaned(st) == [NoEntry EXCEPT !.st = st, !.orphan = TRUE]

\* Mutant: nothing is added.
AddNoOrphans(d, names) == d

AddOrphans(d, names) ==
  [d EXCEPT !.inst = [j \in Instance |->
     IF j \in names /\ @[j].st = Absent THEN Orphaned("Complete") ELSE @[j]]]

\* What the callback makes of the loaded session d, run by machine i.
Updated(d, i, r) ==
  CASE r.op \in {"Started", "Analyzing", "Complete"} -> SetStatus(d, i, r.op)
    [] r.op = "Append"  -> AppendLogs(d, i, r.flag)
    [] r.op = "Reports" -> AddReports(d, i, r.flag)
    [] r.op = "Orphan"  -> AddOrphans(d, r.names)
    [] r.op = "Mark"    -> [d EXCEPT !.status = IF r.flag THEN "TimedOut" ELSE "Complete"]

\* Acquire the lock of sid, then load the latest session: not session sid, but
\* the active one.  If there is none the early return keeps the lock.
AcquireAndLoad(t) ==
  LET r == thread[t]
      a == GetActiveSession
  IN /\ r.pc = "acquire"
     /\ TakeLock(t, r.sid)
     /\ thread' = [thread EXCEPT ![t] =
          IF a = 0 THEN UpdateReturn(t, r)
          ELSE [r EXCEPT !.pc = IF AtomicWrites THEN "write" ELSE "truncate",
                         !.tgt = a, !.buf = Updated(activeDir[a], t[1], r)]]
     /\ UNCHANGED <<files, runnerVars, submitVars, envVars>>

AcquireTimesOut(t) ==
  /\ thread[t].pc = "acquire"
  /\ GiveUpOnLock(t, thread[t].sid)
  /\ thread' = [thread EXCEPT ![t] = UpdateReturn(t, thread[t])]
  /\ UNCHANGED <<files, lockFile, runnerVars, submitVars, envVars>>

\* new FileStream(.., FileMode.Create, ..) empties the file.
Truncate(t) ==
  /\ thread[t].pc = "truncate"
  /\ activeDir' = [activeDir EXCEPT ![thread[t].tgt] = Empty]
  /\ Goto(t, "write")
  /\ UNCHANGED <<completedDir, lockFile, sessionLock, runnerVars, submitVars, envVars>>

WriteAndRelease(t) ==
  /\ thread[t].pc = "write"
  /\ activeDir' = [activeDir EXCEPT ![thread[t].tgt] = thread[t].buf]
  /\ ReleaseSessionLock(t[1])
  /\ thread' = [thread EXCEPT ![t] = UpdateReturn(t, thread[t])]
  /\ UNCHANGED <<completedDir, runnerVars, submitVars, envVars>>

-----------------------------------------------------------------------------
(* MarkSessionAsCompleteAsync after its update: move the file under the lock *)

CheckFileExists(t) ==
  LET r == thread[t]
  IN /\ r.pc = "exists"
     /\ thread' = [thread EXCEPT ![t] =
          IF activeDir[r.sid] = Missing THEN MarkReturn(t, r)
          ELSE [r EXCEPT !.pc = "acquireMove"]]
     /\ UNCHANGED <<files, lockFile, sessionLock, runnerVars, submitVars, envVars>>

AcquireForMove(t) ==
  /\ thread[t].pc = "acquireMove"
  /\ TakeLock(t, thread[t].sid)
  /\ Goto(t, "move")
  /\ UNCHANGED <<files, runnerVars, submitVars, envVars>>

AcquireForMoveTimesOut(t) ==
  /\ thread[t].pc = "acquireMove"
  /\ GiveUpOnLock(t, thread[t].sid)
  /\ thread' = [thread EXCEPT ![t] = MarkReturn(t, thread[t])]
  /\ UNCHANGED <<files, lockFile, runnerVars, submitVars, envVars>>

\* Mutant: the file is copied, the source stays.
CopyFile(s) ==
  /\ completedDir' = [completedDir EXCEPT ![s] = activeDir[s]]
  /\ UNCHANGED activeDir

\* FileSystemHelpers.MoveFile deletes the destination, then moves; moving a
\* file that is gone throws, and the exception is swallowed.
MoveFile(s) ==
  /\ completedDir' = [completedDir EXCEPT ![s] = activeDir[s]]
  /\ activeDir' = [activeDir EXCEPT ![s] = Missing]

MoveToCompleted(t) ==
  LET r == thread[t]
  IN /\ r.pc = "move"
     /\ MoveFile(r.sid)
     /\ ReleaseSessionLock(t[1])
     /\ thread' = [thread EXCEPT ![t] = MarkReturn(t, r)]
     /\ UNCHANGED <<runnerVars, submitVars, envVars>>

\* The move throws because a reader has the source open (no FileShare.Delete).
MoveFails(t) ==
  LET r == thread[t]
  IN /\ r.pc = "move"
     /\ moveFails < MaxMoveFail
     /\ moveFails' = moveFails + 1
     /\ completedDir' = [completedDir EXCEPT ![r.sid] = Missing]
     /\ ReleaseSessionLock(t[1])
     /\ thread' = [thread EXCEPT ![t] = MarkReturn(t, r)]
     /\ UNCHANGED <<activeDir, runnerVars, submitVars, age, deleted, crashes>>

-----------------------------------------------------------------------------
(* CheckandCompleteSessionIfNeededAsync *)

\* Called by the loop when this process is not running the session, and by a
\* task once its instance is complete.
CheckAndComplete(t) ==
  LET r == thread[t]
      a == GetActiveSession
  IN /\ r.pc \in {"check", "finish"}
     /\ thread' = [thread EXCEPT ![t] =
          IF a # 0 /\ AllInstancesFinished(activeDir[a]) THEN Calling(r, "Mark", a, FALSE)
          ELSE IF ~IsLoop(t) THEN [IdleThread EXCEPT !.pc = "done"]
          ELSE IF a = 0 THEN IdleThread
          ELSE [r EXCEPT !.pc = "orphans"]]
     /\ UNCHANGED <<files, lockFile, sessionLock, runnerVars, submitVars, envVars>>

-----------------------------------------------------------------------------
(* RunActiveSession: one round of the polling loop of machine i *)

Poll(i) ==
  LET t == <<i, 0>>
      a == GetActiveSession
  IN /\ thread[t].pc = "idle"
     /\ a # 0
     /\ thread' = [thread EXCEPT ![t] =
          [IdleThread EXCEPT
            !.pc = IF a \in running[i] THEN "orphans" ELSE "check",
            !.cur = a,
            !.seen = IF i \in activeDir[a].targets THEN activeDir[a].inst[i].st
                     ELSE NotRequested]]
     /\ UNCHANGED <<files, lockFile, sessionLock, runnerVars, submitVars, envVars>>

\* CancelOrphanedInstancesIfNeeded, past the orphan timeout: the names are
\* computed from an unlocked read, the update is applied to a later one.
CancelOrphaned(t) ==
  LET r == thread[t]
      a == GetActiveSession
      orphans == activeDir[a].targets \ Present(activeDir[a])
      overdue == age[r.cur] >= 1 /\ a # 0
  IN /\ r.pc = "orphans"
     /\ thread' = [thread EXCEPT ![t] =
          IF overdue /\ orphans # {}
          THEN [Calling(r, "Orphan", a, FALSE) EXCEPT !.names = orphans]
          ELSE [r EXCEPT !.pc = "limits"]]
     /\ UNCHANGED <<files, lockFile, sessionLock, runnerVars, submitVars, envVars>>

\* Mutant: the cancelled session is removed from _runningSessions at once.
CancelAndForget(i, s) ==
  /\ cancelled' = [cancelled EXCEPT ![i] = @ \cup {s}]
  /\ running' = [running EXCEPT ![i] = @ \ {s}]

CancelTask(i, s) ==
  /\ cancelled' = [cancelled EXCEPT ![i] = @ \cup {s}]
  /\ UNCHANGED running

\* Past MaxSessionTimeInMinutes: cancel the task of this process if there is
\* one, else, five minutes later, force the completion.
EnforceTimeLimit(t) ==
  LET r == thread[t]
      i == t[1]
      a == GetActiveSession
      mine == r.cur \in running[i]
  IN /\ r.pc = "limits"
     /\ thread' = [thread EXCEPT ![t] =
          IF age[r.cur] = 3 /\ ~mine /\ a # 0 THEN Calling(r, "Mark", a, TRUE)
          ELSE [r EXCEPT !.pc = "collectCheck"]]
     /\ IF age[r.cur] >= 2 /\ mine THEN CancelTask(i, r.cur) ELSE UNCHANGED runnerVars
     /\ UNCHANGED <<files, lockFile, sessionLock, submitVars, envVars>>

\* Mutant: a restarted runner takes an instance it finds Analyzing for finished.
ResumedAsComplete(s, seen) ==
  Calling([IdleThread EXCEPT !.seen = seen],
          IF seen \in {Absent, "Active", "Started"} THEN "Started" ELSE "Complete", s, FALSE)

\* RunToolForSessionAsync decides on the snapshot of the poll whether to collect.
StartedTask(s, seen) ==
  Calling([IdleThread EXCEPT !.seen = seen],
          IF seen \in {Absent, "Active", "Started"} THEN "Started" ELSE "Analyzing", s, FALSE)

\* Mutant: without HasThisInstanceCollectedLogs.
StartAgain(t) == /\ thread[t].seen # NotRequested
                 /\ thread[t].cur \notin running[t[1]]
                 /\ GetActiveSession # 0

ShouldStart(t) ==
  LET r == thread[t]
      i == t[1]
      a == GetActiveSession
  IN /\ r.seen # NotRequested                     \* ShouldCollectOnCurrentInstance
     /\ r.cur \notin running[i]
     /\ a # 0                                     \* HasThisInstanceCollectedLogs throws
     /\ activeDir[a].inst[i].st # "Complete"      \* HasThisInstanceCollectedLogs

\* RemoveOldSessionsFromRunningSessionsList: the only place a key is removed.
FinishedTasks(i) == {s \in running[i] : thread[<<i, s>>].pc = "done"}

StartTask(t) ==
  LET r == thread[t]
      i == t[1]
      old == FinishedTasks(i)
  IN /\ r.pc = "collectCheck"
     /\ ShouldStart(t)
     /\ thread' = [u \in Thread |->
          IF u = t \/ (u[1] = i /\ u[2] \in old) THEN IdleThread
          ELSE IF u = <<i, r.cur>> THEN StartedTask(r.cur, r.seen) ELSE thread[u]]
     /\ running' = [running EXCEPT ![i] = (@ \ old) \cup {r.cur}]
     /\ cancelled' = [cancelled EXCEPT ![i] = @ \ (old \cup {r.cur})]
     /\ UNCHANGED <<files, lockFile, sessionLock, submitVars, envVars>>

SkipTask(t) ==
  /\ thread[t].pc = "collectCheck"
  /\ ~ShouldStart(t)
  /\ EndLoop(t)
  /\ UNCHANGED <<files, lockFile, sessionLock, runnerVars, submitVars, envVars>>

-----------------------------------------------------------------------------
(* RunToolForSessionAsync: the task of session t[2] on machine t[1] *)

\* CollectLogsAsync returns, with logs or with errors only (a tool that fails
\* or is killed by the cancellation), and its response is appended.
CollectLogs(t, ok) ==
  /\ thread[t].pc = "collecting"
  /\ thread' = [thread EXCEPT ![t] = Calling(thread[t], "Append", t[2], ok)]
  /\ UNCHANGED <<files, lockFile, sessionLock, runnerVars, submitVars, envVars>>

\* AnalyzeAndUpdateSessionAsync: analyse what the active session lists for
\* this machine; if it lists nothing the null log list throws and the task ends.
AnalyzeLogs(t) ==
  LET r == thread[t]
      a == GetActiveSession
      e == activeDir[a].inst[t[1]]
  IN /\ r.pc = "analyze"
     /\ thread' = [thread EXCEPT ![t] =
          IF a = 0 THEN Calling(r, "Complete", t[2], FALSE)
          ELSE IF activeDir[a].mode = "Collect" THEN Calling(r, "Complete", t[2], FALSE)
          ELSE IF e.st = Absent THEN [IdleThread EXCEPT !.pc = "done"]
          ELSE Calling(r, "Reports", a, e.logs)]
     /\ UNCHANGED <<files, lockFile, sessionLock, runnerVars, submitVars, envVars>>

-----------------------------------------------------------------------------
(* SubmitNewSessionAsync *)

SubmitNewSession(w) ==
  /\ worker[w].pc = "idle"
  /\ issued < MaxSession
  /\ GetActiveSessionForKudu = 0
  /\ worker' = [worker EXCEPT ![w].pc = "checked"]
  /\ UNCHANGED <<files, lockFile, sessionLock, runnerVars, thread, submitLock, issued, envVars>>

\* Mutant: the result of Lock() is ignored.
IgnoreActiveSessionLock(w) ==
  /\ worker[w].pc = "checked"
  /\ submitLock' = w
  /\ worker' = [worker EXCEPT ![w].pc = "locked"]
  /\ UNCHANGED <<files, lockFile, sessionLock, runnerVars, thread, issued, envVars>>

\* One attempt only: a request that fails to get the lock is refused.
AcquireActiveSessionLock(w) ==
  /\ worker[w].pc = "checked"
  /\ IF submitLock = Free
     THEN submitLock' = w /\ worker' = [worker EXCEPT ![w].pc = "locked"]
     ELSE UNCHANGED submitLock /\ worker' = [worker EXCEPT ![w].pc = "idle"]
  /\ UNCHANGED <<files, lockFile, sessionLock, runnerVars, thread, issued, envVars>>

RefuseUnderLock(w) ==
  /\ worker[w].pc = "locked"
  /\ GetActiveSessionForKudu # 0 \/ issued = MaxSession
  /\ submitLock' = Free
  /\ worker' = [worker EXCEPT ![w].pc = "idle"]
  /\ UNCHANGED <<files, lockFile, sessionLock, runnerVars, thread, issued, envVars>>

\* SaveSessionAsync: a new id, and the file created empty.
SaveSession(w, T, m) ==
  LET s == issued + 1
  IN /\ worker[w].pc = "locked"
     /\ GetActiveSessionForKudu = 0
     /\ issued < MaxSession
     /\ issued' = s
     /\ activeDir' = IF AtomicWrites THEN activeDir ELSE [activeDir EXCEPT ![s] = Empty]
     /\ worker' = [worker EXCEPT ![w] = [pc |-> "writing", sid |-> s, new |-> NewSession(T, m)]]
     /\ UNCHANGED <<completedDir, lockFile, sessionLock, runnerVars, thread, submitLock, envVars>>

WriteNewSession(w) ==
  /\ worker[w].pc = "writing"
  /\ activeDir' = [activeDir EXCEPT ![worker[w].sid] = worker[w].new]
  /\ submitLock' = Free
  /\ worker' = [worker EXCEPT ![w] = [pc |-> "idle", sid |-> 0, new |-> Missing]]
  /\ UNCHANGED <<completedDir, lockFile, sessionLock, runnerVars, thread, issued, envVars>>

-----------------------------------------------------------------------------
(* Time, deletion, crashes *)

Age(s) ==
  /\ activeDir[s] # Missing
  /\ age[s] < MaxAge
  /\ age' = [age EXCEPT ![s] = @ + 1]
  /\ UNCHANGED <<files, lockFile, sessionLock, runnerVars, thread, submitVars,
                 deleted, crashes, moveFails>>

\* Mutant: the session is looked for in both directories.
DeleteAnySession(s) ==
  /\ Content(s) # Missing
  /\ activeDir' = [activeDir EXCEPT ![s] = Missing]
  /\ completedDir' = [completedDir EXCEPT ![s] = Missing]
  /\ deleted' = deleted \cup {s}
  /\ UNCHANGED <<lockFile, sessionLock, runnerVars, thread, submitVars,
                 age, crashes, moveFails>>

\* DeleteSessionAsync, by a user or by RemovedOlderSessions: completed sessions
\* only, and only those whose file can be read.
DeleteSession(s) ==
  /\ completedDir[s] \notin {Missing, Empty}
  /\ completedDir' = [completedDir EXCEPT ![s] = Missing]
  /\ deleted' = deleted \cup {s}
  /\ UNCHANGED <<activeDir, lockFile, sessionLock, runnerVars, thread, submitVars,
                 age, crashes, moveFails>>

\* A DaaSRunner process dies and is started again: its memory is lost and the
\* system closes the files it had open.
CrashRunner(i) ==
  /\ crashes < MaxCrash
  /\ crashes' = crashes + 1
  /\ thread' = [t \in Thread |-> IF t[1] = i THEN IdleThread ELSE thread[t]]
  /\ running' = [running EXCEPT ![i] = {}]
  /\ cancelled' = [cancelled EXCEPT ![i] = {}]
  /\ sessionLock' = [sessionLock EXCEPT ![i] = NoLock]
  /\ lockFile' = [s \in Session |->
                   IF lockFile[s] \in Thread /\ lockFile[s][1] = i THEN Free ELSE lockFile[s]]
  /\ UNCHANGED <<files, submitVars, age, deleted, moveFails>>

CrashWorker(w) ==
  /\ crashes < MaxCrash
  /\ worker[w].pc # "idle"
  /\ crashes' = crashes + 1
  /\ worker' = [worker EXCEPT ![w] = [pc |-> "idle", sid |-> 0, new |-> Missing]]
  /\ submitLock' = IF submitLock = w THEN Free ELSE submitLock
  /\ UNCHANGED <<files, lockFile, sessionLock, runnerVars, thread, issued, age,
                 deleted, moveFails>>

-----------------------------------------------------------------------------
Init ==
  /\ activeDir = [s \in Session |-> Missing]
  /\ completedDir = [s \in Session |-> Missing]
  /\ lockFile = [s \in Session |-> Free]
  /\ sessionLock = [i \in Runner |-> NoLock]
  /\ running = [i \in Runner |-> {}]
  /\ cancelled = [i \in Runner |-> {}]
  /\ thread = [t \in Thread |-> IdleThread]
  /\ submitLock = Free
  /\ worker = [w \in Worker |-> [pc |-> "idle", sid |-> 0, new |-> Missing]]
  /\ issued = 0
  /\ age = [s \in Session |-> 0]
  /\ deleted = {}
  /\ crashes = 0
  /\ moveFails = 0

\* What a thread does by itself; the collector returns when the tool lets it.
Progress(t) ==
  \/ AcquireAndLoad(t) \/ AcquireTimesOut(t) \/ Truncate(t) \/ WriteAndRelease(t)
  \/ CheckFileExists(t) \/ AcquireForMove(t) \/ AcquireForMoveTimesOut(t) \/ MoveToCompleted(t)
  \/ CheckAndComplete(t) \/ CancelOrphaned(t) \/ EnforceTimeLimit(t)
  \/ StartTask(t) \/ SkipTask(t) \/ AnalyzeLogs(t)

Submit(w) ==
  \/ SubmitNewSession(w) \/ AcquireActiveSessionLock(w) \/ RefuseUnderLock(w)
  \/ \E T \in TargetSets, m \in Modes : SaveSession(w, T, m)
  \/ WriteNewSession(w)

Next ==
  \/ \E t \in Thread : Progress(t) \/ MoveFails(t) \/ \E ok \in BOOLEAN : CollectLogs(t, ok)
  \/ \E i \in Runner : Poll(i) \/ CrashRunner(i)
  \/ \E w \in Worker : Submit(w) \/ CrashWorker(w)
  \/ \E s \in Session : FinalizeLock(s) \/ Age(s) \/ DeleteSession(s)

Spec == Init /\ [][Next]_vars

\* A runnable thread runs, the loop polls for ever, time passes, the finaliser
\* runs, a request in progress ends; a tool is sure to end only once cancelled.
Fairness ==
  /\ \A t \in Thread :
       /\ WF_vars(Progress(t))
       /\ WF_vars(t[2] \in cancelled[t[1]] /\ \E ok \in BOOLEAN : CollectLogs(t, ok))
  /\ \A i \in Runner : WF_vars(Poll(i))
  /\ \A w \in Worker : WF_vars(worker[w].pc # "idle" /\ Submit(w))
  /\ \A s \in Session : WF_vars(Age(s)) /\ WF_vars(FinalizeLock(s))

FairSpec == Spec /\ Fairness

-----------------------------------------------------------------------------
(* Properties *)

\* Session files, lock files, the runners' tables and the locals of every thread
\* have their types; the entry an update adds has a status of the enumeration.
TypeOK ==
  /\ activeDir \in [Session -> File]
  /\ completedDir \in [Session -> File]
  /\ lockFile \in [Session -> Thread \cup {Free}]
  /\ sessionLock \in [Runner -> [by : Thread \cup {NoThread}, sid : 0..MaxSession]]
  /\ running \in [Runner -> SUBSET Session]
  /\ cancelled \in [Runner -> SUBSET Session]
  /\ thread \in [Thread -> ThreadState]
  /\ submitLock \in Worker \cup {Free}
  /\ worker \in [Worker -> WorkerState]
  /\ issued \in 0..MaxSession
  /\ age \in [Session -> 0..3]
  /\ deleted \in SUBSET Session
  /\ crashes \in 0..MaxCrash
  /\ moveFails \in 0..MaxMoveFail

Writing(t) == thread[t].pc \in {"truncate", "write"}

\* _runningSessions knows exactly the tasks of its process: the polling loop
\* can neither start a second task for a session nor forget one that runs.
TaskTracked == \A i \in Runner, s \in Session :
  thread[<<i, s>>].pc # "idle" <=> s \in running[i]

\* Whoever writes a session file holds the lock of THAT session, as the comment
\* of UpdateActiveSessionAsync says ("only one instance can write").
WriterHoldsLock == \A t \in Thread : Writing(t) => lockFile[thread[t].tgt] = t

\* A session that was moved or deleted does not come back in ActiveSessions,
\* whoever was about to write it.
OneLocation == \A s \in Session :
  completedDir[s] # Missing \/ s \in deleted => activeDir[s] = Missing

\* Writers, movers and deletions of a session file in any order amount to the life
\* cycle of the session: a closed session is never active again.
Stage == [s \in Session |-> IF activeDir[s] # Missing THEN "active"
                            ELSE IF completedDir[s] # Missing THEN "closed" ELSE "none"]
Lifecycle == INSTANCE SessionLifecycle WITH stage <- Stage
ImplementsLifecycle == Lifecycle!Spec

\* Read-modify-write of one file by all machines: no update of the session
\* drops the logs another update recorded.
LogsKept == [][\A s \in Session, i \in Instance :
  activeDir[s].inst[i].logs /\ activeDir'[s] # Missing => activeDir'[s].inst[i].logs]_vars

\* An instance of an analysing session that collected logs is not reported
\* complete before its analysis was recorded, even if its runner restarted.
CompleteMeansAnalyzed == \A s \in Session, i \in Instance :
  LET d == Content(s) IN
  d.mode = "CollectAndAnalyze" /\ d.inst[i].st = "Complete" /\ d.inst[i].logs
    => d.inst[i].reports

\* An instance that finished its own part is never taken back to an earlier
\* stage, by a stale snapshot, a restart or another machine.
FinishedNeverRestarts == [][\A s \in Session, i \in Instance :
  LET d == Content(s) IN
  d.inst[i].st = "Complete" /\ ~d.inst[i].orphan /\ Content(s)' # Missing
    => (Content(s)').inst[i].st = "Complete"]_vars

\* A session leaves ActiveSessions only when every requested instance, those that
\* were orphaned apart, has finished at that moment, or when its time is up.
ClosedWhenFinished == [][\A s \in Session :
  activeDir[s] # Missing /\ activeDir'[s] = Missing /\ age[s] # 3 =>
    \A i \in activeDir[s].targets :
      activeDir[s].inst[i].st = "Complete" \/ activeDir[s].inst[i].orphan]_vars

\* A submitted session is on disk until it is deleted, however many instances
\* complete it at once.
NotLost == \A s \in 1..issued :
  \/ s \in deleted
  \/ activeDir[s] # Missing \/ completedDir[s] # Missing
  \/ \E w \in Worker : worker[w].sid = s

\* Submissions racing each other and the runners create one active session.  From
\* the third session on, a late task of the first one may write the second back.
AtMostOneActive == \A s, u \in Session :
  {activeDir[s], activeDir[u]} \cap {Missing, Empty} = {} => s = u

\* The comment of RunActiveSession: long running sessions "will get completed
\* and they will not hang indefinitely".  A process that dies between truncating the
\* file of a session and writing it is the only exception: nobody reads the file again.
EventuallyClosed == \A s \in Session :
  \/ activeDir[s] # Missing ~> activeDir[s] = Missing
  \/ <>[](crashes > 0 /\ activeDir[s] = Empty)

=============================================================================
