----------------------------- MODULE TableSession -----------------------------
(***************************************************************************)
(* The session manager that keeps sessions in two Azure tables             *)
(* (DaaS/Sessions/AzureStorageSessionManager.cs), the Kudu requests that   *)
(* submit a session (SessionsV2Controller.cs), the DiagLauncher processes  *)
(* that run it (DiagLauncher/Program.cs) and the part of the DaaSRunner    *)
(* loop that closes it and runs queued analyses (DaaSRunner/Program.cs,    *)
(* RunAnalysisQueuedV2Sessions).                                           *)
(*                                                                         *)
(* One table has a row per session, the other a row per session and        *)
(* instance.  Every table operation is a step of its own; a session is     *)
(* read (its row, then its instance rows) in one.  The row of an instance  *)
(* is updated under its ETag, the row of a session under ETag.All.         *)
(*                                                                         *)
(* Session ids are time stamps, 1 the oldest.  Session age is abstracted to*)
(* the thresholds the runner compares it with: 0 younger than five minutes *)
(* (also the default OrphanInstanceTimeoutInMinutes), 1 older, 2 older than*)
(* MaxSessionTimeInMinutes.                                                *)
(***************************************************************************)
EXTENDS Naturals, FiniteSets

CONSTANTS
  Instance,     \* the machines of the app
  Runner,       \* the machines whose DaaSRunner process is running
  MaxSession,   \* bound: how many session ids are submitted
  Targets,      \* the instances each session names
  Automatic,    \* the sessions auto-heal submits, in mode CollectKillAnalyze
  CollectOnly,  \* the sessions in mode Collect
  MaxPosts,     \* bound: how many requests submit one session
  MaxDelete,    \* bound: how many deletions are started
  MaxAge,       \* bound: how old a session may grow (at most 2)
  MaxCrash      \* bound: how many process crashes

Session == 1..MaxSession

ASSUME ParametersAssumption ==
  /\ IsFiniteSet(Instance) /\ Runner \subseteq Instance
  /\ MaxSession \in Nat
  /\ Targets \in [Session -> SUBSET Instance]
  /\ Automatic \subseteq Session
  /\ CollectOnly \subseteq Session
  /\ MaxPosts \in Nat
  /\ MaxDelete \in Nat
  /\ MaxAge \in 0..2
  /\ MaxCrash \in Nat

-----------------------------------------------------------------------------
(* Rows *)

Closed == {"Complete", "TimedOut"}
Absent == "Absent"                 \* the table has no such row
Busy == {"Active", "AnalysisQueued", "Analyzing"}
RowStatus == Busy \cup Closed \cup {Absent}

\* logs: the session whose logs LogFilesJson lists, 0 for none; reports: whether
\* the outcome of their analysis is recorded.
Row == [st : RowStatus, logs : 0..MaxSession, reports : BOOLEAN]
NoRow == [st |-> Absent, logs |-> 0, reports |-> FALSE]

-----------------------------------------------------------------------------
(* Agents: Kudu requests, DiagLauncher processes (the slots they may occupy), *)
(* the polling loops of the runners and the analysis tasks they start.       *)

Slot == 1..2
Kudu(i) == <<i, "kudu", 1>>
Launcher(i, k) == <<i, "launcher", k>>
Loop(i) == <<i, "loop", 1>>
AnalysisTask(i, s) == <<i, "task", s>>

Agent == {Kudu(i) : i \in Instance}
         \cup {Launcher(i, k) : i \in Instance, k \in Slot}
         \cup {Loop(i) : i \in Runner}
         \cup {AnalysisTask(i, s) : i \in Runner, s \in Session}

PC == {"off", "start", "query", "add", "conflict", "run", "read", "put", "collecting",
       "analyze", "active", "rows", "close", "orphans", "reread", "decide", "done"}
Update == {"Started", "Collecting", "Logs", "AnalysisQueued", "Analyzing", "Reports", "Complete"}

\* sid: the session the agent works on; todo: by the snapshot it took, this
\* instance has still to collect (launcher) or its analysis is queued (loop);
\* op: the row update in progress; hold, etag: the row it read and whether that
\* is still the latest version; logs: the logs to record; cur: the session CheckandCompleteSessionIfNeededAsync found active; ret: who
\* called it; names, added: the orphans left to add, whether one was added;
\* auto: the process was started by auto-heal.
AgentState == [pc : PC, op : Update, sid : 0..MaxSession, todo : BOOLEAN, hold : Row,
               etag : BOOLEAN, logs : 0..MaxSession, cur : 0..MaxSession,
               ret : {"end", "orphans", "force", "check"}, names : SUBSET Instance,
               added : BOOLEAN, auto : BOOLEAN]
Off == [pc |-> "off", op |-> "Started", sid |-> 0, todo |-> FALSE, hold |-> NoRow,
        etag |-> FALSE, logs |-> 0, cur |-> 0, ret |-> "end", names |-> {},
        added |-> FALSE, auto |-> FALSE]

VARIABLES
  session,   \* [Session -> status]: the session table
  row,       \* [Session -> [Instance -> Row]]: the instance table
  agent,     \* the control state and locals of every agent
  deletion,  \* the DeleteSessionAsync call in progress
  age,       \* the age of each session, see above
  posts,     \* how many requests submitted each session
  deletions, crashes,
  finished   \* history: the instances of each session whose row was once closed

rows == <<row, finished>>
tables == <<session, rows>>
envVars == <<age, posts, deletions, crashes>>
vars == <<tables, agent, deletion, envVars>>

NoDeletion == [pc |-> "off", sid |-> 0, names |-> {}]

-----------------------------------------------------------------------------
(* Reading the tables *)

\* GetActiveSessionAsync: the active session with the smallest row key; 0: null.
GetActiveSession ==
  LET active == {s \in Session : session[s] = "Active"}
  IN IF active = {} THEN 0 ELSE CHOOSE s \in active : \A u \in active : s <= u

Present(s) == {i \in Instance : row[s][i].st # Absent}
Orphans(s) == Targets[s] \ Present(s)

Become(a, r) == agent' = [agent EXCEPT ![a] = r]
End(a) == Become(a, Off)

\* An agent that leaves its code, normally or by an exception: a process is gone,
\* the loop waits for its next round, a task stays listed in _runningV2Sessions.
Ended(a) == IF a[2] = "task" THEN [Off EXCEPT !.pc = "done"] ELSE Off

\* agent, with the copies of the rows W (pairs of session and machine) outdated.
Outdated(W) ==
  [b \in Agent |-> IF agent[b].pc = "put" /\ <<agent[b].sid, b[1]>> \in W
                   THEN [agent[b] EXCEPT !.etag = FALSE] ELSE agent[b]]

-----------------------------------------------------------------------------
(* SubmitNewSessionAsync, by a Kudu request or by a DiagLauncher of auto-heal *)

Post(i, s) ==
  /\ agent[Kudu(i)].pc = "off"
  /\ s \notin Automatic
  /\ i \in Targets[s]                          \* ShouldCollectOnCurrentInstance
  /\ posts[s] < MaxPosts
  /\ posts' = [posts EXCEPT ![s] = @ + 1]
  /\ Become(Kudu(i), [Off EXCEPT !.pc = "query", !.sid = s])
  /\ UNCHANGED <<tables, deletion, age, deletions, crashes>>

FreeSlots(i) == {k \in Slot : agent[Launcher(i, k)].pc = "off"}

\* Auto-heal starts DiagLauncher, which makes up a new session id.
AutoHeal(i, s, k) ==
  /\ s \in Automatic /\ Targets[s] = {i}
  /\ posts[s] = 0 /\ k \in FreeSlots(i)
  /\ posts' = [posts EXCEPT ![s] = 1]
  /\ Become(Launcher(i, k), [Off EXCEPT !.pc = "start", !.sid = s, !.auto = TRUE])
  /\ UNCHANGED <<tables, deletion, age, deletions, crashes>>

\* The session is submitted: DiagLauncher goes on to run it, Kudu starts a
\* DiagLauncher (a third one on a machine would find the others and exit).
Submitted(a) ==
  LET free == FreeSlots(a[1])
  IN IF a[2] = "launcher" THEN Become(a, [agent[a] EXCEPT !.pc = "run"])
     ELSE IF free = {} THEN End(a)
     ELSE agent' = [agent EXCEPT ![a] = Off,
            ![Launcher(a[1], CHOOSE k \in free : TRUE)] = [Off EXCEPT !.pc = "start"]]

\* throttled: ThrowIfLimitsHitViaAutomation, for DiagLauncher only.
QueryActiveSession(a, throttled) ==
  LET x == GetActiveSession
  IN /\ agent[a].pc = "query"
     /\ throttled => agent[a].auto
     /\ IF throttled THEN End(a)
        ELSE IF x = agent[a].sid THEN Submitted(a)
        ELSE IF x # 0 THEN End(a)
        ELSE Become(a, [agent[a] EXCEPT !.pc = "add"])
     /\ UNCHANGED <<tables, deletion, envVars>>

\* Mutant: the row is written whether it exists or not.
UpsertSession(a) ==
  /\ session' = [session EXCEPT ![agent[a].sid] = "Active"]
  /\ age' = [age EXCEPT ![agent[a].sid] = 0]
  /\ Submitted(a)

\* AddEntityAsync fails with 409 when the row exists.
AddSession(a) ==
  LET s == agent[a].sid
  IN IF session[s] = Absent
     THEN /\ session' = [session EXCEPT ![s] = "Active"]
          /\ age' = [age EXCEPT ![s] = 0]
          /\ Submitted(a)
     ELSE Become(a, [agent[a] EXCEPT !.pc = "conflict"]) /\ UNCHANGED <<session, age>>

AddSessionEntity(a) ==
  /\ agent[a].pc = "add"
  /\ AddSession(a)
  /\ UNCHANGED <<rows, deletion, posts, deletions, crashes>>

IsSameSession(a) ==
  /\ agent[a].pc = "conflict"
  /\ IF GetActiveSession = agent[a].sid THEN Submitted(a) ELSE End(a)
  /\ UNCHANGED <<tables, deletion, envVars>>

-----------------------------------------------------------------------------
(* DiagLauncher *)

\* Mutant: other processes are not looked for.
NoOther(a) == TRUE

NoOtherLauncher(a) ==
  \A k \in Slot : Launcher(a[1], k) # a => agent[Launcher(a[1], k)].pc = "off"

ThrowIfMultipleDiagLauncherRunning(a) ==
  /\ agent[a].pc = "start"
  /\ IF NoOtherLauncher(a)
     THEN Become(a, [agent[a] EXCEPT !.pc = IF agent[a].auto THEN "query" ELSE "run"])
     ELSE End(a)
  /\ UNCHANGED <<tables, deletion, envVars>>

\* A row update: read the row of this machine, then add or update it.
Calling(r, o) == [r EXCEPT !.pc = "read", !.op = o, !.hold = NoRow, !.etag = FALSE]

\* Decided on the snapshot of the session, before the row is marked Active.
ShouldCollect(st) == st \in {Absent, "Active"}

\* It runs whatever session is active, and marks this instance Active first.
RunActiveSession(a) ==
  LET x == GetActiveSession
      i == a[1]
  IN /\ agent[a].pc = "run"
     /\ IF x = 0 THEN End(a)
        ELSE IF i \notin Targets[x] THEN End(a)
        ELSE Become(a, Calling([agent[a] EXCEPT !.sid = x, !.todo = ShouldCollect(row[x][i].st)],
                               "Started"))
     /\ UNCHANGED <<tables, deletion, envVars>>

Collect(a, ok) ==
  LET r == agent[a]
  IN /\ r.pc = "collecting"
     /\ Become(a, Calling([r EXCEPT !.logs = IF ok THEN r.sid ELSE 0], "Logs"))
     /\ UNCHANGED <<tables, deletion, envVars>>

-----------------------------------------------------------------------------
(* Updates of an instance row: SetIntanceStatus, UpdateLogsForSessionAsync, *)
(* UpdateReportsForSessionAsync                                             *)

\* Mutant: an instance that collected is done.
CollectedIsComplete(r) == Calling(r, IF r.auto THEN "AnalysisQueued" ELSE "Complete")

\* After collection: queue the analysis (auto-heal) or do it.
Collected(r) == Calling(r, IF r.auto THEN "AnalysisQueued" ELSE "Analyzing")

\* What follows the update r.op.
AfterUpdate(a, r) ==
  CASE r.op = "Started"        -> IF r.todo THEN Calling([r EXCEPT !.todo = FALSE], "Collecting")
                                  ELSE Collected(r)
    [] r.op = "Collecting"     -> [r EXCEPT !.pc = "collecting"]
    [] r.op = "Logs"           -> Collected([r EXCEPT !.logs = 0])
    [] r.op = "AnalysisQueued" -> Ended(a)
    [] r.op = "Analyzing"      -> [r EXCEPT !.pc = "analyze"]
    [] r.op = "Reports"        -> Calling([r EXCEPT !.logs = 0], "Complete")
    [] r.op = "Complete"       -> [r EXCEPT !.pc = "active", !.ret = "end"]

UpdatedRow(r) ==
  CASE r.op \in {"Started", "Collecting"} -> [r.hold EXCEPT !.st = "Active"]
    [] r.op \in {"AnalysisQueued", "Analyzing", "Complete"} -> [r.hold EXCEPT !.st = r.op]
    [] r.op = "Logs"    -> [r.hold EXCEPT !.logs = r.logs, !.reports = FALSE]
    [] r.op = "Reports" -> [r.hold EXCEPT !.logs = r.logs, !.reports = r.logs # 0]

\* Logs and reports of a row that is gone throw; a status creates the row.
ReadRow(a) ==
  LET r == agent[a]
      e == row[r.sid][a[1]]
  IN /\ r.pc = "read"
     /\ Become(a, IF e.st = Absent /\ r.op \in {"Logs", "Reports"} THEN Ended(a)
                  ELSE [r EXCEPT !.pc = "put", !.hold = e, !.etag = TRUE])
     /\ UNCHANGED <<tables, deletion, envVars>>

\* Mutant: the update is made under ETag.All.
Overwrite(r, i) == (r.hold.st = Absent) = (row[r.sid][i].st = Absent)

\* AddEntityAsync of an absent row, UpdateEntityAsync under the ETag of a present.
MayWrite(r, i) == IF r.hold.st = Absent THEN row[r.sid][i].st = Absent ELSE r.etag

\* finished, with machine i added for session s.
Finish(s, i) == [finished EXCEPT ![s] = @ \cup {i}]

PutRow(a) ==
  LET r == agent[a]
      i == a[1]
  IN /\ r.pc = "put"
     /\ IF MayWrite(r, i)
        THEN /\ row' = [row EXCEPT ![r.sid][i] = UpdatedRow(r)]
             /\ finished' = IF UpdatedRow(r).st \in Closed THEN Finish(r.sid, i) ELSE finished
             /\ agent' = [Outdated({<<r.sid, i>>}) EXCEPT ![a] =
                            AfterUpdate(a, [r EXCEPT !.hold = NoRow, !.etag = FALSE])]
        ELSE Become(a, Ended(a)) /\ UNCHANGED rows
     /\ UNCHANGED <<session, deletion, envVars>>

\* AnalyzeAndUpdateSessionAsync: it analyses the logs the ACTIVE session lists
\* for this machine; if it lists nothing the null log list throws.
AnalyzeLogs(a) ==
  LET r == agent[a]
      x == GetActiveSession
      i == a[1]
  IN /\ r.pc = "analyze"
     /\ Become(a, IF x = 0 \/ x \in CollectOnly THEN Calling(r, "Complete")
                  ELSE IF row[x][i].st = Absent THEN Ended(a)
                  ELSE Calling([r EXCEPT !.logs = row[x][i].logs], "Reports"))
     /\ UNCHANGED <<tables, deletion, envVars>>

-----------------------------------------------------------------------------
(* CheckandCompleteSessionIfNeededAsync *)

\* A call of it from the cleanup part of the polling loop.
CheckLimits(r) == [r EXCEPT !.pc = "active", !.names = {}, !.added = FALSE,
                            !.ret = IF age[r.sid] = 2 THEN "force" ELSE "check"]

\* Where it returns to, and with which result.
Returned(a, done) ==
  LET r == [agent[a] EXCEPT !.cur = 0]
  IN CASE r.ret = "end"     -> Ended(a)
       [] r.ret = "orphans" -> [r EXCEPT !.pc = "reread", !.ret = "end"]
       [] r.ret = "force"   -> Off
       [] r.ret = "check"   -> IF done THEN Off ELSE [r EXCEPT !.pc = "decide", !.ret = "end"]

ReadActive(a) ==
  LET x == GetActiveSession
  IN /\ agent[a].pc = "active"
     /\ Become(a, IF x = 0 THEN Returned(a, TRUE)
                  ELSE [agent[a] EXCEPT !.pc = "rows", !.cur = x])
     /\ UNCHANGED <<tables, deletion, envVars>>

\* Mutants: the requested instances are not counted; time limits do not count.
NobodyBusy(s, forced) == forced \/ (\A i \in Present(s) : row[s][i].st \notin Busy)
NeverForced(s, forced) ==
  /\ \A i \in Present(s) : row[s][i].st \notin Busy
  /\ Cardinality(Present(s)) >= Cardinality(Targets[s])

ShouldClose(s, forced) ==
  \/ forced
  \/ /\ \A i \in Present(s) : row[s][i].st \notin Busy
     /\ Cardinality(Present(s)) >= Cardinality(Targets[s])

ReadRows(a) ==
  LET r == agent[a]
  IN /\ r.pc = "rows"
     /\ Become(a, IF ShouldClose(r.cur, r.ret = "force") THEN [r EXCEPT !.pc = "close"]
                  ELSE Returned(a, FALSE))
     /\ UNCHANGED <<tables, deletion, envVars>>

\* Read the row of the session again and write it back under ETag.All; nothing
\* but the status ever changes in it.
CloseSession(a) ==
  LET r == agent[a]
  IN /\ r.pc = "close"
     /\ session' = [session EXCEPT ![r.cur] =
                      IF @ = Absent THEN Absent
                      ELSE IF r.ret = "force" THEN "TimedOut" ELSE "Complete"]
     /\ Become(a, Returned(a, TRUE))
     /\ UNCHANGED <<rows, deletion, envVars>>

-----------------------------------------------------------------------------
(* RunAnalysisQueuedV2Sessions: one round of the polling loop of machine i *)

\* Mutant: the loop looks for the wrong status.
ResumesAnalyzing(s, i) == i \in Targets[s] /\ row[s][i].st = "Analyzing"

ShouldAnalyzeOnCurrentInstance(s, i) == i \in Targets[s] /\ row[s][i].st = "AnalysisQueued"

\* The snapshot of session s a round works with.
Snapshot(s, i) == [Off EXCEPT !.sid = s, !.todo = ShouldAnalyzeOnCurrentInstance(s, i)]

\* due: more than five minutes since this runner's last cleanup.  A round that is
\* not due and finds no analysis to start changes nothing.
Poll(i, due) ==
  LET a == Loop(i)
      x == GetActiveSession
      cleanup == due /\ age[x] >= 1
      r == Snapshot(x, i)
  IN /\ agent[a].pc = "off"
     /\ x # 0
     /\ cleanup \/ (r.todo /\ agent[AnalysisTask(i, x)].pc = "off")
     /\ Become(a, IF ~cleanup THEN [r EXCEPT !.pc = "decide"]
                  ELSE IF Orphans(x) = {} THEN CheckLimits(r)
                  ELSE [r EXCEPT !.pc = "orphans", !.names = Orphans(x)])
     /\ UNCHANGED <<tables, deletion, envVars>>

AddOrphan(s, n) == row' = [row EXCEPT ![s][n] = IF @.st = Absent
                                                THEN [NoRow EXCEPT !.st = "TimedOut"] ELSE @]

\* CancelOrphanedV2InstancesIfNeeded adds the orphans one by one; a row that has
\* appeared meanwhile throws and ends the loop over the names.
CancelOrphan(a, n) ==
  LET r == agent[a]
      left == r.names \ {n}
  IN /\ r.pc = "orphans"
     /\ n \in r.names
     /\ AddOrphan(r.sid, n)
     /\ finished' = IF row[r.sid][n].st = Absent THEN Finish(r.sid, n) ELSE finished
     /\ Become(a, IF row[r.sid][n].st # Absent
                  THEN IF r.added THEN [r EXCEPT !.pc = "reread", !.names = {}]
                                  ELSE CheckLimits(r)
                  ELSE IF left # {} THEN [r EXCEPT !.names = left, !.added = TRUE]
                  ELSE [r EXCEPT !.pc = "active", !.ret = "orphans", !.names = {}, !.added = TRUE])
     /\ UNCHANGED <<session, deletion, envVars>>

\* "Session was updated so getting the latest".
Reread(a) ==
  LET i == a[1]
      x == GetActiveSession
  IN /\ agent[a].pc = "reread"
     /\ Become(a, IF x = 0 THEN Off
                  ELSE CheckLimits(Snapshot(x, i)))
     /\ UNCHANGED <<tables, deletion, envVars>>

\* A task of the session is started unless _runningV2Sessions lists one, and
\* then the tasks that ended are removed from it.
Decide(a) ==
  LET r == agent[a]
      t == AnalysisTask(a[1], r.sid)
  IN /\ r.pc = "decide"
     /\ agent' = IF r.todo /\ agent[t].pc = "off"
                 THEN [b \in Agent |->
                   IF b = a THEN Off
                   ELSE IF b = t THEN Calling([Off EXCEPT !.sid = r.sid], "Analyzing")
                   ELSE IF b[1] = a[1] /\ agent[b].pc = "done" THEN Off ELSE agent[b]]
                 ELSE [agent EXCEPT ![a] = Off]
     /\ UNCHANGED <<tables, deletion, envVars>>

-----------------------------------------------------------------------------
(* DeleteSessionAsync, by a user or by RemovedOlderSessions *)

StartDeletion(s) ==
  /\ deletion.pc = "off"
  /\ session[s] \in Closed
  /\ deletions < MaxDelete
  /\ deletions' = deletions + 1
  /\ deletion' = [NoDeletion EXCEPT !.pc = "list", !.sid = s]
  /\ UNCHANGED <<tables, agent, age, posts, crashes>>

ListRows ==
  /\ deletion.pc = "list"
  /\ deletion' = [deletion EXCEPT !.pc = "rows", !.names = Present(deletion.sid)]
  /\ UNCHANGED <<tables, agent, envVars>>

DeleteRow(i) ==
  LET s == deletion.sid
  IN /\ deletion.pc = "rows"
     /\ i \in deletion.names
     /\ row' = [row EXCEPT ![s][i] = NoRow]
     /\ finished' = [finished EXCEPT ![s] = @ \ {i}]
     /\ agent' = Outdated({<<s, i>>})
     /\ deletion' = [deletion EXCEPT !.names = @ \ {i}]
     /\ UNCHANGED <<session, envVars>>

DeleteSession ==
  /\ deletion.pc = "rows"
  /\ deletion.names = {}
  /\ session' = [session EXCEPT ![deletion.sid] = Absent]
  /\ deletion' = NoDeletion
  /\ UNCHANGED <<rows, agent, envVars>>

-----------------------------------------------------------------------------
(* Time and crashes *)

Age(s) ==
  /\ session[s] = "Active"
  /\ age[s] < MaxAge
  /\ age' = [age EXCEPT ![s] = @ + 1]
  /\ UNCHANGED <<tables, agent, deletion, posts, deletions, crashes>>

\* The agents of the process agent a belongs to.
Process(a) ==
  IF a[2] \in {"kudu", "launcher"} THEN {a}
  ELSE {b \in Agent : b[1] = a[1] /\ b[2] \in {"loop", "task"}}

Crash(a) ==
  /\ crashes < MaxCrash
  /\ agent[a].pc # "off"
  /\ crashes' = crashes + 1
  /\ agent' = [b \in Agent |-> IF b \in Process(a) THEN Off ELSE agent[b]]
  /\ UNCHANGED <<tables, deletion, age, posts, deletions>>

CrashDeletion ==
  /\ crashes < MaxCrash
  /\ deletion.pc # "off"
  /\ crashes' = crashes + 1
  /\ deletion' = NoDeletion
  /\ UNCHANGED <<tables, agent, age, posts, deletions>>

-----------------------------------------------------------------------------
Init ==
  /\ session = [s \in Session |-> Absent]
  /\ row = [s \in Session |-> [i \in Instance |-> NoRow]]
  /\ finished = [s \in Session |-> {}]
  /\ agent = [a \in Agent |-> Off]
  /\ deletion = NoDeletion
  /\ age = [s \in Session |-> 0]
  /\ posts = [s \in Session |-> 0]
  /\ deletions = 0
  /\ crashes = 0

\* What an agent does by itself; a collector returns when its tool lets it.
Progress(a) ==
  \/ \E throttled \in BOOLEAN : QueryActiveSession(a, throttled)
  \/ AddSessionEntity(a) \/ IsSameSession(a)
  \/ ThrowIfMultipleDiagLauncherRunning(a) \/ RunActiveSession(a)
  \/ ReadRow(a) \/ PutRow(a) \/ AnalyzeLogs(a)
  \/ ReadActive(a) \/ ReadRows(a) \/ CloseSession(a)
  \/ \E n \in Instance : CancelOrphan(a, n)
  \/ Reread(a) \/ Decide(a)

Next ==
  \/ \E i \in Instance, s \in Session : Post(i, s) \/ \E k \in Slot : AutoHeal(i, s, k)
  \/ \E a \in Agent : Progress(a) \/ Crash(a) \/ \E ok \in BOOLEAN : Collect(a, ok)
  \/ \E i \in Runner, due \in BOOLEAN : Poll(i, due)
  \/ \E s \in Session : StartDeletion(s) \/ Age(s)
  \/ ListRows \/ DeleteSession \/ CrashDeletion \/ \E i \in Instance : DeleteRow(i)

Spec == Init /\ [][Next]_vars

\* A running agent runs, time passes, and the loop polls for ever: a round every
\* 30 seconds, so that the cleanup part is due again and again.
Fairness ==
  /\ \A a \in Agent : WF_vars(Progress(a))
  /\ \A i \in Runner : WF_vars(Poll(i, TRUE))
  /\ \A s \in Session : WF_vars(Age(s))

FairSpec == Spec /\ Fairness

-----------------------------------------------------------------------------
(* Properties *)

\* Both tables and the locals of every agent have their types.
TypeOK ==
  /\ session \in [Session -> {"Active", Absent} \cup Closed]
  /\ row \in [Session -> [Instance -> Row]]
  /\ finished \in [Session -> SUBSET Instance]
  /\ agent \in [Agent -> AgentState]
  /\ deletion \in [pc : {"off", "list", "rows"}, sid : 0..MaxSession, names : SUBSET Instance]
  /\ age \in [Session -> 0..2]
  /\ posts \in [Session -> Nat]
  /\ deletions \in 0..MaxDelete
  /\ crashes \in 0..MaxCrash

\* ThrowIfMultipleDiagLauncherRunning: however many requests reach a machine, one
\* DiagLauncher at most gets past the check.
OneLauncher == \A i \in Instance, j, k \in Slot :
  {agent[Launcher(i, j)].pc, agent[Launcher(i, k)].pc} \cap {"off", "start"} = {} => j = k

\* Posts, completions, forced completions and deletions of a session in any order
\* amount to its life cycle: none revives a closed session or deletes an active one.
Stage == [s \in Session |-> CASE session[s] = Absent -> "none"
                              [] session[s] = "Active" -> "active"
                              [] session[s] \in Closed -> "closed"]
Lifecycle == INSTANCE SessionLifecycle WITH stage <- Stage
ImplementsLifecycle == Lifecycle!Spec

\* Agent a ends an update o of the row of machine i for session s.
Puts(a, o, s, i) ==
  /\ a[1] = i /\ agent[a].sid = s /\ agent[a].op = o
  /\ agent[a].pc = "put" /\ agent'[a].pc # "put"

\* SetIntanceStatus writes the whole row back that it read a step earlier: it never
\* brings back an older list of logs, nor does it lose the outcome of an analysis
\* that was recorded in between.  Both change when logs or reports are recorded
\* (which overwrites: see LogsKept) or the row is deleted.
StatusKeepsResults == [][\A s \in Session, i \in Instance :
  row'[s][i].logs # row[s][i].logs \/ row'[s][i].reports # row[s][i].reports =>
    \/ row'[s][i].st = Absent
    \/ \E a \in Agent : Puts(a, "Logs", s, i) \/ Puts(a, "Reports", s, i)]_vars

\* While a session is active the logs of an instance change only when a collection
\* is recorded.  UpdateReportsForSessionAsync re-reads the row and then overwrites
\* its list with the one read before the analysis: no ETag protects it, only that
\* nobody collects for the instance meanwhile.
\* (It fails when a launcher started for another session meets the analysis task on
\* its machine, beside another active session, and when a deleted session is submitted
\* again.)
LogsKept == [][\A s \in Session, i \in Instance :
  session[s] = "Active" /\ row'[s][i].logs # row[s][i].logs =>
    \E a \in Agent : Puts(a, "Logs", s, i)]_vars

\* An instance of an analysing session that collected logs is not reported
\* complete before the outcome of their analysis is recorded.  Only while the
\* session is active: once it was closed (over an instance given up as an orphan,
\* or by a check of rows that have changed since) a launcher that is still at work
\* finds no active session and completes its row without an analysis.
\* (It fails when a launcher started for another session works on the machine too,
\* when a deleted session is submitted again, and beside an active session that only
\* collects.)
CompleteMeansAnalyzed == \A s \in Session \ CollectOnly, i \in Instance :
  session[s] = "Active" /\ row[s][i].st = "Complete" /\ row[s][i].logs # 0 => row[s][i].reports

\* "If we found a single instance in an Active/Analyzing/AnalysisQueued state,
\* return"; "the other instances are yet to pick up the session so return": a
\* session becomes Complete only when every requested instance was done with,
\* whoever checks and whatever is written between its reads.  (An instance may
\* have been taken back to Active since, by a second launcher or a late one.)
CompleteWhenAllIn == [][\A s \in Session :
  session[s] # "Complete" /\ session'[s] = "Complete" => Targets[s] \subseteq finished[s]]_vars

\* A second id is refused while a session is active ("reject the request to
\* create a new session").
AtMostOneActive == \A s, u \in Session :
  session[s] = "Active" /\ session[u] = "Active" => s = u

\* However requests, launchers and runners interleave, crash or hang, a session
\* is closed in the end.
EventuallyClosed == \A s \in Session : session[s] = "Active" ~> session[s] # "Active"

\* A queued analysis is picked up by the runner and finished, unless the session
\* is closed over it, another launcher of the machine collects again, or a process
\* crashed (a runner that restarts does not resume an analysis under way).
QueuedIsAnalyzed == \A s \in Session, i \in Instance :
  row[s][i].st = "AnalysisQueued" ~>
    row[s][i].st \in {"Complete", "Active"} \/ session[s] # "Active" \/ crashes > 0

=============================================================================
