------------------------- MODULE TableSessionProofs -------------------------
(***************************************************************************)
(* Theorems about TableSession, for every set of machines, every number of *)
(* sessions and every bound on requests, deletions and crashes.            *)
(***************************************************************************)
EXTENDS TableSession, FiniteSetTheorems, TLAPS, WellFoundedInduction

\* GetActiveSessionAsync returns a session that is Active, null if there is none.
LEMMA ActiveSessionIsActive ==
  /\ GetActiveSession \in 0..MaxSession
  /\ GetActiveSession # 0 => GetActiveSession \in Session /\ session[GetActiveSession] = "Active"
  /\ GetActiveSession = 0 => \A s \in Session : session[s] # "Active"
<1> DEFINE active == {s \in Session : session[s] = "Active"}
<1>1. CASE active = {}
  BY <1>1, ParametersAssumption DEF GetActiveSession
<1>2. CASE active # {}
  <2>1. active \subseteq Nat
    BY ParametersAssumption DEF Session
  <2>2. PICK x \in active : \A y \in active : ~(<<y, x>> \in OpToRel(<, Nat))
    BY <1>2, <2>1, WFMin, NatLessThanWellFounded
  <2>3. \A y \in active : ~(y < x)
    <3> SUFFICES ASSUME NEW y \in active, y < x PROVE FALSE
      OBVIOUS
    <3>1. <<y, x>> \in {ss \in Nat \X Nat : ss[1] < ss[2]}
      BY <2>1
    <3> QED
      BY <2>2, <3>1, Zenon DEF OpToRel
  <2>4. x \in active /\ \A u \in active : x <= u
    BY <2>1, <2>3
  <2>5. GetActiveSession = CHOOSE s \in active : \A u \in active : s <= u
    BY <1>2 DEF GetActiveSession
  <2>6. GetActiveSession \in active
    BY <2>4, <2>5
  <2> QED
    BY <2>6, ParametersAssumption DEF Session
<1> QED
  BY <1>1, <1>2

-----------------------------------------------------------------------------
(* An agent has a session to work on, except before a DiagLauncher picked one *)
(* and after an agent ended.                                                  *)

Working == {r \in AgentState : r.sid \in Session}
Idle == {r \in AgentState : r.pc \in {"off", "start", "run", "done"} /\ ~r.auto}
GoodState == Working \cup Idle

-----------------------------------------------------------------------------
(* The operators that update the locals of an agent keep their type *)

\* Session number 0, for null, is in range.
LEMMA ZeroInRange == 0 \in 0..MaxSession
BY ParametersAssumption

\* So is every session.
LEMMA SessionInRange == ASSUME NEW s \in Session PROVE s \in 0..MaxSession
BY ParametersAssumption DEF Session

\* An empty row and an agent that is off are well typed.
LEMMA OffType ==
  /\ NoRow \in Row
  /\ Off \in Idle
  /\ [Off EXCEPT !.pc = "start"] \in Idle
  /\ [Off EXCEPT !.pc = "done"] \in Idle
<1>1. NoRow \in Row
  BY ZeroInRange DEF NoRow, Row, RowStatus
<1> QED
  BY <1>1, ZeroInRange DEF Off, Idle, AgentState, PC, Update

\* A change of the control state alone keeps the type.
LEMMA GotoType ==
  ASSUME NEW r \in Working, NEW p \in PC
  PROVE  [r EXCEPT !.pc = p] \in Working
BY DEF Working, AgentState

\* An agent that ends has well typed locals.
LEMMA EndedType == ASSUME NEW a PROVE Ended(a) \in Idle
BY OffType DEF Ended

\* The call of a row update keeps the type of the caller's locals.
LEMMA CallingType ==
  ASSUME NEW r \in Working, NEW o \in Update
  PROVE  Calling(r, o) \in Working
BY OffType DEF Calling, Working, AgentState, PC

\* Recording which session's logs are to be written keeps the type.
LEMMA LogsType ==
  ASSUME NEW r \in Working, NEW s \in 0..MaxSession
  PROVE  [r EXCEPT !.logs = s] \in Working
BY DEF Working, AgentState

\* After collection an agent calls one of two updates.
LEMMA CollectedType ==
  ASSUME NEW r \in Working
  PROVE  Collected(r) \in Working
BY CallingType DEF Collected, Update

\* What follows an update of an instance row is well typed.
LEMMA AfterUpdateType ==
  ASSUME NEW a, NEW r \in Working
  PROVE  AfterUpdate(a, r) \in GoodState
<1>1. r.op \in Update
  BY DEF Working, AgentState
<1>2. CASE r.op = "Started"
  <2>1. [r EXCEPT !.todo = FALSE] \in Working
    BY DEF Working, AgentState
  <2>2. Calling([r EXCEPT !.todo = FALSE], "Collecting") \in Working
    BY <2>1, CallingType DEF Update
  <2> QED
    BY <1>2, <2>2, CollectedType DEF AfterUpdate, GoodState
<1>3. CASE r.op \in {"Collecting", "Analyzing"}
  BY <1>3, GotoType DEF AfterUpdate, PC, GoodState
<1>4. CASE r.op = "Logs"
  BY <1>4, CollectedType, LogsType, ZeroInRange DEF AfterUpdate, GoodState
<1>5. CASE r.op = "AnalysisQueued"
  BY <1>5, EndedType DEF AfterUpdate, GoodState
<1>6. CASE r.op = "Reports"
  <2>1. Calling([r EXCEPT !.logs = 0], "Complete") \in Working
    BY CallingType, LogsType, ZeroInRange DEF Update
  <2> QED
    BY <1>6, <2>1 DEF AfterUpdate, GoodState
<1>7. CASE r.op = "Complete"
  <2>1. [r EXCEPT !.pc = "active", !.ret = "end"] \in Working
    BY DEF Working, AgentState, PC
  <2> QED
    BY <1>7, <2>1 DEF AfterUpdate, GoodState
<1> QED
  BY <1>1, <1>2, <1>3, <1>4, <1>5, <1>6, <1>7 DEF Update

\* Every update writes a well typed row.
LEMMA UpdatedRowType ==
  ASSUME NEW r \in AgentState
  PROVE  UpdatedRow(r) \in Row
<1>1. r.op \in Update /\ r.hold \in Row /\ r.logs \in 0..MaxSession
  BY DEF AgentState
<1>2. CASE r.op \in {"Started", "Collecting"}
  BY <1>1, <1>2 DEF UpdatedRow, Row, RowStatus, Busy
<1>3. CASE r.op \in {"AnalysisQueued", "Analyzing", "Complete"}
  BY <1>1, <1>3 DEF UpdatedRow, Row, RowStatus, Busy, Closed
<1>4. CASE r.op \in {"Logs", "Reports"}
  BY <1>1, <1>4 DEF UpdatedRow, Row
<1> QED
  BY <1>1, <1>2, <1>3, <1>4 DEF Update

\* The cleanup part of the loop calls the completion check with well typed locals.
LEMMA CheckLimitsType ==
  ASSUME NEW r \in Working
  PROVE  CheckLimits(r) \in Working
BY DEF CheckLimits, Working, AgentState, PC

\* A snapshot of a session is well typed.
LEMMA SnapshotType ==
  ASSUME NEW s \in Session, NEW i
  PROVE  Snapshot(s, i) \in Working
<1>1. ShouldAnalyzeOnCurrentInstance(s, i) \in BOOLEAN
  BY DEF ShouldAnalyzeOnCurrentInstance
<1> QED
  BY <1>1, OffType, SessionInRange DEF Snapshot, Working, Idle, AgentState

\* CheckandCompleteSessionIfNeededAsync returns to each of its callers.
LEMMA ReturnedType ==
  ASSUME NEW a \in Agent, agent[a] \in Working, NEW done
  PROVE  Returned(a, done) \in GoodState
<1> DEFINE r == [agent[a] EXCEPT !.cur = 0]
<1>1. r \in Working
  BY ZeroInRange DEF Working, AgentState
<1>2. r.ret \in {"end", "orphans", "force", "check"}
  BY <1>1 DEF Working, AgentState
<1>3. /\ [r EXCEPT !.pc = "reread", !.ret = "end"] \in Working
      /\ [r EXCEPT !.pc = "decide", !.ret = "end"] \in Working
  BY <1>1 DEF Working, AgentState, PC
<1>4. Returned(a, done) =
        CASE r.ret = "end"     -> Ended(a)
          [] r.ret = "orphans" -> [r EXCEPT !.pc = "reread", !.ret = "end"]
          [] r.ret = "force"   -> Off
          [] r.ret = "check"   -> IF done THEN Off ELSE [r EXCEPT !.pc = "decide", !.ret = "end"]
  BY DEF Returned
<1> HIDE DEF r
<1> QED
  BY <1>2, <1>3, <1>4, EndedType, OffType DEF GoodState

-----------------------------------------------------------------------------
(* The invariant *)

\* Only a closed session is being deleted.
DeletesClosed ==
  deletion.pc # "off" => deletion.sid \in Session /\ session[deletion.sid] \in Closed

SessionsKnown == agent \in [Agent -> GoodState]

IInv == TypeOK /\ SessionsKnown /\ OneLauncher /\ DeletesClosed

\* What a step leaves behind for the invariant: the launchers are well typed and
\* none but one that found itself alone has got past its check.
StillBefore(b) ==
  b[2] = "launcher" /\ agent[b].pc \in {"off", "start"} => agent'[b].pc \in {"off", "start"}

\* If no launcher gets past the check, one at most stays past it.
LEMMA NobodyPasses ==
  ASSUME OneLauncher, \A b \in Agent : StillBefore(b)
  PROVE  OneLauncher'
<1> SUFFICES ASSUME NEW i \in Instance, NEW j \in Slot, NEW k \in Slot,
                    {agent'[Launcher(i, j)].pc, agent'[Launcher(i, k)].pc} \cap {"off", "start"} = {}
             PROVE  j = k
  BY DEF OneLauncher
<1>1. /\ Launcher(i, j) \in Agent /\ Launcher(i, j)[2] = "launcher"
      /\ Launcher(i, k) \in Agent /\ Launcher(i, k)[2] = "launcher"
  BY DEF Agent, Launcher
<1>2. {agent[Launcher(i, j)].pc, agent[Launcher(i, k)].pc} \cap {"off", "start"} = {}
  BY <1>1 DEF StillBefore
<1> QED
  BY <1>2 DEF OneLauncher

\* The machine of an agent is an instance.
LEMMA MachineOfAgent == ASSUME NEW a \in Agent PROVE a[1] \in Instance
BY ParametersAssumption DEF Agent, Kudu, Launcher, Loop, AnalysisTask

\* An agent in the middle of its work has a session.
LEMMA BusyIsWorking ==
  ASSUME IInv, NEW a \in Agent, agent[a].pc \notin {"off", "start", "run", "done"}
  PROVE  agent[a] \in Working
BY DEF IInv, SessionsKnown, GoodState, Idle

\* Whatever an agent is doing its locals are well typed.
LEMMA GoodIsTyped ==
  /\ GoodState \subseteq AgentState
  /\ [Agent -> GoodState] \subseteq [Agent -> AgentState]
BY DEF GoodState, Working, Idle

\* A step of one agent that was past the check already, or has none to pass.
LEMMA BecomeStep ==
  ASSUME SessionsKnown, NEW a \in Agent, NEW r \in GoodState, Become(a, r),
         \/ agent[a].pc \notin {"off", "start"}
         \/ r.pc \in {"off", "start"}
         \/ a[2] # "launcher"
  PROVE  /\ agent' \in [Agent -> GoodState]
         /\ \A b \in Agent : StillBefore(b)
<1>1. agent \in [Agent -> GoodState]
  BY DEF SessionsKnown
<1>2. \A b \in Agent : agent'[b] = IF b = a THEN r ELSE agent[b]
  BY <1>1 DEF Become
<1> QED
  BY <1>1, <1>2 DEF Become, StillBefore

\* Writing a row outdates copies of it and changes no control state.
LEMMA OutdatedType ==
  ASSUME SessionsKnown, NEW W
  PROVE  /\ Outdated(W) \in [Agent -> GoodState]
         /\ \A b \in Agent : Outdated(W)[b].pc = agent[b].pc
<1> SUFFICES ASSUME NEW b \in Agent
             PROVE  Outdated(W)[b] \in GoodState /\ Outdated(W)[b].pc = agent[b].pc
  BY DEF Outdated
<1>1. agent[b] \in GoodState
  BY DEF SessionsKnown
<1>2. [agent[b] EXCEPT !.etag = FALSE] \in GoodState
  BY <1>1 DEF GoodState, Working, Idle, AgentState
<1>3. [agent[b] EXCEPT !.etag = FALSE].pc = agent[b].pc
  BY <1>1 DEF GoodState, Working, Idle, AgentState
<1> QED
  BY <1>1, <1>2, <1>3 DEF Outdated

\* A step that leaves the tables, the deletion and the counters alone.
LEMMA LocalStep ==
  ASSUME IInv, UNCHANGED <<tables, deletion, envVars>>,
         agent' \in [Agent -> GoodState], \A b \in Agent : StillBefore(b)
  PROVE  IInv'
<1>1. OneLauncher'
  BY NobodyPasses DEF IInv
<1> QED
  BY <1>1, GoodIsTyped DEF IInv, SessionsKnown, TypeOK, DeletesClosed, tables, rows, envVars

\* The same for a step of one agent.
LEMMA LocalBecome ==
  ASSUME IInv, NEW a \in Agent, NEW r \in GoodState, Become(a, r),
         UNCHANGED <<tables, deletion, envVars>>,
         \/ agent[a].pc \notin {"off", "start"}
         \/ r.pc \in {"off", "start"}
         \/ a[2] # "launcher"
  PROVE  IInv'
BY BecomeStep, LocalStep DEF IInv

-----------------------------------------------------------------------------
(* Submission *)

\* A free slot of a machine is one of its launchers.
LEMMA FreeSlotType ==
  ASSUME NEW a \in Agent, FreeSlots(a[1]) # {}
  PROVE  Launcher(a[1], CHOOSE k \in FreeSlots(a[1]) : TRUE) \in Agent
<1>1. (CHOOSE k \in FreeSlots(a[1]) : TRUE) \in Slot
  BY DEF FreeSlots
<1>2. \A i \in Instance, k \in Slot : Launcher(i, k) \in Agent
  BY DEF Agent
<1> QED
  BY <1>1, <1>2, MachineOfAgent

\* After a submission nobody is past the check of a DiagLauncher who was not.
LEMMA SubmittedStep ==
  ASSUME SessionsKnown, NEW a \in Agent, agent[a] \in Working,
         agent[a].pc \notin {"off", "start"}, Submitted(a)
  PROVE  /\ agent' \in [Agent -> GoodState]
         /\ \A b \in Agent : StillBefore(b)
<1> DEFINE free == FreeSlots(a[1])
           l == Launcher(a[1], CHOOSE k \in free : TRUE)
           new == [Off EXCEPT !.pc = "start"]
<1>1. agent \in [Agent -> GoodState]
  BY DEF SessionsKnown
<1>2. CASE a[2] = "launcher"
  <2>1. [agent[a] EXCEPT !.pc = "run"] \in GoodState
    BY GotoType DEF PC, GoodState
  <2> QED
    BY <1>2, <2>1, BecomeStep DEF Submitted
<1>3. CASE a[2] # "launcher" /\ free = {}
  BY <1>3, OffType, BecomeStep DEF Submitted, End, GoodState
<1>4. CASE a[2] # "launcher" /\ free # {}
  <2>1. agent' = [agent EXCEPT ![a] = Off, ![l] = new]
    BY <1>4 DEF Submitted
  <2>2. new \in GoodState /\ Off \in GoodState
    BY OffType DEF GoodState
  <2>3. l \in Agent
    BY <1>4, FreeSlotType
  <2>4. new.pc = "start" /\ Off.pc = "off"
    BY DEF Off
  <2> HIDE DEF l, new
  <2>5. \A b \in Agent : agent'[b] = IF b = l THEN new ELSE IF b = a THEN Off ELSE agent[b]
    BY <1>1, <2>1
  <2>6. agent' \in [Agent -> GoodState]
    BY <1>1, <2>1, <2>2, <2>3
  <2> QED
    BY <2>4, <2>5, <2>6 DEF StillBefore
<1> QED
  BY <1>2, <1>3, <1>4

\* A request arrives.
LEMMA PostInv ==
  ASSUME IInv, NEW i \in Instance, NEW s \in Session, Post(i, s)
  PROVE  IInv'
<1> DEFINE r == [Off EXCEPT !.pc = "query", !.sid = s]
<1>1. Kudu(i) \in Agent /\ Kudu(i)[2] # "launcher"
  BY DEF Agent, Kudu
<1>2. r \in GoodState
  BY OffType, SessionInRange DEF GoodState, Working, Idle, AgentState, PC
<1>3. TypeOK /\ SessionsKnown
  BY DEF IInv
<1>4. agent' \in [Agent -> GoodState] /\ \A b \in Agent : StillBefore(b)
  BY <1>1, <1>2, <1>3, BecomeStep DEF Post
<1>5. OneLauncher'
  BY <1>4, NobodyPasses DEF IInv
<1>6. posts' \in [Session -> Nat]
  BY <1>3 DEF Post, TypeOK
<1> QED
  BY <1>4, <1>5, <1>6, GoodIsTyped DEF IInv, SessionsKnown, TypeOK, DeletesClosed, Post, tables, rows

\* Auto-heal starts a DiagLauncher in a free slot.
LEMMA AutoHealInv ==
  ASSUME IInv, NEW i \in Instance, NEW s \in Session, NEW k \in Slot, AutoHeal(i, s, k)
  PROVE  IInv'
<1> DEFINE r == [Off EXCEPT !.pc = "start", !.sid = s, !.auto = TRUE]
<1>1. Launcher(i, k) \in Agent
  BY DEF Agent
<1>2. r \in GoodState /\ r.pc = "start"
  BY OffType, SessionInRange DEF GoodState, Working, Idle, AgentState, PC
<1>3. TypeOK /\ SessionsKnown
  BY DEF IInv
<1>4. agent' \in [Agent -> GoodState] /\ \A b \in Agent : StillBefore(b)
  BY <1>1, <1>2, <1>3, BecomeStep DEF AutoHeal
<1>5. OneLauncher'
  BY <1>4, NobodyPasses DEF IInv
<1>6. posts' \in [Session -> Nat]
  BY <1>3 DEF AutoHeal, TypeOK
<1> QED
  BY <1>4, <1>5, <1>6, GoodIsTyped DEF IInv, SessionsKnown, TypeOK, DeletesClosed, AutoHeal, tables, rows

\* The query for an active session.
LEMMA QueryActiveSessionInv ==
  ASSUME IInv, NEW a \in Agent, NEW throttled \in BOOLEAN, QueryActiveSession(a, throttled)
  PROVE  IInv'
<1>1. SessionsKnown /\ agent[a] \in Working
  BY BusyIsWorking DEF IInv, QueryActiveSession
<1>2. agent[a].pc \notin {"off", "start"} /\ UNCHANGED <<tables, deletion, envVars>>
  BY DEF QueryActiveSession
<1>3. CASE End(a)
  BY <1>2, <1>3, OffType, LocalBecome DEF End, GoodState
<1>4. CASE Submitted(a)
  BY <1>1, <1>2, <1>4, SubmittedStep, LocalStep
<1>5. CASE Become(a, [agent[a] EXCEPT !.pc = "add"])
  <2>1. [agent[a] EXCEPT !.pc = "add"] \in GoodState
    BY <1>1, GotoType DEF PC, GoodState
  <2> QED
    BY <1>2, <1>5, <2>1, LocalBecome
<1> QED
  BY <1>3, <1>4, <1>5 DEF QueryActiveSession

\* The insertion of the row of the session.
LEMMA AddSessionEntityInv ==
  ASSUME IInv, NEW a \in Agent, AddSessionEntity(a)
  PROVE  IInv'
<1> DEFINE s == agent[a].sid
<1>1. TypeOK /\ SessionsKnown /\ agent[a] \in Working
  BY BusyIsWorking DEF IInv, AddSessionEntity
<1>2. agent[a].pc \notin {"off", "start"}
  BY DEF AddSessionEntity
<1>3. CASE session[s] = Absent
  <2>1. /\ session' = [session EXCEPT ![s] = "Active"]
        /\ age' = [age EXCEPT ![s] = 0]
        /\ Submitted(a)
    BY <1>3 DEF AddSessionEntity, AddSession
  <2>2. agent' \in [Agent -> GoodState] /\ \A b \in Agent : StillBefore(b)
    BY <1>1, <1>2, <2>1, SubmittedStep
  <2>3. OneLauncher'
    BY <2>2, NobodyPasses DEF IInv
  <2>4. session' \in [Session -> {"Active", Absent} \cup Closed]
    BY <1>1, <2>1 DEF TypeOK
  <2>5. age' \in [Session -> 0..2]
    <3>1. age \in [Session -> 0..2] /\ age' = [age EXCEPT ![s] = 0]
      BY <1>1, <2>1 DEF TypeOK
    <3>2. \A u \in Session : age'[u] \in 0..2
      BY <3>1
    <3> QED
      BY <3>1, <3>2
  <2>6. DeletesClosed'
    BY <1>3, <2>1 DEF IInv, DeletesClosed, AddSessionEntity, Closed, Absent
  <2> QED
    BY <1>1, <2>2, <2>3, <2>4, <2>5, <2>6, GoodIsTyped
       DEF IInv, SessionsKnown, TypeOK, AddSessionEntity, rows
<1>4. CASE session[s] # Absent
  <2>1. [agent[a] EXCEPT !.pc = "conflict"] \in GoodState
    BY <1>1, GotoType DEF PC, GoodState
  <2> QED
    BY <1>2, <1>4, <2>1, LocalBecome DEF AddSessionEntity, AddSession, tables, rows, envVars
<1> QED
  BY <1>3, <1>4

\* The answer to a conflict.
LEMMA IsSameSessionInv ==
  ASSUME IInv, NEW a \in Agent, IsSameSession(a)
  PROVE  IInv'
<1>1. /\ SessionsKnown /\ agent[a] \in Working
      /\ agent[a].pc \notin {"off", "start"} /\ UNCHANGED <<tables, deletion, envVars>>
  BY BusyIsWorking DEF IInv, IsSameSession
<1>2. CASE End(a)
  BY <1>1, <1>2, OffType, LocalBecome DEF End, GoodState
<1>3. CASE Submitted(a)
  BY <1>1, <1>3, SubmittedStep, LocalStep
<1> QED
  BY <1>2, <1>3 DEF IsSameSession

-----------------------------------------------------------------------------
(* DiagLauncher *)

\* The check for other DiagLauncher processes: whoever passes it was alone.
LEMMA ThrowIfMultipleInv ==
  ASSUME IInv, NEW a \in Agent, ThrowIfMultipleDiagLauncherRunning(a)
  PROVE  IInv'
<1>1. agent \in [Agent -> GoodState] /\ agent[a] \in GoodState
  BY DEF IInv, SessionsKnown
<1>2. agent[a].pc = "start" /\ UNCHANGED <<tables, deletion, envVars>>
  BY DEF ThrowIfMultipleDiagLauncherRunning
<1>3. CASE ~NoOtherLauncher(a)
  <2>1. Become(a, Off) /\ Off.pc = "off"
    BY <1>3 DEF ThrowIfMultipleDiagLauncherRunning, End, Off
  <2> QED
    BY <1>2, <2>1, OffType, LocalBecome DEF GoodState
<1>4. CASE NoOtherLauncher(a)
  <2> DEFINE r == [agent[a] EXCEPT !.pc = IF agent[a].auto THEN "query" ELSE "run"]
  <2>1. agent' = [agent EXCEPT ![a] = r]
    BY <1>4 DEF ThrowIfMultipleDiagLauncherRunning, Become
  <2>2. r \in GoodState
    BY <1>1, <1>2 DEF GoodState, Working, Idle, AgentState, PC
  <2> HIDE DEF r
  <2>3. agent' \in [Agent -> GoodState]
    BY <1>1, <2>1, <2>2
  <2>4. OneLauncher'
    <3> SUFFICES ASSUME NEW i \in Instance, NEW j \in Slot, NEW k \in Slot,
                        {agent'[Launcher(i, j)].pc, agent'[Launcher(i, k)].pc}
                          \cap {"off", "start"} = {}
                 PROVE  j = k
      BY DEF OneLauncher
    <3>1. Launcher(i, j) \in Agent /\ Launcher(i, k) \in Agent
      BY DEF Agent
    <3>2. \A b \in Agent : b # a => agent'[b] = agent[b]
      BY <1>1, <2>1
    <3>3. ASSUME NEW m \in Slot, NEW n \in Slot, Launcher(i, m) = a,
                 agent'[Launcher(i, n)].pc \notin {"off", "start"}
          PROVE  n = m
      <4> SUFFICES ASSUME n # m PROVE FALSE
        OBVIOUS
      <4>1. a[1] = i /\ Launcher(i, n) # a
        BY <3>3 DEF Launcher
      <4>2. agent[Launcher(i, n)].pc = "off"
        BY <1>4, <4>1 DEF NoOtherLauncher
      <4>3. Launcher(i, n) \in Agent
        BY DEF Agent
      <4> QED
        BY <3>2, <3>3, <4>1, <4>2, <4>3
    <3>4. CASE Launcher(i, j) # a /\ Launcher(i, k) # a
      BY <3>1, <3>2, <3>4 DEF IInv, OneLauncher
    <3> QED
      BY <3>3, <3>4
  <2> QED
    BY <1>2, <2>3, <2>4, GoodIsTyped
       DEF IInv, SessionsKnown, TypeOK, DeletesClosed, tables, rows, envVars
<1> QED
  BY <1>3, <1>4

\* The start of a collection.
LEMMA RunActiveSessionInv ==
  ASSUME IInv, NEW a \in Agent, RunActiveSession(a)
  PROVE  IInv'
<1> DEFINE x == GetActiveSession
           i == a[1]
           r == [agent[a] EXCEPT !.sid = x, !.todo = ShouldCollect(row[x][i].st)]
<1>1. agent[a] \in AgentState
  BY DEF IInv, TypeOK
<1>2. agent[a].pc = "run" /\ UNCHANGED <<tables, deletion, envVars>>
  BY DEF RunActiveSession
<1>3. CASE End(a)
  BY <1>2, <1>3, OffType, LocalBecome DEF End, GoodState
<1>4. CASE x # 0 /\ Become(a, Calling(r, "Started"))
  <2>1. ShouldCollect(row[x][i].st) \in BOOLEAN /\ x \in Session /\ x \in 0..MaxSession
    BY <1>4, ActiveSessionIsActive DEF ShouldCollect
  <2>2. r \in Working
    BY <1>1, <2>1 DEF Working, AgentState
  <2>3. Calling(r, "Started") \in GoodState
    BY <2>2, CallingType DEF Update, GoodState
  <2> QED
    BY <1>2, <1>4, <2>3, LocalBecome
<1> QED
  BY <1>3, <1>4 DEF RunActiveSession

\* The end of a collection.
LEMMA CollectInv ==
  ASSUME IInv, NEW a \in Agent, NEW ok \in BOOLEAN, Collect(a, ok)
  PROVE  IInv'
<1> DEFINE r == [agent[a] EXCEPT !.logs = IF ok THEN agent[a].sid ELSE 0]
<1>1. agent[a] \in Working /\ agent[a].sid \in 0..MaxSession
  BY BusyIsWorking, SessionInRange DEF Collect, Working
<1>2. r \in Working
  BY <1>1, LogsType, ZeroInRange
<1>3. Calling(r, "Logs") \in GoodState
  BY <1>2, CallingType DEF Update, GoodState
<1> QED
  BY <1>3, LocalBecome DEF Collect

-----------------------------------------------------------------------------
(* Updates of an instance row and analysis *)

\* The read of a row update.
LEMMA ReadRowInv ==
  ASSUME IInv, NEW a \in Agent, ReadRow(a)
  PROVE  IInv'
<1> DEFINE r == agent[a]
           e == row[r.sid][a[1]]
<1>1. r \in Working /\ a[1] \in Instance /\ row \in [Session -> [Instance -> Row]]
  BY MachineOfAgent, BusyIsWorking DEF IInv, TypeOK, ReadRow
<1>2. r.pc \notin {"off", "start"} /\ UNCHANGED <<tables, deletion, envVars>>
  BY DEF ReadRow
<1>3. CASE Become(a, Ended(a))
  BY <1>2, <1>3, EndedType, LocalBecome DEF GoodState
<1>4. CASE Become(a, [r EXCEPT !.pc = "put", !.hold = e, !.etag = TRUE])
  <2>1. e \in Row
    BY <1>1 DEF Working
  <2>2. [r EXCEPT !.pc = "put", !.hold = e, !.etag = TRUE] \in GoodState
    BY <1>1, <2>1 DEF GoodState, Working, AgentState, PC
  <2> QED
    BY <1>2, <1>4, <2>2, LocalBecome
<1> QED
  BY <1>3, <1>4 DEF ReadRow

\* A machine more or no more: the history keeps its type.
LEMMA FinishType ==
  ASSUME finished \in [Session -> SUBSET Instance], NEW s, NEW i \in Instance
  PROVE  Finish(s, i) \in [Session -> SUBSET Instance]
BY DEF Finish

\* The write of a row update.
LEMMA PutRowInv ==
  ASSUME IInv, NEW a \in Agent, PutRow(a)
  PROVE  IInv'
<1> DEFINE r == agent[a]
           i == a[1]
           W == {<<r.sid, i>>}
           back == AfterUpdate(a, [r EXCEPT !.hold = NoRow, !.etag = FALSE])
<1>1. /\ r \in Working /\ r \in AgentState /\ r.pc \notin {"off", "start"}
      /\ SessionsKnown /\ TypeOK
      /\ UNCHANGED <<session, deletion, envVars>>
  BY BusyIsWorking, GoodIsTyped DEF IInv, PutRow, GoodState
<1>2. CASE MayWrite(r, i)
  <2>1. /\ row' = [row EXCEPT ![r.sid][i] = UpdatedRow(r)]
        /\ agent' = [Outdated(W) EXCEPT ![a] = back]
        /\ finished' \in {Finish(r.sid, i), finished}
    BY <1>2 DEF PutRow
  <2>2. back \in GoodState
    <3>1. [r EXCEPT !.hold = NoRow, !.etag = FALSE] \in Working
      BY <1>1, OffType DEF Working, AgentState
    <3> QED
      BY <3>1, AfterUpdateType
  <2>3. Outdated(W) \in [Agent -> GoodState] /\ \A b \in Agent : Outdated(W)[b].pc = agent[b].pc
    BY <1>1, OutdatedType
  <2>4. row' \in [Session -> [Instance -> Row]]
    <3>1. UpdatedRow(r) \in Row /\ row \in [Session -> [Instance -> Row]]
      BY <1>1, UpdatedRowType DEF TypeOK
    <3> HIDE DEF r, i
    <3> QED
      BY <2>1, <3>1
  <2> HIDE DEF back, W
  <2>5. agent' \in [Agent -> GoodState]
    BY <2>1, <2>2, <2>3
  <2>6. \A b \in Agent : StillBefore(b)
    BY <1>1, <2>1, <2>3 DEF StillBefore
  <2>7. OneLauncher'
    BY <2>6, NobodyPasses DEF IInv
  <2>8. finished' \in [Session -> SUBSET Instance]
    BY <1>1, <2>1, MachineOfAgent, FinishType DEF TypeOK
  <2> QED
    BY <1>1, <2>4, <2>5, <2>7, <2>8, GoodIsTyped
       DEF IInv, SessionsKnown, TypeOK, DeletesClosed, envVars
<1>3. CASE ~MayWrite(r, i)
  <2>1. Become(a, Ended(a)) /\ UNCHANGED <<tables, deletion, envVars>>
    BY <1>3 DEF PutRow, tables, rows
  <2> QED
    BY <1>1, <2>1, EndedType, LocalBecome DEF GoodState
<1> QED
  BY <1>2, <1>3

\* The analysis of the logs of the active session.
LEMMA AnalyzeLogsInv ==
  ASSUME IInv, NEW a \in Agent, AnalyzeLogs(a)
  PROVE  IInv'
<1> DEFINE r == agent[a]
           x == GetActiveSession
           l == row[x][a[1]].logs
<1>1. /\ r \in Working /\ r.pc \notin {"off", "start"}
      /\ UNCHANGED <<tables, deletion, envVars>>
  BY BusyIsWorking DEF AnalyzeLogs
<1>2. CASE Become(a, Calling(r, "Complete"))
  <2>1. Calling(r, "Complete") \in GoodState
    BY <1>1, CallingType DEF Update, GoodState
  <2> QED
    BY <1>1, <1>2, <2>1, LocalBecome
<1>3. CASE Become(a, Ended(a))
  BY <1>1, <1>3, EndedType, LocalBecome DEF GoodState
<1>4. CASE x # 0 /\ Become(a, Calling([r EXCEPT !.logs = l], "Reports"))
  <2>1. x \in Session /\ a[1] \in Instance /\ row \in [Session -> [Instance -> Row]]
    BY <1>4, ActiveSessionIsActive, MachineOfAgent DEF IInv, TypeOK
  <2>2. l \in 0..MaxSession
    <3> HIDE DEF x
    <3> QED
      BY <2>1 DEF Row
  <2>3. Calling([r EXCEPT !.logs = l], "Reports") \in GoodState
    <3> HIDE DEF l, r
    <3>1. [r EXCEPT !.logs = l] \in Working
      BY <1>1, <2>2, LogsType
    <3> QED
      BY <3>1, CallingType DEF Update, GoodState
  <2> QED
    BY <1>1, <1>4, <2>3, LocalBecome
<1> QED
  BY <1>2, <1>3, <1>4 DEF AnalyzeLogs

-----------------------------------------------------------------------------
(* Completion *)

\* The read of the active session that is to be completed.
LEMMA ReadActiveInv ==
  ASSUME IInv, NEW a \in Agent, ReadActive(a)
  PROVE  IInv'
<1> DEFINE x == GetActiveSession
           r == [agent[a] EXCEPT !.pc = "rows", !.cur = x]
<1>1. /\ agent[a] \in Working /\ agent[a].pc \notin {"off", "start"}
      /\ UNCHANGED <<tables, deletion, envVars>>
  BY BusyIsWorking DEF ReadActive
<1>2. CASE Become(a, Returned(a, TRUE))
  BY <1>1, <1>2, ReturnedType, LocalBecome
<1>3. CASE Become(a, r)
  <2>1. x \in 0..MaxSession
    BY ActiveSessionIsActive
  <2>2. r \in GoodState
    BY <1>1, <2>1 DEF GoodState, Working, AgentState, PC
  <2> QED
    BY <1>1, <1>3, <2>2, LocalBecome
<1> QED
  BY <1>2, <1>3 DEF ReadActive

\* The look at its instances.
LEMMA ReadRowsInv ==
  ASSUME IInv, NEW a \in Agent, ReadRows(a)
  PROVE  IInv'
<1>1. /\ agent[a] \in Working /\ agent[a].pc \notin {"off", "start"}
      /\ UNCHANGED <<tables, deletion, envVars>>
  BY BusyIsWorking DEF ReadRows
<1>2. CASE Become(a, Returned(a, FALSE))
  BY <1>1, <1>2, ReturnedType, LocalBecome
<1>3. CASE Become(a, [agent[a] EXCEPT !.pc = "close"])
  BY <1>1, <1>3, GotoType, LocalBecome DEF PC, GoodState
<1> QED
  BY <1>2, <1>3 DEF ReadRows

\* The update of its status: what was closed stays closed.
LEMMA CloseSessionInv ==
  ASSUME IInv, NEW a \in Agent, CloseSession(a)
  PROVE  IInv'
<1> DEFINE c == agent[a].cur
           st == IF session[c] = Absent THEN Absent
                 ELSE IF agent[a].ret = "force" THEN "TimedOut" ELSE "Complete"
<1>1. /\ agent[a] \in Working /\ agent[a].pc \notin {"off", "start"}
      /\ SessionsKnown /\ TypeOK
      /\ session' = [session EXCEPT ![c] = st]
      /\ Become(a, Returned(a, TRUE))
      /\ UNCHANGED <<row, finished, deletion, envVars>>
  BY BusyIsWorking DEF CloseSession, IInv, rows
<1>2. agent' \in [Agent -> GoodState] /\ \A b \in Agent : StillBefore(b)
  BY <1>1, ReturnedType, BecomeStep
<1>3. OneLauncher'
  BY <1>2, NobodyPasses DEF IInv
<1>4. st \in {Absent} \cup Closed /\ (session[c] # Absent => st \in Closed)
  BY DEF Closed
<1> HIDE DEF st, c
<1>5. session' \in [Session -> {"Active", Absent} \cup Closed]
  BY <1>1, <1>4 DEF TypeOK
<1>6. DeletesClosed'
  BY <1>1, <1>4 DEF IInv, DeletesClosed, TypeOK, Closed, Absent
<1> QED
  BY <1>1, <1>2, <1>3, <1>5, <1>6, GoodIsTyped DEF IInv, SessionsKnown, TypeOK, envVars

-----------------------------------------------------------------------------
(* The loop of a runner *)

\* The start of a round.
LEMMA PollInv ==
  ASSUME IInv, NEW i \in Runner, NEW due \in BOOLEAN, Poll(i, due)
  PROVE  IInv'
<1> DEFINE a == Loop(i)
           x == GetActiveSession
           r == Snapshot(x, i)
<1>1. a \in Agent /\ a[2] # "launcher" /\ i \in Instance
  BY ParametersAssumption DEF Loop, Agent
<1>2. x \in Session
  BY ActiveSessionIsActive DEF Poll
<1>3. r \in Working
  BY <1>2, SnapshotType
<1>4. UNCHANGED <<tables, deletion, envVars>>
  BY DEF Poll
<1> HIDE DEF r
<1>5. CASE Become(a, [r EXCEPT !.pc = "decide"])
  <2>1. [r EXCEPT !.pc = "decide"] \in GoodState
    BY <1>3, GotoType DEF PC, GoodState
  <2> QED
    BY <1>1, <1>4, <1>5, <2>1, LocalBecome
<1>6. CASE Become(a, CheckLimits(r))
  <2>1. CheckLimits(r) \in GoodState
    BY <1>3, CheckLimitsType DEF GoodState
  <2> QED
    BY <1>1, <1>4, <1>6, <2>1, LocalBecome
<1>7. CASE Become(a, [r EXCEPT !.pc = "orphans", !.names = Orphans(x)])
  <2>1. Orphans(x) \subseteq Instance
    BY <1>2, ParametersAssumption DEF Orphans
  <2>2. [r EXCEPT !.pc = "orphans", !.names = Orphans(x)] \in GoodState
    BY <1>3, <2>1 DEF GoodState, Working, AgentState, PC
  <2> QED
    BY <1>1, <1>4, <1>7, <2>2, LocalBecome
<1> QED
  BY <1>5, <1>6, <1>7 DEF Poll, r

\* The addition of one orphan.
LEMMA CancelOrphanInv ==
  ASSUME IInv, NEW a \in Agent, NEW n \in Instance, CancelOrphan(a, n)
  PROVE  IInv'
<1> DEFINE r == agent[a]
           left == r.names \ {n}
           next == IF row[r.sid][n].st # Absent
                   THEN IF r.added THEN [r EXCEPT !.pc = "reread", !.names = {}]
                                   ELSE CheckLimits(r)
                   ELSE IF left # {} THEN [r EXCEPT !.names = left, !.added = TRUE]
                   ELSE [r EXCEPT !.pc = "active", !.ret = "orphans", !.names = {}, !.added = TRUE]
<1>1. /\ r \in Working /\ r.pc \notin {"off", "start"}
      /\ SessionsKnown /\ TypeOK
      /\ AddOrphan(r.sid, n)
      /\ finished' \in {Finish(r.sid, n), finished}
      /\ Become(a, next)
      /\ UNCHANGED <<session, deletion, envVars>>
  BY BusyIsWorking DEF CancelOrphan, IInv
<1>2. next \in GoodState
  <2>1. /\ [r EXCEPT !.pc = "reread", !.names = {}] \in Working
        /\ [r EXCEPT !.names = left, !.added = TRUE] \in Working
        /\ [r EXCEPT !.pc = "active", !.ret = "orphans", !.names = {}, !.added = TRUE] \in Working
    BY <1>1 DEF Working, AgentState, PC
  <2> QED
    BY <1>1, <2>1, CheckLimitsType DEF GoodState
<1> HIDE DEF next
<1>3. agent' \in [Agent -> GoodState] /\ \A b \in Agent : StillBefore(b)
  BY <1>1, <1>2, BecomeStep
<1>4. OneLauncher'
  BY <1>3, NobodyPasses DEF IInv
<1>5. row' \in [Session -> [Instance -> Row]]
  <2> DEFINE e == IF row[r.sid][n].st = Absent THEN [NoRow EXCEPT !.st = "TimedOut"]
                  ELSE row[r.sid][n]
  <2>1. r.sid \in Session /\ row \in [Session -> [Instance -> Row]]
    BY <1>1 DEF TypeOK, Working
  <2>2. [NoRow EXCEPT !.st = "TimedOut"] \in Row
    BY OffType DEF Row, RowStatus, Closed
  <2>3. e \in Row
    BY <2>1, <2>2
  <2>4. row' = [row EXCEPT ![r.sid][n] = e]
    BY <1>1 DEF AddOrphan
  <2> HIDE DEF e, r
  <2> QED
    BY <2>1, <2>3, <2>4
<1>6. finished' \in [Session -> SUBSET Instance]
  BY <1>1, FinishType DEF TypeOK
<1> QED
  BY <1>1, <1>3, <1>4, <1>5, <1>6, GoodIsTyped
     DEF IInv, SessionsKnown, TypeOK, DeletesClosed, envVars

\* The second read of the active session.
LEMMA RereadInv ==
  ASSUME IInv, NEW a \in Agent, Reread(a)
  PROVE  IInv'
<1> DEFINE x == GetActiveSession
<1>1. agent[a].pc \notin {"off", "start"} /\ UNCHANGED <<tables, deletion, envVars>>
  BY DEF Reread
<1>2. CASE Become(a, Off)
  BY <1>1, <1>2, OffType, LocalBecome DEF GoodState
<1>3. CASE x # 0 /\ Become(a, CheckLimits(Snapshot(x, a[1])))
  <2>1. x \in Session
    BY <1>3, ActiveSessionIsActive
  <2>2. CheckLimits(Snapshot(x, a[1])) \in GoodState
    BY <2>1, SnapshotType, CheckLimitsType DEF GoodState
  <2> QED
    BY <1>1, <1>3, <2>2, LocalBecome
<1> QED
  BY <1>2, <1>3 DEF Reread

\* The start of an analysis task.
LEMMA DecideInv ==
  ASSUME IInv, NEW a \in Agent, Decide(a)
  PROVE  IInv'
<1> DEFINE r == agent[a]
           t == AnalysisTask(a[1], r.sid)
           new == Calling([Off EXCEPT !.sid = r.sid], "Analyzing")
<1>1. /\ r \in Working /\ r.pc \notin {"off", "start"} /\ SessionsKnown
      /\ UNCHANGED <<tables, deletion, envVars>>
  BY BusyIsWorking DEF Decide, IInv
<1>2. Off \in GoodState /\ Off.pc = "off"
  BY OffType DEF GoodState, Off
<1>3. new \in GoodState
  <2>1. [Off EXCEPT !.sid = r.sid] \in Working
    BY <1>1, OffType, SessionInRange DEF Working, Idle, AgentState
  <2> QED
    BY <2>1, CallingType DEF Update, GoodState
<1>4. t[2] # "launcher"
  BY DEF AnalysisTask
<1> HIDE DEF new, t
<1>5. \A b \in Agent : agent'[b] \in {agent[b], Off} \/ (b = t /\ agent'[b] = new)
  BY <1>1 DEF Decide, SessionsKnown, t, new
<1>6. agent' \in [Agent -> GoodState]
  <2>1. DOMAIN agent' = Agent /\ agent' = [b \in Agent |-> agent'[b]]
    BY <1>1 DEF Decide, SessionsKnown
  <2> QED
    BY <1>1, <1>2, <1>3, <1>5, <2>1 DEF SessionsKnown
<1>7. \A b \in Agent : StillBefore(b)
  BY <1>2, <1>4, <1>5 DEF StillBefore
<1> QED
  BY <1>1, <1>6, <1>7, LocalStep

-----------------------------------------------------------------------------
(* Deletion, time and crashes *)

\* The steps of a deletion.
LEMMA DeletionInv ==
  ASSUME IInv,
         \/ \E s \in Session : StartDeletion(s)
         \/ ListRows \/ DeleteSession \/ CrashDeletion
  PROVE  IInv'
<1>1. OneLauncher'
  BY DEF IInv, OneLauncher, StartDeletion, ListRows, DeleteSession, CrashDeletion
<1>2. SessionsKnown'
  BY DEF IInv, SessionsKnown, StartDeletion, ListRows, DeleteSession, CrashDeletion
<1> DEFINE Deletion == [pc : {"off", "list", "rows"}, sid : 0..MaxSession, names : SUBSET Instance]
<1>3. NoDeletion \in Deletion /\ NoDeletion.pc = "off"
  BY ZeroInRange DEF NoDeletion
<1>4. deletion \in Deletion /\ TypeOK
  BY DEF IInv, TypeOK
<1>5. ASSUME NEW s \in Session, StartDeletion(s)
      PROVE  TypeOK' /\ DeletesClosed'
  <2>1. /\ deletion' = [NoDeletion EXCEPT !.pc = "list", !.sid = s]
        /\ session[s] \in Closed
        /\ UNCHANGED <<session, row, finished, agent, age, posts, crashes>>
    BY <1>5 DEF StartDeletion, tables, rows
  <2>2. deletion' \in Deletion /\ deletion'.sid = s
    BY <2>1, <1>3, SessionInRange
  <2>3. deletions' \in 0..MaxDelete
    <3>1. /\ deletions \in 0..MaxDelete /\ deletions < MaxDelete
          /\ deletions' = deletions + 1 /\ MaxDelete \in Nat
      BY <1>4, <1>5, ParametersAssumption DEF StartDeletion, TypeOK
    <3> QED
      BY <3>1
  <2> QED
    BY <1>4, <2>1, <2>2, <2>3 DEF TypeOK, DeletesClosed
<1>6. CASE ListRows
  <2>1. /\ deletion' = [deletion EXCEPT !.pc = "rows", !.names = Present(deletion.sid)]
        /\ deletion.pc = "list"
        /\ UNCHANGED <<tables, agent, envVars>>
    BY <1>6 DEF ListRows
  <2>2. Present(deletion.sid) \subseteq Instance
    BY DEF Present
  <2>3. deletion' \in Deletion /\ deletion'.sid = deletion.sid
    BY <1>4, <2>1, <2>2
  <2> QED
    BY <1>1, <1>2, <1>4, <2>1, <2>3 DEF IInv, TypeOK, DeletesClosed, tables, rows, envVars
<1>7. CASE DeleteSession
  <2>1. /\ session' = [session EXCEPT ![deletion.sid] = Absent]
        /\ deletion' = NoDeletion
        /\ UNCHANGED <<row, finished, agent, envVars>>
    BY <1>7 DEF DeleteSession, rows
  <2>2. session' \in [Session -> {"Active", Absent} \cup Closed]
    BY <1>4, <2>1 DEF TypeOK
  <2> QED
    BY <1>1, <1>2, <1>3, <1>4, <2>1, <2>2 DEF IInv, TypeOK, DeletesClosed, envVars
<1>8. CASE CrashDeletion
  <2>1. deletion' = NoDeletion /\ UNCHANGED <<tables, agent, age, posts, deletions>>
    BY <1>8 DEF CrashDeletion
  <2>2. crashes' \in 0..MaxCrash
    BY <1>4, <1>8, ParametersAssumption DEF CrashDeletion, TypeOK
  <2> QED
    BY <1>1, <1>2, <1>3, <1>4, <2>1, <2>2 DEF IInv, TypeOK, DeletesClosed, tables, rows
<1> QED
  BY <1>1, <1>2, <1>5, <1>6, <1>7, <1>8 DEF IInv

\* The removal of an instance row.
LEMMA DeleteRowInv ==
  ASSUME IInv, NEW i \in Instance, DeleteRow(i)
  PROVE  IInv'
<1> DEFINE s == deletion.sid
           W == {<<s, i>>}
<1>1. /\ SessionsKnown /\ TypeOK /\ agent' = Outdated(W)
      /\ row' = [row EXCEPT ![s][i] = NoRow]
      /\ finished' = [finished EXCEPT ![s] = @ \ {i}]
      /\ deletion' = [deletion EXCEPT !.names = @ \ {i}]
      /\ UNCHANGED <<session, envVars>>
  BY DEF DeleteRow, IInv
<1>2. agent' \in [Agent -> GoodState] /\ \A b \in Agent : agent'[b].pc = agent[b].pc
  BY <1>1, OutdatedType
<1>3. OneLauncher'
  BY <1>2, NobodyPasses DEF IInv, StillBefore
<1>4. row' \in [Session -> [Instance -> Row]]
  <2> HIDE DEF s
  <2> QED
    BY <1>1, OffType DEF TypeOK
<1>5. /\ deletion' \in [pc : {"off", "list", "rows"}, sid : 0..MaxSession, names : SUBSET Instance]
      /\ deletion'.pc = deletion.pc /\ deletion'.sid = s
  BY <1>1 DEF TypeOK
<1>6. finished' \in [Session -> SUBSET Instance]
  <2> HIDE DEF s
  <2> QED
    BY <1>1 DEF TypeOK
<1> QED
  BY <1>1, <1>2, <1>3, <1>4, <1>5, <1>6, GoodIsTyped
     DEF IInv, SessionsKnown, TypeOK, DeletesClosed, envVars

\* A session grows older.
LEMMA AgeInv ==
  ASSUME IInv, NEW s \in Session, Age(s)
  PROVE  IInv'
<1>1. age' \in [Session -> 0..2]
  <2>1. age[s] \in 0..2 /\ age[s] < MaxAge /\ MaxAge \in 0..2
    BY ParametersAssumption DEF IInv, TypeOK, Age
  <2>2. age[s] + 1 \in 0..2
    BY <2>1
  <2> QED
    BY <2>2 DEF IInv, TypeOK, Age
<1> QED
  BY <1>1 DEF IInv, SessionsKnown, OneLauncher, TypeOK, DeletesClosed, Age, tables, rows

\* A process ends.
LEMMA CrashInv ==
  ASSUME IInv, NEW a \in Agent, Crash(a)
  PROVE  IInv'
<1>1. agent' = [b \in Agent |-> IF b \in Process(a) THEN Off ELSE agent[b]]
  BY DEF Crash
<1>2. Off \in GoodState /\ Off.pc = "off"
  BY OffType DEF GoodState, Off
<1>3. agent' \in [Agent -> GoodState]
  BY <1>1, <1>2 DEF IInv, SessionsKnown
<1>4. \A b \in Agent : StillBefore(b)
  BY <1>1, <1>2 DEF StillBefore
<1>5. OneLauncher'
  BY <1>4, NobodyPasses DEF IInv
<1>6. crashes' \in 0..MaxCrash
  BY ParametersAssumption DEF IInv, TypeOK, Crash
<1> QED
  BY <1>3, <1>5, <1>6, GoodIsTyped DEF IInv, SessionsKnown, TypeOK, DeletesClosed, Crash, tables, rows

-----------------------------------------------------------------------------
(* The theorems *)

\* The initial states satisfy the invariant.
LEMMA InitIInv == Init => IInv
<1> SUFFICES ASSUME Init PROVE IInv
  OBVIOUS
<1>1. agent = [a \in Agent |-> Off] /\ Off \in GoodState /\ Off.pc = "off"
  BY OffType DEF Init, GoodState, Off
<1>2. SessionsKnown
  BY <1>1 DEF SessionsKnown
<1>3. OneLauncher
  <2> SUFFICES ASSUME NEW i \in Instance, NEW j \in Slot, NEW k \in Slot
               PROVE  agent[Launcher(i, j)].pc = "off"
    BY DEF OneLauncher
  <2>1. Launcher(i, j) \in Agent
    BY DEF Agent
  <2> QED
    BY <1>1, <2>1
<1>4. DeletesClosed
  BY DEF DeletesClosed, Init, NoDeletion
<1>5. row \in [Session -> [Instance -> Row]]
  BY OffType DEF Init
<1>6. /\ deletion \in [pc : {"off", "list", "rows"}, sid : 0..MaxSession, names : SUBSET Instance]
      /\ session \in [Session -> {"Active", Absent} \cup Closed]
      /\ age \in [Session -> 0..2]
      /\ posts \in [Session -> Nat]
      /\ deletions \in 0..MaxDelete
      /\ crashes \in 0..MaxCrash
      /\ finished \in [Session -> SUBSET Instance]
  BY ZeroInRange, ParametersAssumption DEF Init, NoDeletion
<1> QED
  BY <1>2, <1>3, <1>4, <1>5, <1>6, GoodIsTyped DEF IInv, SessionsKnown, TypeOK

\* So does every step.
LEMMA NextIInv == IInv /\ [Next]_vars => IInv'
<1> SUFFICES ASSUME IInv, [Next]_vars PROVE IInv'
  OBVIOUS
<1>1. CASE UNCHANGED vars
  BY <1>1 DEF IInv, TypeOK, SessionsKnown, OneLauncher, DeletesClosed, vars, tables, rows, envVars
<1>2. ASSUME NEW a \in Agent, Progress(a) PROVE IInv'
  BY <1>2, QueryActiveSessionInv, AddSessionEntityInv, IsSameSessionInv, ThrowIfMultipleInv,
     RunActiveSessionInv, ReadRowInv, PutRowInv, AnalyzeLogsInv, ReadActiveInv, ReadRowsInv,
     CloseSessionInv, CancelOrphanInv, RereadInv, DecideInv
  DEF Progress
<1>3. ASSUME NEW a \in Agent, Crash(a) \/ \E ok \in BOOLEAN : Collect(a, ok) PROVE IInv'
  BY <1>3, CrashInv, CollectInv
<1>4. ASSUME NEW i \in Instance, NEW s \in Session, Post(i, s) \/ \E k \in Slot : AutoHeal(i, s, k)
      PROVE  IInv'
  BY <1>4, PostInv, AutoHealInv
<1>5. ASSUME NEW i \in Runner, NEW due \in BOOLEAN, Poll(i, due) PROVE IInv'
  BY <1>5, PollInv
<1>6. ASSUME NEW s \in Session, Age(s) PROVE IInv'
  BY <1>6, AgeInv
<1>7. ASSUME NEW i \in Instance, DeleteRow(i) PROVE IInv'
  BY <1>7, DeleteRowInv
<1> QED
  BY <1>1, <1>2, <1>3, <1>4, <1>5, <1>6, <1>7, DeletionInv DEF Next

\* The inductive invariant of the table based manager.
THEOREM InvariantHolds == Spec => []IInv
<1> QED
  BY InitIInv, NextIInv, PTL DEF Spec

\* The tables and the locals of every agent have their types.
THEOREM TypeCorrect == Spec => []TypeOK
<1>1. IInv => TypeOK
  BY DEF IInv
<1> QED
  BY <1>1, InvariantHolds, PTL

\* However many requests reach a machine, one DiagLauncher at most collects on it.
THEOREM OneLauncherCollects == Spec => []OneLauncher
<1>1. IInv => OneLauncher
  BY DEF IInv
<1> QED
  BY <1>1, InvariantHolds, PTL

-----------------------------------------------------------------------------
(* The table based manager implements the life cycle of a session *)

\* A step that changes one session along its life cycle is a step of the
\* abstract specification.
LEMMA StageStep ==
  ASSUME NEW s \in Session, session \in [Session -> {"Active", Absent} \cup Closed],
         NEW v, session' = [session EXCEPT ![s] = v],
         \/ session[s] = Absent /\ v = "Active"
         \/ session[s] # Absent /\ v \in Closed
         \/ session[s] \in Closed /\ v = Absent
         \/ v = session[s]
  PROVE  [Lifecycle!Next]_Stage
<1> DEFINE name(x) == CASE x = Absent -> "none" [] x = "Active" -> "active" [] x \in Closed -> "closed"
<1>1. Stage = [u \in Session |-> name(session[u])]
  BY DEF Stage
<1>2. Stage' = [u \in Session |-> name(session'[u])]
  BY DEF Stage
<1>3. Stage' = [Stage EXCEPT ![s] = name(v)] /\ Stage[s] = name(session[s])
  BY <1>1, <1>2
<1>4. /\ name(Absent) = "none" /\ name("Active") = "active"
      /\ \A x \in Closed : name(x) = "closed"
  BY DEF Absent, Closed
<1> HIDE DEF name
<1>5. CASE session[s] = Absent /\ v = "Active"
  BY <1>3, <1>4, <1>5 DEF Lifecycle!Next, Lifecycle!Submit
<1>6. CASE session[s] = "Active" /\ v \in Closed
  BY <1>3, <1>4, <1>6 DEF Lifecycle!Next, Lifecycle!Close
<1>7. CASE session[s] \in Closed /\ v = Absent
  BY <1>3, <1>4, <1>7 DEF Lifecycle!Next, Lifecycle!Delete
<1>8. CASE (session[s] \in Closed /\ v \in Closed) \/ v = session[s]
  <2>1. Stage' = Stage
    BY <1>1, <1>3, <1>4, <1>8
  <2> QED
    BY <2>1
<1> QED
  BY <1>5, <1>6, <1>7, <1>8

\* Posts, completions, forced completions and deletions of a session, by however
\* many machines and in any order, amount to its life cycle.
THEOREM ImplementsLifecycleHolds == Spec => ImplementsLifecycle
<1>1. Init => Lifecycle!Init
  <2> SUFFICES ASSUME Init PROVE Stage = [s \in Session |-> "none"]
    BY DEF Lifecycle!Init
  <2>1. \A s \in Session : session[s] = Absent
    BY DEF Init
  <2> QED
    BY <2>1 DEF Stage, Absent, Closed
<1>2. ASSUME IInv, [Next]_vars PROVE [Lifecycle!Next]_Stage
  <2>1. session \in [Session -> {"Active", Absent} \cup Closed]
    BY <1>2 DEF IInv, TypeOK
  <2>2. CASE UNCHANGED session
    BY <2>2 DEF Stage
  <2>3. ASSUME NEW a \in Agent, AddSessionEntity(a), ~UNCHANGED session
        PROVE  [Lifecycle!Next]_Stage
    <3>1. /\ session[agent[a].sid] = Absent
          /\ session' = [session EXCEPT ![agent[a].sid] = "Active"]
      BY <2>3 DEF AddSessionEntity, AddSession
    <3>2. agent[a].sid \in Session
      BY <1>2, <2>3, BusyIsWorking DEF AddSessionEntity, Working
    <3> QED
      BY <2>1, <3>1, <3>2, StageStep
  <2>4. ASSUME NEW a \in Agent, CloseSession(a), ~UNCHANGED session
        PROVE  [Lifecycle!Next]_Stage
    <3> DEFINE c == agent[a].cur
               v == IF session[c] = Absent THEN Absent
                    ELSE IF agent[a].ret = "force" THEN "TimedOut" ELSE "Complete"
    <3>1. session' = [session EXCEPT ![c] = v]
      BY <2>4 DEF CloseSession
    <3>2. c \in Session
      BY <2>1, <2>4, <3>1
    <3>3. v = session[c] \/ (session[c] # Absent /\ v \in Closed)
      BY DEF Closed
    <3> HIDE DEF c, v
    <3> QED
      BY <2>1, <3>1, <3>2, <3>3, StageStep
  <2>5. ASSUME DeleteSession PROVE [Lifecycle!Next]_Stage
    <3>1. /\ session' = [session EXCEPT ![deletion.sid] = Absent]
          /\ deletion.pc # "off"
      BY <2>5 DEF DeleteSession
    <3>2. deletion.sid \in Session /\ session[deletion.sid] \in Closed
      BY <1>2, <3>1 DEF IInv, DeletesClosed
    <3> QED
      BY <2>1, <3>1, <3>2, StageStep
  <2>6. ASSUME ~UNCHANGED session
        PROVE  \/ \E a \in Agent : AddSessionEntity(a) \/ CloseSession(a)
               \/ DeleteSession
    BY <1>2, <2>6
    DEF Next, Progress, vars, tables, rows, Post, AutoHeal, QueryActiveSession, IsSameSession,
        ThrowIfMultipleDiagLauncherRunning, RunActiveSession, ReadRow, PutRow, AnalyzeLogs,
        ReadActive, ReadRows, CancelOrphan, Reread, Decide, Crash, Collect, Poll,
        StartDeletion, Age, ListRows, CrashDeletion, DeleteRow
  <2> QED
    BY <2>2, <2>3, <2>4, <2>5, <2>6
<1> QED
  BY <1>1, <1>2, InvariantHolds, PTL DEF Spec, ImplementsLifecycle, Lifecycle!Spec

-----------------------------------------------------------------------------
(* The rows TableSession keeps for the instances of a session: no update   *)
(* of one is lost, and a session becomes Complete only when every          *)
(* requested instance was done with.                                       *)

-----------------------------------------------------------------------------
(* The invariant *)

\* A row that is there belongs to a requested instance, and one that is closed
\* was closed.
RowsSound == \A s \in Session, i \in Instance :
  /\ row[s][i].st = Absent => row[s][i] = NoRow
  /\ row[s][i].st # Absent => i \in Targets[s]
  /\ row[s][i].st \in Closed => i \in finished[s]

RowWork == {"read", "put", "collecting", "analyze"}

\* An agent works on the row of its own machine, which the session requests; the
\* runner adds rows for requested instances only.
Aimed(a, r) ==
  /\ r.pc \in RowWork \/ r.todo => r.sid \in Session /\ a[1] \in Targets[r.sid]
  /\ r.pc = "orphans" => r.sid \in Session /\ r.names \subseteq Targets[r.sid]
  /\ r.pc \in {"rows", "close"} => r.cur \in Session

\* What the ETag vouches for: the row the agent read is still the latest.
Latest(a, r) == r.pc = "put" =>
  /\ r.op \in {"Logs", "Reports"} => r.hold.st # Absent
  /\ r.etag /\ r.hold.st # Absent => r.hold = row[r.sid][a[1]]
  /\ r.hold.st = Absent => r.hold = NoRow

\* An agent about to complete a session, its time not being up, found every
\* requested instance done with.
AllIn(r) ==
  MaxDelete = 0 /\ r.pc = "close" /\ r.ret # "force" => Targets[r.cur] \subseteq finished[r.cur]

Fits(a, r) == Aimed(a, r) /\ Latest(a, r) /\ AllIn(r)

NoneDeleted == MaxDelete = 0 => deletion.pc = "off"

RInv == RowsSound /\ (\A a \in Agent : Fits(a, agent[a])) /\ NoneDeleted

-----------------------------------------------------------------------------
(* Locals that keep what the invariant says of them *)

\* A change of control to a place that is not about a row.
Aside == PC \ (RowWork \cup {"orphans", "rows", "close"})

\* Leaving the work on a row keeps the invariant.
LEMMA AsideFits ==
  ASSUME NEW a, NEW r, NEW q, Aimed(a, r), q.pc \in Aside, q.sid = r.sid, q.todo => r.todo
  PROVE  Fits(a, q)
BY DEF Aside, RowWork, Fits, Aimed, Latest, AllIn

\* An agent with nothing to do fits.
LEMMA NothingFits ==
  ASSUME NEW a, NEW q, q.pc \in Aside, ~q.todo
  PROVE  Fits(a, q)
BY DEF Aside, RowWork, Fits, Aimed, Latest, AllIn

\* An agent that is off or ended has nothing to do.
LEMMA OffFits ==
  ASSUME NEW a
  PROVE  /\ Fits(a, Off) /\ Fits(a, Ended(a))
         /\ Fits(a, [Off EXCEPT !.pc = "start"])
<1>1. \A p \in {"off", "start", "done"} :
        /\ [Off EXCEPT !.pc = p].pc \in Aside
        /\ ~[Off EXCEPT !.pc = p].todo
  BY DEF Off, Aside, RowWork, PC
<1>2. Off.pc \in Aside /\ ~Off.todo
  BY DEF Off, Aside, RowWork, PC
<1>3. Ended(a) \in {Off, [Off EXCEPT !.pc = "done"]}
  BY DEF Ended
<1> QED
  BY <1>1, <1>2, <1>3, NothingFits

\* Where the update of a row leaves an agent: not in a write, and not closing.
Calls(a, q) == Aimed(a, q) /\ q.pc \notin {"put", "close"}

\* Such an agent fits.
LEMMA CallsFits == ASSUME NEW a, NEW q, Calls(a, q) PROVE Fits(a, q)
BY DEF Calls, Fits, Latest, AllIn

\* The call of an update of the row of this machine.
LEMMA CallingAims ==
  ASSUME NEW a, NEW r \in AgentState, NEW o, r.sid \in Session, a[1] \in Targets[r.sid]
  PROVE  Calls(a, Calling(r, o))
<1>1. /\ Calling(r, o).pc = "read" /\ Calling(r, o).sid = r.sid
  BY DEF Calling, AgentState
<1> QED
  BY <1>1 DEF Calls, Aimed, RowWork

\* What follows an update is another one, or the end of the work on the row.
LEMMA AfterUpdateAims ==
  ASSUME NEW a, NEW r \in AgentState, r.sid \in Session, a[1] \in Targets[r.sid]
  PROVE  Calls(a, AfterUpdate(a, r))
<1>1. \A o : Calls(a, Calling(r, o))
  BY CallingAims
<1>2. r.op \in Update
  BY DEF AgentState
<1>3. \A o : Calls(a, Calling([r EXCEPT !.todo = FALSE], o))
  <2>1. [r EXCEPT !.todo = FALSE] \in AgentState /\ [r EXCEPT !.todo = FALSE].sid = r.sid
    BY DEF AgentState
  <2> QED
    BY <2>1, CallingAims
<1>4. \A o : Calls(a, Calling([r EXCEPT !.logs = 0], o))
  <2>1. [r EXCEPT !.logs = 0] \in AgentState /\ [r EXCEPT !.logs = 0].sid = r.sid
    BY ZeroInRange DEF AgentState
  <2> QED
    BY <2>1, CallingAims
<1>5. Calls(a, Collected(r)) /\ Calls(a, Collected([r EXCEPT !.logs = 0]))
  BY <1>1, <1>4 DEF Collected
<1>6. Calls(a, Ended(a))
  BY DEF Calls, Aimed, RowWork, Ended, Off
<1>7. \A p \in {"collecting", "analyze"} : Calls(a, [r EXCEPT !.pc = p])
  BY DEF Calls, Aimed, RowWork, AgentState
<1>8. Calls(a, [r EXCEPT !.pc = "active", !.ret = "end"])
  BY DEF Calls, Aimed, RowWork, AgentState
<1> QED
  BY <1>1, <1>2, <1>3, <1>4, <1>5, <1>6, <1>7, <1>8 DEF AfterUpdate, Update

\* A snapshot looks at the row of this machine.
LEMMA SnapshotAims ==
  ASSUME NEW a, NEW s \in Session
  PROVE  /\ Aimed(a, Snapshot(s, a[1]))
         /\ Snapshot(s, a[1]).sid = s
         /\ Snapshot(s, a[1]).todo = ShouldAnalyzeOnCurrentInstance(s, a[1])
BY DEF Snapshot, Off, Aimed, RowWork, ShouldAnalyzeOnCurrentInstance

\* A call of the completion check is not about a row.
LEMMA CheckLimitsFits ==
  ASSUME NEW a, NEW r \in AgentState, Aimed(a, r)
  PROVE  Fits(a, CheckLimits(r))
<1>1. /\ CheckLimits(r).pc = "active" /\ CheckLimits(r).sid = r.sid
      /\ CheckLimits(r).todo = r.todo
  BY DEF CheckLimits, AgentState
<1> QED
  BY <1>1, AsideFits DEF Aside, RowWork, PC

\* Wherever the completion check returns to, it is not about a row.
LEMMA ReturnedFits ==
  ASSUME NEW a \in Agent, agent[a] \in AgentState, Aimed(a, agent[a]), NEW done
  PROVE  Fits(a, Returned(a, done))
<1> DEFINE r == [agent[a] EXCEPT !.cur = 0]
           on(p) == [r EXCEPT !.pc = p, !.ret = "end"]
<1>1. r.ret \in {"end", "orphans", "force", "check"}
  BY DEF AgentState
<1>2. \A p \in {"reread", "decide"} :
        on(p).pc = p /\ on(p).sid = agent[a].sid /\ on(p).todo = agent[a].todo
  BY DEF AgentState
<1>3. \A p \in {"reread", "decide"} : Fits(a, on(p))
  BY <1>2, AsideFits DEF Aside, RowWork, PC
<1>4. Returned(a, done) =
        CASE r.ret = "end"     -> Ended(a)
          [] r.ret = "orphans" -> on("reread")
          [] r.ret = "force"   -> Off
          [] r.ret = "check"   -> IF done THEN Off ELSE on("decide")
  BY DEF Returned
<1> HIDE DEF r, on
<1> QED
  BY <1>1, <1>3, <1>4, OffFits

-----------------------------------------------------------------------------
(* Steps that leave the instance rows alone *)

\* Every agent stays as it is or takes locals that fit.
LEMMA AgentsStep ==
  ASSUME RInv, UNCHANGED rows, NoneDeleted',
         \A b \in Agent : agent'[b] = agent[b] \/ Fits(b, agent'[b])
  PROVE  RInv'
<1>1. row' = row /\ finished' = finished
  BY DEF rows
<1>2. RowsSound'
  BY <1>1 DEF RInv, RowsSound
<1>3. \A b \in Agent : Fits(b, agent[b])' = Fits(b, agent'[b])
  BY <1>1 DEF Fits, Latest, AllIn
<1> QED
  BY <1>2, <1>3 DEF RInv

\* The same for a step of one agent.
LEMMA AgentStep ==
  ASSUME IInv, RInv, UNCHANGED <<rows, deletion>>, NEW a \in Agent, NEW r, Become(a, r), Fits(a, r)
  PROVE  RInv'
<1>1. \A b \in Agent : agent'[b] = IF b = a THEN r ELSE agent[b]
  BY DEF Become, IInv, TypeOK
<1>2. NoneDeleted'
  BY DEF RInv, NoneDeleted
<1> QED
  BY <1>1, <1>2, AgentsStep

\* The locals of an agent have their type and fit.
LEMMA AgentFits ==
  ASSUME IInv, RInv, NEW a \in Agent
  PROVE  agent[a] \in AgentState /\ Fits(a, agent[a]) /\ Aimed(a, agent[a])
BY DEF IInv, TypeOK, RInv, Fits

\* A step of one agent to a place that is not about a row.
LEMMA AsideStep ==
  ASSUME IInv, RInv, UNCHANGED <<rows, deletion>>, NEW a \in Agent, NEW p \in Aside,
         Become(a, [agent[a] EXCEPT !.pc = p])
  PROVE  RInv'
<1> DEFINE q == [agent[a] EXCEPT !.pc = p]
<1>1. q.pc = p /\ q.sid = agent[a].sid /\ q.todo = agent[a].todo
  BY AgentFits DEF AgentState
<1> HIDE DEF q
<1>2. Fits(a, q)
  BY <1>1, AgentFits, AsideFits
<1> QED
  BY <1>2, AgentStep DEF q

\* The submission of a session.
LEMMA SubmittedFits ==
  ASSUME IInv, RInv, UNCHANGED <<rows, deletion>>, NEW a \in Agent, Submitted(a)
  PROVE  RInv'
<1>1. CASE a[2] = "launcher"
  BY <1>1, AsideStep DEF Submitted, Aside, RowWork, PC
<1>2. CASE a[2] # "launcher" /\ FreeSlots(a[1]) = {}
  BY <1>2, OffFits, AgentStep DEF Submitted, End
<1>3. CASE a[2] # "launcher" /\ FreeSlots(a[1]) # {}
  <2> DEFINE l == Launcher(a[1], CHOOSE k \in FreeSlots(a[1]) : TRUE)
             new == [Off EXCEPT !.pc = "start"]
  <2>1. agent' = [agent EXCEPT ![a] = Off, ![l] = new]
    BY <1>3 DEF Submitted
  <2>2. \A b : Fits(b, Off) /\ Fits(b, new)
    BY OffFits
  <2> HIDE DEF l, new
  <2>3. \A b \in Agent : agent'[b] \in {new, Off, agent[b]}
    BY <2>1 DEF IInv, TypeOK
  <2>4. NoneDeleted'
    BY DEF RInv, NoneDeleted
  <2> QED
    BY <2>2, <2>3, <2>4, AgentsStep
<1> QED
  BY <1>1, <1>2, <1>3

\* The steps by which a session is submitted and a DiagLauncher starts.
LEMMA SubmissionStep ==
  ASSUME IInv, RInv, NEW a \in Agent,
         \/ \E throttled \in BOOLEAN : QueryActiveSession(a, throttled)
         \/ AddSessionEntity(a) \/ IsSameSession(a) \/ ThrowIfMultipleDiagLauncherRunning(a)
  PROVE  RInv'
<1>1. UNCHANGED <<rows, deletion>>
  BY DEF QueryActiveSession, AddSessionEntity, IsSameSession, ThrowIfMultipleDiagLauncherRunning,
         tables
<1>2. \/ Submitted(a) \/ End(a)
      \/ \E p \in {"add", "conflict", "query", "run"} : Become(a, [agent[a] EXCEPT !.pc = p])
  BY DEF QueryActiveSession, AddSessionEntity, AddSession, IsSameSession,
         ThrowIfMultipleDiagLauncherRunning
<1>3. {"add", "conflict", "query", "run"} \subseteq Aside
  BY DEF Aside, RowWork, PC
<1> QED
  BY <1>1, <1>2, <1>3, SubmittedFits, OffFits, AgentStep, AsideStep DEF End

\* A request arrives, or auto-heal starts a DiagLauncher.
LEMMA ArrivalStep ==
  ASSUME IInv, RInv, NEW i \in Instance, NEW s \in Session,
         Post(i, s) \/ \E k \in Slot : AutoHeal(i, s, k)
  PROVE  RInv'
<1>1. UNCHANGED <<rows, deletion>>
  BY DEF Post, AutoHeal, tables
<1>2. CASE Post(i, s)
  <2> DEFINE q == [Off EXCEPT !.pc = "query", !.sid = s]
  <2>1. Kudu(i) \in Agent
    BY DEF Agent
  <2>2. q.pc \in Aside /\ ~q.todo
    BY DEF Off, Aside, RowWork, PC
  <2> QED
    BY <1>1, <1>2, <2>1, <2>2, NothingFits, AgentStep DEF Post
<1>3. ASSUME NEW k \in Slot, AutoHeal(i, s, k) PROVE RInv'
  <2> DEFINE q == [Off EXCEPT !.pc = "start", !.sid = s, !.auto = TRUE]
  <2>1. Launcher(i, k) \in Agent
    BY DEF Agent
  <2>2. q.pc \in Aside /\ ~q.todo
    BY DEF Off, Aside, RowWork, PC
  <2> QED
    BY <1>1, <1>3, <2>1, <2>2, NothingFits, AgentStep DEF AutoHeal
<1> QED
  BY <1>2, <1>3

\* DiagLauncher picks the active session, if it names this machine.
LEMMA RunActiveSessionStep ==
  ASSUME IInv, RInv, NEW a \in Agent, RunActiveSession(a)
  PROVE  RInv'
<1> DEFINE x == GetActiveSession
           q == [agent[a] EXCEPT !.sid = x, !.todo = ShouldCollect(row[x][a[1]].st)]
<1>1. UNCHANGED <<rows, deletion>>
  BY DEF RunActiveSession, tables
<1>2. CASE End(a)
  BY <1>1, <1>2, OffFits, AgentStep DEF End
<1>3. CASE x # 0 /\ a[1] \in Targets[x] /\ Become(a, Calling(q, "Started"))
  <2>1. x \in Session /\ agent[a] \in AgentState
    BY <1>3, ActiveSessionIsActive, AgentFits
  <2>2. ShouldCollect(row[x][a[1]].st) \in BOOLEAN
    BY DEF ShouldCollect
  <2>3. q \in AgentState /\ q.sid = x
    BY <2>1, <2>2, SessionInRange DEF AgentState
  <2>4. Fits(a, Calling(q, "Started"))
    BY <1>3, <2>1, <2>3, CallingAims, CallsFits
  <2> QED
    BY <1>1, <1>3, <2>4, AgentStep
<1> QED
  BY <1>2, <1>3 DEF RunActiveSession

\* The tool of the collector returns.
LEMMA CollectStep ==
  ASSUME IInv, RInv, NEW a \in Agent, NEW ok \in BOOLEAN, Collect(a, ok)
  PROVE  RInv'
<1> DEFINE q == [agent[a] EXCEPT !.logs = IF ok THEN agent[a].sid ELSE 0]
<1>1. /\ agent[a].pc = "collecting" /\ UNCHANGED <<rows, deletion>>
      /\ Become(a, Calling(q, "Logs"))
  BY DEF Collect, tables
<1>2. agent[a].sid \in Session /\ a[1] \in Targets[agent[a].sid]
  BY <1>1, AgentFits DEF Aimed, RowWork
<1>3. q \in AgentState /\ q.sid = agent[a].sid
  BY AgentFits, ZeroInRange DEF AgentState
<1>4. Fits(a, Calling(q, "Logs"))
  BY <1>2, <1>3, CallingAims, CallsFits
<1> QED
  BY <1>1, <1>4, AgentStep

\* The row of this machine is read, with its ETag.
LEMMA ReadRowStep ==
  ASSUME IInv, RInv, NEW a \in Agent, ReadRow(a)
  PROVE  RInv'
<1> DEFINE r == agent[a]
           e == row[r.sid][a[1]]
           q == [r EXCEPT !.pc = "put", !.hold = e, !.etag = TRUE]
<1>1. /\ r.pc = "read" /\ UNCHANGED <<rows, deletion>>
      /\ Become(a, IF e.st = Absent /\ r.op \in {"Logs", "Reports"} THEN Ended(a) ELSE q)
  BY DEF ReadRow, tables
<1>2. r \in AgentState /\ r.sid \in Session /\ a[1] \in Targets[r.sid]
  BY <1>1, AgentFits DEF Aimed, RowWork
<1>3. CASE Become(a, Ended(a))
  BY <1>1, <1>3, OffFits, AgentStep
<1>4. CASE Become(a, q) /\ ~(e.st = Absent /\ r.op \in {"Logs", "Reports"})
  <2>1. q.pc = "put" /\ q.sid = r.sid /\ q.hold = e /\ q.op = r.op
    BY <1>2 DEF AgentState
  <2>2. e.st = Absent => e = NoRow
    BY <1>2, MachineOfAgent DEF RInv, RowsSound
  <2>3. Fits(a, q)
    BY <1>2, <1>4, <2>1, <2>2 DEF Fits, Aimed, Latest, AllIn, RowWork
  <2> QED
    BY <1>1, <1>4, <2>3, AgentStep
<1> QED
  BY <1>1, <1>3, <1>4

\* The analysis of what the active session lists for this machine.
LEMMA AnalyzeLogsStep ==
  ASSUME IInv, RInv, NEW a \in Agent, AnalyzeLogs(a)
  PROVE  RInv'
<1> DEFINE r == agent[a]
           x == GetActiveSession
           q == [r EXCEPT !.logs = row[x][a[1]].logs]
<1>1. r.pc = "analyze" /\ UNCHANGED <<rows, deletion>>
  BY DEF AnalyzeLogs, tables
<1>2. r \in AgentState /\ r.sid \in Session /\ a[1] \in Targets[r.sid]
  BY <1>1, AgentFits DEF Aimed, RowWork
<1>3. CASE Become(a, Calling(r, "Complete"))
  BY <1>1, <1>2, <1>3, CallingAims, CallsFits, AgentStep
<1>4. CASE Become(a, Ended(a))
  BY <1>1, <1>4, OffFits, AgentStep
<1>5. CASE x # 0 /\ Become(a, Calling(q, "Reports"))
  <2>1. x \in Session /\ row[x][a[1]].logs \in 0..MaxSession
    BY <1>5, ActiveSessionIsActive, MachineOfAgent DEF IInv, TypeOK, Row
  <2>2. q \in AgentState /\ q.sid = r.sid
    BY <1>2, <2>1 DEF AgentState
  <2>3. Fits(a, Calling(q, "Reports"))
    BY <1>2, <2>2, CallingAims, CallsFits
  <2> QED
    BY <1>1, <1>5, <2>3, AgentStep
<1> QED
  BY <1>3, <1>4, <1>5 DEF AnalyzeLogs

-----------------------------------------------------------------------------
(* The completion check and the polling loop *)

\* The active session is read.
LEMMA ReadActiveStep ==
  ASSUME IInv, RInv, NEW a \in Agent, ReadActive(a)
  PROVE  RInv'
<1> DEFINE x == GetActiveSession
           q == [agent[a] EXCEPT !.pc = "rows", !.cur = x]
<1>1. UNCHANGED <<rows, deletion>>
  BY DEF ReadActive, tables
<1>2. CASE Become(a, Returned(a, TRUE))
  BY <1>1, <1>2, AgentFits, ReturnedFits, AgentStep
<1>3. CASE x # 0 /\ Become(a, q)
  <2>1. x \in Session
    BY <1>3, ActiveSessionIsActive
  <2>2. q.pc = "rows" /\ q.cur = x /\ q.sid = agent[a].sid /\ q.todo = agent[a].todo
    BY AgentFits DEF AgentState
  <2>3. Fits(a, q)
    BY <2>1, <2>2, AgentFits DEF Fits, Aimed, Latest, AllIn, RowWork
  <2> QED
    BY <1>1, <1>3, <2>3, AgentStep
<1> QED
  BY <1>2, <1>3 DEF ReadActive

\* Every row there is closed, and there are as many as the session requests: each
\* requested instance was done with.
LEMMA CompleteIsAllIn ==
  ASSUME IInv, RInv, NEW s \in Session, ShouldClose(s, FALSE)
  PROVE  Targets[s] \subseteq finished[s]
<1>1. Present(s) \subseteq Targets[s]
  BY DEF Present, RInv, RowsSound
<1>2. IsFiniteSet(Targets[s])
  BY ParametersAssumption, FS_Subset
<1>3. IsFiniteSet(Present(s)) /\ Cardinality(Present(s)) >= Cardinality(Targets[s])
  BY <1>1, <1>2, FS_Subset DEF ShouldClose
<1>4. Present(s) = Targets[s]
  <2>1. Cardinality(Present(s)) <= Cardinality(Targets[s])
    BY <1>1, <1>2, FS_Subset
  <2>2. Cardinality(Present(s)) = Cardinality(Targets[s])
    BY <1>2, <1>3, <2>1, FS_CardinalityType
  <2> QED
    BY <1>1, <1>2, <2>2, FS_Subset
<1>5. \A i \in Present(s) : row[s][i].st \in Closed
  <2>1. \A i \in Present(s) : row[s][i].st \in RowStatus \ {Absent}
    BY DEF Present, IInv, TypeOK, Row
  <2>2. \A i \in Present(s) : row[s][i].st \notin Busy
    BY DEF ShouldClose
  <2> QED
    BY <2>1, <2>2 DEF RowStatus
<1> QED
  BY <1>4, <1>5 DEF Present, RInv, RowsSound

\* The rows are read and the decision taken.
LEMMA ReadRowsStep ==
  ASSUME IInv, RInv, NEW a \in Agent, ReadRows(a)
  PROVE  RInv'
<1> DEFINE r == agent[a]
           q == [r EXCEPT !.pc = "close"]
<1>1. r.pc = "rows" /\ UNCHANGED <<rows, deletion>>
  BY DEF ReadRows, tables
<1>2. r \in AgentState /\ Aimed(a, r) /\ r.cur \in Session
  BY <1>1, AgentFits DEF Aimed
<1>3. CASE Become(a, Returned(a, FALSE))
  BY <1>1, <1>2, <1>3, ReturnedFits, AgentStep
<1>4. CASE ShouldClose(r.cur, r.ret = "force") /\ Become(a, q)
  <2>1. /\ q.pc = "close" /\ q.cur = r.cur /\ q.ret = r.ret
        /\ q.sid = r.sid /\ q.todo = r.todo
    BY <1>2 DEF AgentState
  <2>2. r.ret # "force" => Targets[r.cur] \subseteq finished[r.cur]
    <3> SUFFICES ASSUME r.ret # "force" PROVE Targets[r.cur] \subseteq finished[r.cur]
      OBVIOUS
    <3>1. ShouldClose(r.cur, FALSE)
      BY <1>4 DEF ShouldClose
    <3> QED
      BY <1>2, <3>1, CompleteIsAllIn
  <2>3. Fits(a, q)
    BY <1>2, <2>1, <2>2 DEF Fits, Aimed, Latest, AllIn, RowWork
  <2> QED
    BY <1>1, <1>4, <2>3, AgentStep
<1> QED
  BY <1>3, <1>4 DEF ReadRows

\* The session is closed.
LEMMA CloseSessionStep ==
  ASSUME IInv, RInv, NEW a \in Agent, CloseSession(a)
  PROVE  RInv'
<1>1. Become(a, Returned(a, TRUE)) /\ UNCHANGED <<rows, deletion>>
  BY DEF CloseSession
<1> QED
  BY <1>1, AgentFits, ReturnedFits, AgentStep

\* The session is read once more after orphans were added.
LEMMA RereadStep ==
  ASSUME IInv, RInv, NEW a \in Agent, Reread(a)
  PROVE  RInv'
<1> DEFINE x == GetActiveSession
<1>1. UNCHANGED <<rows, deletion>>
  BY DEF Reread, tables
<1>2. CASE Become(a, Off)
  BY <1>1, <1>2, OffFits, AgentStep
<1>3. CASE x # 0 /\ Become(a, CheckLimits(Snapshot(x, a[1])))
  <2>1. x \in Session
    BY <1>3, ActiveSessionIsActive
  <2>2. Snapshot(x, a[1]) \in AgentState /\ Aimed(a, Snapshot(x, a[1]))
    BY <2>1, SnapshotType, SnapshotAims DEF Working
  <2> QED
    BY <1>1, <1>3, <2>2, CheckLimitsFits, AgentStep
<1> QED
  BY <1>2, <1>3 DEF Reread

\* A round of the polling loop starts.
LEMMA PollStep ==
  ASSUME IInv, RInv, NEW i \in Runner, NEW due \in BOOLEAN, Poll(i, due)
  PROVE  RInv'
<1> DEFINE a == Loop(i)
           x == GetActiveSession
           r == Snapshot(x, i)
           decide == [r EXCEPT !.pc = "decide"]
           orphans == [r EXCEPT !.pc = "orphans", !.names = Orphans(x)]
<1>1. /\ a \in Agent /\ a[1] = i /\ x \in Session
      /\ UNCHANGED <<rows, deletion>>
  BY ActiveSessionIsActive DEF Poll, Agent, Loop, tables
<1>2. Become(a, decide) \/ Become(a, CheckLimits(r)) \/ Become(a, orphans)
  BY DEF Poll
<1>3. r \in AgentState /\ Aimed(a, r) /\ r.sid = x
  BY <1>1, SnapshotType, SnapshotAims DEF Working
<1>4. Fits(a, decide)
  <2>1. decide.pc = "decide" /\ decide.sid = r.sid /\ decide.todo = r.todo
    BY <1>3 DEF AgentState
  <2> QED
    BY <1>3, <2>1, AsideFits DEF Aside, RowWork, PC
<1>5. Fits(a, CheckLimits(r))
  BY <1>3, CheckLimitsFits
<1>6. Fits(a, orphans)
  <2>1. /\ orphans.pc = "orphans" /\ orphans.sid = r.sid /\ orphans.todo = r.todo
        /\ orphans.names = Orphans(x)
    BY <1>3 DEF AgentState
  <2>2. Orphans(x) \subseteq Targets[x]
    BY DEF Orphans
  <2> QED
    BY <1>1, <1>3, <2>1, <2>2 DEF Fits, Aimed, Latest, AllIn, RowWork
<1> HIDE DEF a, x, r, decide, orphans
<1> QED
  BY <1>1, <1>2, <1>4, <1>5, <1>6, AgentStep

\* An analysis task is started, for a session that names this machine.
LEMMA DecideStep ==
  ASSUME IInv, RInv, NEW a \in Agent, Decide(a)
  PROVE  RInv'
<1> DEFINE r == agent[a]
           t == AnalysisTask(a[1], r.sid)
           new == Calling([Off EXCEPT !.sid = r.sid], "Analyzing")
<1>1. UNCHANGED <<rows, deletion>> /\ r \in AgentState /\ Aimed(a, r)
  BY AgentFits DEF Decide, tables
<1>2. NoneDeleted'
  BY <1>1 DEF RInv, NoneDeleted
<1>3. t[1] = a[1]
  BY DEF AnalysisTask
<1>4. r.todo => Fits(t, new)
  <2> SUFFICES ASSUME r.todo PROVE Fits(t, new)
    OBVIOUS
  <2>1. r.sid \in Session /\ t[1] \in Targets[r.sid]
    BY <1>1, <1>3 DEF Aimed
  <2>2. [Off EXCEPT !.sid = r.sid] \in AgentState /\ [Off EXCEPT !.sid = r.sid].sid = r.sid
    BY <2>1, OffType, SessionInRange DEF Idle, AgentState
  <2> HIDE DEF t
  <2> QED
    BY <2>1, <2>2, CallingAims, CallsFits
<1> HIDE DEF t, new
<1>5. \A b \in Agent : agent'[b] \in {agent[b], Off} \/ (b = t /\ r.todo /\ agent'[b] = new)
  BY DEF Decide, IInv, TypeOK, t, new
<1> QED
  BY <1>1, <1>2, <1>4, <1>5, OffFits, AgentsStep

-----------------------------------------------------------------------------
(* Steps that write instance rows *)

\* An agent whose copy of the row that was written is outdated still fits, if what
\* was done with is not forgotten.
LEMMA OutdatedFits ==
  ASSUME IInv, RInv, NEW s \in Session, NEW i \in Instance, NEW b \in Agent,
         agent'[b] = Outdated({<<s, i>>})[b],
         \A u \in Session, j \in Instance : row'[u][j] = row[u][j] \/ (u = s /\ j = i),
         MaxDelete = 0 => \A u \in Session : finished[u] \subseteq finished'[u]
  PROVE  Fits(b, agent[b])'
<1> DEFINE q == agent'[b]
           r == agent[b]
           W == {<<s, i>>}
<1>1. /\ Fits(b, r) /\ r \in AgentState /\ b[1] \in Instance
  BY AgentFits, MachineOfAgent
<1>2. /\ q.pc = r.pc /\ q.op = r.op /\ q.sid = r.sid /\ q.todo = r.todo /\ q.hold = r.hold
      /\ q.cur = r.cur /\ q.ret = r.ret /\ q.names = r.names
      /\ q.etag => r.etag
      /\ r.pc = "put" /\ q.etag => <<r.sid, b[1]>> \notin W
  <2>1. q = IF r.pc = "put" /\ <<r.sid, b[1]>> \in W THEN [r EXCEPT !.etag = FALSE] ELSE r
    BY DEF Outdated
  <2> HIDE DEF W, q, r
  <2> QED
    BY <1>1, <2>1 DEF AgentState
<1> HIDE DEF q, r
<1>3. Aimed(b, q)
  BY <1>1, <1>2 DEF Fits, Aimed
<1>4. q.pc = "put" /\ q.etag => row'[q.sid][b[1]] = row[r.sid][b[1]]
  BY <1>1, <1>2 DEF Fits, Aimed, RowWork
<1>5. Latest(b, agent[b])'
  BY <1>1, <1>2, <1>4 DEF Fits, Latest, q
<1>6. AllIn(agent[b])'
  BY <1>1, <1>2 DEF Fits, Aimed, AllIn, q
<1> QED
  BY <1>3, <1>5, <1>6 DEF Fits, q

\* An instance row is written, unless it changed since it was read.
LEMMA PutRowStep ==
  ASSUME IInv, RInv, NEW a \in Agent, PutRow(a)
  PROVE  RInv'
<1> DEFINE r == agent[a]
           i == a[1]
           s == r.sid
           q == AfterUpdate(a, [r EXCEPT !.hold = NoRow, !.etag = FALSE])
           new == UpdatedRow(r)
<1>1. /\ r.pc = "put" /\ r \in AgentState /\ Fits(a, r)
      /\ s \in Session /\ i \in Targets[s] /\ i \in Instance
      /\ r.hold \in Row /\ r.op \in Update
      /\ UNCHANGED deletion
  BY AgentFits, MachineOfAgent DEF PutRow, Aimed, RowWork, AgentState
<1>2. NoneDeleted'
  BY <1>1 DEF RInv, NoneDeleted
<1>3. CASE ~MayWrite(r, i)
  <2>1. Become(a, Ended(a)) /\ UNCHANGED rows
    BY <1>3 DEF PutRow
  <2> QED
    BY <1>1, <2>1, OffFits, AgentStep
<1>4. CASE MayWrite(r, i)
  <2>1. /\ row' = [row EXCEPT ![s][i] = new]
        /\ finished' = IF new.st \in Closed THEN Finish(s, i) ELSE finished
        /\ agent' = [Outdated({<<s, i>>}) EXCEPT ![a] = q]
    BY <1>4 DEF PutRow
  <2>2. new.st # Absent /\ i \in Targets[s]
    BY <1>1 DEF UpdatedRow, Update, Absent, Fits, Latest
  <2>3. Calls(a, q)
    <3>1. /\ [r EXCEPT !.hold = NoRow, !.etag = FALSE] \in AgentState
          /\ [r EXCEPT !.hold = NoRow, !.etag = FALSE].sid = s
      BY <1>1, OffType DEF AgentState
    <3> QED
      BY <1>1, <3>1, AfterUpdateAims
  <2> HIDE DEF q, new, s
  <2>4. \A u \in Session, j \in Instance :
          row'[u][j] = IF u = s /\ j = i THEN new ELSE row[u][j]
    BY <1>1, <2>1 DEF IInv, TypeOK
  <2>5. /\ \A u \in Session : finished[u] \subseteq finished'[u]
        /\ new.st \in Closed => i \in finished'[s]
    BY <1>1, <2>1 DEF IInv, TypeOK, Finish
  <2>6. RowsSound'
    BY <2>2, <2>4, <2>5 DEF RInv, RowsSound
  <2>7. ASSUME NEW b \in Agent PROVE Fits(b, agent[b])'
    <3>1. agent'[b] = IF b = a THEN q ELSE Outdated({<<s, i>>})[b]
      BY <2>1 DEF Outdated
    <3>2. CASE b = a
      BY <2>3, <3>1, <3>2 DEF Calls, Fits, Latest, AllIn
    <3>3. CASE b # a
      BY <1>1, <2>4, <2>5, <3>1, <3>3, OutdatedFits
    <3> QED
      BY <3>2, <3>3
  <2> QED
    BY <1>2, <2>6, <2>7 DEF RInv
<1> QED
  BY <1>3, <1>4

\* A row is added for an instance that did not pick the session up.
LEMMA CancelOrphanStep ==
  ASSUME IInv, RInv, NEW a \in Agent, NEW n \in Instance, CancelOrphan(a, n)
  PROVE  RInv'
<1> DEFINE r == agent[a]
           s == r.sid
           orphan == [NoRow EXCEPT !.st = "TimedOut"]
           left == [r EXCEPT !.names = r.names \ {n}, !.added = TRUE]
           stop == [r EXCEPT !.pc = "reread", !.names = {}]
           check == [r EXCEPT !.pc = "active", !.ret = "orphans", !.names = {}, !.added = TRUE]
<1>1. /\ r.pc = "orphans" /\ n \in r.names /\ r \in AgentState /\ Aimed(a, r)
      /\ AddOrphan(s, n) /\ UNCHANGED deletion
      /\ finished' = IF row[s][n].st = Absent THEN Finish(s, n) ELSE finished
      /\ \E q \in {left, stop, check, CheckLimits(r)} : Become(a, q)
  BY AgentFits DEF CancelOrphan
<1>2. s \in Session /\ n \in Targets[s]
  BY <1>1 DEF Aimed
<1>3. \A q \in {left, stop, check, CheckLimits(r)} : Calls(a, q)
  <2>1. /\ left.pc = "orphans" /\ left.sid = s /\ left.todo = r.todo
        /\ left.names = r.names \ {n}
    BY <1>1 DEF AgentState
  <2>2. \A q \in {stop, check, CheckLimits(r)} :
          q.pc \in {"reread", "active"} /\ q.sid = s /\ q.todo = r.todo
    BY <1>1 DEF AgentState, CheckLimits
  <2> HIDE DEF left, stop, check
  <2>3. Calls(a, left)
    BY <1>1, <1>2, <2>1 DEF Calls, Aimed, RowWork
  <2>4. \A q \in {stop, check, CheckLimits(r)} : Calls(a, q)
    BY <1>1, <2>2 DEF Calls, Aimed, RowWork
  <2> QED
    BY <2>3, <2>4
<1>4. PICK q \in {left, stop, check, CheckLimits(r)} : Become(a, q)
  BY <1>1
<1>5. Calls(a, q)
  BY <1>3, <1>4
<1>6. orphan.st = "TimedOut" /\ orphan.reports = FALSE
  BY DEF NoRow
<1> HIDE DEF s, orphan, left, stop, check
<1>7. \A u \in Session, j \in Instance :
        row'[u][j] = IF u = s /\ j = n /\ row[u][j].st = Absent THEN orphan ELSE row[u][j]
  BY <1>1, <1>2 DEF AddOrphan, IInv, TypeOK, orphan
<1>8. /\ \A u \in Session : finished[u] \subseteq finished'[u]
      /\ row[s][n].st = Absent => n \in finished'[s]
  BY <1>1, <1>2 DEF IInv, TypeOK, Finish
<1>9. RowsSound'
  BY <1>2, <1>6, <1>7, <1>8 DEF RInv, RowsSound, Absent
<1>10. ASSUME NEW b \in Agent PROVE Fits(b, agent[b])'
  <2>1. agent'[b] = IF b = a THEN q ELSE agent[b]
    BY <1>4 DEF Become, IInv, TypeOK
  <2>2. CASE b = a
    BY <1>5, <2>1, <2>2 DEF Calls, Fits, Latest, AllIn
  <2>3. CASE b # a
    <3>1. Fits(b, agent[b]) /\ agent'[b] = agent[b] /\ b[1] \in Instance
      BY <2>1, <2>3, AgentFits, MachineOfAgent
    <3>2. Latest(b, agent[b])'
      BY <1>7, <3>1 DEF Fits, Aimed, Latest, RowWork
    <3>3. AllIn(agent[b])'
      BY <1>8, <3>1 DEF Fits, Aimed, AllIn
    <3> QED
      BY <3>1, <3>2, <3>3 DEF Fits
  <2> QED
    BY <2>2, <2>3
<1>11. NoneDeleted'
  BY <1>1 DEF RInv, NoneDeleted
<1> QED
  BY <1>9, <1>10, <1>11 DEF RInv

\* An instance row is removed.
LEMMA DeleteRowStep ==
  ASSUME IInv, RInv, NEW i \in Instance, DeleteRow(i)
  PROVE  RInv'
<1> DEFINE s == deletion.sid
<1>1. /\ deletion.pc = "rows" /\ agent' = Outdated({<<s, i>>})
      /\ row' = [row EXCEPT ![s][i] = NoRow]
      /\ finished' = [finished EXCEPT ![s] = @ \ {i}]
      /\ deletion' = [deletion EXCEPT !.names = @ \ {i}]
  BY DEF DeleteRow
<1>2. s \in Session /\ MaxDelete # 0
  BY <1>1 DEF IInv, DeletesClosed, RInv, NoneDeleted
<1>3. NoneDeleted'
  BY <1>2 DEF NoneDeleted
<1>4. NoRow.st = Absent /\ NoRow.reports = FALSE
  BY DEF NoRow
<1> HIDE DEF s
<1>5. /\ \A u \in Session, j \in Instance :
           row'[u][j] = IF u = s /\ j = i THEN NoRow ELSE row[u][j]
      /\ \A u \in Session, j \in Instance :
           j \in finished[u] /\ ~(u = s /\ j = i) => j \in finished'[u]
  BY <1>1, <1>2 DEF IInv, TypeOK
<1>6. RowsSound'
  BY <1>4, <1>5 DEF RInv, RowsSound, Closed, Absent
<1>7. ASSUME NEW b \in Agent PROVE Fits(b, agent[b])'
  <2>1. \A u \in Session, j \in Instance : row'[u][j] = row[u][j] \/ (u = s /\ j = i)
    BY <1>5
  <2>2. agent'[b] = Outdated({<<s, i>>})[b]
    BY <1>1
  <2> QED
    BY <1>2, <2>1, <2>2, OutdatedFits
<1> QED
  BY <1>3, <1>6, <1>7 DEF RInv

\* The other steps of a deletion.
LEMMA DeletionStep ==
  ASSUME IInv, RInv,
         \/ \E s \in Session : StartDeletion(s)
         \/ ListRows \/ DeleteSession \/ CrashDeletion
  PROVE  RInv'
<1>1. UNCHANGED <<rows, agent>>
  BY DEF StartDeletion, ListRows, DeleteSession, CrashDeletion, tables
<1>2. NoneDeleted'
  <2>1. ASSUME NEW s \in Session, StartDeletion(s) PROVE MaxDelete # 0
    <3>1. deletions \in 0..MaxDelete /\ deletions < MaxDelete
      BY <2>1 DEF IInv, TypeOK, StartDeletion
    <3> QED
      BY <3>1
  <2>2. CASE ListRows
    BY <2>2 DEF ListRows, RInv, NoneDeleted
  <2>3. CASE DeleteSession \/ CrashDeletion
    BY <2>3 DEF DeleteSession, CrashDeletion, NoDeletion, NoneDeleted
  <2> QED
    BY <2>1, <2>2, <2>3 DEF NoneDeleted
<1>3. \A b \in Agent : agent'[b] = agent[b]
  BY <1>1
<1> QED
  BY <1>1, <1>2, <1>3, AgentsStep

\* A process ends, or a session grows older.
LEMMA TimeStep ==
  ASSUME IInv, RInv, (\E a \in Agent : Crash(a)) \/ (\E s \in Session : Age(s))
  PROVE  RInv'
<1>1. UNCHANGED <<rows, deletion>>
  BY DEF Crash, Age, tables
<1>2. \A b \in Agent : agent'[b] \in {agent[b], Off}
  BY DEF Crash, Age
<1>3. NoneDeleted'
  BY <1>1 DEF RInv, NoneDeleted
<1> QED
  BY <1>1, <1>2, <1>3, OffFits, AgentsStep

-----------------------------------------------------------------------------
(* The theorems *)

\* The initial states satisfy the invariant.
LEMMA InitRInv == Init => RInv
<1> SUFFICES ASSUME Init PROVE RInv
  OBVIOUS
<1>1. RowsSound
  <2>1. \A s \in Session, i \in Instance : row[s][i] = NoRow
    BY DEF Init
  <2>2. NoRow.st = Absent /\ NoRow.reports = FALSE
    BY DEF NoRow
  <2> QED
    BY <2>1, <2>2 DEF RowsSound, Closed, Absent
<1>2. \A a \in Agent : Fits(a, agent[a])
  BY OffFits DEF Init
<1>3. NoneDeleted
  BY DEF Init, NoneDeleted, NoDeletion
<1> QED
  BY <1>1, <1>2, <1>3 DEF RInv

\* So does every step.
LEMMA NextRInv == IInv /\ RInv /\ [Next]_vars => RInv'
<1> SUFFICES ASSUME IInv, RInv, [Next]_vars PROVE RInv'
  OBVIOUS
<1>1. CASE UNCHANGED vars
  <2>1. UNCHANGED <<rows, deletion, agent>>
    BY <1>1 DEF vars, tables
  <2>2. NoneDeleted'
    BY <2>1 DEF RInv, NoneDeleted
  <2> QED
    BY <2>1, <2>2, AgentsStep
<1>2. ASSUME NEW a \in Agent, Progress(a) PROVE RInv'
  BY <1>2, SubmissionStep, RunActiveSessionStep, ReadRowStep, PutRowStep, AnalyzeLogsStep,
     ReadActiveStep, ReadRowsStep, CloseSessionStep, CancelOrphanStep, RereadStep, DecideStep
  DEF Progress
<1>3. ASSUME NEW a \in Agent, Crash(a) \/ \E ok \in BOOLEAN : Collect(a, ok) PROVE RInv'
  BY <1>3, TimeStep, CollectStep
<1>4. ASSUME NEW i \in Instance, NEW s \in Session, Post(i, s) \/ \E k \in Slot : AutoHeal(i, s, k)
      PROVE  RInv'
  BY <1>4, ArrivalStep
<1>5. ASSUME NEW i \in Runner, NEW due \in BOOLEAN, Poll(i, due) PROVE RInv'
  BY <1>5, PollStep
<1>6. ASSUME NEW s \in Session, StartDeletion(s) \/ Age(s) PROVE RInv'
  BY <1>6, DeletionStep, TimeStep
<1>7. ASSUME NEW i \in Instance, DeleteRow(i) PROVE RInv'
  BY <1>7, DeleteRowStep
<1> QED
  BY <1>1, <1>2, <1>3, <1>4, <1>5, <1>6, <1>7, DeletionStep DEF Next

\* The inductive invariant of the instance rows.
THEOREM RowInvariantHolds == Spec => [](IInv /\ RInv)
<1> QED
  BY InvariantHolds, InitRInv, NextRInv, PTL DEF Spec

\* Who writes the instance table.
WritesRow ==
  \/ \E a \in Agent : PutRow(a) \/ \E n \in Instance : CancelOrphan(a, n)
  \/ \E i \in Instance : DeleteRow(i)

\* Nobody else does.
LEMMA RowWriters == [Next]_vars => UNCHANGED row \/ WritesRow
BY DEF WritesRow, Next, Progress, vars, tables, rows, Post, AutoHeal, QueryActiveSession,
       AddSessionEntity, IsSameSession, ThrowIfMultipleDiagLauncherRunning, RunActiveSession,
       ReadRow, AnalyzeLogs, ReadActive, ReadRows, CloseSession, Reread, Decide, Crash, Collect,
       Poll, StartDeletion, Age, ListRows, DeleteSession, CrashDeletion

\* An update that is written is over.
LEMMA PutEnds ==
  ASSUME IInv, RInv, NEW a \in Agent, PutRow(a), ~UNCHANGED row
  PROVE  agent'[a].pc # "put"
<1> DEFINE r == agent[a]
           v == [r EXCEPT !.hold = NoRow, !.etag = FALSE]
           q == AfterUpdate(a, v)
<1>1. /\ r.pc = "put" /\ r \in AgentState /\ r.sid \in Session /\ a[1] \in Targets[r.sid]
      /\ agent' = [Outdated({<<r.sid, a[1]>>}) EXCEPT ![a] = q]
  BY AgentFits DEF PutRow, Aimed, RowWork, rows
<1>2. v \in AgentState /\ v.sid = r.sid
  BY <1>1, OffType DEF AgentState
<1>3. Calls(a, q)
  BY <1>1, <1>2, AfterUpdateAims
<1> HIDE DEF q
<1> QED
  BY <1>1, <1>3 DEF Calls, Outdated

\* The row of an orphan is added where there is none.
LEMMA OrphanLogs ==
  ASSUME IInv, RInv, NEW a \in Agent, NEW n \in Instance, CancelOrphan(a, n)
  PROVE  \A u \in Session, j \in Instance :
           row'[u][j].logs = row[u][j].logs /\ row'[u][j].reports = row[u][j].reports
<1>1. agent[a].sid \in Session
  BY AgentFits DEF CancelOrphan, Aimed
<1>2. \A u \in Session, j \in Instance :
        row'[u][j] \in {row[u][j], [row[u][j] EXCEPT !.st = "TimedOut"]}
  BY <1>1 DEF CancelOrphan, AddOrphan, IInv, TypeOK, RInv, RowsSound
<1>3. \A u \in Session, j \in Instance : row[u][j] \in Row
  BY DEF IInv, TypeOK
<1> QED
  BY <1>2, <1>3 DEF Row

\* However many processes update the row of an instance, a change of its status never
\* brings back an older list of logs and never loses a recorded outcome: the row
\* SetIntanceStatus writes back is the one that is there, or is refused.
THEOREM StatusesKeepResults == Spec => StatusKeepsResults
<1> DEFINE Kept == \A s \in Session, i \in Instance :
             row'[s][i].logs # row[s][i].logs \/ row'[s][i].reports # row[s][i].reports =>
               \/ row'[s][i].st = Absent
               \/ \E a \in Agent : Puts(a, "Logs", s, i) \/ Puts(a, "Reports", s, i)
<1>1. ASSUME IInv, RInv, [Next]_vars PROVE Kept
  <2>1. CASE UNCHANGED row
    BY <2>1
  <2>2. ASSUME NEW a \in Agent, PutRow(a), ~UNCHANGED row PROVE Kept
    <3> DEFINE r == agent[a]
               i == a[1]
               s == r.sid
               new == UpdatedRow(r)
    <3>1. /\ r.pc = "put" /\ r \in AgentState /\ Fits(a, r) /\ MayWrite(r, i)
          /\ s \in Session /\ i \in Instance
          /\ r.hold \in Row /\ r.op \in Update
          /\ row' = [row EXCEPT ![s][i] = new]
      BY <1>1, <2>2, AgentFits, MachineOfAgent DEF PutRow, Aimed, RowWork, AgentState, rows
    <3>2. agent'[a].pc # "put"
      BY <1>1, <2>2, PutEnds
    <3>3. r.op \notin {"Logs", "Reports"} => new.reports = r.hold.reports /\ new.logs = r.hold.logs
      BY <3>1 DEF UpdatedRow, Update, Row
    <3>4. r.hold = row[s][i]
      BY <1>1, <3>1 DEF MayWrite, Fits, Latest, RInv, RowsSound
    <3>5. r.op \in {"Logs", "Reports"} => Puts(a, r.op, s, i)
      BY <3>1, <3>2 DEF Puts
    <3> HIDE DEF new, s
    <3>6. \A u \in Session, j \in Instance :
            row'[u][j] = IF u = s /\ j = i THEN new ELSE row[u][j]
      BY <1>1, <3>1 DEF IInv, TypeOK
    <3> QED
      BY <3>3, <3>4, <3>5, <3>6
  <2>3. ASSUME NEW a \in Agent, NEW n \in Instance, CancelOrphan(a, n) PROVE Kept
    BY <1>1, <2>3, OrphanLogs
  <2>4. ASSUME NEW i \in Instance, DeleteRow(i) PROVE Kept
    <3>1. deletion.sid \in Session
      BY <1>1, <2>4 DEF DeleteRow, IInv, DeletesClosed
    <3>2. \A u \in Session, j \in Instance : row'[u][j] \in {row[u][j], NoRow}
      BY <1>1, <2>4, <3>1 DEF DeleteRow, IInv, TypeOK
    <3>3. NoRow.st = Absent
      BY DEF NoRow
    <3> QED
      BY <3>2, <3>3
  <2>5. UNCHANGED row \/ WritesRow
    BY <1>1, RowWriters
  <2> QED
    BY <2>1, <2>2, <2>3, <2>4, <2>5 DEF WritesRow
<1>2. IInv /\ RInv /\ [Next]_vars =>
        [\A s \in Session, i \in Instance :
           row'[s][i].logs # row[s][i].logs \/ row'[s][i].reports # row[s][i].reports =>
             \/ row'[s][i].st = Absent
             \/ \E a \in Agent : Puts(a, "Logs", s, i) \/ Puts(a, "Reports", s, i)]_vars
  BY <1>1
<1> QED
  BY <1>2, RowInvariantHolds, PTL DEF Spec, StatusKeepsResults

\* A session is recorded Complete only when every requested instance was done with,
\* whoever checks and whatever is written between its reads, as long as nobody
\* deletes sessions.
THEOREM CompleteOnlyWhenAllIn ==
  ASSUME MaxDelete = 0
  PROVE  Spec => CompleteWhenAllIn
<1>1. ASSUME IInv, RInv, [Next]_vars, NEW s \in Session,
             session[s] # "Complete", session'[s] = "Complete"
      PROVE  Targets[s] \subseteq finished[s]
  <2>1. session \in [Session -> {"Active", Absent} \cup Closed]
    BY <1>1 DEF IInv, TypeOK
  <2>2. ASSUME NEW a \in Agent, CloseSession(a) PROVE Targets[s] \subseteq finished[s]
    <3> DEFINE c == agent[a].cur
    <3>1. /\ agent[a].pc = "close" /\ c \in Session /\ AllIn(agent[a])
          /\ session' = [session EXCEPT ![c] = IF @ = Absent THEN Absent
                           ELSE IF agent[a].ret = "force" THEN "TimedOut" ELSE "Complete"]
      BY <1>1, <2>2, AgentFits DEF CloseSession, Aimed, Fits
    <3>2. s = c /\ agent[a].ret # "force"
      BY <1>1, <2>1, <3>1 DEF Absent
    <3> QED
      BY <3>1, <3>2 DEF AllIn
  <2>3. ASSUME NEW a \in Agent, AddSessionEntity(a) PROVE FALSE
    BY <1>1, <2>1, <2>3 DEF AddSessionEntity, AddSession
  <2>4. ASSUME DeleteSession PROVE FALSE
    BY <1>1, <2>1, <2>4 DEF DeleteSession, Absent
  <2>5. ~UNCHANGED session
    BY <1>1
  <2>6. (\E a \in Agent : AddSessionEntity(a) \/ CloseSession(a)) \/ DeleteSession
    BY <1>1, <2>5
    DEF Next, Progress, vars, tables, rows, Post, AutoHeal, QueryActiveSession, IsSameSession,
        ThrowIfMultipleDiagLauncherRunning, RunActiveSession, ReadRow, PutRow, AnalyzeLogs,
        ReadActive, ReadRows, CancelOrphan, Reread, Decide, Crash, Collect, Poll,
        StartDeletion, Age, ListRows, CrashDeletion, DeleteRow
  <2> QED
    BY <2>2, <2>3, <2>4, <2>6
<1>2. IInv /\ RInv /\ [Next]_vars =>
        [\A s \in Session : session[s] # "Complete" /\ session'[s] = "Complete" =>
           Targets[s] \subseteq finished[s]]_vars
  BY <1>1
<1> QED
  BY <1>2, RowInvariantHolds, PTL DEF Spec, CompleteWhenAllIn

-----------------------------------------------------------------------------
(* An instance is not reported complete before its analysis is recorded.   *)
(* Once no other agent writes the row an agent works on, that follows from *)
(* what each of them does; who may work at the same time is another        *)
(* matter, below.                                                          *)

Analyzed(e) == e.logs = 0 \/ e.reports

\* Before an agent has a session to work on, and after it is done with it.
Early == {"off", "start", "query", "add", "conflict", "run", "done"}

\* An agent works on a session that was submitted.  While it is active, the row it
\* records logs in is Active, and the row it completes has its analysis.
Known(r) == r.pc \notin Early => r.sid \in Session /\ session[r.sid] # Absent

Serves(r) == r.pc \in RowWork /\ session[r.sid] = "Active" /\ r.sid \notin CollectOnly

Recording(r) == r.pc = "collecting" \/ (r.op = "Logs" /\ r.pc \in {"read", "put"})

Onto(a, r) ==
  /\ Serves(r) /\ Recording(r) => row[r.sid][a[1]].st = "Active"
  /\ Serves(r) /\ r.op = "Complete" => Analyzed(row[r.sid][a[1]])
  /\ r.pc = "put" /\ r.hold.st = Absent => r.hold.logs = 0

Placed(a, r) == Known(r) /\ Onto(a, r)

RowsKnown == \A s \in Session, i \in Instance :
  /\ row[s][i].st # Absent => session[s] # Absent
  /\ row[s][i].st = Absent => row[s][i].logs = 0

AInv == RowsKnown /\ (\A a \in Agent : Placed(a, agent[a])) /\ CompleteMeansAnalyzed

\* Who else may be at work: one agent writes a row of an active session at a time,
\* and what an analysis asks for is not a session that only collects.
Exclusive == \A a \in Agent, b \in Agent :
  agent[a].pc \in RowWork /\ agent[b].pc \in RowWork
  /\ a[1] = b[1] /\ agent[a].sid = agent[b].sid
  /\ session[agent[a].sid] = "Active" => a = b

Served == \A s \in Session \ CollectOnly :
  session[s] = "Active" => GetActiveSession \notin CollectOnly

\* While nothing is deleted, a session is submitted once and closed once.
Grows == \A s \in Session :
  \/ session'[s] = session[s]
  \/ session[s] = Absent /\ session'[s] = "Active"
  \/ session[s] # Absent /\ session'[s] \in Closed

-----------------------------------------------------------------------------
(* Steps that leave the rows alone *)

\* What a session was submitted for stays so, and none becomes active again.
LEMMA GrowsKeeps ==
  ASSUME Grows, NEW s \in Session, session[s] # Absent
  PROVE  session'[s] # Absent /\ (session'[s] = "Active" => session[s] = "Active")
BY DEF Grows, Closed, Absent

\* Locals that are placed stay so.
LEMMA StaysPlaced ==
  ASSUME Grows, UNCHANGED row, NEW a, NEW r, Placed(a, r)
  PROVE  /\ r.pc \notin Early => r.sid \in Session /\ session'[r.sid] # Absent
         /\ r.pc \in RowWork /\ session'[r.sid] = "Active" => session[r.sid] = "Active"
BY GrowsKeeps DEF Placed, Known, Early, RowWork

\* Every agent stays as it is or takes locals that are placed.
LEMMA PlacedStep ==
  ASSUME AInv, Grows, UNCHANGED row,
         \A b \in Agent : agent'[b] = agent[b] \/ Placed(b, agent'[b])
  PROVE  AInv'
<1>1. ASSUME NEW b \in Agent PROVE Placed(b, agent[b])'
  <2> DEFINE r == agent'[b]
  <2>1. Placed(b, r)
    BY DEF AInv
  <2> HIDE DEF r
  <2>2. /\ r.pc \notin Early => r.sid \in Session /\ session'[r.sid] # Absent
        /\ r.pc \in RowWork /\ session'[r.sid] = "Active" => session[r.sid] = "Active"
    BY <2>1, StaysPlaced
  <2> QED
    BY <2>1, <2>2 DEF Placed, Known, Onto, Serves, Recording, r
<1>2. RowsKnown'
  BY GrowsKeeps DEF AInv, RowsKnown
<1>3. CompleteMeansAnalyzed'
  <2>1. ASSUME NEW s \in Session, NEW i \in Instance, session'[s] = "Active",
               row[s][i].st = "Complete"
        PROVE  session[s] = "Active"
    BY <2>1, GrowsKeeps DEF AInv, RowsKnown, Absent
  <2> QED
    BY <2>1 DEF AInv, CompleteMeansAnalyzed
<1> QED
  BY <1>1, <1>2, <1>3 DEF AInv

\* An agent that has no session to work on is placed.
LEMMA EarlyPlaced == ASSUME NEW a, NEW r, r.pc \in Early PROVE Placed(a, r)
BY DEF Early, RowWork, Placed, Known, Onto, Serves

\* So is one that does not work on a row.
LEMMA AwayPlaced ==
  ASSUME NEW a, NEW r, r.pc \notin RowWork, r.sid \in Session, session[r.sid] # Absent
  PROVE  Placed(a, r)
BY DEF RowWork, Placed, Known, Onto, Serves

\* And the caller of an update that neither records logs nor completes the row.
LEMMA CallingPlaced ==
  ASSUME NEW a, NEW r \in AgentState, NEW o \in Update, r.sid \in Session, session[r.sid] # Absent,
         o = "Logs" /\ session[r.sid] = "Active" /\ r.sid \notin CollectOnly
           => row[r.sid][a[1]].st = "Active",
         o = "Complete" /\ session[r.sid] = "Active" /\ r.sid \notin CollectOnly
           => Analyzed(row[r.sid][a[1]])
  PROVE  Placed(a, Calling(r, o))
<1>1. /\ Calling(r, o).pc = "read" /\ Calling(r, o).sid = r.sid /\ Calling(r, o).op = o
  BY DEF Calling, AgentState
<1> HIDE DEF Calling
<1> QED
  BY <1>1 DEF Placed, Known, Onto, Serves, Recording

\* Off and Ended are early.
LEMMA OffPlaced ==
  ASSUME NEW a
  PROVE  Placed(a, Off) /\ Placed(a, Ended(a)) /\ Placed(a, [Off EXCEPT !.pc = "start"])
<1>1. Off.pc \in Early /\ Ended(a).pc \in Early /\ [Off EXCEPT !.pc = "start"].pc \in Early
  BY DEF Off, Ended, Early
<1> QED
  BY <1>1, EarlyPlaced

\* One agent takes a step.
LEMMA OnePlacedStep ==
  ASSUME IInv, AInv, Grows, UNCHANGED row, NEW a \in Agent, NEW q, Become(a, q), Placed(a, q)
  PROVE  AInv'
<1>1. \A b \in Agent : agent'[b] = IF b = a THEN q ELSE agent[b]
  BY DEF Become, IInv, TypeOK
<1> QED
  BY <1>1, PlacedStep

\* A step that does not change the session table.
LEMMA SameGrows == UNCHANGED session => Grows
BY DEF Grows

-----------------------------------------------------------------------------
(* The steps of the agents, except the writes *)

\* What the invariants say of one agent.
LEMMA AgentPlaced ==
  ASSUME IInv, RInv, AInv, NEW a \in Agent
  PROVE  /\ agent[a] \in AgentState /\ Aimed(a, agent[a]) /\ Placed(a, agent[a])
         /\ agent[a].pc \notin Early =>
              agent[a].sid \in Session /\ session[agent[a].sid] # Absent
BY AgentFits DEF AInv, Placed, Known

\* The submission of a session starts a DiagLauncher, or goes on in one.
LEMMA SubmittedPlaced ==
  ASSUME IInv, RInv, AInv, Grows, UNCHANGED row, NEW a \in Agent, Submitted(a)
  PROVE  AInv'
<1>1. CASE a[2] = "launcher"
  <2> DEFINE q == [agent[a] EXCEPT !.pc = "run"]
  <2>1. q.pc \in Early
    BY AgentPlaced DEF AgentState, Early
  <2> QED
    BY <1>1, <2>1, EarlyPlaced, OnePlacedStep DEF Submitted
<1>2. CASE a[2] # "launcher" /\ FreeSlots(a[1]) = {}
  BY <1>2, OffPlaced, OnePlacedStep DEF Submitted, End
<1>3. CASE a[2] # "launcher" /\ FreeSlots(a[1]) # {}
  <2> DEFINE l == Launcher(a[1], CHOOSE k \in FreeSlots(a[1]) : TRUE)
             new == [Off EXCEPT !.pc = "start"]
  <2>1. agent' = [agent EXCEPT ![a] = Off, ![l] = new]
    BY <1>3 DEF Submitted
  <2>2. \A b : Placed(b, Off) /\ Placed(b, new)
    BY OffPlaced
  <2> HIDE DEF l, new
  <2>3. \A b \in Agent : agent'[b] \in {new, Off, agent[b]}
    BY <2>1 DEF IInv, TypeOK
  <2> QED
    BY <2>2, <2>3, PlacedStep
<1> QED
  BY <1>1, <1>2, <1>3

\* A session is added to the table only once.
LEMMA AddSessionGrows ==
  ASSUME IInv, NEW a \in Agent, AddSession(a), agent[a].pc = "add"
  PROVE  Grows
<1>1. agent[a].sid \in Session
  BY BusyIsWorking DEF Working
<1> QED
  BY <1>1 DEF AddSession, Grows, IInv, TypeOK

\* The steps by which a session is submitted and a DiagLauncher starts.
LEMMA SubmissionPlaced ==
  ASSUME IInv, RInv, AInv, NEW a \in Agent,
         \/ \E throttled \in BOOLEAN : QueryActiveSession(a, throttled)
         \/ AddSessionEntity(a) \/ IsSameSession(a) \/ ThrowIfMultipleDiagLauncherRunning(a)
  PROVE  AInv'
<1>1. UNCHANGED row
  BY DEF QueryActiveSession, AddSessionEntity, IsSameSession, ThrowIfMultipleDiagLauncherRunning,
         tables, rows
<1>2. Grows
  <2>1. CASE AddSessionEntity(a)
    BY <2>1, AddSessionGrows DEF AddSessionEntity
  <2>2. CASE ~AddSessionEntity(a)
    BY <2>2, SameGrows DEF QueryActiveSession, IsSameSession, ThrowIfMultipleDiagLauncherRunning, tables
  <2> QED
    BY <2>1, <2>2
<1>3. \/ Submitted(a) \/ End(a)
      \/ \E p \in {"add", "conflict", "query", "run"} : Become(a, [agent[a] EXCEPT !.pc = p])
  BY DEF QueryActiveSession, AddSessionEntity, AddSession, IsSameSession,
         ThrowIfMultipleDiagLauncherRunning
<1>4. ASSUME NEW p \in {"add", "conflict", "query", "run"}, Become(a, [agent[a] EXCEPT !.pc = p])
      PROVE  AInv'
  <2> DEFINE q == [agent[a] EXCEPT !.pc = p]
  <2>1. q.pc \in Early
    BY AgentPlaced DEF AgentState, Early
  <2> QED
    BY <1>1, <1>2, <1>4, <2>1, EarlyPlaced, OnePlacedStep
<1> QED
  BY <1>1, <1>2, <1>3, <1>4, SubmittedPlaced, OffPlaced, OnePlacedStep DEF End

\* A request arrives, or auto-heal starts a DiagLauncher.
LEMMA ArrivalPlaced ==
  ASSUME IInv, RInv, AInv, NEW i \in Instance, NEW s \in Session,
         Post(i, s) \/ \E k \in Slot : AutoHeal(i, s, k)
  PROVE  AInv'
<1>1. Grows /\ UNCHANGED row
  BY SameGrows DEF Post, AutoHeal, tables, rows
<1>2. CASE Post(i, s)
  <2> DEFINE q == [Off EXCEPT !.pc = "query", !.sid = s]
  <2>1. Kudu(i) \in Agent /\ q.pc \in Early
    BY DEF Agent, Off, Early
  <2> QED
    BY <1>1, <1>2, <2>1, EarlyPlaced, OnePlacedStep DEF Post
<1>3. ASSUME NEW k \in Slot, AutoHeal(i, s, k) PROVE AInv'
  <2> DEFINE q == [Off EXCEPT !.pc = "start", !.sid = s, !.auto = TRUE]
  <2>1. Launcher(i, k) \in Agent /\ q.pc \in Early
    BY DEF Agent, Off, Early
  <2> QED
    BY <1>1, <1>3, <2>1, EarlyPlaced, OnePlacedStep DEF AutoHeal
<1> QED
  BY <1>2, <1>3

\* DiagLauncher picks the active session, if it names this machine.
LEMMA RunActiveSessionPlaced ==
  ASSUME IInv, RInv, AInv, NEW a \in Agent, RunActiveSession(a)
  PROVE  AInv'
<1> DEFINE x == GetActiveSession
           q == [agent[a] EXCEPT !.sid = x, !.todo = ShouldCollect(row[x][a[1]].st)]
<1>1. Grows /\ UNCHANGED row
  BY SameGrows DEF RunActiveSession, tables, rows
<1>2. CASE End(a)
  BY <1>1, <1>2, OffPlaced, OnePlacedStep DEF End
<1>3. CASE x # 0 /\ a[1] \in Targets[x] /\ Become(a, Calling(q, "Started"))
  <2>1. x \in Session /\ session[x] # Absent /\ agent[a] \in AgentState
    BY <1>3, ActiveSessionIsActive, AgentFits DEF Absent
  <2>2. ShouldCollect(row[x][a[1]].st) \in BOOLEAN
    BY DEF ShouldCollect
  <2>3. q \in AgentState /\ q.sid = x
    BY <2>1, <2>2, SessionInRange DEF AgentState
  <2> HIDE DEF q
  <2>4. Placed(a, Calling(q, "Started"))
    BY <2>1, <2>3, CallingPlaced DEF Update
  <2> QED
    BY <1>1, <1>3, <2>4, OnePlacedStep
<1> QED
  BY <1>2, <1>3 DEF RunActiveSession

\* The tool of the collector returns: its logs are recorded in an Active row.
LEMMA CollectPlaced ==
  ASSUME IInv, RInv, AInv, NEW a \in Agent, NEW ok \in BOOLEAN, Collect(a, ok)
  PROVE  AInv'
<1> DEFINE r == agent[a]
           q == [r EXCEPT !.logs = IF ok THEN r.sid ELSE 0]
<1>1. /\ r.pc = "collecting" /\ UNCHANGED row /\ Grows
      /\ Become(a, Calling(q, "Logs"))
  BY SameGrows DEF Collect, tables, rows
<1>2. r \in AgentState /\ Placed(a, r) /\ r.sid \in Session /\ session[r.sid] # Absent
  BY <1>1, AgentPlaced DEF Early
<1>3. q \in AgentState /\ q.sid = r.sid
  BY <1>2, ZeroInRange DEF AgentState
<1>4. session[r.sid] = "Active" /\ r.sid \notin CollectOnly => row[r.sid][a[1]].st = "Active"
  BY <1>1, <1>2 DEF Placed, Onto, Serves, Recording, RowWork
<1> HIDE DEF q
<1>5. Placed(a, Calling(q, "Logs"))
  BY <1>2, <1>3, <1>4, CallingPlaced DEF Update
<1> QED
  BY <1>1, <1>5, OnePlacedStep

\* The row of this machine is read, with its ETag.
LEMMA ReadRowPlaced ==
  ASSUME IInv, RInv, AInv, NEW a \in Agent, ReadRow(a)
  PROVE  AInv'
<1> DEFINE r == agent[a]
           e == row[r.sid][a[1]]
           q == [r EXCEPT !.pc = "put", !.hold = e, !.etag = TRUE]
<1>1. /\ r.pc = "read" /\ UNCHANGED row /\ Grows
      /\ Become(a, IF e.st = Absent /\ r.op \in {"Logs", "Reports"} THEN Ended(a) ELSE q)
  BY SameGrows DEF ReadRow, tables, rows
<1>2. r \in AgentState /\ Placed(a, r) /\ r.sid \in Session /\ session[r.sid] # Absent
  BY <1>1, AgentPlaced DEF Early
<1>3. CASE Become(a, Ended(a))
  BY <1>1, <1>3, OffPlaced, OnePlacedStep
<1>4. CASE Become(a, q)
  <2>1. q.pc = "put" /\ q.sid = r.sid /\ q.hold = e /\ q.op = r.op
    BY <1>2 DEF AgentState
  <2>2. e.st = Absent => e.logs = 0
    BY <1>2, MachineOfAgent DEF AInv, RowsKnown
  <2> HIDE DEF e, q, r
  <2>3. Placed(a, q)
    BY <1>1, <1>2, <2>1, <2>2 DEF Placed, Known, Onto, Serves, Recording, RowWork
  <2> QED
    BY <1>1, <1>4, <2>3, OnePlacedStep
<1> QED
  BY <1>1, <1>3, <1>4

\* The analysis of what the active session lists for this machine: while the session
\* that is worked on is active there is a session to analyse.
LEMMA AnalyzeLogsPlaced ==
  ASSUME IInv, RInv, AInv, Served, NEW a \in Agent, AnalyzeLogs(a)
  PROVE  AInv'
<1> DEFINE r == agent[a]
           x == GetActiveSession
           q == [r EXCEPT !.logs = row[x][a[1]].logs]
<1>1. r.pc = "analyze" /\ UNCHANGED row /\ Grows
  BY SameGrows DEF AnalyzeLogs, tables, rows
<1>2. r \in AgentState /\ r.sid \in Session /\ session[r.sid] # Absent
  BY <1>1, AgentPlaced DEF Early
<1>3. CASE (x = 0 \/ x \in CollectOnly) /\ Become(a, Calling(r, "Complete"))
  <2>1. ~(session[r.sid] = "Active" /\ r.sid \notin CollectOnly)
    BY <1>2, <1>3, ActiveSessionIsActive DEF Served
  <2>2. Placed(a, Calling(r, "Complete"))
    BY <1>2, <2>1, CallingPlaced DEF Update
  <2> QED
    BY <1>1, <1>3, <2>2, OnePlacedStep
<1>4. CASE Become(a, Ended(a))
  BY <1>1, <1>4, OffPlaced, OnePlacedStep
<1>5. CASE x # 0 /\ Become(a, Calling(q, "Reports"))
  <2>1. x \in Session /\ row[x][a[1]].logs \in 0..MaxSession
    BY <1>5, ActiveSessionIsActive, MachineOfAgent DEF IInv, TypeOK, Row
  <2>2. q \in AgentState /\ q.sid = r.sid
    BY <1>2, <2>1 DEF AgentState
  <2> HIDE DEF q
  <2>3. Placed(a, Calling(q, "Reports"))
    BY <1>2, <2>2, CallingPlaced DEF Update
  <2> QED
    BY <1>1, <1>5, <2>3, OnePlacedStep
<1> QED
  BY <1>3, <1>4, <1>5 DEF AnalyzeLogs

\* Wherever the completion check returns to, it does not work on a row.
LEMMA ReturnedPlaced ==
  ASSUME IInv, RInv, AInv, NEW a \in Agent, agent[a].pc \notin Early, NEW done
  PROVE  Placed(a, Returned(a, done))
<1> DEFINE r == [agent[a] EXCEPT !.cur = 0]
           on(p) == [r EXCEPT !.pc = p, !.ret = "end"]
<1>0. agent[a] \in AgentState /\ agent[a].sid \in Session /\ session[agent[a].sid] # Absent
  BY AgentPlaced
<1>1. r.ret \in {"end", "orphans", "force", "check"}
  BY <1>0 DEF AgentState
<1>2. \A p \in {"reread", "decide"} : on(p).pc = p /\ on(p).sid = agent[a].sid
  BY <1>0 DEF AgentState
<1>3. \A p \in {"reread", "decide"} : Placed(a, on(p))
  BY <1>0, <1>2, AwayPlaced DEF RowWork
<1>4. Returned(a, done) =
        CASE r.ret = "end"     -> Ended(a)
          [] r.ret = "orphans" -> on("reread")
          [] r.ret = "force"   -> Off
          [] r.ret = "check"   -> IF done THEN Off ELSE on("decide")
  BY DEF Returned
<1> HIDE DEF r, on
<1> QED
  BY <1>1, <1>3, <1>4, OffPlaced

\* The completion check.
LEMMA CheckPlaced ==
  ASSUME IInv, RInv, AInv, NEW a \in Agent, ReadActive(a) \/ ReadRows(a) \/ CloseSession(a)
  PROVE  AInv'
<1> DEFINE r == agent[a]
           on == [r EXCEPT !.pc = "rows", !.cur = GetActiveSession]
           off == [r EXCEPT !.pc = "close"]
<1>1. r.pc \in {"active", "rows", "close"} /\ UNCHANGED row
  BY DEF ReadActive, ReadRows, CloseSession, tables, rows
<1>2. r \in AgentState /\ Aimed(a, r) /\ r.sid \in Session /\ session[r.sid] # Absent
  BY <1>1, AgentPlaced DEF Early
<1>3. Grows
  <2>1. CASE CloseSession(a)
    <3>1. r.cur \in Session
      BY <2>1, <1>2 DEF CloseSession, Aimed
    <3> QED
      BY <2>1, <3>1 DEF CloseSession, Grows, Closed, IInv, TypeOK
  <2>2. CASE ~CloseSession(a)
    BY <2>2, SameGrows DEF ReadActive, ReadRows, tables
  <2> QED
    BY <2>1, <2>2
<1>4. \/ \E done \in BOOLEAN : Become(a, Returned(a, done))
      \/ Become(a, on) \/ Become(a, off)
  BY DEF ReadActive, ReadRows, CloseSession
<1>5. on.pc \notin RowWork /\ on.sid = r.sid /\ off.pc \notin RowWork /\ off.sid = r.sid
  BY <1>2 DEF AgentState, RowWork
<1> HIDE DEF on, off
<1>6. Placed(a, on) /\ Placed(a, off) /\ \A done : Placed(a, Returned(a, done))
  BY <1>1, <1>2, <1>5, AwayPlaced, ReturnedPlaced DEF Early
<1> QED
  BY <1>1, <1>3, <1>4, <1>6, OnePlacedStep

\* A round of the polling loop starts, or reads the session once more.
LEMMA LoopPlaced ==
  ASSUME IInv, RInv, AInv,
         \/ \E i \in Runner, due \in BOOLEAN : Poll(i, due)
         \/ \E a \in Agent : Reread(a)
  PROVE  AInv'
<1> DEFINE x == GetActiveSession
           r(i) == Snapshot(x, i)
           decide(i) == [r(i) EXCEPT !.pc = "decide"]
           orphans(i) == [r(i) EXCEPT !.pc = "orphans", !.names = Orphans(x)]
<1>1. Grows /\ UNCHANGED row
  BY SameGrows DEF Poll, Reread, tables, rows
<1>2. ASSUME x # 0, NEW a \in Agent, NEW i,
             NEW q \in {decide(i), CheckLimits(r(i)), orphans(i)}, Become(a, q)
      PROVE  AInv'
  <2>1. x \in Session /\ session[x] # Absent
    BY <1>2, ActiveSessionIsActive DEF Absent
  <2>2. r(i) \in AgentState /\ r(i).sid = x
    BY <2>1, SnapshotType DEF Working, Snapshot, Off
  <2> HIDE DEF r
  <2>3. q.pc \notin RowWork /\ q.sid = x
    BY <1>2, <2>2 DEF AgentState, CheckLimits, RowWork
  <2> QED
    BY <1>1, <1>2, <2>1, <2>3, AwayPlaced, OnePlacedStep
<1>3. ASSUME NEW i \in Runner, NEW due \in BOOLEAN, Poll(i, due)
      PROVE  AInv'
  <2>1. x # 0
    BY <1>3 DEF Poll
  <2>2. Loop(i) \in Agent
    BY DEF Agent
  <2>3. \/ Become(Loop(i), decide(i)) \/ Become(Loop(i), CheckLimits(r(i)))
        \/ Become(Loop(i), orphans(i))
    BY <1>3 DEF Poll
  <2> HIDE DEF x, r, decide, orphans
  <2> QED
    BY <1>2, <2>1, <2>2, <2>3
<1>4. ASSUME NEW a \in Agent, Reread(a)
      PROVE  AInv'
  <2>1. Become(a, Off) \/ (x # 0 /\ Become(a, CheckLimits(r(a[1]))))
    BY <1>4 DEF Reread
  <2> HIDE DEF x, r, decide, orphans
  <2> QED
    BY <1>1, <1>2, <2>1, OffPlaced, OnePlacedStep
<1> QED
  BY <1>3, <1>4

\* An analysis task is started.
LEMMA DecidePlaced ==
  ASSUME IInv, RInv, AInv, NEW a \in Agent, Decide(a)
  PROVE  AInv'
<1> DEFINE r == agent[a]
           t == AnalysisTask(a[1], r.sid)
           new == Calling([Off EXCEPT !.sid = r.sid], "Analyzing")
<1>1. Grows /\ UNCHANGED row /\ r.pc = "decide"
  BY SameGrows DEF Decide, tables, rows
<1>2. r.sid \in Session /\ session[r.sid] # Absent
  BY <1>1, AgentPlaced DEF Early
<1>3. Placed(t, new)
  <2>1. [Off EXCEPT !.sid = r.sid] \in AgentState /\ [Off EXCEPT !.sid = r.sid].sid = r.sid
    BY <1>2, OffType, SessionInRange DEF Idle, AgentState
  <2> HIDE DEF t
  <2> QED
    BY <1>2, <2>1, CallingPlaced DEF Update
<1> HIDE DEF t, new
<1>4. \A b \in Agent : agent'[b] \in {agent[b], Off} \/ (b = t /\ agent'[b] = new)
  BY DEF Decide, IInv, TypeOK, t, new
<1> QED
  BY <1>1, <1>3, <1>4, OffPlaced, PlacedStep

\* A process ends, or a session grows older.
LEMMA TimePlaced ==
  ASSUME IInv, RInv, AInv, (\E a \in Agent : Crash(a)) \/ (\E s \in Session : Age(s))
  PROVE  AInv'
<1>1. Grows /\ UNCHANGED row
  BY SameGrows DEF Crash, Age, tables, rows
<1>2. \A b \in Agent : agent'[b] \in {agent[b], Off}
  BY DEF Crash, Age
<1> QED
  BY <1>1, <1>2, OffPlaced, PlacedStep

-----------------------------------------------------------------------------
(* The writes *)

\* What an agent does after an update: it records logs only in a row it has just
\* made Active, and completes it only after it has recorded reports.
LEMMA AfterUpdateWork ==
  ASSUME NEW a, NEW r \in AgentState
  PROVE  LET q == AfterUpdate(a, r)
         IN /\ q.pc # "put"
            /\ q.pc \notin Early => q.sid = r.sid
            /\ q.pc \in RowWork /\ Recording(q) => r.op = "Collecting"
            /\ q.pc \in RowWork /\ q.op = "Complete" => r.op = "Reports"
<1> DEFINE q == AfterUpdate(a, r)
           Fine(w, p) == /\ w.pc # "put" /\ (w.pc \notin Early => w.sid = r.sid)
                         /\ w.pc \in RowWork /\ Recording(w) => p = "Collecting"
                         /\ w.pc \in RowWork /\ w.op = "Complete" => p = "Reports"
<1>1. \A v \in AgentState : \A o : v.sid = r.sid =>
        /\ Calling(v, o).pc = "read" /\ Calling(v, o).sid = r.sid /\ Calling(v, o).op = o
  BY DEF Calling, AgentState
<1>2. /\ [r EXCEPT !.logs = 0] \in AgentState /\ [r EXCEPT !.logs = 0].sid = r.sid
      /\ [r EXCEPT !.todo = FALSE] \in AgentState /\ [r EXCEPT !.todo = FALSE].sid = r.sid
  BY ZeroInRange DEF AgentState
<1>3. \A v \in AgentState : \A o : v.sid = r.sid /\ o \notin {"Logs", "Complete"} =>
        \A p : Fine(Calling(v, o), p)
  BY <1>1 DEF Recording
<1>4. \A v \in AgentState : \A p : v.sid = r.sid => Fine(Collected(v), p)
  BY <1>3 DEF Collected
<1>5. \A p : Fine(Ended(a), p)
  BY DEF Ended, Off, Early, RowWork
<1>6. r.op \in Update
  BY DEF AgentState
<1>7. CASE r.op = "Started"
  <2>1. q = IF r.todo THEN Calling([r EXCEPT !.todo = FALSE], "Collecting") ELSE Collected(r)
    BY <1>7 DEF AfterUpdate
  <2> QED
    BY <1>2, <1>3, <1>4, <2>1
<1>8. CASE r.op = "Collecting"
  <2>1. q = [r EXCEPT !.pc = "collecting"]
    BY <1>8 DEF AfterUpdate
  <2>2. q.pc = "collecting" /\ q.sid = r.sid /\ q.op = r.op
    BY <2>1 DEF AgentState
  <2> QED
    BY <1>8, <2>2
<1>9. CASE r.op = "Logs"
  <2>1. q = Collected([r EXCEPT !.logs = 0])
    BY <1>9 DEF AfterUpdate
  <2> QED
    BY <1>2, <1>4, <2>1
<1>10. CASE r.op = "AnalysisQueued"
  BY <1>5, <1>10 DEF AfterUpdate
<1>11. CASE r.op = "Analyzing"
  <2>1. q = [r EXCEPT !.pc = "analyze"]
    BY <1>11 DEF AfterUpdate
  <2>2. q.pc = "analyze" /\ q.sid = r.sid /\ q.op = r.op
    BY <2>1 DEF AgentState
  <2> QED
    BY <1>11, <2>2 DEF Recording
<1>12. CASE r.op = "Reports"
  <2>1. q = Calling([r EXCEPT !.logs = 0], "Complete")
    BY <1>12 DEF AfterUpdate
  <2>2. q.pc = "read" /\ q.sid = r.sid /\ q.op = "Complete"
    <3> DEFINE w == [r EXCEPT !.logs = 0]
    <3>1. q = Calling(w, "Complete") /\ w \in AgentState /\ w.sid = r.sid
      BY <1>2, <2>1
    <3> HIDE DEF q, w
    <3> QED
      BY <1>1, <3>1
  <2> QED
    BY <1>12, <2>2 DEF Recording
<1>13. CASE r.op = "Complete"
  <2>1. q = [r EXCEPT !.pc = "active", !.ret = "end"]
    BY <1>13 DEF AfterUpdate
  <2>2. q.pc = "active" /\ q.sid = r.sid
    BY <2>1 DEF AgentState
  <2> QED
    BY <2>2 DEF RowWork
<1> QED
  BY <1>6, <1>7, <1>8, <1>9, <1>10, <1>11, <1>12, <1>13 DEF Update

\* What an update writes: a row made Active by the start and by the collection, and
\* reports along with the logs they are about.
LEMMA UpdatedRowWork ==
  ASSUME NEW r \in AgentState, r.op \in {"Logs", "Reports"} => r.hold.st # Absent
  PROVE  LET e == UpdatedRow(r)
         IN /\ e.st # Absent
            /\ r.op = "Collecting" => e.st = "Active"
            /\ r.op = "Reports" => Analyzed(e)
            /\ e.st = "Complete" /\ r.op # "Complete" =>
                 r.op \in {"Logs", "Reports"} /\ r.hold.st = "Complete"
            /\ r.op = "Complete" => e.logs = r.hold.logs /\ e.reports = r.hold.reports
<1>1. r.op \in Update /\ r.hold \in Row
  BY DEF AgentState
<1>2. CASE r.op \in {"Started", "Collecting"}
  BY <1>1, <1>2 DEF UpdatedRow, Row, Absent
<1>3. CASE r.op \in {"AnalysisQueued", "Analyzing", "Complete"}
  BY <1>1, <1>3 DEF UpdatedRow, Row, Absent
<1>4. CASE r.op = "Logs"
  BY <1>1, <1>4 DEF UpdatedRow, Row
<1>5. CASE r.op = "Reports"
  BY <1>1, <1>5 DEF UpdatedRow, Row, Analyzed
<1> QED
  BY <1>1, <1>2, <1>3, <1>4, <1>5 DEF Update

\* An agent that works on another row, or on one of a session that is not active,
\* stays placed when a row is written.
LEMMA OtherPlaced ==
  ASSUME IInv, RInv, AInv, UNCHANGED session, NEW s \in Session, NEW i \in Instance,
         \A u \in Session, j \in Instance : (u = s /\ j = i) \/ row'[u][j] = row[u][j],
         NEW b \in Agent,
         agent'[b].pc = agent[b].pc, agent'[b].sid = agent[b].sid,
         agent'[b].op = agent[b].op, agent'[b].hold = agent[b].hold,
         ~(Serves(agent[b]) /\ agent[b].sid = s /\ b[1] = i)
  PROVE  Placed(b, agent[b])'
<1> DEFINE r == agent[b]
           q == agent'[b]
<1>1. Placed(b, r) /\ b[1] \in Instance /\ (r.pc \notin Early => r.sid \in Session)
  BY AgentPlaced, MachineOfAgent
<1>2. Serves(r) => row'[r.sid][b[1]] = row[r.sid][b[1]]
  BY <1>1 DEF Serves, RowWork, Early
<1> HIDE DEF r, q
<1>3. q.pc = r.pc /\ q.sid = r.sid /\ q.op = r.op /\ q.hold = r.hold
  BY DEF q, r
<1> QED
  BY <1>1, <1>2, <1>3 DEF Placed, Known, Onto, Serves, Recording, q

\* An instance row is written, by the only agent that works on it if its session is
\* active.
LEMMA PutRowPlaced ==
  ASSUME IInv, RInv, AInv, Exclusive, NEW a \in Agent, PutRow(a)
  PROVE  AInv'
<1> DEFINE r == agent[a]
           i == a[1]
           s == r.sid
           v == [r EXCEPT !.hold = NoRow, !.etag = FALSE]
           q == AfterUpdate(a, v)
           new == UpdatedRow(r)
           active == session[s] = "Active" /\ s \notin CollectOnly
<1>1. /\ r.pc = "put" /\ r \in AgentState /\ Fits(a, r) /\ Placed(a, r)
      /\ s \in Session /\ session[s] # Absent /\ i \in Instance
      /\ UNCHANGED session
  BY AgentFits, AgentPlaced, MachineOfAgent DEF PutRow, Early
<1>2. CASE ~MayWrite(r, i)
  <2>1. Become(a, Ended(a)) /\ UNCHANGED row
    BY <1>2 DEF PutRow, rows
  <2> QED
    BY <1>1, <2>1, SameGrows, OffPlaced, OnePlacedStep
<1>3. CASE MayWrite(r, i)
  <2>1. /\ row' = [row EXCEPT ![s][i] = new]
        /\ agent' = [Outdated({<<s, i>>}) EXCEPT ![a] = q]
    BY <1>3 DEF PutRow
  <2>2. /\ r.op \in {"Logs", "Reports"} => r.hold.st # Absent
        /\ r.hold.st # Absent => r.hold = row[s][i]
        /\ r.hold.st = Absent => r.hold.logs = 0
    BY <1>1, <1>3 DEF MayWrite, Fits, Latest, Placed, Onto
  <2>3. active /\ r.op = "Complete" => Analyzed(r.hold)
    BY <1>1, <2>2 DEF Placed, Onto, Serves, RowWork, Analyzed
  <2>4. active /\ r.op = "Logs" => r.hold.st = "Active"
    BY <1>1, <2>2 DEF Placed, Onto, Serves, Recording, RowWork
  <2>5. v \in AgentState /\ v.sid = s /\ v.op = r.op
    BY <1>1, OffType DEF AgentState
  <2>6. /\ new.st # Absent
        /\ r.op = "Collecting" => new.st = "Active"
        /\ r.op = "Reports" => Analyzed(new)
        /\ new.st = "Complete" /\ r.op # "Complete" =>
             r.op \in {"Logs", "Reports"} /\ r.hold.st = "Complete"
        /\ r.op = "Complete" => new.logs = r.hold.logs /\ new.reports = r.hold.reports
    BY <1>1, <2>2, UpdatedRowWork
  <2>7. /\ q.pc # "put" /\ (q.pc \notin Early => q.sid = s)
        /\ q.pc \in RowWork /\ Recording(q) => r.op = "Collecting"
        /\ q.pc \in RowWork /\ q.op = "Complete" => r.op = "Reports"
    BY <2>5, AfterUpdateWork
  <2> HIDE DEF q, new, v
  <2>8. active /\ new.st = "Complete" => Analyzed(new)
    BY <2>3, <2>4, <2>6 DEF Analyzed
  <2>9. \A u \in Session, j \in Instance :
          row'[u][j] = IF u = s /\ j = i THEN new ELSE row[u][j]
    BY <1>1, <2>1 DEF IInv, TypeOK
  <2>10. \A b \in Agent : agent'[b] = IF b = a THEN q ELSE Outdated({<<s, i>>})[b]
    BY <2>1 DEF Outdated
  <2>11. ASSUME NEW b \in Agent PROVE Placed(b, agent[b])'
    <3>1. CASE b = a
      <4>1. agent'[b] = q /\ row'[s][i] = new
        BY <1>1, <2>9, <2>10, <3>1
      <4>2. q.pc \in RowWork => q.pc \notin Early
        BY DEF RowWork, Early
      <4> QED
        BY <1>1, <2>6, <2>7, <3>1, <4>1, <4>2 DEF Placed, Known, Onto, Serves
    <3>2. CASE b # a
      <4>1. agent'[b] \in {agent[b], [agent[b] EXCEPT !.etag = FALSE]}
        BY <2>10, <3>2 DEF Outdated
      <4>2. /\ agent'[b].pc = agent[b].pc /\ agent'[b].sid = agent[b].sid
            /\ agent'[b].op = agent[b].op /\ agent'[b].hold = agent[b].hold
        BY <4>1, AgentPlaced DEF AgentState
      <4>3. ~(Serves(agent[b]) /\ agent[b].sid = s /\ b[1] = i)
        BY <1>1, <3>2 DEF Exclusive, Serves, RowWork
      <4> HIDE DEF s, i
      <4> QED
        BY <1>1, <2>9, <4>2, <4>3, OtherPlaced
    <3> QED
      BY <3>1, <3>2
  <2>12. RowsKnown'
    BY <1>1, <2>6, <2>9 DEF AInv, RowsKnown
  <2>13. CompleteMeansAnalyzed'
    BY <1>1, <2>8, <2>9 DEF AInv, CompleteMeansAnalyzed, Analyzed
  <2> QED
    BY <2>11, <2>12, <2>13 DEF AInv
<1> QED
  BY <1>2, <1>3

\* A row is added for an instance that did not pick the session up; nobody has
\* anything in a row that is absent.
LEMMA CancelOrphanPlaced ==
  ASSUME IInv, RInv, AInv, NEW a \in Agent, NEW n \in Instance, CancelOrphan(a, n)
  PROVE  AInv'
<1> DEFINE r == agent[a]
           s == r.sid
           orphan == [NoRow EXCEPT !.st = "TimedOut"]
           left == [r EXCEPT !.names = r.names \ {n}, !.added = TRUE]
           stop == [r EXCEPT !.pc = "reread", !.names = {}]
           check == [r EXCEPT !.pc = "active", !.ret = "orphans", !.names = {}, !.added = TRUE]
<1>1. /\ r.pc = "orphans" /\ r \in AgentState /\ s \in Session /\ session[s] # Absent
      /\ AddOrphan(s, n) /\ UNCHANGED session
      /\ \E q \in {left, stop, check, CheckLimits(r)} : Become(a, q)
  BY AgentPlaced DEF CancelOrphan, Early
<1>2. PICK q \in {left, stop, check, CheckLimits(r)} : Become(a, q)
  BY <1>1
<1>3. q.pc \in {"orphans", "reread", "active"} /\ q.sid = s
  BY <1>1, <1>2 DEF AgentState, CheckLimits
<1>4. orphan.st = "TimedOut" /\ orphan.logs = 0
  BY DEF NoRow
<1> HIDE DEF orphan, left, stop, check, s
<1>5. \A u \in Session, j \in Instance :
        row'[u][j] = IF u = s /\ j = n /\ row[u][j].st = Absent THEN orphan ELSE row[u][j]
  BY <1>1 DEF AddOrphan, IInv, TypeOK, orphan
<1>6. \A b \in Agent : agent'[b] = IF b = a THEN q ELSE agent[b]
  BY <1>2 DEF Become, IInv, TypeOK
<1>7. ASSUME NEW b \in Agent PROVE Placed(b, agent[b])'
  <2>1. CASE b = a
    BY <1>1, <1>3, <1>6, <2>1 DEF Placed, Known, Onto, Serves, RowWork
  <2>2. CASE b # a
    <3> DEFINE w == agent[b]
    <3>1. /\ agent'[b] = w /\ Placed(b, w) /\ b[1] \in Instance
          /\ w.pc \notin Early => w.sid \in Session
      BY <1>6, <2>2, AgentPlaced, MachineOfAgent
    <3>2. w.pc \in RowWork => w.sid \in Session
      BY <3>1 DEF RowWork, Early
    <3>3. w.pc \in RowWork /\ row[w.sid][b[1]].st # Absent =>
            row'[w.sid][b[1]] = row[w.sid][b[1]]
      BY <1>5, <3>1, <3>2
    <3>4. w.pc \in RowWork /\ Analyzed(row[w.sid][b[1]]) => Analyzed(row'[w.sid][b[1]])
      BY <1>4, <1>5, <3>1, <3>2 DEF Analyzed
    <3> HIDE DEF w
    <3>5. Known(agent[b])' /\ (Serves(agent[b])' => Serves(w))
      BY <1>1, <3>1 DEF Placed, Known, Serves
    <3> QED
      BY <1>1, <3>1, <3>3, <3>4, <3>5 DEF Placed, Known, Onto, Serves, Recording, Absent
  <2> QED
    BY <2>1, <2>2
<1>8. RowsKnown'
  BY <1>1, <1>4, <1>5 DEF AInv, RowsKnown, Absent
<1>9. CompleteMeansAnalyzed'
  BY <1>1, <1>4, <1>5 DEF AInv, CompleteMeansAnalyzed
<1> QED
  BY <1>7, <1>8, <1>9 DEF AInv

-----------------------------------------------------------------------------
(* Putting the steps together *)

\* While deletions are switched off, none is under way.
LEMMA NothingDeleted ==
  ASSUME MaxDelete = 0, IInv, RInv
  PROVE  /\ ~ListRows /\ ~DeleteSession /\ ~CrashDeletion
         /\ \A i \in Instance : ~DeleteRow(i)
         /\ \A s \in Session : ~StartDeletion(s)
<1>1. deletion.pc = "off"
  BY DEF RInv, NoneDeleted
<1>2. deletions \in 0..0
  BY DEF IInv, TypeOK
<1> QED
  BY <1>1, <1>2 DEF ListRows, DeleteSession, CrashDeletion, DeleteRow, StartDeletion

\* The initial states satisfy the invariant.
LEMMA InitAInv == Init => AInv
<1> SUFFICES ASSUME Init PROVE AInv
  OBVIOUS
<1>1. \A s \in Session, i \in Instance : row[s][i] = NoRow
  BY DEF Init
<1>2. NoRow.st = Absent /\ NoRow.logs = 0
  BY DEF NoRow
<1>3. \A a \in Agent : Placed(a, agent[a])
  BY OffPlaced DEF Init
<1> QED
  BY <1>1, <1>2, <1>3 DEF AInv, RowsKnown, CompleteMeansAnalyzed, Absent

\* So does every step, if one agent at a time works on a row of an active session.
LEMMA NextAInv ==
  ASSUME MaxDelete = 0
  PROVE  IInv /\ RInv /\ AInv /\ Exclusive /\ Served /\ [Next]_vars => AInv'
<1> SUFFICES ASSUME IInv, RInv, AInv, Exclusive, Served, [Next]_vars PROVE AInv'
  OBVIOUS
<1>1. CASE UNCHANGED vars
  <2>1. Grows /\ UNCHANGED <<row, agent>>
    BY <1>1, SameGrows DEF vars, tables, rows
  <2> QED
    BY <2>1, PlacedStep
<1>2. ASSUME NEW a \in Agent, Progress(a) PROVE AInv'
  BY <1>2, SubmissionPlaced, RunActiveSessionPlaced, ReadRowPlaced, PutRowPlaced,
     AnalyzeLogsPlaced, CheckPlaced, CancelOrphanPlaced, LoopPlaced, DecidePlaced
  DEF Progress
<1>3. ASSUME NEW a \in Agent, Crash(a) \/ \E ok \in BOOLEAN : Collect(a, ok) PROVE AInv'
  BY <1>3, TimePlaced, CollectPlaced
<1>4. ASSUME NEW i \in Instance, NEW s \in Session, Post(i, s) \/ \E k \in Slot : AutoHeal(i, s, k)
      PROVE  AInv'
  BY <1>4, ArrivalPlaced
<1>5. ASSUME NEW i \in Runner, NEW due \in BOOLEAN, Poll(i, due) PROVE AInv'
  BY <1>5, LoopPlaced
<1>6. ASSUME NEW s \in Session, Age(s) PROVE AInv'
  BY <1>6, TimePlaced
<1> QED
  BY <1>1, <1>2, <1>3, <1>4, <1>5, <1>6, NothingDeleted DEF Next

-----------------------------------------------------------------------------
(* Who works on a row: DiagLauncher, or the analysis task that auto-heal's *)
(* DiagLauncher left its analysis to, when auto-heal and the users request *)
(* sessions of different machines (the one or the other may request none). *)

Apart == \A s \in Automatic, u \in Session \ Automatic : Targets[s] \cap Targets[u] = {}

\* The rows of instances whose analysis is left to a task, or done.
Late == {"AnalysisQueued", "Analyzing", "Complete"}

Mine(i) == {s \in Session : i \in Targets[s]}
Healed(i) == Mine(i) \cap Automatic # {}

\* A DiagLauncher of auto-heal that has a session to submit.
Waits(r) == r.auto /\ r.pc \in {"start", "query", "add"}

\* On a machine under auto-heal every DiagLauncher is one of auto-heal: it alone
\* submits its session, no other session of the machine is active while it runs it,
\* and it leaves the row alone once the analysis is queued.
OwnsLauncher(i, r, ses, rw, pst) ==
  /\ r.pc \in {"off", "start", "query", "add", "run", "active", "rows", "close"} \cup RowWork
  /\ r.pc \in {"query", "add"} => r.auto
  /\ r.pc \in {"active", "rows", "close"} => r.ret = "end"
  /\ r.pc # "off" => (r.auto <=> Healed(i))
  /\ Waits(r) => /\ r.sid \in Automatic /\ Targets[r.sid] = {i}
                 /\ ses[r.sid] = Absent /\ pst[r.sid] # 0
  /\ r.auto /\ r.pc \in RowWork \cup {"run"} => r.sid \in Session /\ ses[r.sid] # Absent
  /\ r.auto /\ r.pc \notin {"off", "start", "query"} =>
       \A s \in Mine(i) : ses[s] = "Active" => s = r.sid
  /\ r.auto /\ r.pc \in RowWork \cup {"run"} /\ ses[r.sid] = "Active" =>
       rw[r.sid][i].st \notin Late
  /\ r.pc \in RowWork =>
       IF r.auto THEN r.pc # "analyze" /\ r.op \in {"Started", "Collecting", "Logs", "AnalysisQueued"}
       ELSE r.op # "AnalysisQueued"

\* The loop and its tasks take up what was queued.
Queued(i, r, ses, rw) ==
  r.sid \in Automatic /\ (ses[r.sid] = "Active" => rw[r.sid][i].st \in Late)

OwnsTask(i, s, r, ses, rw) ==
  /\ r.pc \in {"off", "done", "active", "rows", "close"} \cup (RowWork \ {"collecting"})
  /\ r.pc \in {"active", "rows", "close"} => r.ret = "end"
  /\ r.pc \in RowWork =>
       /\ r.sid = s /\ r.op \in {"Analyzing", "Reports", "Complete"}
       /\ Queued(i, r, ses, rw)

OwnsLoop(i, r, ses, rw) ==
  /\ r.pc \in {"off", "orphans", "active", "rows", "close", "reread", "decide"}
  /\ r.pc # "off" /\ r.todo => Queued(i, r, ses, rw)

\* Users request sessions of machines that are not under auto-heal.
OwnsKudu(i, r) ==
  /\ r.pc \in {"off", "query", "add", "conflict"}
  /\ r.pc # "off" => r.sid \in Session \ Automatic /\ i \in Targets[r.sid]

Owns(a, r, ses, rw, pst) ==
  /\ a[2] = "launcher" => OwnsLauncher(a[1], r, ses, rw, pst)
  /\ a[2] = "task" => OwnsTask(a[1], a[3], r, ses, rw)
  /\ a[2] = "loop" => OwnsLoop(a[1], r, ses, rw)
  /\ a[2] = "kudu" => OwnsKudu(a[1], r)

OneSubmits == \A a \in Agent, b \in Agent :
  a[2] = "launcher" /\ b[2] = "launcher" /\ Waits(agent[a]) /\ Waits(agent[b])
  /\ agent[a].sid = agent[b].sid => a = b

QueuedRows == \A s \in Session, i \in Instance :
  row[s][i].st = "AnalysisQueued" => s \in Automatic

Posted == \A s \in Automatic : session[s] # Absent => posts[s] # 0

OInv ==
  /\ \A a \in Agent : Owns(a, agent[a], session, row, posts)
  /\ OneSubmits /\ QueuedRows /\ Posted

-----------------------------------------------------------------------------
(* It follows that one agent at a time works on a row *)

\* What an agent is.
LEMMA AgentKinds ==
  ASSUME NEW a \in Agent
  PROVE  /\ a[1] \in Instance /\ a[2] \in {"kudu", "launcher", "loop", "task"}
         /\ a[2] = "launcher" => \E k \in Slot : a = Launcher(a[1], k)
         /\ a[2] = "task" => a = AnalysisTask(a[1], a[3])
<1>1. a[1] \in Instance
  BY MachineOfAgent
<1>2. \/ \E i \in Instance : a = Kudu(i)
      \/ \E i \in Instance, k \in Slot : a = Launcher(i, k)
      \/ \E i \in Runner : a = Loop(i)
      \/ \E i \in Runner, s \in Session : a = AnalysisTask(i, s)
  BY DEF Agent
<1>3. /\ \A i : Kudu(i)[2] = "kudu" /\ Loop(i)[2] = "loop"
      /\ \A i, k : Launcher(i, k)[1] = i /\ Launcher(i, k)[2] = "launcher"
      /\ \A i, s : AnalysisTask(i, s)[1] = i /\ AnalysisTask(i, s)[2] = "task" /\ AnalysisTask(i, s)[3] = s
  BY DEF Kudu, Loop, Launcher, AnalysisTask
<1> HIDE DEF Kudu, Loop, Launcher, AnalysisTask
<1> QED
  BY <1>1, <1>2, <1>3

\* A machine under auto-heal runs sessions of auto-heal only.
LEMMA HealedOnly ==
  ASSUME Apart, NEW i \in Instance
  PROVE  IF Healed(i) THEN Mine(i) \subseteq Automatic ELSE Mine(i) \cap Automatic = {}
BY DEF Apart, Healed, Mine

\* One agent at a time works on a row of an active session.
LEMMA OwnersAreExclusive ==
  ASSUME Apart, IInv, RInv, OInv
  PROVE  Exclusive
<1> SUFFICES ASSUME NEW a \in Agent, NEW b \in Agent,
                    agent[a].pc \in RowWork, agent[b].pc \in RowWork,
                    a[1] = b[1], agent[a].sid = agent[b].sid, session[agent[a].sid] = "Active"
             PROVE  a = b
  BY DEF Exclusive
<1>1. \A c \in Agent : agent[c].pc \in RowWork =>
        /\ Owns(c, agent[c], session, row, posts) /\ c[2] \in {"launcher", "task"}
        /\ agent[c].sid \in Session /\ c[1] \in Targets[agent[c].sid] /\ c[1] \in Instance
  <2> SUFFICES ASSUME NEW c \in Agent, agent[c].pc \in RowWork
               PROVE  /\ Owns(c, agent[c], session, row, posts) /\ c[2] \in {"launcher", "task"}
                      /\ agent[c].sid \in Session /\ c[1] \in Targets[agent[c].sid]
                      /\ c[1] \in Instance
    OBVIOUS
  <2>1. Owns(c, agent[c], session, row, posts)
    BY DEF OInv
  <2>2. c[2] \in {"launcher", "task"}
    BY <2>1, AgentKinds DEF Owns, OwnsLoop, OwnsKudu, RowWork
  <2> QED
    BY <2>1, <2>2, AgentFits, AgentKinds DEF Aimed
<1>2. ASSUME NEW c \in Agent, NEW d \in Agent, c[2] = "launcher", d[2] = "task", c[1] = d[1],
             agent[c].pc \in RowWork, agent[d].pc \in RowWork, agent[c].sid = agent[d].sid,
             session[agent[c].sid] = "Active"
      PROVE  FALSE
  <2> DEFINE s == agent[c].sid
             i == c[1]
  <2>1. OwnsLauncher(i, agent[c], session, row, posts) /\ OwnsTask(i, d[3], agent[d], session, row)
    BY <1>1, <1>2 DEF Owns
  <2>2. s \in Automatic /\ row[s][i].st \in Late
    BY <1>2, <2>1 DEF OwnsTask, Queued
  <2>3. agent[c].auto
    <3>1. Healed(i)
      BY <1>1, <1>2, <2>2 DEF Healed, Mine
    <3> QED
      BY <1>2, <2>1, <3>1 DEF OwnsLauncher, RowWork
  <2> QED
    BY <1>2, <2>1, <2>2, <2>3 DEF OwnsLauncher
<1>3. CASE a[2] = "launcher" /\ b[2] = "launcher"
  <2>1. PICK j \in Slot : a = Launcher(a[1], j)
    BY <1>3, AgentKinds
  <2>2. PICK k \in Slot : b = Launcher(a[1], k)
    BY <1>3, AgentKinds
  <2>3. {agent[a].pc, agent[b].pc} \cap {"off", "start"} = {}
    BY DEF RowWork
  <2>4. j = k
    BY <1>1, <2>1, <2>2, <2>3 DEF IInv, OneLauncher
  <2> QED
    BY <2>1, <2>2, <2>4
<1>4. CASE a[2] = "task" /\ b[2] = "task"
  <2>1. a[3] = agent[a].sid /\ b[3] = agent[b].sid
    BY <1>1, <1>4 DEF Owns, OwnsTask
  <2> QED
    BY <1>4, <2>1, AgentKinds
<1> QED
  BY <1>1, <1>2, <1>3, <1>4

-----------------------------------------------------------------------------
(* Steps that submit nothing and write no row *)

\* No session becomes active, none is forgotten, and what is late stays so.
Steady ==
  /\ \A s \in Session : session'[s] = "Active" => session[s] = "Active"
  /\ \A s \in Session : session'[s] = Absent <=> session[s] = Absent
  /\ \A s \in Session : posts[s] # 0 => posts'[s] # 0
  /\ \A s \in Session, i \in Instance : row'[s][i].st \in Late <=> row[s][i].st \in Late
  /\ QueuedRows'

\* Locals that fit the tables before such a step fit them after it.
LEMMA SteadyOwns ==
  ASSUME Steady, NEW a \in Agent, NEW r, Owns(a, r, session, row, posts)
  PROVE  Owns(a, r, session', row', posts')
<1>1. a[1] \in Instance
  BY MachineOfAgent
<1>2. Automatic \subseteq Session
  BY ParametersAssumption
<1>3. ASSUME a[2] = "launcher" PROVE OwnsLauncher(a[1], r, session', row', posts')
  <2>1. OwnsLauncher(a[1], r, session, row, posts)
    BY <1>3 DEF Owns
  <2>2. Waits(r) => session'[r.sid] = Absent /\ posts'[r.sid] # 0
    BY <1>2, <2>1 DEF OwnsLauncher, Steady
  <2>3. r.auto /\ r.pc \in RowWork \cup {"run"} =>
          /\ session'[r.sid] # Absent
          /\ session'[r.sid] = "Active" => row'[r.sid][a[1]].st \notin Late
    BY <1>1, <2>1 DEF OwnsLauncher, Steady
  <2>4. \A s \in Mine(a[1]) : session'[s] = "Active" => session[s] = "Active"
    BY DEF Steady, Mine
  <2> QED
    BY <2>1, <2>2, <2>3, <2>4 DEF OwnsLauncher
<1>4. Queued(a[1], r, session, row) => Queued(a[1], r, session', row')
  BY <1>1, <1>2 DEF Queued, Steady
<1> QED
  BY <1>3, <1>4 DEF Owns, OwnsTask, OwnsLoop

\* A step of an agent that does not start waiting to submit a session.
NotNew(b) == Waits(agent'[b]) => Waits(agent[b]) /\ agent'[b].sid = agent[b].sid

\* Every agent stays as it is or takes locals that fit.
LEMMA OwnsStep ==
  ASSUME OInv, Steady,
         \A b \in Agent : agent'[b] = agent[b] \/ (Owns(b, agent'[b], session, row, posts) /\ NotNew(b))
  PROVE  OInv'
<1>1. \A b \in Agent : Owns(b, agent'[b], session, row, posts) /\ NotNew(b)
  BY DEF OInv, NotNew
<1>2. \A b \in Agent : Owns(b, agent'[b], session', row', posts')
  BY <1>1, SteadyOwns
<1>3. OneSubmits'
  BY <1>1 DEF OInv, OneSubmits, NotNew
<1>4. Posted'
  <2>1. Automatic \subseteq Session
    BY ParametersAssumption
  <2> QED
    BY <2>1 DEF OInv, Posted, Steady
<1> QED
  BY <1>2, <1>3, <1>4 DEF OInv, Steady

\* The same for a step of one agent that leaves the tables alone.
LEMMA OneOwnsStep ==
  ASSUME IInv, OInv, UNCHANGED <<session, row, posts>>, NEW a \in Agent, NEW q, Become(a, q),
         Owns(a, q, session, row, posts),
         Waits(q) => Waits(agent[a]) /\ q.sid = agent[a].sid
  PROVE  OInv'
<1>1. \A b \in Agent : agent'[b] = IF b = a THEN q ELSE agent[b]
  BY DEF Become, IInv, TypeOK
<1>2. Steady
  BY DEF Steady, OInv, QueuedRows
<1>3. \A b \in Agent : agent'[b] = agent[b] \/ (Owns(b, agent'[b], session, row, posts) /\ NotNew(b))
  BY <1>1 DEF NotNew
<1> QED
  BY <1>2, <1>3, OwnsStep

\* An agent that is off, or ended, owns nothing.
LEMMA OffOwns ==
  ASSUME NEW a, NEW ses, NEW rw, NEW pst
  PROVE  /\ Owns(a, Off, ses, rw, pst) /\ Owns(a, Ended(a), ses, rw, pst)
         /\ ~Waits(Off) /\ ~Waits(Ended(a)) /\ ~Waits([Off EXCEPT !.pc = "start"])
<1>1. Off.pc = "off" /\ ~Off.auto /\ ~Off.todo
  BY DEF Off
<1>2. Owns(a, Off, ses, rw, pst)
  <2> HIDE DEF Off
  <2> QED
    BY <1>1 DEF Owns, OwnsLauncher, OwnsTask, OwnsLoop, OwnsKudu, Waits, RowWork
<1>3. Owns(a, Ended(a), ses, rw, pst)
  <2> DEFINE q == [Off EXCEPT !.pc = "done"]
  <2>1. q.pc = "done" /\ ~q.auto /\ ~q.todo
    BY DEF Off
  <2>2. a[2] = "task" => Owns(a, q, ses, rw, pst)
    <3> HIDE DEF q
    <3> QED
      BY <2>1 DEF Owns, OwnsTask, RowWork
  <2> QED
    BY <1>2, <2>2 DEF Ended
<1> QED
  BY <1>2, <1>3 DEF Waits, Off, Ended

\* The locals of an agent fit.
LEMMA AgentOwns ==
  ASSUME IInv, RInv, AInv, OInv, NEW a \in Agent
  PROVE  /\ agent[a] \in AgentState /\ Aimed(a, agent[a]) /\ Placed(a, agent[a])
         /\ agent[a].pc \notin Early => agent[a].sid \in Session /\ session[agent[a].sid] # Absent
         /\ Owns(a, agent[a], session, row, posts)
         /\ a[1] \in Instance /\ a[2] \in {"kudu", "launcher", "loop", "task"}
         /\ agent[a].auto \in BOOLEAN
BY AgentPlaced, AgentKinds DEF OInv, AgentState

\* An agent that goes on with the row it works on still owns it: a launcher of
\* auto-heal if it does not analyse, others if they queue nothing.
LEMMA WorkOwns ==
  ASSUME IInv, RInv, AInv, OInv, NEW a \in Agent, agent[a].pc \in RowWork,
         NEW q, q.pc \in RowWork, q.sid = agent[a].sid, q.auto = agent[a].auto,
         IF a[2] = "launcher" /\ agent[a].auto
         THEN q.pc # "analyze" /\ q.op \in {"Started", "Collecting", "Logs", "AnalysisQueued"}
         ELSE q.op # "AnalysisQueued",
         a[2] = "task" => q.pc # "collecting" /\ q.op \in {"Analyzing", "Reports", "Complete"}
  PROVE  Owns(a, q, session, row, posts) /\ ~Waits(q)
<1> DEFINE r == agent[a]
<1>1. Owns(a, r, session, row, posts) /\ a[2] \in {"kudu", "launcher", "loop", "task"}
  BY AgentOwns
<1>2. ~Waits(q)
  BY DEF Waits, RowWork
<1> HIDE DEF r
<1>3. a[2] \notin {"kudu", "loop"}
  BY <1>1 DEF Owns, OwnsKudu, OwnsLoop, RowWork, r
<1>4. ASSUME a[2] = "task" PROVE OwnsTask(a[1], a[3], q, session, row)
  BY <1>1, <1>4 DEF Owns, OwnsTask, Queued, RowWork, r
<1>5. ASSUME a[2] = "launcher" PROVE OwnsLauncher(a[1], q, session, row, posts)
  BY <1>1, <1>2, <1>5 DEF Owns, OwnsLauncher, RowWork, r
<1> QED
  BY <1>1, <1>2, <1>3, <1>4, <1>5 DEF Owns

\* One that is done with the row and checks the session owns nothing any more.
LEMMA CheckOwns ==
  ASSUME IInv, RInv, AInv, OInv, NEW a \in Agent, NEW q,
         agent[a].pc \in RowWork \cup {"active", "rows", "close"},
         q.pc \in {"active", "rows", "close"}, q.sid = agent[a].sid, q.auto = agent[a].auto,
         a[2] # "loop" => q.ret = "end",
         a[2] = "loop" => q.todo = agent[a].todo
  PROVE  Owns(a, q, session, row, posts) /\ ~Waits(q)
<1> DEFINE r == agent[a]
<1>1. Owns(a, r, session, row, posts) /\ a[2] \in {"kudu", "launcher", "loop", "task"}
  BY AgentOwns
<1>2. ~Waits(q)
  BY DEF Waits
<1> HIDE DEF r
<1>3. a[2] # "kudu"
  BY <1>1 DEF Owns, OwnsKudu, RowWork, r
<1>4. ASSUME a[2] = "task" PROVE OwnsTask(a[1], a[3], q, session, row)
  BY <1>4 DEF OwnsTask, RowWork
<1>5. ASSUME a[2] = "launcher" PROVE OwnsLauncher(a[1], q, session, row, posts)
  BY <1>1, <1>2, <1>5 DEF Owns, OwnsLauncher, RowWork, r
<1>6. ASSUME a[2] = "loop" PROVE OwnsLoop(a[1], q, session, row)
  BY <1>1, <1>6 DEF Owns, OwnsLoop, Queued, RowWork, r
<1> QED
  BY <1>2, <1>3, <1>4, <1>5, <1>6 DEF Owns

\* What the kind of an agent says of the update it makes.
LEMMA OwnedUpdate ==
  ASSUME IInv, RInv, AInv, OInv, NEW a \in Agent, agent[a].pc \in RowWork
  PROVE  /\ IF a[2] = "launcher" /\ agent[a].auto
            THEN /\ agent[a].pc # "analyze"
                 /\ agent[a].op \in {"Started", "Collecting", "Logs", "AnalysisQueued"}
            ELSE agent[a].op # "AnalysisQueued"
         /\ a[2] = "task" => /\ agent[a].pc # "collecting"
                             /\ agent[a].op \in {"Analyzing", "Reports", "Complete"}
         /\ a[2] \in {"launcher", "task"}
BY AgentOwns DEF Owns, OwnsLauncher, OwnsTask, OwnsLoop, OwnsKudu, RowWork

\* The tool of the collector returns.
LEMMA CollectOwns ==
  ASSUME IInv, RInv, AInv, OInv, NEW a \in Agent, NEW ok \in BOOLEAN, Collect(a, ok)
  PROVE  OInv'
<1> DEFINE r == agent[a]
           v == [r EXCEPT !.logs = IF ok THEN r.sid ELSE 0]
           q == Calling(v, "Logs")
<1>1. r.pc = "collecting" /\ Become(a, q) /\ UNCHANGED <<session, row, posts>>
  BY DEF Collect, tables, rows, envVars
<1>2. q.pc = "read" /\ q.op = "Logs" /\ q.sid = r.sid /\ q.auto = r.auto
  BY AgentOwns DEF Calling, AgentState
<1> HIDE DEF q
<1>3. Owns(a, q, session, row, posts) /\ ~Waits(q)
  BY <1>1, <1>2, OwnedUpdate, WorkOwns DEF RowWork
<1> QED
  BY <1>1, <1>3, OneOwnsStep

\* The row of this machine is read.
LEMMA ReadRowOwns ==
  ASSUME IInv, RInv, AInv, OInv, NEW a \in Agent, ReadRow(a)
  PROVE  OInv'
<1> DEFINE r == agent[a]
           e == row[r.sid][a[1]]
           q == [r EXCEPT !.pc = "put", !.hold = e, !.etag = TRUE]
<1>1. /\ r.pc = "read" /\ UNCHANGED <<session, row, posts>>
      /\ Become(a, Ended(a)) \/ Become(a, q)
  BY DEF ReadRow, tables, rows, envVars
<1>2. CASE Become(a, Ended(a))
  BY <1>1, <1>2, OffOwns, OneOwnsStep
<1>3. CASE Become(a, q)
  <2>1. q.pc = "put" /\ q.op = r.op /\ q.sid = r.sid /\ q.auto = r.auto
    BY AgentOwns DEF AgentState
  <2> HIDE DEF q
  <2>2. Owns(a, q, session, row, posts) /\ ~Waits(q)
    BY <1>1, <2>1, OwnedUpdate, WorkOwns DEF RowWork
  <2> QED
    BY <1>1, <1>3, <2>2, OneOwnsStep
<1> QED
  BY <1>1, <1>2, <1>3

\* The analysis, by a task or by a launcher that is not one of auto-heal.
LEMMA AnalyzeLogsOwns ==
  ASSUME IInv, RInv, AInv, OInv, NEW a \in Agent, AnalyzeLogs(a)
  PROVE  OInv'
<1> DEFINE r == agent[a]
           x == GetActiveSession
           v == [r EXCEPT !.logs = row[x][a[1]].logs]
           q == Calling(r, "Complete")
           w == Calling(v, "Reports")
<1>1. /\ r.pc = "analyze" /\ UNCHANGED <<session, row, posts>>
      /\ Become(a, Ended(a)) \/ Become(a, q) \/ Become(a, w)
  BY DEF AnalyzeLogs, tables, rows, envVars
<1>2. /\ q.pc = "read" /\ q.op = "Complete" /\ q.sid = r.sid /\ q.auto = r.auto
      /\ w.pc = "read" /\ w.op = "Reports" /\ w.sid = r.sid /\ w.auto = r.auto
  BY AgentOwns DEF Calling, AgentState
<1> HIDE DEF q, w
<1>3. /\ Owns(a, q, session, row, posts) /\ ~Waits(q)
      /\ Owns(a, w, session, row, posts) /\ ~Waits(w)
  BY <1>1, <1>2, OwnedUpdate, WorkOwns DEF RowWork
<1> QED
  BY <1>1, <1>3, OffOwns, OneOwnsStep

\* Where the completion check returns to.
LEMMA ReturnedOwns ==
  ASSUME IInv, RInv, AInv, OInv, NEW a \in Agent, agent[a].pc \in {"active", "rows", "close"},
         NEW done
  PROVE  Owns(a, Returned(a, done), session, row, posts) /\ ~Waits(Returned(a, done))
<1> DEFINE r == [agent[a] EXCEPT !.cur = 0]
           on(p) == [r EXCEPT !.pc = p, !.ret = "end"]
<1>1. /\ agent[a] \in AgentState /\ Owns(a, agent[a], session, row, posts)
      /\ a[2] \in {"kudu", "launcher", "loop", "task"}
  BY AgentOwns
<1>2. r.ret \in {"end", "orphans", "force", "check"} /\ r.ret = agent[a].ret
  BY <1>1 DEF AgentState
<1>3. \A p \in {"reread", "decide"} :
        on(p).pc = p /\ on(p).sid = agent[a].sid /\ on(p).todo = agent[a].todo
  BY <1>1 DEF AgentState
<1>4. r.ret # "end" => a[2] = "loop"
  BY <1>1, <1>2 DEF Owns, OwnsLauncher, OwnsTask, OwnsKudu
<1>5. Returned(a, done) =
        CASE r.ret = "end"     -> Ended(a)
          [] r.ret = "orphans" -> on("reread")
          [] r.ret = "force"   -> Off
          [] r.ret = "check"   -> IF done THEN Off ELSE on("decide")
  BY DEF Returned
<1> HIDE DEF r, on
<1>6. \A p \in {"reread", "decide"} :
        a[2] = "loop" => Owns(a, on(p), session, row, posts) /\ ~Waits(on(p))
  BY <1>1, <1>3 DEF Owns, OwnsLoop, Queued, Waits
<1> QED
  BY <1>2, <1>4, <1>5, <1>6, OffOwns

\* The completion check.
LEMMA CompletionOwns ==
  ASSUME IInv, RInv, AInv, OInv, NEW a \in Agent, ReadActive(a) \/ ReadRows(a) \/ CloseSession(a)
  PROVE  OInv'
<1> DEFINE r == agent[a]
           on == [r EXCEPT !.pc = "rows", !.cur = GetActiveSession]
           off == [r EXCEPT !.pc = "close"]
<1>1. r.pc \in {"active", "rows", "close"} /\ UNCHANGED <<row, posts>>
  BY DEF ReadActive, ReadRows, CloseSession, tables, rows, envVars
<1>2. r \in AgentState /\ Aimed(a, r) /\ Owns(a, r, session, row, posts)
      /\ a[2] \in {"kudu", "launcher", "loop", "task"}
  BY AgentOwns
<1>3. Steady
  <2>1. CASE CloseSession(a)
    <3>1. r.cur \in Session
      BY <2>1, <1>2 DEF CloseSession, Aimed
    <3> QED
      BY <1>1, <2>1, <3>1 DEF CloseSession, Steady, Closed, Absent, IInv, TypeOK, OInv, QueuedRows
  <2>2. CASE ~CloseSession(a)
    <3>1. UNCHANGED session
      BY <2>2 DEF ReadActive, ReadRows, tables
    <3> QED
      BY <1>1, <3>1 DEF Steady, OInv, QueuedRows
  <2> QED
    BY <2>1, <2>2
<1>4. \E q : /\ Become(a, q)
             /\ (\E done \in BOOLEAN : q = Returned(a, done)) \/ q = on \/ q = off
  BY DEF ReadActive, ReadRows, CloseSession
<1>5. PICK q : /\ Become(a, q)
               /\ (\E done \in BOOLEAN : q = Returned(a, done)) \/ q = on \/ q = off
  BY <1>4
<1>6. /\ on.pc = "rows" /\ on.sid = r.sid /\ on.auto = r.auto /\ on.ret = r.ret /\ on.todo = r.todo
      /\ off.pc = "close" /\ off.sid = r.sid /\ off.auto = r.auto /\ off.ret = r.ret
      /\ off.todo = r.todo
  BY <1>2 DEF AgentState
<1>7. a[2] # "loop" => r.ret = "end"
  BY <1>1, <1>2 DEF Owns, OwnsLauncher, OwnsTask, OwnsKudu
<1> HIDE DEF on, off
<1>8. Owns(a, q, session, row, posts) /\ ~Waits(q)
  <2>1. CASE q \in {on, off}
    BY <1>1, <1>6, <1>7, <2>1, CheckOwns
  <2>2. CASE \E done \in BOOLEAN : q = Returned(a, done)
    BY <1>1, <2>2, ReturnedOwns
  <2> QED
    BY <1>5, <2>1, <2>2
<1>9. \A b \in Agent : agent'[b] = IF b = a THEN q ELSE agent[b]
  BY <1>5 DEF Become, IInv, TypeOK
<1> QED
  BY <1>3, <1>8, <1>9, OwnsStep DEF NotNew

\* The snapshot of a round of the loop: what it has to analyse was queued.
LEMMA SnapshotOwns ==
  ASSUME IInv, RInv, AInv, OInv, NEW a \in Agent, a[2] = "loop", NEW s \in Session,
         NEW q, q.sid = s, q.todo = Snapshot(s, a[1]).todo,
         q.pc \in {"orphans", "active", "rows", "close", "reread", "decide"}
  PROVE  Owns(a, q, session, row, posts) /\ ~Waits(q)
<1>1. q.todo = ShouldAnalyzeOnCurrentInstance(s, a[1])
  BY SnapshotAims
<1>2. q.todo => s \in Automatic /\ row[s][a[1]].st \in Late
  BY <1>1, AgentOwns DEF ShouldAnalyzeOnCurrentInstance, OInv, QueuedRows, Late
<1> QED
  BY <1>2 DEF Owns, OwnsLoop, Queued, Waits

\* A round of the polling loop starts, or reads the session once more.
LEMMA LoopOwns ==
  ASSUME IInv, RInv, AInv, OInv,
         \/ \E i \in Runner, due \in BOOLEAN : Poll(i, due)
         \/ \E a \in Agent : Reread(a)
  PROVE  OInv'
<1> DEFINE x == GetActiveSession
           r(i) == Snapshot(x, i)
           decide(i) == [r(i) EXCEPT !.pc = "decide"]
           orphans(i) == [r(i) EXCEPT !.pc = "orphans", !.names = Orphans(x)]
<1>1. UNCHANGED <<session, row, posts>>
  BY DEF Poll, Reread, tables, rows, envVars
<1>2. ASSUME x # 0, NEW a \in Agent, a[2] = "loop",
             NEW q \in {decide(a[1]), CheckLimits(r(a[1])), orphans(a[1])}, Become(a, q)
      PROVE  OInv'
  <2>1. x \in Session
    BY <1>2, ActiveSessionIsActive
  <2>2. r(a[1]) \in AgentState /\ r(a[1]).sid = x
    BY <2>1, SnapshotType DEF Working, Snapshot, Off
  <2> HIDE DEF r
  <2>3. q.pc \in {"orphans", "active", "decide"} /\ q.sid = x /\ q.todo = r(a[1]).todo
    BY <1>2, <2>2 DEF AgentState, CheckLimits
  <2>4. Owns(a, q, session, row, posts) /\ ~Waits(q)
    BY <1>2, <2>1, <2>3, SnapshotOwns DEF r
  <2> QED
    BY <1>1, <1>2, <2>4, OneOwnsStep
<1>3. ASSUME NEW i \in Runner, NEW due \in BOOLEAN, Poll(i, due)
      PROVE  OInv'
  <2>1. x # 0
    BY <1>3 DEF Poll
  <2>2. Loop(i) \in Agent /\ Loop(i)[1] = i /\ Loop(i)[2] = "loop"
    BY DEF Agent, Loop
  <2>3. \/ Become(Loop(i), decide(i)) \/ Become(Loop(i), CheckLimits(r(i)))
        \/ Become(Loop(i), orphans(i))
    BY <1>3 DEF Poll
  <2> HIDE DEF x, r, decide, orphans
  <2> QED
    BY <1>2, <2>1, <2>2, <2>3
<1>4. ASSUME NEW a \in Agent, Reread(a)
      PROVE  OInv'
  <2>1. Become(a, Off) \/ (x # 0 /\ Become(a, CheckLimits(r(a[1]))))
    BY <1>4 DEF Reread
  <2>2. a[2] = "loop"
    BY <1>4, AgentOwns DEF Reread, Owns, OwnsLauncher, OwnsTask, OwnsKudu, RowWork
  <2> HIDE DEF x, r, decide, orphans
  <2> QED
    BY <1>1, <1>2, <2>1, <2>2, OffOwns, OneOwnsStep
<1> QED
  BY <1>3, <1>4

\* The loop starts a task for what was queued.
LEMMA DecideOwns ==
  ASSUME IInv, RInv, AInv, OInv, NEW a \in Agent, Decide(a)
  PROVE  OInv'
<1> DEFINE r == agent[a]
           t == AnalysisTask(a[1], r.sid)
           new == Calling([Off EXCEPT !.sid = r.sid], "Analyzing")
<1>1. UNCHANGED <<session, row, posts>> /\ r.pc = "decide"
  BY DEF Decide, tables, rows, envVars
<1>2. a[2] = "loop" /\ Owns(a, r, session, row, posts)
  BY <1>1, AgentOwns DEF Owns, OwnsLauncher, OwnsTask, OwnsKudu, RowWork
<1>3. new.pc = "read" /\ new.sid = r.sid /\ new.op = "Analyzing" /\ ~new.auto
  BY DEF Calling, Off
<1>4. t[1] = a[1] /\ t[2] = "task" /\ t[3] = r.sid
  BY DEF AnalysisTask
<1> HIDE DEF t, new
<1>5. r.todo => Owns(t, new, session, row, posts) /\ ~Waits(new)
  BY <1>1, <1>2, <1>3, <1>4 DEF Owns, OwnsTask, OwnsLoop, Queued, Waits, RowWork
<1>6. \A b \in Agent : agent'[b] \in {agent[b], Off} \/ (b = t /\ r.todo /\ agent'[b] = new)
  BY DEF Decide, IInv, TypeOK, t, new
<1>7. Steady
  BY <1>1 DEF Steady, OInv, QueuedRows
<1>8. \A b \in Agent :
        agent'[b] = agent[b] \/ (Owns(b, agent'[b], session, row, posts) /\ NotNew(b))
  BY <1>5, <1>6, OffOwns DEF NotNew
<1> QED
  BY <1>7, <1>8, OwnsStep

\* A process ends, or a session grows older.
LEMMA TimeOwns ==
  ASSUME IInv, RInv, AInv, OInv, (\E a \in Agent : Crash(a)) \/ (\E s \in Session : Age(s))
  PROVE  OInv'
<1>1. UNCHANGED <<session, row, posts>>
  BY DEF Crash, Age, tables, rows
<1>2. \A b \in Agent : agent'[b] \in {agent[b], Off}
  BY DEF Crash, Age
<1>3. Steady
  BY <1>1 DEF Steady, OInv, QueuedRows
<1> QED
  BY <1>2, <1>3, OffOwns, OwnsStep DEF NotNew

\* A row is added for an instance that did not pick the session up.
LEMMA CancelOrphanOwns ==
  ASSUME IInv, RInv, AInv, OInv, NEW a \in Agent, NEW n \in Instance, CancelOrphan(a, n)
  PROVE  OInv'
<1> DEFINE r == agent[a]
           s == r.sid
           orphan == [NoRow EXCEPT !.st = "TimedOut"]
           left == [r EXCEPT !.names = r.names \ {n}, !.added = TRUE]
           stop == [r EXCEPT !.pc = "reread", !.names = {}]
           check == [r EXCEPT !.pc = "active", !.ret = "orphans", !.names = {}, !.added = TRUE]
<1>1. /\ r.pc = "orphans" /\ r \in AgentState /\ s \in Session
      /\ Owns(a, r, session, row, posts) /\ a[2] \in {"kudu", "launcher", "loop", "task"}
      /\ AddOrphan(s, n) /\ UNCHANGED <<session, posts>>
      /\ \E q \in {left, stop, check, CheckLimits(r)} : Become(a, q)
  BY AgentOwns DEF CancelOrphan, Early, envVars
<1>2. PICK q \in {left, stop, check, CheckLimits(r)} : Become(a, q)
  BY <1>1
<1>3. q.pc \in {"orphans", "reread", "active"} /\ q.sid = s /\ q.todo = r.todo
  BY <1>1, <1>2 DEF AgentState, CheckLimits
<1>4. a[2] = "loop"
  BY <1>1 DEF Owns, OwnsLauncher, OwnsTask, OwnsKudu, RowWork
<1>5. orphan.st = "TimedOut"
  BY DEF NoRow
<1> HIDE DEF orphan, left, stop, check
<1>6. Owns(a, q, session, row, posts) /\ ~Waits(q)
  BY <1>1, <1>3, <1>4 DEF Owns, OwnsLoop, Queued, Waits
<1> HIDE DEF s
<1>7. \A u \in Session, j \in Instance :
        row'[u][j] = IF u = s /\ j = n /\ row[u][j].st = Absent THEN orphan ELSE row[u][j]
  BY <1>1 DEF AddOrphan, IInv, TypeOK, orphan
<1>8. \A b \in Agent : agent'[b] = IF b = a THEN q ELSE agent[b]
  BY <1>2 DEF Become, IInv, TypeOK
<1>9. Steady
  BY <1>1, <1>5, <1>7 DEF Steady, OInv, QueuedRows, Late, Absent
<1> QED
  BY <1>6, <1>8, <1>9, OwnsStep DEF NotNew

-----------------------------------------------------------------------------
(* Submissions *)

\* Users do not request sessions of a machine under auto-heal.
LEMMA KuduApart ==
  ASSUME Apart, IInv, RInv, AInv, OInv, NEW a \in Agent, a[2] = "kudu", agent[a].pc # "off"
  PROVE  /\ agent[a].sid \in Session \ Automatic /\ a[1] \in Targets[agent[a].sid]
         /\ ~Healed(a[1])
<1>1. agent[a].sid \in Session \ Automatic /\ a[1] \in Targets[agent[a].sid]
  BY AgentOwns DEF Owns, OwnsKudu
<1> QED
  BY <1>1, AgentOwns, HealedOnly DEF Mine

\* Who submits sessions and starts to run them.
LEMMA SubmitterKind ==
  ASSUME IInv, RInv, AInv, OInv, NEW a \in Agent
  PROVE  /\ agent[a].pc \in {"query", "add"} =>
              \/ a[2] = "kudu" /\ agent[a].pc # "off"
              \/ a[2] = "launcher" /\ Waits(agent[a])
         /\ agent[a].pc = "conflict" => a[2] = "kudu" /\ agent[a].pc # "off"
         /\ agent[a].pc \in {"start", "run"} => a[2] = "launcher"
         /\ a[2] \in {"kudu", "launcher"} => OwnsKudu(a[1], agent[a]) \/ a[2] = "launcher"
BY AgentOwns DEF Owns, OwnsLauncher, OwnsTask, OwnsLoop, OwnsKudu, RowWork, Waits

\* A DiagLauncher that Kudu starts fits a machine that is not under auto-heal.
LEMMA StartOwns ==
  ASSUME NEW l, l[2] = "launcher", ~Healed(l[1]), NEW ses, NEW rw, NEW pst
  PROVE  LET new == [Off EXCEPT !.pc = "start"]
         IN Owns(l, new, ses, rw, pst) /\ ~Waits(new)
<1> DEFINE new == [Off EXCEPT !.pc = "start"]
<1>1. new.pc = "start" /\ new.auto = FALSE
  BY DEF Off
<1> HIDE DEF new
<1>2. Owns(l, new, ses, rw, pst) /\ ~Waits(new)
  BY <1>1 DEF Owns, OwnsLauncher, Waits, RowWork
<1> QED
  BY <1>2 DEF new

\* Kudu starts a DiagLauncher, if there is room for one.
LEMMA KuduSubmits ==
  ASSUME Apart, IInv, RInv, AInv, OInv, NEW a \in Agent, a[2] = "kudu", agent[a].pc # "off",
         Submitted(a), NEW b \in Agent, NEW ses, NEW rw, NEW pst
  PROVE  \/ agent'[b] = agent[b] /\ b # a
         \/ Owns(b, agent'[b], ses, rw, pst) /\ ~Waits(agent'[b])
<1>1. Owns(b, Off, ses, rw, pst) /\ ~Waits(Off)
  BY OffOwns
<1>2. CASE FreeSlots(a[1]) = {}
  <2>1. Become(a, Off)
    BY <1>2 DEF Submitted, End
  <2> QED
    BY <1>1, <2>1 DEF Become, IInv, TypeOK
<1>3. CASE FreeSlots(a[1]) # {}
  <2> DEFINE l == Launcher(a[1], CHOOSE k \in FreeSlots(a[1]) : TRUE)
             new == [Off EXCEPT !.pc = "start"]
  <2>1. agent' = [agent EXCEPT ![a] = Off, ![l] = new]
    BY <1>3 DEF Submitted
  <2>2. l[1] = a[1] /\ l[2] = "launcher"
    BY DEF Launcher
  <2> HIDE DEF l
  <2>3. Owns(l, new, ses, rw, pst) /\ ~Waits(new)
    BY <2>2, KuduApart, StartOwns
  <2> HIDE DEF new
  <2>4. agent'[b] = IF b = l THEN new ELSE IF b = a THEN Off ELSE agent[b]
    BY <2>1 DEF IInv, TypeOK
  <2> QED
    BY <1>1, <2>3, <2>4
<1> QED
  BY <1>2, <1>3

\* A request of a user arrives; auto-heal starts the only DiagLauncher that submits
\* its session.
LEMMA ArrivalOwns ==
  ASSUME Apart, IInv, RInv, AInv, OInv, NEW i \in Instance, NEW s \in Session,
         Post(i, s) \/ \E k \in Slot : AutoHeal(i, s, k)
  PROVE  OInv'
<1>1. /\ UNCHANGED <<session, row>>
      /\ \A u \in Session : posts[u] # 0 => posts'[u] # 0
      /\ Steady
  <2>1. UNCHANGED <<session, row>>
    BY DEF Post, AutoHeal, tables, rows
  <2>2. \A u \in Session : posts[u] # 0 => posts'[u] # 0
    BY DEF Post, AutoHeal, IInv, TypeOK
  <2> QED
    BY <2>1, <2>2 DEF Steady, OInv, QueuedRows
<1>2. CASE Post(i, s)
  <2> DEFINE q == [Off EXCEPT !.pc = "query", !.sid = s]
  <2>1. Become(Kudu(i), q) /\ s \in Session \ Automatic /\ i \in Targets[s]
    BY <1>2 DEF Post
  <2>2. Kudu(i) \in Agent /\ Kudu(i)[1] = i /\ Kudu(i)[2] = "kudu"
    BY DEF Agent, Kudu
  <2>3. q.pc = "query" /\ q.sid = s /\ ~q.auto
    BY DEF Off
  <2> HIDE DEF q, Kudu
  <2>4. Owns(Kudu(i), q, session, row, posts) /\ ~Waits(q)
    BY <2>1, <2>2, <2>3 DEF Owns, OwnsKudu, Waits
  <2>5. \A b \in Agent : agent'[b] = IF b = Kudu(i) THEN q ELSE agent[b]
    BY <2>1 DEF Become, IInv, TypeOK
  <2> QED
    BY <1>1, <2>4, <2>5, OwnsStep DEF NotNew
<1>3. ASSUME NEW k \in Slot, AutoHeal(i, s, k) PROVE OInv'
  <2> DEFINE q == [Off EXCEPT !.pc = "start", !.sid = s, !.auto = TRUE]
             l == Launcher(i, k)
  <2>1. /\ Become(l, q) /\ s \in Automatic /\ Targets[s] = {i} /\ posts[s] = 0
        /\ posts' = [posts EXCEPT ![s] = 1]
    BY <1>3 DEF AutoHeal
  <2>2. l \in Agent /\ l[1] = i /\ l[2] = "launcher"
    BY DEF Agent, Launcher
  <2>3. q.pc = "start" /\ q.sid = s /\ q.auto = TRUE
    BY DEF Off
  <2>4. posts'[s] # 0 /\ session[s] = Absent /\ Healed(i)
    <3>1. posts'[s] = 1
      BY <2>1 DEF IInv, TypeOK
    <3> QED
      BY <2>1, <3>1 DEF OInv, Posted, Healed, Mine
  <2> HIDE DEF q, l
  <2>5. Owns(l, q, session', row', posts')
    BY <1>1, <2>1, <2>2, <2>3, <2>4 DEF Owns, OwnsLauncher, RowWork
  <2>6. \A b \in Agent : agent'[b] = IF b = l THEN q ELSE agent[b]
    BY <2>1 DEF Become, IInv, TypeOK
  <2>7. \A b \in Agent : Owns(b, agent'[b], session', row', posts')
    <3>1. \A b \in Agent : Owns(b, agent[b], session', row', posts')
      BY <1>1, SteadyOwns DEF OInv
    <3> QED
      BY <2>5, <2>6, <3>1
  <2>8. \A b \in Agent : b[2] = "launcher" /\ Waits(agent[b]) => agent[b].sid # s
    <3>1. \A b \in Agent : b[2] = "launcher" /\ Waits(agent[b]) => posts[agent[b].sid] # 0
      BY DEF OInv, Owns, OwnsLauncher
    <3> QED
      BY <2>1, <3>1
  <2>9. OneSubmits'
    BY <2>3, <2>6, <2>8 DEF OInv, OneSubmits
  <2>10. QueuedRows' /\ Posted'
    <3>1. Automatic \subseteq Session
      BY ParametersAssumption
    <3> QED
      BY <1>1, <3>1 DEF OInv, QueuedRows, Posted, Steady
  <2> QED
    BY <2>7, <2>9, <2>10 DEF OInv
<1> QED
  BY <1>2, <1>3

\* DiagLauncher looks for others.
LEMMA ThrowIfMultipleOwns ==
  ASSUME IInv, RInv, AInv, OInv, NEW a \in Agent, ThrowIfMultipleDiagLauncherRunning(a)
  PROVE  OInv'
<1> DEFINE r == agent[a]
           q == [r EXCEPT !.pc = IF r.auto THEN "query" ELSE "run"]
<1>1. /\ r.pc = "start" /\ UNCHANGED <<session, row, posts>>
      /\ Become(a, q) \/ Become(a, Off)
  BY DEF ThrowIfMultipleDiagLauncherRunning, tables, rows, envVars, End
<1>2. /\ a[2] = "launcher" /\ OwnsLauncher(a[1], r, session, row, posts)
  BY <1>1, SubmitterKind, AgentOwns DEF Owns
<1>3. q.pc = (IF r.auto THEN "query" ELSE "run") /\ q.sid = r.sid /\ q.auto = r.auto
  BY AgentOwns DEF AgentState
<1> HIDE DEF q
<1>4. Owns(a, q, session, row, posts) /\ (Waits(q) => Waits(r))
  BY <1>1, <1>2, <1>3 DEF Owns, OwnsLauncher, Waits, RowWork
<1> QED
  BY <1>1, <1>3, <1>4, OffOwns, OneOwnsStep

\* The submitter looks for an active session.
LEMMA QueryActiveSessionOwns ==
  ASSUME Apart, IInv, RInv, AInv, OInv, NEW a \in Agent, NEW throttled \in BOOLEAN,
         QueryActiveSession(a, throttled)
  PROVE  OInv'
<1> DEFINE r == agent[a]
           x == GetActiveSession
           q == [r EXCEPT !.pc = "add"]
<1>1. /\ r.pc = "query" /\ UNCHANGED <<session, row, posts>>
      /\ Become(a, Off) \/ (x = r.sid /\ Submitted(a)) \/ (x = 0 /\ Become(a, q))
  BY DEF QueryActiveSession, tables, rows, envVars, End
<1>2. \/ a[2] = "kudu" /\ r.pc # "off"
      \/ a[2] = "launcher" /\ Waits(r)
  BY <1>1, SubmitterKind
<1>3. Steady
  BY <1>1 DEF Steady, OInv, QueuedRows
<1>4. CASE x = r.sid /\ Submitted(a)
  <2>1. CASE a[2] = "kudu"
    BY <1>1, <1>2, <1>3, <1>4, <2>1, KuduSubmits, OwnsStep DEF NotNew
  <2>2. CASE a[2] = "launcher"
    <3>1. r.sid \in Session /\ session[r.sid] = Absent
      BY <1>2, <2>2, AgentOwns, ParametersAssumption DEF Owns, OwnsLauncher
    <3>2. x # 0
      BY <1>4, <3>1, ParametersAssumption DEF Session
    <3> QED
      BY <1>4, <3>1, <3>2, ActiveSessionIsActive DEF Absent
  <2> QED
    BY <1>2, <2>1, <2>2
<1>5. CASE x = 0 /\ Become(a, q)
  <2>1. q.pc = "add" /\ q.sid = r.sid /\ q.auto = r.auto
    BY AgentOwns DEF AgentState
  <2>2. \A s \in Mine(a[1]) : session[s] # "Active"
    BY <1>5, ActiveSessionIsActive DEF Mine
  <2> HIDE DEF q, x
  <2>3. Owns(a, q, session, row, posts) /\ (Waits(q) => Waits(r))
    BY <1>1, <1>2, <2>1, <2>2, AgentOwns DEF Owns, OwnsLauncher, OwnsKudu, Waits, RowWork
  <2> QED
    BY <1>1, <1>5, <2>1, <2>3, OneOwnsStep
<1> QED
  BY <1>1, <1>4, <1>5, OffOwns, OneOwnsStep

\* A session that another one submitted while this one was adding it.
LEMMA IsSameSessionOwns ==
  ASSUME Apart, IInv, RInv, AInv, OInv, NEW a \in Agent, IsSameSession(a)
  PROVE  OInv'
<1>1. /\ agent[a].pc = "conflict" /\ UNCHANGED <<session, row, posts>>
      /\ Become(a, Off) \/ Submitted(a)
  BY DEF IsSameSession, tables, rows, envVars, End
<1>2. a[2] = "kudu" /\ agent[a].pc # "off"
  BY <1>1, SubmitterKind
<1>3. Steady
  BY <1>1 DEF Steady, OInv, QueuedRows
<1>4. CASE Submitted(a)
  BY <1>1, <1>2, <1>3, <1>4, KuduSubmits, OwnsStep DEF NotNew
<1> QED
  BY <1>1, <1>4, OffOwns, OneOwnsStep

\* DiagLauncher picks the active session: under auto-heal the one it submitted.
LEMMA RunActiveSessionOwns ==
  ASSUME Apart, IInv, RInv, AInv, OInv, NEW a \in Agent, RunActiveSession(a)
  PROVE  OInv'
<1> DEFINE r == agent[a]
           x == GetActiveSession
           v == [r EXCEPT !.sid = x, !.todo = ShouldCollect(row[x][a[1]].st)]
           q == Calling(v, "Started")
<1>1. /\ r.pc = "run" /\ UNCHANGED <<session, row, posts>>
      /\ Become(a, Off) \/ (x # 0 /\ a[1] \in Targets[x] /\ Become(a, q))
  BY DEF RunActiveSession, tables, rows, envVars, End
<1>2. a[2] = "launcher" /\ OwnsLauncher(a[1], r, session, row, posts)
  BY <1>1, SubmitterKind, AgentOwns DEF Owns
<1>3. CASE x # 0 /\ a[1] \in Targets[x] /\ Become(a, q)
  <2>1. q.pc = "read" /\ q.sid = x /\ q.auto = r.auto /\ q.op = "Started"
    BY AgentOwns DEF Calling, AgentState
  <2>2. x \in Mine(a[1]) /\ session[x] = "Active" /\ x \in Session
    BY <1>3, ActiveSessionIsActive DEF Mine
  <2> HIDE DEF q, x
  <2>3. r.auto => x = r.sid
    BY <1>1, <1>2, <2>2 DEF OwnsLauncher
  <2>4. Owns(a, q, session, row, posts) /\ ~Waits(q)
    BY <1>1, <1>2, <2>1, <2>2, <2>3 DEF Owns, OwnsLauncher, Waits, RowWork
  <2> QED
    BY <1>1, <1>3, <2>4, OneOwnsStep
<1> QED
  BY <1>1, <1>3, OffOwns, OneOwnsStep

\* The agents that wait while another submits a session: it is not theirs, nor is it
\* one of a machine that a DiagLauncher of auto-heal is at work on.
LEMMA AddedOwns ==
  ASSUME Apart, IInv, RInv, AInv, OInv, NEW a \in Agent, NEW b \in Agent, b # a,
         agent[a].pc = "add", session[agent[a].sid] = Absent,
         NEW ses, ses = [session EXCEPT ![agent[a].sid] = "Active"]
  PROVE  Owns(b, agent[b], ses, row, posts)
<1> DEFINE s == agent[a].sid
           r == agent[b]
           i == b[1]
<1>1. /\ s \in Session
      /\ \A u \in Session : ses[u] = IF u = s THEN "Active" ELSE session[u]
  BY BusyIsWorking DEF Working, IInv, TypeOK
<1>2. \/ a[2] = "kudu" /\ s \notin Automatic
      \/ a[2] = "launcher" /\ Waits(agent[a]) /\ s \in Automatic /\ Targets[s] = {a[1]}
  BY SubmitterKind, AgentOwns DEF Owns, OwnsLauncher, OwnsKudu
<1>3. /\ Owns(b, r, session, row, posts) /\ i \in Instance
      /\ r.pc \notin Early => r.sid \in Session /\ r.sid # s
  BY AgentOwns
<1>4. ASSUME b[2] = "launcher" PROVE OwnsLauncher(i, r, ses, row, posts)
  <2>1. OwnsLauncher(i, r, session, row, posts)
    BY <1>3, <1>4 DEF Owns
  <2>2. Waits(r) => r.sid \in Session /\ r.sid # s
    <3>1. Waits(r) => r.sid \in Automatic /\ r.sid \in Session
      BY <2>1, ParametersAssumption DEF OwnsLauncher
    <3> QED
      BY <1>2, <1>4, <3>1 DEF OInv, OneSubmits
  <2>3. ASSUME r.auto, r.pc \notin {"off", "start", "query"} PROVE s \notin Mine(i)
    <3>1. CASE a[2] = "kudu"
      <4>1. Healed(i)
        BY <2>1, <2>3 DEF OwnsLauncher
      <4> QED
        BY <1>2, <1>3, <3>1, <4>1, HealedOnly
    <3>2. CASE a[2] = "launcher"
      <4>1. a[1] # i
        <5> SUFFICES ASSUME a[1] = i PROVE FALSE
          OBVIOUS
        <5>1. PICK j \in Slot : a = Launcher(i, j)
          BY <3>2, AgentKinds
        <5>2. PICK k \in Slot : b = Launcher(i, k)
          BY <1>4, AgentKinds
        <5>3. {agent[a].pc, agent[b].pc} \cap {"off", "start"} = {}
          BY <2>3
        <5> HIDE DEF i
        <5>4. j = k
          BY <1>3, <5>1, <5>2, <5>3 DEF IInv, OneLauncher
        <5> QED
          BY <5>1, <5>2, <5>4
      <4> QED
        BY <1>2, <3>2, <4>1 DEF Mine
    <3> QED
      BY <1>2, <3>1, <3>2
  <2>4. r.auto /\ r.pc \in RowWork \cup {"run"} => r.sid \in Session /\ r.sid # s
    BY <2>1 DEF OwnsLauncher
  <2> HIDE DEF s, r, i
  <2> QED
    BY <1>1, <2>1, <2>2, <2>3, <2>4 DEF OwnsLauncher, Mine
<1>5. r.pc \notin Early /\ Queued(i, r, session, row) => Queued(i, r, ses, row)
  BY <1>1, <1>3 DEF Queued
<1>6. /\ b[2] = "task" => OwnsTask(i, b[3], r, ses, row)
      /\ b[2] = "loop" => OwnsLoop(i, r, ses, row)
      /\ b[2] = "kudu" => OwnsKudu(i, r)
  <2> HIDE DEF s, r, i
  <2>1. r.pc \in RowWork => r.pc \notin Early
    BY DEF RowWork, Early
  <2>2. r.pc # "off" /\ OwnsLoop(i, r, session, row) => r.pc \notin Early
    BY DEF OwnsLoop, Early
  <2>3. b[2] = "task" => OwnsTask(i, b[3], r, session, row)
    BY <1>3 DEF Owns, r, i
  <2>4. b[2] = "loop" => OwnsLoop(i, r, session, row)
    BY <1>3 DEF Owns, r, i
  <2>5. b[2] = "kudu" => OwnsKudu(i, r)
    BY <1>3 DEF Owns, r, i
  <2>6. b[2] = "task" => OwnsTask(i, b[3], r, ses, row)
    BY <1>5, <2>1, <2>3 DEF OwnsTask
  <2>7. b[2] = "loop" => OwnsLoop(i, r, ses, row)
    BY <1>5, <2>2, <2>4 DEF OwnsLoop
  <2> QED
    BY <2>5, <2>6, <2>7
<1> QED
  BY <1>4, <1>6 DEF Owns

\* A session is added to the table.
LEMMA AddSessionEntityOwns ==
  ASSUME Apart, IInv, RInv, AInv, OInv, NEW a \in Agent, AddSessionEntity(a)
  PROVE  OInv'
<1> DEFINE r == agent[a]
           s == r.sid
<1>1. r.pc = "add" /\ UNCHANGED <<row, posts>>
  BY DEF AddSessionEntity, rows
<1>2. s \in Session
  BY <1>1, BusyIsWorking DEF Working
<1>3. \/ a[2] = "kudu" /\ r.pc # "off" /\ s \notin Automatic
      \/ a[2] = "launcher" /\ Waits(r) /\ OwnsLauncher(a[1], r, session, row, posts)
  BY <1>1, SubmitterKind, KuduApart, AgentOwns DEF Owns
<1>4. CASE session[s] # Absent
  <2> DEFINE q == [r EXCEPT !.pc = "conflict"]
  <2>1. Become(a, q) /\ UNCHANGED session
    BY <1>4 DEF AddSessionEntity, AddSession
  <2>2. a[2] = "kudu"
    BY <1>3, <1>4 DEF OwnsLauncher
  <2>3. q.pc = "conflict" /\ q.sid = s
    BY AgentOwns DEF AgentState
  <2>4. OwnsKudu(a[1], r)
    BY <2>2, AgentOwns DEF Owns
  <2> HIDE DEF q, r
  <2>5. Owns(a, q, session, row, posts) /\ ~Waits(q)
    BY <1>1, <2>2, <2>3, <2>4 DEF Owns, OwnsKudu, Waits
  <2> QED
    BY <1>1, <2>1, <2>5, OneOwnsStep
<1>5. CASE session[s] = Absent
  <2>1. Submitted(a) /\ session' = [session EXCEPT ![s] = "Active"]
    BY <1>5 DEF AddSessionEntity, AddSession
  <2>2. \A u \in Session : session'[u] = IF u = s THEN "Active" ELSE session[u]
    BY <2>1 DEF IInv, TypeOK
  <2>3. ASSUME NEW b \in Agent, b # a PROVE Owns(b, agent[b], session', row', posts')
    BY <1>1, <1>5, <2>1, <2>3, AddedOwns
  <2>4. ASSUME NEW b \in Agent
        PROVE  Owns(b, agent'[b], session', row', posts') /\ NotNew(b)
    <3>1. CASE a[2] = "kudu"
      BY <1>1, <1>3, <2>1, <2>3, <3>1, KuduSubmits DEF NotNew
    <3>2. CASE a[2] = "launcher"
      <4> DEFINE q == [r EXCEPT !.pc = "run"]
      <4>1. agent'[b] = IF b = a THEN q ELSE agent[b]
        BY <2>1, <3>2 DEF Submitted, Become, IInv, TypeOK
      <4>2. q.pc = "run" /\ q.sid = s /\ q.auto = r.auto
        BY AgentOwns DEF AgentState
      <4>3. row[s][a[1]].st = Absent
        BY <1>2, <1>5, AgentOwns DEF AInv, RowsKnown
      <4> HIDE DEF q, s
      <4>4. Owns(a, q, session', row', posts') /\ ~Waits(q)
        BY <1>1, <1>2, <1>3, <2>2, <3>2, <4>2, <4>3
        DEF Owns, OwnsLauncher, Waits, RowWork, Late, Absent, Mine
      <4> QED
        BY <2>3, <4>1, <4>4 DEF NotNew
    <3> QED
      BY <1>3, <3>1, <3>2
  <2>5. OneSubmits'
    BY <2>4 DEF OInv, OneSubmits, NotNew
  <2>6. QueuedRows'
    BY <1>1 DEF OInv, QueuedRows
  <2>7. Posted'
    <3>1. Automatic \subseteq Session
      BY ParametersAssumption
    <3>2. s \in Automatic => posts[s] # 0
      BY <1>3 DEF OwnsLauncher
    <3> QED
      BY <1>1, <2>2, <3>1, <3>2 DEF OInv, Posted
  <2> QED
    BY <2>4, <2>5, <2>6, <2>7 DEF OInv
<1> QED
  BY <1>4, <1>5

-----------------------------------------------------------------------------
(* Writes *)

\* What an update leaves in the status of the row.
LEMMA UpdatedStatus ==
  ASSUME NEW r \in AgentState
  PROVE  /\ r.op \in {"Started", "Collecting"} => UpdatedRow(r).st = "Active"
         /\ r.op \in {"AnalysisQueued", "Analyzing", "Complete"} => UpdatedRow(r).st = r.op
         /\ r.op \in {"Logs", "Reports"} => UpdatedRow(r).st = r.hold.st
<1>1. r.op \in Update /\ r.hold \in Row
  BY DEF AgentState
<1> QED
  BY <1>1 DEF UpdatedRow, Row

\* What follows an update: auto-heal's DiagLauncher ends once the analysis is queued,
\* an agent that analysed checks the session.
LEMMA AfterUpdateNext ==
  ASSUME NEW a, NEW r \in AgentState
  PROVE  LET q == AfterUpdate(a, r)
         IN /\ r.op = "AnalysisQueued" => q = Ended(a)
            /\ r.op = "Complete" => q.pc = "active" /\ q.ret = "end"
            /\ r.op \notin {"AnalysisQueued", "Complete"} => q.pc \in RowWork
            /\ r.op # "AnalysisQueued" => q.sid = r.sid /\ q.auto = r.auto
            /\ r.op \in {"Started", "Collecting", "Logs"} =>
                 IF r.auto THEN q.pc # "analyze" /\ q.op \in {"Collecting", "AnalysisQueued"}
                 ELSE q.op \in {"Collecting", "Analyzing"}
            /\ r.op \in {"Analyzing", "Reports"} =>
                 q.pc # "collecting" /\ q.op \in {"Analyzing", "Complete"}
<1> DEFINE q == AfterUpdate(a, r)
           v == [r EXCEPT !.logs = 0]
           w == [r EXCEPT !.todo = FALSE]
<1>1. \A u \in AgentState : \A o :
        LET c == Calling(u, o)
        IN c.pc = "read" /\ c.sid = u.sid /\ c.auto = u.auto /\ c.op = o
  BY DEF Calling, AgentState
<1>2. /\ v \in AgentState /\ v.sid = r.sid /\ v.auto = r.auto
      /\ w \in AgentState /\ w.sid = r.sid /\ w.auto = r.auto
  BY ZeroInRange DEF AgentState
<1>3. /\ r.op = "Started" => q = IF r.todo THEN Calling(w, "Collecting") ELSE Collected(r)
      /\ r.op = "Collecting" => q = [r EXCEPT !.pc = "collecting"]
      /\ r.op = "Logs" => q = Collected(v)
      /\ r.op = "AnalysisQueued" => q = Ended(a)
      /\ r.op = "Analyzing" => q = [r EXCEPT !.pc = "analyze"]
      /\ r.op = "Reports" => q = Calling(v, "Complete")
      /\ r.op = "Complete" => q = [r EXCEPT !.pc = "active", !.ret = "end"]
  BY DEF AfterUpdate
<1>4. r.op \in Update
  BY DEF AgentState
<1> HIDE DEF q, v, w
<1>5. \A u \in AgentState :
        LET c == Collected(u)
        IN /\ c.pc = "read" /\ c.sid = u.sid /\ c.auto = u.auto
           /\ c.op = (IF u.auto THEN "AnalysisQueued" ELSE "Analyzing")
  BY <1>1 DEF Collected
<1>6. CASE r.op = "Started"
  <2>1. q = Calling(w, "Collecting") \/ q = Collected(r)
    BY <1>3, <1>6
  <2>2. /\ q.pc = "read" /\ q.sid = r.sid /\ q.auto = r.auto
        /\ q.op \in {"Collecting", IF r.auto THEN "AnalysisQueued" ELSE "Analyzing"}
    BY <1>1, <1>2, <1>5, <2>1
  <2> QED
    BY <1>6, <2>2 DEF RowWork, q
<1>7. CASE r.op = "Logs"
  <2>1. /\ q.pc = "read" /\ q.sid = r.sid /\ q.auto = r.auto
        /\ q.op = (IF r.auto THEN "AnalysisQueued" ELSE "Analyzing")
    BY <1>2, <1>3, <1>5, <1>7
  <2> QED
    BY <1>7, <2>1 DEF RowWork, q
<1>8. CASE r.op = "Reports"
  <2>1. q.pc = "read" /\ q.sid = r.sid /\ q.auto = r.auto /\ q.op = "Complete"
    BY <1>1, <1>2, <1>3, <1>8
  <2> QED
    BY <1>8, <2>1 DEF RowWork, q
<1>9. CASE r.op \in {"Collecting", "Analyzing"}
  <2>1. /\ q.pc = (IF r.op = "Collecting" THEN "collecting" ELSE "analyze")
        /\ q.sid = r.sid /\ q.auto = r.auto /\ q.op = r.op
    BY <1>3, <1>9 DEF AgentState
  <2> QED
    BY <1>9, <2>1 DEF RowWork, q
<1>10. CASE r.op = "Complete"
  <2>1. q.pc = "active" /\ q.ret = "end" /\ q.sid = r.sid /\ q.auto = r.auto
    BY <1>3, <1>10 DEF AgentState
  <2> QED
    BY <1>10, <2>1 DEF q
<1>11. CASE r.op = "AnalysisQueued"
  BY <1>3, <1>11 DEF q
<1> QED
  BY <1>4, <1>6, <1>7, <1>8, <1>9, <1>10, <1>11 DEF Update

\* An agent whose row, if its session is active, stays late or not late as it was.
LEMMA RewrittenOwns ==
  ASSUME NEW b \in Agent, NEW r, NEW rw, Owns(b, r, session, row, posts),
         LET e == row[r.sid][b[1]]
             f == rw[r.sid][b[1]]
         IN session[r.sid] = "Active" =>
              /\ b[2] = "launcher" /\ r.auto /\ r.pc \in RowWork \cup {"run"} =>
                   (e.st \notin Late => f.st \notin Late)
              /\ (b[2] = "task" /\ r.pc \in RowWork) \/ (b[2] = "loop" /\ r.pc # "off" /\ r.todo) =>
                   (r.sid \in Automatic /\ e.st \in Late => f.st \in Late)
  PROVE  Owns(b, r, session, rw, posts)
<1>1. ASSUME b[2] = "launcher" PROVE OwnsLauncher(b[1], r, session, rw, posts)
  <2>1. OwnsLauncher(b[1], r, session, row, posts)
    BY <1>1 DEF Owns
  <2> QED
    BY <1>1, <2>1 DEF OwnsLauncher
<1>2. ASSUME b[2] = "task" PROVE OwnsTask(b[1], b[3], r, session, rw)
  <2>1. OwnsTask(b[1], b[3], r, session, row)
    BY <1>2 DEF Owns
  <2> QED
    BY <1>2, <2>1 DEF OwnsTask, Queued
<1>3. ASSUME b[2] = "loop" PROVE OwnsLoop(b[1], r, session, rw)
  <2>1. OwnsLoop(b[1], r, session, row)
    BY <1>3 DEF Owns
  <2> QED
    BY <1>3, <2>1 DEF OwnsLoop, Queued
<1> QED
  BY <1>1, <1>2, <1>3 DEF Owns

\* Who else is about a row that is written: while the session is active, nobody who
\* relies on what the writer changes.
LEMMA WriterAlone ==
  ASSUME Apart, IInv, RInv, AInv, OInv, NEW a \in Agent, agent[a].pc = "put",
         NEW b \in Agent, b # a, b[1] = a[1], agent[b].sid = agent[a].sid,
         session[agent[a].sid] = "Active"
  PROVE  LET r == agent[b]
             e == row[agent[a].sid][a[1]]
         IN /\ b[2] = "launcher" /\ r.auto /\ r.pc \in RowWork \cup {"run"} => e.st \in Late
            /\ a[2] = "launcher" /\ r.sid \in Automatic => e.st \notin Late
<1> DEFINE s == agent[a].sid
           i == a[1]
           r == agent[b]
<1>1. /\ Owns(a, agent[a], session, row, posts) /\ Owns(b, r, session, row, posts)
      /\ s \in Session /\ i \in Targets[s] /\ i \in Instance
      /\ a[2] \in {"launcher", "task"}
  BY AgentOwns, OwnedUpdate DEF Aimed, RowWork
<1>2. ASSUME b[2] = "launcher", r.auto, r.pc \in RowWork \cup {"run"} PROVE row[s][i].st \in Late
  <2>1. a[2] # "launcher"
    <3> SUFFICES ASSUME a[2] = "launcher" PROVE FALSE
      OBVIOUS
    <3>1. PICK j \in Slot : a = Launcher(i, j)
      BY AgentKinds
    <3>2. PICK k \in Slot : b = Launcher(i, k)
      BY <1>2, AgentKinds
    <3>3. {agent[a].pc, agent[b].pc} \cap {"off", "start"} = {}
      BY <1>2 DEF RowWork
    <3> HIDE DEF i
    <3>4. j = k
      BY <1>1, <3>1, <3>2, <3>3 DEF IInv, OneLauncher
    <3> QED
      BY <3>1, <3>2, <3>4
  <2>2. OwnsTask(i, a[3], agent[a], session, row)
    BY <1>1, <2>1 DEF Owns
  <2> QED
    BY <2>2 DEF OwnsTask, Queued, RowWork
<1>3. ASSUME a[2] = "launcher", s \in Automatic PROVE row[s][i].st \notin Late
  <2>1. Healed(i)
    BY <1>1, <1>3 DEF Healed, Mine
  <2>2. OwnsLauncher(i, agent[a], session, row, posts)
    BY <1>1, <1>3 DEF Owns
  <2> QED
    BY <2>1, <2>2 DEF OwnsLauncher, RowWork
<1> QED
  BY <1>2, <1>3

\* An instance row is written.
LEMMA PutRowOwns ==
  ASSUME Apart, IInv, RInv, AInv, OInv, NEW a \in Agent, PutRow(a)
  PROVE  OInv'
<1> DEFINE r == agent[a]
           i == a[1]
           s == r.sid
           v == [r EXCEPT !.hold = NoRow, !.etag = FALSE]
           q == AfterUpdate(a, v)
           new == UpdatedRow(r)
           late == a[2] = "launcher" /\ r.auto
<1>1. /\ r.pc = "put" /\ r \in AgentState /\ Fits(a, r)
      /\ s \in Session /\ i \in Targets[s] /\ i \in Instance
      /\ Owns(a, r, session, row, posts) /\ UNCHANGED <<session, posts>>
  BY AgentFits, AgentOwns DEF PutRow, Early, envVars, Fits, Aimed, RowWork
<1>2. CASE ~MayWrite(r, i)
  <2>1. Become(a, Ended(a)) /\ UNCHANGED row
    BY <1>2 DEF PutRow, rows
  <2> QED
    BY <1>1, <2>1, OffOwns, OneOwnsStep
<1>3. CASE MayWrite(r, i)
  <2>1. /\ row' = [row EXCEPT ![s][i] = new]
        /\ agent' = [Outdated({<<s, i>>}) EXCEPT ![a] = q]
    BY <1>3 DEF PutRow
  <2>2. r.op \in {"Logs", "Reports"} => r.hold = row[s][i]
    BY <1>1, <1>3 DEF MayWrite, Fits, Latest
  <2>3. /\ IF late THEN r.op \in {"Started", "Collecting", "Logs", "AnalysisQueued"}
           ELSE r.op # "AnalysisQueued"
        /\ a[2] = "task" => r.op \in {"Analyzing", "Reports", "Complete"}
        /\ a[2] \in {"launcher", "task"} /\ r.op \in Update
    BY <1>1, OwnedUpdate DEF RowWork, AgentState
  <2>4. /\ r.op \in {"Started", "Collecting"} => new.st = "Active"
        /\ r.op \in {"AnalysisQueued", "Analyzing", "Complete"} => new.st = r.op
        /\ r.op \in {"Logs", "Reports"} => new.st = row[s][i].st
    BY <1>1, <2>2, UpdatedStatus
  <2>5. v \in AgentState /\ v.sid = s /\ v.op = r.op /\ v.auto = r.auto
    BY <1>1, OffType DEF AgentState
  <2>6. /\ r.op = "AnalysisQueued" => q = Ended(a)
        /\ r.op = "Complete" => q.pc = "active" /\ q.ret = "end"
        /\ r.op \notin {"AnalysisQueued", "Complete"} => q.pc \in RowWork
        /\ r.op # "AnalysisQueued" => q.sid = s /\ q.auto = r.auto
        /\ r.op \in {"Started", "Collecting", "Logs"} =>
             IF r.auto THEN q.pc # "analyze" /\ q.op \in {"Collecting", "AnalysisQueued"}
             ELSE q.op \in {"Collecting", "Analyzing"}
        /\ r.op \in {"Analyzing", "Reports"} =>
             q.pc # "collecting" /\ q.op \in {"Analyzing", "Complete"}
    <3>1. /\ v.op = "AnalysisQueued" => q = Ended(a)
          /\ v.op = "Complete" => q.pc = "active" /\ q.ret = "end"
          /\ v.op \notin {"AnalysisQueued", "Complete"} => q.pc \in RowWork
          /\ v.op # "AnalysisQueued" => q.sid = v.sid /\ q.auto = v.auto
          /\ v.op \in {"Started", "Collecting", "Logs"} =>
               IF v.auto THEN q.pc # "analyze" /\ q.op \in {"Collecting", "AnalysisQueued"}
               ELSE q.op \in {"Collecting", "Analyzing"}
          /\ v.op \in {"Analyzing", "Reports"} =>
               q.pc # "collecting" /\ q.op \in {"Analyzing", "Complete"}
      BY <2>5, AfterUpdateNext
    <3> HIDE DEF q, v
    <3> QED
      BY <2>5, <3>1
  <2> HIDE DEF q, new, v
  <2>7. \A u \in Session, j \in Instance :
          row'[u][j] = IF u = s /\ j = i THEN new ELSE row[u][j]
    BY <1>1, <2>1 DEF IInv, TypeOK
  <2>8. \A b \in Agent : agent'[b] = IF b = a THEN q ELSE Outdated({<<s, i>>})[b]
    BY <2>1 DEF Outdated
  <2>9. late /\ session[s] = "Active" => row[s][i].st \notin Late
    BY <1>1 DEF Owns, OwnsLauncher, RowWork
  <2>10. a[2] = "task" /\ session[s] = "Active" => row[s][i].st \in Late
    BY <1>1 DEF Owns, OwnsTask, Queued, RowWork
  <2>11. Owns(a, q, session, row', posts) /\ ~Waits(q)
    <3>1. CASE r.op = "AnalysisQueued"
      BY <2>6, <3>1, OffOwns
    <3>2. CASE r.op = "Complete"
      <4>1. a[2] # "loop"
        BY <2>3
      <4>2. Owns(a, q, session, row, posts) /\ ~Waits(q)
        BY <1>1, <2>6, <3>2, <4>1, CheckOwns DEF RowWork
      <4> QED
        BY <2>6, <3>2, <4>1, <4>2, RewrittenOwns DEF RowWork
    <3>3. CASE r.op \notin {"AnalysisQueued", "Complete"}
      <4>1. q.pc \in RowWork /\ q.sid = s /\ q.auto = r.auto
        BY <2>6, <3>3
      <4>2. IF late THEN q.pc # "analyze" /\ q.op \in {"Started", "Collecting", "Logs", "AnalysisQueued"}
            ELSE q.op # "AnalysisQueued"
        <5>1. CASE a[2] = "launcher"
          BY <2>3, <2>6, <3>3, <5>1 DEF Update
        <5>2. CASE a[2] = "task"
          BY <2>3, <2>6, <3>3, <5>2
        <5> QED
          BY <2>3, <5>1, <5>2
      <4>3. a[2] = "task" => q.pc # "collecting" /\ q.op \in {"Analyzing", "Reports", "Complete"}
        BY <2>3, <2>6, <3>3
      <4>4. Owns(a, q, session, row, posts) /\ ~Waits(q)
        BY <1>1, <4>1, <4>2, <4>3, WorkOwns DEF RowWork
      <4>5. row'[s][i] = new
        BY <1>1, <2>7
      <4>6. late /\ row[s][i].st \notin Late => new.st \notin Late
        BY <2>3, <2>4, <3>3 DEF Late
      <4>7. a[2] = "task" /\ row[s][i].st \in Late => new.st \in Late
        BY <2>3, <2>4, <3>3 DEF Late
      <4> QED
        BY <2>3, <4>1, <4>4, <4>5, <4>6, <4>7, RewrittenOwns
    <3> QED
      BY <3>1, <3>2, <3>3
  <2>12. ASSUME NEW b \in Agent, b # a
         PROVE  Owns(b, agent'[b], session, row', posts) /\ NotNew(b)
    <3> DEFINE w == agent[b]
               u == agent'[b]
    <3>1. /\ Owns(b, w, session, row, posts) /\ b[1] \in Instance /\ w \in AgentState
          /\ w.pc \notin Early => w.sid \in Session
      BY AgentOwns
    <3>2. u = w \/ (w.pc = "put" /\ u = [w EXCEPT !.etag = FALSE])
      BY <2>8, <2>12 DEF Outdated
    <3>3. /\ u.pc = w.pc /\ u.sid = w.sid /\ u.op = w.op /\ u.auto = w.auto /\ u.todo = w.todo
      BY <3>1, <3>2 DEF AgentState
    <3>4. Owns(b, u, session, row, posts) /\ NotNew(b)
      <4>1. CASE u = w
        BY <3>1, <4>1 DEF NotNew
      <4>2. CASE w.pc = "put"
        <5> HIDE DEF u
        <5>1. Owns(b, u, session, row, posts) /\ ~Waits(u)
          BY <3>3, <4>2, OwnedUpdate, WorkOwns DEF RowWork
        <5> QED
          BY <5>1 DEF NotNew, u
      <4> QED
        BY <3>2, <4>1, <4>2
    <3>5. ASSUME session[w.sid] = "Active",
                 b[2] = "launcher", w.auto, w.pc \in RowWork \cup {"run"},
                 row[w.sid][b[1]].st \notin Late
          PROVE  row'[w.sid][b[1]].st \notin Late
      <4>1. w.sid \in Session
        BY <3>1, <3>5 DEF Owns, OwnsLauncher
      <4>2. ~(w.sid = s /\ b[1] = i)
        BY <1>1, <2>12, <3>5, WriterAlone
      <4> QED
        BY <2>7, <3>1, <3>5, <4>1, <4>2
    <3>6. ASSUME session[w.sid] = "Active", w.sid \in Automatic, row[w.sid][b[1]].st \in Late
          PROVE  row'[w.sid][b[1]].st \in Late
      <4>1. w.sid \in Session
        BY <3>6, ParametersAssumption
      <4>2. CASE w.sid = s /\ b[1] = i
        <5>1. a[2] = "task"
          BY <1>1, <2>3, <2>12, <3>6, <4>2, WriterAlone
        <5>2. new.st \in Late
          BY <2>3, <2>4, <3>6, <4>2, <5>1 DEF Late
        <5> QED
          BY <1>1, <2>7, <4>2, <5>2
      <4>3. CASE ~(w.sid = s /\ b[1] = i)
        BY <2>7, <3>1, <3>6, <4>1, <4>3
      <4> QED
        BY <4>2, <4>3
    <3>7. Owns(b, u, session, row', posts)
      <4> HIDE DEF u, w
      <4> QED
        BY <3>3, <3>4, <3>5, <3>6, RewrittenOwns
    <3> QED
      BY <3>4, <3>7
  <2>13. QueuedRows'
    <3>1. new.st = "AnalysisQueued" => s \in Automatic
      <4>1. CASE r.op = "AnalysisQueued"
        <5>1. Healed(i)
          BY <1>1, <2>3, <4>1 DEF Owns, OwnsLauncher, RowWork
        <5> QED
          BY <1>1, <5>1, HealedOnly DEF Mine
      <4>2. CASE r.op # "AnalysisQueued"
        BY <1>1, <2>3, <2>4, <4>2 DEF OInv, QueuedRows, Update
      <4> QED
        BY <4>1, <4>2
    <3> QED
      BY <1>1, <2>7, <3>1 DEF OInv, QueuedRows
  <2>14. \A b \in Agent : Owns(b, agent'[b], session', row', posts') /\ NotNew(b)
    BY <1>1, <2>8, <2>11, <2>12 DEF NotNew
  <2>15. OneSubmits'
    BY <2>14 DEF OInv, OneSubmits, NotNew
  <2>16. Posted'
    BY <1>1 DEF OInv, Posted
  <2> QED
    BY <2>13, <2>14, <2>15, <2>16 DEF OInv
<1> QED
  BY <1>2, <1>3

-----------------------------------------------------------------------------
(* The theorems *)

\* The initial states satisfy the invariant.
LEMMA InitOInv == Init => OInv
<1> SUFFICES ASSUME Init PROVE OInv
  OBVIOUS
<1>1. \A a \in Agent : agent[a] = Off
  BY DEF Init
<1>2. \A s \in Session, i \in Instance : row[s][i] = NoRow
  BY DEF Init
<1>3. NoRow.st = Absent
  BY DEF NoRow
<1>4. \A s \in Session : session[s] = Absent
  BY DEF Init
<1> QED
  BY <1>1, <1>2, <1>3, <1>4, OffOwns, ParametersAssumption
  DEF OInv, OneSubmits, QueuedRows, Posted, Absent

\* So does every step.
LEMMA NextOInv ==
  ASSUME MaxDelete = 0, Apart
  PROVE  IInv /\ RInv /\ AInv /\ OInv /\ [Next]_vars => OInv'
<1> SUFFICES ASSUME IInv, RInv, AInv, OInv, [Next]_vars PROVE OInv'
  OBVIOUS
<1>1. CASE UNCHANGED vars
  <2>1. UNCHANGED <<session, row, agent, posts>>
    BY <1>1 DEF vars, tables, rows, envVars
  <2>2. Steady
    BY <2>1 DEF Steady, OInv, QueuedRows
  <2> QED
    BY <2>1, <2>2, OwnsStep
<1>2. ASSUME NEW a \in Agent, Progress(a) PROVE OInv'
  BY <1>2, QueryActiveSessionOwns, AddSessionEntityOwns, IsSameSessionOwns, ThrowIfMultipleOwns,
     RunActiveSessionOwns, ReadRowOwns, PutRowOwns, AnalyzeLogsOwns, CompletionOwns,
     CancelOrphanOwns, LoopOwns, DecideOwns
  DEF Progress
<1>3. ASSUME NEW a \in Agent, Crash(a) \/ \E ok \in BOOLEAN : Collect(a, ok) PROVE OInv'
  BY <1>3, TimeOwns, CollectOwns
<1>4. ASSUME NEW i \in Instance, NEW s \in Session, Post(i, s) \/ \E k \in Slot : AutoHeal(i, s, k)
      PROVE  OInv'
  BY <1>4, ArrivalOwns
<1>5. ASSUME NEW i \in Runner, NEW due \in BOOLEAN, Poll(i, due) PROVE OInv'
  BY <1>5, LoopOwns
<1>6. ASSUME NEW s \in Session, Age(s) PROVE OInv'
  BY <1>6, TimeOwns
<1> QED
  BY <1>1, <1>2, <1>3, <1>4, <1>5, <1>6, NothingDeleted DEF Next

-----------------------------------------------------------------------------
(* One session: nobody else's launchers, and nothing else that is active.  *)

\* Auto-heal and the users then have nothing in common.
LEMMA OneSessionApart == MaxSession = 1 => Apart
<1> SUFFICES ASSUME MaxSession = 1 PROVE Apart
  OBVIOUS
<1>1. Automatic \subseteq {1} /\ Session = {1}
  BY ParametersAssumption DEF Session
<1> QED
  BY <1>1 DEF Apart

\* And what an analysis asks for is the session itself.
LEMMA OneSessionServed == MaxSession = 1 => Served
<1> SUFFICES ASSUME MaxSession = 1, NEW s \in Session \ CollectOnly, session[s] = "Active"
             PROVE  GetActiveSession \notin CollectOnly
  BY DEF Served
<1>1. GetActiveSession \in Session
  BY ActiveSessionIsActive
<1>2. Session = {1}
  BY DEF Session
<1> QED
  BY <1>1, <1>2

\* So one agent at a time works on a row while the session is active.
THEOREM OneSessionInvariantHolds ==
  ASSUME MaxSession = 1, MaxDelete = 0
  PROVE  Spec => [](IInv /\ RInv /\ AInv /\ OInv)
<1>1. IInv /\ RInv /\ AInv /\ OInv /\ [Next]_vars => AInv' /\ OInv'
  BY OneSessionApart, OneSessionServed, OwnersAreExclusive, NextAInv, NextOInv
<1> QED
  BY <1>1, InitAInv, InitOInv, RowInvariantHolds, PTL DEF Spec

\* A session is posted again and again, given up as an orphan, picked up by late
\* launchers and resumed by runners after crashes: until it is deleted, no instance
\* of it is reported complete before the analysis of its logs is recorded.
THEOREM OneSessionIsAnalyzed ==
  ASSUME MaxSession = 1, MaxDelete = 0
  PROVE  Spec => []CompleteMeansAnalyzed
<1>1. AInv => CompleteMeansAnalyzed
  BY DEF AInv
<1> QED
  BY <1>1, OneSessionInvariantHolds, PTL

-----------------------------------------------------------------------------
(* The list of logs an analysis started from is the one it overwrites.     *)

\* An agent about to record the outcome of an analysis.
Reporting(r) == r.pc \in {"read", "put"} /\ r.op = "Reports"

\* The list it has is the one the row still holds.
Current(b) == Reporting(agent[b]) /\ session[agent[b].sid] = "Active" =>
                row[agent[b].sid][b[1]].logs = agent[b].logs
LInv == \A b \in Agent : Current(b)

\* It came from AnalyzeLogs, and keeps the session and the list until it is done.
Carries(r, q) == Reporting(q) => Reporting(r) /\ q.sid = r.sid /\ q.logs = r.logs

\* A call of another update is none of reports.
LEMMA CallingCarries ==
  ASSUME NEW r, NEW v \in AgentState, NEW o, o # "Reports"
  PROVE  Carries(r, Calling(v, o))
<1>1. Calling(v, o).op = o
  BY DEF Calling, AgentState
<1> QED
  BY <1>1 DEF Carries, Reporting

\* Locals with another control state report nothing.
LEMMA ElsewhereCarries ==
  ASSUME NEW r, NEW q, q.pc \notin {"read", "put"}
  PROVE  Carries(r, q)
BY DEF Carries, Reporting

\* Nor does what follows an update.
LEMMA AfterUpdateCarries ==
  ASSUME NEW a, NEW r \in AgentState, NEW w
  PROVE  Carries(w, AfterUpdate(a, r))
<1>1. /\ [r EXCEPT !.logs = 0] \in AgentState /\ [r EXCEPT !.todo = FALSE] \in AgentState
  BY ZeroInRange DEF AgentState
<1>2. \A v \in AgentState : Carries(w, Collected(v))
  BY CallingCarries DEF Collected
<1>3. Carries(w, Ended(a))
  BY DEF Ended, Off, Carries, Reporting
<1>4. /\ [r EXCEPT !.pc = "collecting"].pc = "collecting"
      /\ [r EXCEPT !.pc = "analyze"].pc = "analyze"
      /\ [r EXCEPT !.pc = "active", !.ret = "end"].pc = "active"
  BY DEF AgentState
<1>5. r.op \in Update
  BY DEF AgentState
<1>6. CASE r.op = "Started"
  BY <1>1, <1>2, <1>6, CallingCarries DEF AfterUpdate
<1>7. CASE r.op \in {"Collecting", "Analyzing", "Complete"}
  BY <1>4, <1>7, ElsewhereCarries DEF AfterUpdate
<1>8. CASE r.op = "Logs"
  BY <1>1, <1>2, <1>8 DEF AfterUpdate
<1>9. CASE r.op = "AnalysisQueued"
  BY <1>3, <1>9 DEF AfterUpdate
<1>10. CASE r.op = "Reports"
  BY <1>1, <1>10, CallingCarries DEF AfterUpdate
<1> QED
  BY <1>5, <1>6, <1>7, <1>8, <1>9, <1>10 DEF Update

\* An agent goes on, the others stay as they are.
LEMMA OneCarries ==
  ASSUME IInv, NEW a \in Agent, NEW q, Become(a, q), Carries(agent[a], q)
  PROVE  \A b \in Agent : Carries(agent[b], agent'[b])
<1>1. \A b \in Agent : agent'[b] = IF b = a THEN q ELSE agent[b]
  BY DEF Become, IInv, TypeOK
<1> QED
  BY <1>1 DEF Carries

\* No step but AnalyzeLogs sets out to record reports.
LEMMA StepCarries ==
  ASSUME IInv, RInv, [Next]_vars, \A a \in Agent : ~AnalyzeLogs(a)
  PROVE  \A b \in Agent : Carries(agent[b], agent'[b])
<1> DEFINE All == \A b \in Agent : Carries(agent[b], agent'[b])
<1>1. CASE UNCHANGED agent
  BY <1>1 DEF Carries
<1>2. \A p \in PC \ {"read", "put"} : \A r : Carries(r, [Off EXCEPT !.pc = p])
  BY DEF Off, Carries, Reporting
<1>3. \A a, r : Carries(r, Off) /\ Carries(r, Ended(a))
  BY DEF Off, Ended, Carries, Reporting
<1>4. ASSUME NEW i \in Instance, NEW s \in Session, Post(i, s) \/ \E k \in Slot : AutoHeal(i, s, k)
      PROVE  All
  <2>1. CASE Post(i, s)
    <3>1. Kudu(i) \in Agent /\ [Off EXCEPT !.pc = "query", !.sid = s].pc = "query"
      BY DEF Agent, Off
    <3> QED
      BY <2>1, <3>1, OneCarries, ElsewhereCarries DEF Post
  <2>2. ASSUME NEW k \in Slot, AutoHeal(i, s, k) PROVE All
    <3>1. /\ Launcher(i, k) \in Agent
          /\ [Off EXCEPT !.pc = "start", !.sid = s, !.auto = TRUE].pc = "start"
      BY DEF Agent, Off
    <3> QED
      BY <2>2, <3>1, OneCarries, ElsewhereCarries DEF AutoHeal
  <2> QED
    BY <1>4, <2>1, <2>2
<1>5. ASSUME NEW a \in Agent, Submitted(a) PROVE All
  <2>1. agent[a] \in AgentState
    BY AgentFits
  <2>2. CASE a[2] = "launcher"
    <3>1. [agent[a] EXCEPT !.pc = "run"].pc = "run"
      BY <2>1 DEF AgentState
    <3> QED
      BY <1>5, <2>2, <3>1, OneCarries, ElsewhereCarries DEF Submitted
  <2>3. CASE a[2] # "launcher" /\ FreeSlots(a[1]) = {}
    BY <1>3, <1>5, <2>3, OneCarries DEF Submitted, End
  <2>4. CASE a[2] # "launcher" /\ FreeSlots(a[1]) # {}
    <3> DEFINE n == Launcher(a[1], CHOOSE k \in FreeSlots(a[1]) : TRUE)
               started == [Off EXCEPT !.pc = "start"]
    <3>1. agent' = [agent EXCEPT ![a] = Off, ![n] = started]
      BY <1>5, <2>4 DEF Submitted
    <3> HIDE DEF n, started
    <3>2. \A b \in Agent : agent'[b] \in {agent[b], Off, started}
      BY <3>1 DEF IInv, TypeOK
    <3>3. \A r : Carries(r, started)
      BY <1>2 DEF started, PC
    <3> QED
      BY <1>3, <3>2, <3>3 DEF Carries
  <2> QED
    BY <2>2, <2>3, <2>4
<1>6. ASSUME NEW a \in Agent, NEW p \in PC \ {"read", "put"},
             Become(a, [agent[a] EXCEPT !.pc = p])
      PROVE  All
  <2>1. [agent[a] EXCEPT !.pc = p].pc = p
    BY AgentFits DEF AgentState
  <2> QED
    BY <1>6, <2>1, OneCarries, ElsewhereCarries
<1>7. ASSUME NEW a \in Agent,
             \/ \E throttled \in BOOLEAN : QueryActiveSession(a, throttled)
             \/ AddSessionEntity(a) \/ IsSameSession(a)
             \/ ThrowIfMultipleDiagLauncherRunning(a)
      PROVE  All
  <2>1. \/ Submitted(a) \/ End(a)
        \/ \E p \in {"add", "conflict", "query", "run"} : Become(a, [agent[a] EXCEPT !.pc = p])
    BY <1>7 DEF QueryActiveSession, AddSessionEntity, AddSession, IsSameSession,
                ThrowIfMultipleDiagLauncherRunning
  <2> QED
    BY <1>3, <1>5, <1>6, <2>1, OneCarries DEF End, PC
<1>8. ASSUME NEW a \in Agent, RunActiveSession(a) PROVE All
  <2> DEFINE x == GetActiveSession
             v == [agent[a] EXCEPT !.sid = x, !.todo = ShouldCollect(row[x][a[1]].st)]
  <2>1. v \in AgentState
    <3>1. ShouldCollect(row[x][a[1]].st) \in BOOLEAN
      BY DEF ShouldCollect
    <3>2. x \in 0..MaxSession
      BY ActiveSessionIsActive
    <3> HIDE DEF x
    <3> QED
      BY <3>1, <3>2, AgentFits DEF AgentState
  <2>2. End(a) \/ Become(a, Calling(v, "Started"))
    BY <1>8 DEF RunActiveSession
  <2> QED
    BY <1>3, <2>1, <2>2, CallingCarries, OneCarries DEF End
<1>9. ASSUME NEW a \in Agent, NEW ok \in BOOLEAN, Collect(a, ok) PROVE All
  <2> DEFINE v == [agent[a] EXCEPT !.logs = IF ok THEN agent[a].sid ELSE 0]
  <2>1. v \in AgentState
    BY AgentFits, ZeroInRange DEF AgentState
  <2> QED
    BY <1>9, <2>1, CallingCarries, OneCarries DEF Collect
<1>10. ASSUME NEW a \in Agent, ReadRow(a) PROVE All
  <2> DEFINE q == [agent[a] EXCEPT !.pc = "put", !.hold = row[agent[a].sid][a[1]], !.etag = TRUE]
  <2>1. /\ q.op = agent[a].op /\ q.sid = agent[a].sid /\ q.logs = agent[a].logs
        /\ agent[a].pc = "read"
    BY <1>10, AgentFits DEF AgentState, ReadRow
  <2>2. Carries(agent[a], q)
    BY <2>1 DEF Carries, Reporting
  <2> QED
    BY <1>3, <1>10, <2>2, OneCarries DEF ReadRow
<1>11. ASSUME NEW a \in Agent, PutRow(a) PROVE All
  <2> DEFINE v == [agent[a] EXCEPT !.hold = NoRow, !.etag = FALSE]
             q == AfterUpdate(a, v)
  <2>1. v \in AgentState
    BY AgentFits, OffType DEF AgentState
  <2>2. Carries(agent[a], q)
    BY <2>1, AfterUpdateCarries
  <2>3. CASE Become(a, Ended(a))
    BY <1>3, <2>3, OneCarries
  <2>4. CASE agent' = [Outdated({<<agent[a].sid, a[1]>>}) EXCEPT ![a] = q]
    <3> HIDE DEF q
    <3>1. \A b \in Agent : agent'[b] \in
            IF b = a THEN {q} ELSE {agent[b], [agent[b] EXCEPT !.etag = FALSE]}
      BY <2>4 DEF Outdated
    <3>2. \A b \in Agent : Carries(agent[b], [agent[b] EXCEPT !.etag = FALSE])
      BY AgentFits DEF AgentState, Carries, Reporting
    <3>3. \A b \in Agent : Carries(agent[b], agent[b])
      BY DEF Carries
    <3> QED
      BY <2>2, <3>1, <3>2, <3>3
  <2> QED
    BY <1>11, <2>3, <2>4 DEF PutRow
<1>12. ASSUME NEW r \in AgentState PROVE \A w : Carries(w, CheckLimits(r))
  <2>1. CheckLimits(r).pc = "active"
    BY DEF CheckLimits, AgentState
  <2> QED
    BY <2>1, ElsewhereCarries
<1>13. ASSUME NEW a \in Agent, NEW done PROVE \A w : Carries(w, Returned(a, done))
  <2> DEFINE v == [agent[a] EXCEPT !.cur = 0]
  <2>1. /\ [v EXCEPT !.pc = "reread", !.ret = "end"].pc = "reread"
        /\ [v EXCEPT !.pc = "decide", !.ret = "end"].pc = "decide"
        /\ v.ret \in {"end", "orphans", "force", "check"}
    BY AgentFits DEF AgentState
  <2> QED
    BY <1>3, <2>1, ElsewhereCarries DEF Returned
<1>14. ASSUME NEW a \in Agent, ReadActive(a) \/ ReadRows(a) \/ CloseSession(a) PROVE All
  <2>1. /\ [agent[a] EXCEPT !.pc = "rows", !.cur = GetActiveSession].pc = "rows"
    BY AgentFits DEF AgentState
  <2>2. \/ \E done \in BOOLEAN : Become(a, Returned(a, done))
        \/ Become(a, [agent[a] EXCEPT !.pc = "rows", !.cur = GetActiveSession])
        \/ Become(a, [agent[a] EXCEPT !.pc = "close"])
    BY <1>14 DEF ReadActive, ReadRows, CloseSession
  <2> QED
    BY <1>6, <1>13, <2>1, <2>2, OneCarries, ElsewhereCarries DEF PC
<1>15. ASSUME NEW a \in Agent, NEW n \in Instance, CancelOrphan(a, n) PROVE All
  <2> DEFINE r == agent[a]
  <2>1. /\ [r EXCEPT !.pc = "reread", !.names = {}].pc = "reread"
        /\ [r EXCEPT !.names = r.names \ {n}, !.added = TRUE].pc = "orphans"
        /\ [r EXCEPT !.pc = "active", !.ret = "orphans", !.names = {}, !.added = TRUE].pc = "active"
        /\ r \in AgentState
    BY <1>15, AgentFits DEF AgentState, CancelOrphan
  <2>2. \/ Become(a, CheckLimits(r))
        \/ \E q \in {[r EXCEPT !.pc = "reread", !.names = {}],
                     [r EXCEPT !.names = r.names \ {n}, !.added = TRUE],
                     [r EXCEPT !.pc = "active", !.ret = "orphans", !.names = {}, !.added = TRUE]} :
             Become(a, q)
    BY <1>15 DEF CancelOrphan
  <2> QED
    BY <1>12, <2>1, <2>2, OneCarries, ElsewhereCarries
<1>16. ASSUME NEW i \in Runner, NEW due \in BOOLEAN, Poll(i, due) PROVE All
  <2> DEFINE x == GetActiveSession
             v == Snapshot(x, i)
  <2>1. x \in Session
    BY <1>16, ActiveSessionIsActive DEF Poll
  <2>2. v \in AgentState
    BY <2>1, SnapshotType DEF Working
  <2>3. /\ [v EXCEPT !.pc = "decide"].pc = "decide"
        /\ [v EXCEPT !.pc = "orphans", !.names = Orphans(x)].pc = "orphans"
    BY <2>2 DEF AgentState
  <2>4. \/ Become(Loop(i), CheckLimits(v))
        \/ Become(Loop(i), [v EXCEPT !.pc = "decide"])
        \/ Become(Loop(i), [v EXCEPT !.pc = "orphans", !.names = Orphans(x)])
    BY <1>16 DEF Poll
  <2>5. Loop(i) \in Agent
    BY DEF Agent
  <2> QED
    BY <1>12, <2>2, <2>3, <2>4, <2>5, OneCarries, ElsewhereCarries
<1>17. ASSUME NEW a \in Agent, Reread(a) PROVE All
  <2> DEFINE x == GetActiveSession
  <2>1. x # 0 => Snapshot(x, a[1]) \in AgentState
    BY SnapshotType, ActiveSessionIsActive DEF Working
  <2>2. Become(a, Off) \/ (x # 0 /\ Become(a, CheckLimits(Snapshot(x, a[1]))))
    BY <1>17 DEF Reread
  <2> QED
    BY <1>3, <1>12, <2>1, <2>2, OneCarries
<1>18. ASSUME NEW a \in Agent, Decide(a) PROVE All
  <2> DEFINE v == [Off EXCEPT !.sid = agent[a].sid]
             q == Calling(v, "Analyzing")
  <2>1. q.op = "Analyzing"
    BY DEF Calling, Off
  <2> HIDE DEF q
  <2>2. \A b \in Agent : agent'[b] \in {Off, q, agent[b]}
    BY <1>18 DEF Decide, q, IInv, TypeOK
  <2> QED
    BY <1>3, <2>1, <2>2 DEF Carries, Reporting
<1>19. ASSUME NEW a \in Agent, Crash(a) PROVE All
  BY <1>3, <1>19 DEF Crash, Carries
<1>20. ASSUME NEW i \in Instance, DeleteRow(i) PROVE All
  <2>1. \A b \in Agent : agent'[b] \in {agent[b], [agent[b] EXCEPT !.etag = FALSE]}
    BY <1>20 DEF DeleteRow, Outdated
  <2>2. \A b \in Agent : Carries(agent[b], [agent[b] EXCEPT !.etag = FALSE])
    BY AgentFits DEF AgentState, Carries, Reporting
  <2> QED
    BY <2>1, <2>2 DEF Carries
<1>21. (\E s \in Session : StartDeletion(s) \/ Age(s)) \/ ListRows \/ DeleteSession \/ CrashDeletion
         => UNCHANGED agent
  BY DEF StartDeletion, Age, ListRows, DeleteSession, CrashDeletion
<1>22. UNCHANGED vars => UNCHANGED agent
  BY DEF vars
<1> QED
  BY <1>1, <1>4, <1>7, <1>8, <1>9, <1>10, <1>11, <1>14, <1>15, <1>16, <1>17, <1>18, <1>19,
     <1>20, <1>21, <1>22
  DEF Next, Progress

-----------------------------------------------------------------------------
(* With one session *)

\* Nothing is active anew, and nothing is active that was not added.
LEMMA StepGrows ==
  ASSUME MaxDelete = 0, IInv, RInv, AInv, [Next]_vars
  PROVE  Grows
<1>1. session \in [Session -> {"Active", Absent} \cup Closed]
  BY DEF IInv, TypeOK
<1>2. ASSUME NEW a \in Agent, CloseSession(a) PROVE Grows
  BY <1>1, <1>2, AgentFits DEF CloseSession, Grows, Aimed, Closed, Absent
<1>3. ASSUME NEW a \in Agent, AddSessionEntity(a) PROVE Grows
  BY <1>1, <1>3 DEF AddSessionEntity, AddSession, Grows
<1>4. UNCHANGED session \/ \E a \in Agent : AddSessionEntity(a) \/ CloseSession(a)
  BY NothingDeleted
  DEF Next, Progress, vars, tables, rows, Post, AutoHeal, QueryActiveSession, IsSameSession,
      ThrowIfMultipleDiagLauncherRunning, RunActiveSession, ReadRow, PutRow, AnalyzeLogs,
      ReadActive, ReadRows, CancelOrphan, Reread, Decide, Crash, Collect, Poll, Age
<1> QED
  BY <1>2, <1>3, <1>4, SameGrows

\* An agent at work on a row of a session that is active was so before.
LEMMA WasActive ==
  ASSUME MaxDelete = 0, IInv, RInv, AInv, [Next]_vars,
         NEW b \in Agent, Reporting(agent[b]), session'[agent[b].sid] = "Active"
  PROVE  session[agent[b].sid] = "Active" /\ agent[b].sid \in Session
<1>1. agent[b].sid \in Session /\ session[agent[b].sid] # Absent
  BY AgentPlaced DEF Reporting, Early
<1> QED
  BY <1>1, StepGrows, GrowsKeeps

\* What AnalyzeLogs sets out with is the list of the only session there is.
LEMMA AnalyzeLogsCurrent ==
  ASSUME MaxSession = 1, MaxDelete = 0, IInv, RInv, AInv, LInv, [Next]_vars,
         NEW a \in Agent, AnalyzeLogs(a)
  PROVE  LInv'
<1> DEFINE r == agent[a]
           x == GetActiveSession
           i == a[1]
           v == [r EXCEPT !.logs = row[x][i].logs]
           q == Calling(v, "Reports")
<1>1. /\ r.pc = "analyze" /\ r \in AgentState /\ r.sid \in Session /\ i \in Instance
      /\ UNCHANGED <<session, row>>
  BY AgentFits, MachineOfAgent DEF AnalyzeLogs, Aimed, RowWork, tables, rows
<1>2. Become(a, Calling(r, "Complete")) \/ Become(a, Ended(a)) \/ (x # 0 /\ Become(a, q))
  BY DEF AnalyzeLogs
<1>3. x # 0 => x = r.sid
  <2>1. Session = {1}
    BY DEF Session
  <2> QED
    BY <1>1, <2>1, ActiveSessionIsActive
<1>4. x # 0 => q.sid = r.sid /\ q.logs = row[r.sid][i].logs
  BY <1>1, <1>3 DEF Calling, AgentState
<1>5. ~Reporting(Calling(r, "Complete")) /\ ~Reporting(Ended(a))
  BY <1>1 DEF Reporting, Calling, Ended, Off, AgentState
<1>6. PICK w : Become(a, w) /\ (Reporting(w) => w.sid = r.sid /\ w.logs = row[r.sid][i].logs)
  BY <1>2, <1>4, <1>5
<1>7. \A b \in Agent : agent'[b] = IF b = a THEN w ELSE agent[b]
  BY <1>6 DEF Become, IInv, TypeOK
<1> QED
  BY <1>1, <1>6, <1>7 DEF LInv, Current

\* And nobody else writes to the row while it is on its way.
LEMMA NextLInv ==
  ASSUME MaxSession = 1, MaxDelete = 0
  PROVE  IInv /\ RInv /\ AInv /\ OInv /\ LInv /\ [Next]_vars => LInv'
<1> SUFFICES ASSUME IInv, RInv, AInv, OInv, LInv, [Next]_vars PROVE LInv'
  OBVIOUS
<1>1. Exclusive
  BY OneSessionApart, OwnersAreExclusive
<1>2. CASE \E a \in Agent : AnalyzeLogs(a)
  BY <1>2, AnalyzeLogsCurrent
<1>3. CASE \A a \in Agent : ~AnalyzeLogs(a)
  <2> SUFFICES ASSUME NEW b \in Agent, Reporting(agent'[b]), session'[agent'[b].sid] = "Active"
               PROVE  row'[agent'[b].sid][b[1]].logs = agent'[b].logs
    BY DEF LInv, Current
  <2> DEFINE s == agent[b].sid
             i == b[1]
  <2>1. Reporting(agent[b]) /\ agent'[b].sid = s /\ agent'[b].logs = agent[b].logs
    BY <1>3, StepCarries DEF Carries
  <2>2. session[s] = "Active" /\ s \in Session /\ i \in Instance
    BY <2>1, WasActive, MachineOfAgent
  <2>3. row[s][i].logs = agent[b].logs
    BY <2>1, <2>2 DEF LInv, Current
  <2>4. row'[s][i].logs = row[s][i].logs
    <3>1. CASE UNCHANGED row
      BY <3>1
    <3>2. ASSUME NEW a \in Agent, PutRow(a), ~UNCHANGED row PROVE row'[s][i].logs = row[s][i].logs
      <4> DEFINE u == agent[a].sid
                 j == a[1]
      <4>1. /\ agent[a].pc = "put" /\ u \in Session /\ j \in Instance
            /\ row' = [row EXCEPT ![u][j] = UpdatedRow(agent[a])]
        BY <3>2, AgentFits, MachineOfAgent DEF PutRow, Aimed, RowWork, rows
      <4>2. a # b
        <5>1. CASE a = b
          <6>1. Reporting(agent'[a]) /\ agent'[a].pc # "put"
            BY <3>2, <5>1, PutEnds
          <6> DEFINE w == [agent[a] EXCEPT !.hold = NoRow, !.etag = FALSE]
          <6>2. w \in AgentState /\ \A z : Carries(z, AfterUpdate(a, w))
            BY AgentFits, OffType, AfterUpdateCarries DEF AgentState
          <6>3. agent'[a] = AfterUpdate(a, w)
            BY <3>2 DEF PutRow, Outdated, rows
          <6>4. ~Reporting(Off)
            BY DEF Reporting, Off
          <6> QED
            BY <6>1, <6>2, <6>3, <6>4 DEF Carries
        <5> QED
          BY <5>1
      <4>3. ~(u = s /\ j = i)
        BY <1>1, <2>1, <2>2, <4>1, <4>2 DEF Exclusive, Reporting, RowWork
      <4> HIDE DEF u, j, s, i
      <4> QED
        BY <2>2, <4>1, <4>3 DEF IInv, TypeOK
    <3>3. ASSUME NEW a \in Agent, NEW n \in Instance, CancelOrphan(a, n)
          PROVE  row'[s][i].logs = row[s][i].logs
      BY <2>2, <3>3, OrphanLogs
    <3>4. \A n \in Instance : ~DeleteRow(n)
      BY NothingDeleted
    <3> QED
      BY <3>1, <3>2, <3>3, <3>4, RowWriters DEF WritesRow
  <2> QED
    BY <2>1, <2>3, <2>4
<1> QED
  BY <1>2, <1>3

\* A session is posted again and again, its launchers and its analysis tasks crash
\* and are resumed: until it is deleted, the list of logs a machine collected is never
\* overwritten with an older one, although UpdateReportsForSessionAsync does not
\* compare it with the list it started from.
THEOREM OneSessionKeepsLogs ==
  ASSUME MaxSession = 1, MaxDelete = 0
  PROVE  Spec => LogsKept
<1> DEFINE Kept == \A s \in Session, i \in Instance :
             session[s] = "Active" /\ row'[s][i].logs # row[s][i].logs =>
               \E a \in Agent : Puts(a, "Logs", s, i)
<1>1. ASSUME IInv, RInv, LInv, [Next]_vars PROVE Kept
  <2>1. CASE UNCHANGED row
    BY <2>1
  <2>2. ASSUME NEW a \in Agent, PutRow(a), ~UNCHANGED row PROVE Kept
    <3> DEFINE r == agent[a]
               i == a[1]
               s == r.sid
               new == UpdatedRow(r)
    <3>1. /\ r.pc = "put" /\ r \in AgentState /\ Fits(a, r) /\ MayWrite(r, i)
          /\ s \in Session /\ i \in Instance
          /\ r.hold \in Row /\ r.op \in Update
          /\ row' = [row EXCEPT ![s][i] = new]
      BY <1>1, <2>2, AgentFits, MachineOfAgent DEF PutRow, Aimed, RowWork, AgentState, rows
    <3>2. agent'[a].pc # "put"
      BY <1>1, <2>2, PutEnds
    <3>3. /\ r.op \notin {"Logs", "Reports"} => new.logs = r.hold.logs
          /\ r.op = "Reports" => new.logs = r.logs
      BY <3>1 DEF UpdatedRow, Update, Row
    <3>4. r.hold = row[s][i]
      BY <1>1, <3>1 DEF MayWrite, Fits, Latest, RInv, RowsSound
    <3>5. r.op = "Logs" => Puts(a, "Logs", s, i)
      BY <3>1, <3>2 DEF Puts
    <3>6. r.op = "Reports" /\ session[s] = "Active" => row[s][i].logs = r.logs
      BY <1>1, <3>1 DEF LInv, Current, Reporting
    <3> HIDE DEF new, s
    <3>7. \A u \in Session, j \in Instance :
            row'[u][j] = IF u = s /\ j = i THEN new ELSE row[u][j]
      BY <1>1, <3>1 DEF IInv, TypeOK
    <3> QED
      BY <3>3, <3>4, <3>5, <3>6, <3>7
  <2>3. ASSUME NEW a \in Agent, NEW n \in Instance, CancelOrphan(a, n) PROVE Kept
    BY <1>1, <2>3, OrphanLogs
  <2>4. \A i \in Instance : ~DeleteRow(i)
    BY <1>1, NothingDeleted
  <2> QED
    BY <1>1, <2>1, <2>2, <2>3, <2>4, RowWriters DEF WritesRow
<1>2. IInv /\ RInv /\ LInv /\ [Next]_vars =>
        [\A s \in Session, i \in Instance :
           session[s] = "Active" /\ row'[s][i].logs # row[s][i].logs =>
             \E a \in Agent : Puts(a, "Logs", s, i)]_vars
  BY <1>1
<1>3. Init => LInv
  <2>1. ~Reporting(Off)
    BY DEF Reporting, Off
  <2> QED
    BY <2>1 DEF Init, LInv, Current
<1> QED
  BY <1>2, <1>3, NextLInv, OneSessionInvariantHolds, PTL DEF Spec, LogsKept

=============================================================================
