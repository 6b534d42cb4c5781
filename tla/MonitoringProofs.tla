---------------------------- MODULE MonitoringProofs ----------------------------
(***************************************************************************)
(* Theorems about MonitoringAnalysis, for every set of machines, monitors, *)
(* analyzers and requests, every mode and every bound.                     *)
(*                                                                         *)
(* One invariant carries the first of them.  Beside types it says what a   *)
(* thread in each control state works on, that no copy of a session file   *)
(* held by any thread is completed too early, and how many actions are     *)
(* taken or about to be taken.  Two more, History and AllDecide, rest on   *)
(* it: what the disk owes to the threads, and what runners stop.           *)
(***************************************************************************)
EXTENDS MonitoringAnalysis, FiniteSetTheorems, TLAPS

\* A session file that says Completed has a result for every dump.
Decided(file) == file.status = "Completed" => file.files \subseteq file.reported \cup file.errors
GoodFile == {file \in SessionFile : Decided(file)}

\* Control states in which a thread works on a session, and on a dump.
OnSession == {"exists", "collect", "delete", "getSession", "queue", "enqueue", "clearTarget", "rename",
              "load", "analyzing", "list", "result", "rmBlobs", "rmFile", "rmFolder"}
OnDump == {"dump", "moved", "enqueue", "clearTarget", "rename", "load", "analyzing", "list", "result"}
Good == {local \in Local :
          /\ local.then \in {"idle", "delete", "cleanup"}
          /\ local.pc \in OnSession \/ local.then = "delete" => local.sid \in Session
          /\ local.pc \in OnDump => local.dump \in Dump
          /\ local.copy \in GoodFile}

\* The machines that have counted the actions and not yet taken their own.
Acting(s) == {i \in Monitors : At(Monitor(i), "act") /\ rule[i] = s}
Bounded ==
  Monitors # {} =>
    \A s \in Session :
       Cardinality(executed[s]) + Cardinality(Acting(s)) <= MaxActions + Cardinality(Monitors) - 1

SessionTypes ==
  /\ active \in SUBSET Session /\ expired \in SUBSET Session
  /\ stops \in [Monitors -> [0..MaxSession -> SUBSET Session]]
  /\ completed \in [Session -> GoodFile]
  /\ mode \in [Session -> SessionMode]
  /\ created \in 0..MaxSession /\ requests \in 0..MaxRequest /\ deletes \in 0..MaxDelete
FolderTypes ==
  /\ executed \in [Session -> SUBSET Dump] /\ moved \in [Session -> SUBSET Dump]
  /\ blobs \in [Session -> SUBSET Dump] /\ reports \in [Session -> SUBSET Dump]
RuleTypes ==
  /\ rule \in [Monitors -> 0..MaxSession]
  /\ count \in [Monitors -> 0..ThresholdCount]
  /\ failedStop \in [Monitors -> BOOLEAN]
  /\ decided \in [Monitors -> 0..MaxSession]
FaultTypes == failures \in 0..MaxFailure /\ crashes \in 0..MaxCrash
QueueTypes ==
  /\ request \in [Key -> AnalysisRequest \cup {NoRequest}]
  /\ inProgress \in [Key -> AnalysisRequest \cup {NoRequest}]
  /\ overdue \in SUBSET Key
ThreadInv ==
  /\ thread \in [Thread -> Good]
  /\ lock \in SUBSET Thread
  /\ Bounded

IInv == SessionTypes /\ FolderTypes /\ RuleTypes /\ FaultTypes /\ QueueTypes /\ ThreadInv

-----------------------------------------------------------------------------
(* The invariant implies the properties *)

\* The types of the parts are those of TypeOK.
LEMMA IInvTypes == IInv => TypeOK
BY DEF IInv, TypeOK, SessionTypes, FolderTypes, RuleTypes, FaultTypes, QueueTypes, ThreadInv, Good, GoodFile

\* There are finitely many names of dumps.
LEMMA DumpsFinite == IsFiniteSet(Dump)
<1>1. IsFiniteSet(1..(MaxActions + 1))
  BY FS_Interval, MonitoringAssumption
<1> QED
  BY <1>1, FS_Product, MonitoringAssumption DEF Dump

\* Sets of dumps and of monitors have cardinalities.
LEMMA Cardinalities ==
  /\ Cardinality(Monitors) \in Nat
  /\ \A M \in SUBSET Monitors : IsFiniteSet(M) /\ Cardinality(M) \in Nat /\ Cardinality(M) <= Cardinality(Monitors)
  /\ \A D \in SUBSET Dump : IsFiniteSet(D) /\ Cardinality(D) \in Nat
<1>1. IsFiniteSet(Monitors)
  BY FS_Subset, MonitoringAssumption
<1>2. \A M \in SUBSET Monitors : IsFiniteSet(M) /\ Cardinality(M) <= Cardinality(Monitors)
  BY <1>1, FS_Subset
<1>3. \A D \in SUBSET Dump : IsFiniteSet(D)
  BY DumpsFinite, FS_Subset
<1> QED
  BY <1>1, <1>2, <1>3, FS_CardinalityType

\* The bound on actions taken and about to be taken bounds those taken.
LEMMA IInvBound == IInv /\ Monitors # {} => ActionsBounded
<1> SUFFICES ASSUME IInv, Monitors # {}, NEW s \in Session
             PROVE  Cardinality(executed[s]) <= MaxActions + Cardinality(Monitors) - 1
  BY DEF ActionsBounded
<1>1. Acting(s) \in SUBSET Monitors /\ executed[s] \in SUBSET Dump
  BY DEF Acting, IInv, FolderTypes
<1>2. Cardinality(executed[s]) + Cardinality(Acting(s)) <= MaxActions + Cardinality(Monitors) - 1
  BY DEF IInv, ThreadInv, Bounded
<1> QED
  BY <1>1, <1>2, Cardinalities, MonitoringAssumption

-----------------------------------------------------------------------------
(* Steps that leave a part alone *)

\* Nothing about sessions changes.
LEMMA SameSession == SessionTypes /\ UNCHANGED sessionVars => SessionTypes'
BY DEF SessionTypes, sessionVars

\* Nothing in the folders changes.
LEMMA SameFolders == FolderTypes /\ UNCHANGED folderVars => FolderTypes' /\ executed' = executed
BY DEF FolderTypes, folderVars

\* No rule changes.
LEMMA SameRules == RuleTypes /\ UNCHANGED ruleVars => RuleTypes' /\ rule' = rule
BY DEF RuleTypes, ruleVars

\* No fault happens.
LEMMA SameFaults == FaultTypes /\ UNCHANGED faultVars => FaultTypes'
BY DEF FaultTypes, faultVars

\* The queue stays.
LEMMA SameQueue == QueueTypes /\ UNCHANGED queueVars => QueueTypes'
BY DEF QueueTypes, queueVars

\* The threads of a machine and of a request are different threads.
LEMMA Threads ==
  /\ \A i \in Monitors : Monitor(i) \in Thread
  /\ \A i \in Analyzers : Analyzer(i) \in Thread
  /\ \A u \in User : Request(u) \in Thread
  /\ \A i, j : Monitor(i) = Monitor(j) => i = j
  /\ \A i, j : Monitor(i) # Analyzer(j) /\ Monitor(i) # Request(j)
BY DEF Thread, Monitor, Analyzer, Request

\* When no machine begins an action the number of actions stays bounded.
LEMMA BoundedStep ==
  ASSUME IInv, FolderTypes',
         \A s \in Session : Acting(s)' \subseteq Acting(s),
         \A s \in Session : executed'[s] \subseteq executed[s]
  PROVE  Bounded'
<1> SUFFICES ASSUME Monitors # {}, NEW s \in Session
             PROVE  Cardinality(executed'[s]) + Cardinality(Acting(s)')
                      <= MaxActions + Cardinality(Monitors) - 1
  BY DEF Bounded
<1>1. Cardinality(executed[s]) + Cardinality(Acting(s)) <= MaxActions + Cardinality(Monitors) - 1
  BY DEF IInv, ThreadInv, Bounded
<1>2. Acting(s) \in SUBSET Monitors /\ executed[s] \in SUBSET Dump
  BY DEF Acting, IInv, FolderTypes
<1>3. Acting(s)' \in SUBSET Monitors /\ executed'[s] \in SUBSET Dump
  BY <1>2
<1>4. Cardinality(executed'[s]) <= Cardinality(executed[s])
  BY <1>2, Cardinalities, FS_Subset
<1>5. Cardinality(Acting(s)') <= Cardinality(Acting(s))
  BY <1>2, Cardinalities, FS_Subset
<1> QED
  BY <1>1, <1>2, <1>3, <1>4, <1>5, Cardinalities, MonitoringAssumption

\* A step of one thread that does not begin an action.
LEMMA OneThreadStep ==
  ASSUME IInv, NEW t \in Thread, NEW local \in Good, Become(t, local),
         local.pc # "act", lock' \in SUBSET Thread, FolderTypes',
         \A s \in Session : executed'[s] \subseteq executed[s],
         \/ rule' = rule
         \/ \E i \in Monitors : t = Monitor(i) /\ \E x : rule' = [rule EXCEPT ![i] = x]
  PROVE  ThreadInv'
<1>1. thread' \in [Thread -> Good]
  BY DEF Become, IInv, ThreadInv
<1>2. ASSUME NEW s \in Session PROVE Acting(s)' \subseteq Acting(s)
  <2> SUFFICES ASSUME NEW i \in Monitors, thread'[Monitor(i)].pc = "act", rule'[i] = s
               PROVE  i \in Acting(s)
    BY DEF Acting, At
  <2>1. Monitor(i) # t
    BY Threads DEF Become, IInv, ThreadInv
  <2>2. thread[Monitor(i)].pc = "act"
    BY <2>1, Threads DEF Become, IInv, ThreadInv
  <2>3. rule'[i] = rule[i]
    BY <2>1 DEF IInv, RuleTypes
  <2> QED
    BY <2>2, <2>3 DEF Acting, At
<1>3. Bounded'
  BY <1>2, BoundedStep
<1> QED
  BY <1>1, <1>3 DEF IInv, ThreadInv

\* A step that changes nothing but one thread.
LEMMA OnlyThreadStep ==
  ASSUME IInv, NEW t \in Thread, NEW local \in Good, Become(t, local),
         local.pc # "act", UNCHANGED <<unchangedSession, queueVars>>
  PROVE  IInv'
<1>1. /\ UNCHANGED sessionVars /\ UNCHANGED folderVars /\ UNCHANGED ruleVars
      /\ UNCHANGED faultVars /\ UNCHANGED lock /\ UNCHANGED queueVars
  BY DEF unchangedSession
<1>2. SessionTypes' /\ FolderTypes' /\ RuleTypes' /\ FaultTypes' /\ QueueTypes'
  BY <1>1, SameSession, SameFolders, SameRules, SameFaults, SameQueue DEF IInv
<1>3. ThreadInv'
  BY <1>1, <1>2, OneThreadStep, SameFolders, SameRules DEF IInv, ThreadInv
<1> QED
  BY <1>2, <1>3 DEF IInv

-----------------------------------------------------------------------------
(* The locals a step gives its thread *)

\* Numbers and values that stand for nothing are in range.
LEMMA NullTypes ==
  /\ 0 \in 0..MaxSession
  /\ \A s \in Session : s \in 0..MaxSession
  /\ NoFile \in GoodFile
  /\ Idle \in Good /\ Idle.pc = "idle"
<1>1. 0 \in 0..MaxSession /\ \A s \in Session : s \in 0..MaxSession
  BY MonitoringAssumption DEF Session
<1>2. NoFile \in GoodFile
  BY DEF NoFile, GoodFile, SessionFile, Decided, AnalysisStatus
<1>3. Idle \in Local
  BY <1>1, <1>2 DEF Idle, Local, PC, Outcome, GoodFile
<1> QED
  BY <1>1, <1>2, <1>3 DEF Idle, Good, OnSession, OnDump

\* What Goto makes of the locals.
WithPc(l, p) == [l EXCEPT !.pc = p]

\* Going on with what the thread has.
LEMMA GotoGood ==
  ASSUME NEW l \in Good, NEW p \in PC,
         p \in OnSession => l.sid \in Session, p \in OnDump => l.dump \in Dump
  PROVE  WithPc(l, p) \in Good /\ WithPc(l, p).pc = p
<1>1. WithPc(l, p) \in Local
  BY DEF Good, Local, WithPc
<1> QED
  BY <1>1 DEF Good, Local, WithPc

\* Control states in which a thread needs neither a session nor a dump.
Free == (PC \ OnSession) \ OnDump

\* A thread may always go on to one of these.
LEMMA GotoFree ==
  ASSUME IInv, NEW t \in Thread, NEW p \in Free
  PROVE  WithPc(thread[t], p) \in Good /\ WithPc(thread[t], p).pc = p
BY GotoGood DEF Free, IInv, ThreadInv

\* Goto changes the locals that way.
LEMMA GotoBecomes == ASSUME NEW t, NEW p, Goto(t, p) PROVE Become(t, WithPc(thread[t], p))
BY DEF Goto, WithPc

\* Which these are.
LEMMA FreeStates ==
  /\ {"idle", "sample", "wait", "stop", "clear", "create", "acquire", "write", "writeUnlocked",
       "cleanup", "expired", "requeue"} \subseteq Free \ {"act"}
  /\ "act" \in Free
BY DEF Free, PC, OnSession, OnDump

\* What beginning to work on a session makes of the locals.
WithSession(l, p, s) == [l EXCEPT !.pc = p, !.sid = s]

\* Beginning to work on a session.
LEMMA SessionGood ==
  ASSUME NEW l \in Good, NEW s \in Session, NEW p \in PC \ OnDump
  PROVE  /\ WithSession(l, p, s) \in Good
         /\ WithSession(l, p, s).pc = p
<1>1. WithSession(l, p, s) \in Local
  BY NullTypes DEF Good, Local, WithSession
<1> QED
  BY <1>1 DEF Good, Local, WithSession

\* The lock is held by threads.
LEMMA LockOk == IInv => lock \in SUBSET Thread
BY DEF IInv, ThreadInv

\* A thread holds good locals.
LEMMA ThreadGood == ASSUME IInv, NEW t \in Thread PROVE thread[t] \in Good
BY DEF IInv, ThreadInv

-----------------------------------------------------------------------------
(* The rule *)

\* A new rule is taken, or the known one kept.
LEMMA CheckMonitoringEnabledInv ==
  ASSUME IInv, NEW i \in Monitors, CheckMonitoringEnabled(i), UNCHANGED queueVars PROVE IInv'
<1> PICK s \in active :
      /\ rule' = [rule EXCEPT ![i] = s]
      /\ count' = IF rule[i] = s THEN count ELSE [count EXCEPT ![i] = 0]
      /\ Goto(Monitor(i), IF failedStop[i] THEN "stop" ELSE "sample")
  BY DEF CheckMonitoringEnabled
<1> DEFINE p == IF failedStop[i] THEN "stop" ELSE "sample"
           local == WithPc(thread[Monitor(i)], p)
<1>1. s \in Session
  BY DEF IInv, SessionTypes
<1>2. local \in Good /\ local.pc = p
  BY GotoFree, FreeStates, Threads
<1>3. SessionTypes' /\ FolderTypes' /\ FaultTypes' /\ QueueTypes' /\ executed' = executed
  BY SameSession, SameFolders, SameFaults, SameQueue DEF IInv, CheckMonitoringEnabled
<1>4. RuleTypes'
  BY <1>1, NullTypes, MonitoringAssumption DEF IInv, RuleTypes, CheckMonitoringEnabled
<1>5. Become(Monitor(i), local) /\ UNCHANGED lock
  BY GotoBecomes DEF CheckMonitoringEnabled
<1>6. ThreadInv'
  <2>1. local.pc # "act"
    BY <1>2
  <2>2. \E j \in Monitors : Monitor(i) = Monitor(j) /\ \E x : rule' = [rule EXCEPT ![j] = x]
    OBVIOUS
  <2> HIDE DEF local
  <2> QED
    BY <1>2, <1>3, <1>5, <2>1, <2>2, OneThreadStep, LockOk, Threads
<1> QED
  BY <1>3, <1>4, <1>6 DEF IInv

\* The rule has ended, and the wait for the dumps.
LEMMA RuleEndsInv ==
  ASSUME IInv, NEW i \in Monitors, RuleEnds(i) \/ EndWait(i), UNCHANGED queueVars PROVE IInv'
<1>1. PICK p \in {"wait", "stop"} : Goto(Monitor(i), p)
  BY DEF RuleEnds, EndWait
<1> DEFINE local == WithPc(thread[Monitor(i)], p)
<1>2. local \in Good /\ local.pc = p
  BY GotoFree, FreeStates, Threads
<1>3. /\ UNCHANGED sessionVars /\ UNCHANGED folderVars /\ UNCHANGED faultVars
      /\ UNCHANGED <<lock, rule, count, failedStop>>
      /\ decided' = [decided EXCEPT ![i] = rule[i]] \/ decided' = decided
  BY DEF RuleEnds, EndWait, ruleVars
<1>4. Become(Monitor(i), local)
  BY <1>1, GotoBecomes
<1>5. SessionTypes' /\ FolderTypes' /\ FaultTypes' /\ QueueTypes' /\ executed' = executed
  BY <1>3, SameSession, SameFolders, SameFaults, SameQueue DEF IInv
<1>6. RuleTypes'
  BY <1>3 DEF IInv, RuleTypes
<1>7. ThreadInv'
  <2> HIDE DEF local
  <2> QED
    BY <1>2, <1>3, <1>4, <1>5, OneThreadStep, LockOk, Threads
<1> QED
  BY <1>5, <1>6, <1>7 DEF IInv

\* The counter goes back to zero.
LEMMA CpuLowInv ==
  ASSUME IInv, NEW i \in Monitors, CpuLow(i), UNCHANGED queueVars PROVE IInv'
<1> DEFINE local == WithPc(thread[Monitor(i)], "idle")
<1>1. local \in Good /\ local.pc = "idle"
  BY GotoFree, FreeStates, Threads
<1>2. SessionTypes' /\ FolderTypes' /\ FaultTypes' /\ QueueTypes' /\ executed' = executed
  BY SameSession, SameFolders, SameFaults, SameQueue DEF IInv, CpuLow
<1>3. RuleTypes' /\ rule' = rule
  BY MonitoringAssumption DEF IInv, RuleTypes, CpuLow
<1>4. Become(Monitor(i), local) /\ UNCHANGED lock
  BY GotoBecomes DEF CpuLow
<1>5. ThreadInv'
  <2> HIDE DEF local
  <2> QED
    BY <1>1, <1>2, <1>3, <1>4, OneThreadStep, LockOk, Threads
<1> QED
  BY <1>2, <1>3, <1>5 DEF IInv

\* At the threshold an action begins, below the limit of the session only: this
\* is the one step that makes a machine act.
LEMMA CpuHighInv ==
  ASSUME IInv, NEW i \in Monitors, CpuHigh(i), UNCHANGED queueVars PROVE IInv'
<1> DEFINE t == Monitor(i)
           Acts(p) == WithPc(thread[t], p)
<1>1. t \in Thread /\ thread[t] \in Good
  BY Threads, ThreadGood
<1>2. \A p \in {"idle", "act"} : Acts(p) \in Good /\ Acts(p).pc = p
  BY <1>1, GotoFree, FreeStates
<1>3. SessionTypes' /\ FolderTypes' /\ FaultTypes' /\ QueueTypes' /\ executed' = executed
  BY SameSession, SameFolders, SameFaults, SameQueue DEF IInv, CpuHigh
<1>4. UNCHANGED <<lock, rule, failedStop, decided>>
  BY DEF CpuHigh
<1>5. count[i] \in 0..ThresholdCount
  BY DEF IInv, RuleTypes
<1>6. \E n \in 0..ThresholdCount : count' = [count EXCEPT ![i] = n]
  <2> DEFINE n == IF count[i] < ThresholdCount THEN count[i] + 1 ELSE ThresholdCount
  <2>1. n \in 0..ThresholdCount /\ 0 \in 0..ThresholdCount
    BY <1>5, MonitoringAssumption
  <2>2. count' = [count EXCEPT ![i] = n] \/ count' = [count EXCEPT ![i] = 0]
    BY DEF CpuHigh
  <2> HIDE DEF n
  <2> QED
    BY <2>1, <2>2
<1>7. RuleTypes'
  BY <1>4, <1>6 DEF IInv, RuleTypes
<1>8. Become(t, Acts("idle")) \/ Become(t, Acts("act"))
  BY GotoBecomes DEF CpuHigh
<1>9. CASE Become(t, Acts("idle"))
  <2>1. Acts("idle") \in Good /\ Acts("idle").pc = "idle"
    BY <1>2
  <2>2. ThreadInv'
    <3> HIDE DEF Acts, t
    <3> QED
      BY <1>1, <2>1, <1>3, <1>4, <1>9, OneThreadStep, LockOk
  <2> QED
    BY <1>3, <1>7, <2>2 DEF IInv
<1>10. CASE Become(t, Acts("act"))
  <2>1. Acts("act") \in Good /\ Acts("act").pc = "act"
    BY <1>2
  <2>2. thread' \in [Thread -> Good]
    BY <1>10, <2>1, <1>1 DEF Become, IInv, ThreadInv
  <2>4. Bounded'
    <3> SUFFICES ASSUME NEW s \in Session
                 PROVE  Cardinality(executed[s]) + Cardinality(Acting(s)')
                          <= MaxActions + Cardinality(Monitors) - 1
      BY <1>3 DEF Bounded
    <3>1. Acting(s)' \in SUBSET Monitors /\ Acting(s) \in SUBSET Monitors
      BY DEF Acting
    <3>2. executed[s] \in SUBSET Dump
      BY DEF IInv, FolderTypes
    <3>3. CASE s = rule[i]
      <4>1. Cardinality(executed[s]) < MaxActions
        BY <3>3, <3>2, Cardinalities, MonitoringAssumption
           DEF CpuHigh, ShouldTerminateRule, LimitReached
      <4> QED
        BY <4>1, <3>1, <3>2, Cardinalities, MonitoringAssumption
    <3>4. CASE s # rule[i]
      <4>1. Acting(s)' \subseteq Acting(s)
        BY <3>4, <1>10, <1>1, <1>4, Threads DEF Acting, At, Become, IInv, ThreadInv
      <4>2. Cardinality(Acting(s)') <= Cardinality(Acting(s))
        BY <4>1, <3>1, Cardinalities, FS_Subset
      <4>3. Cardinality(executed[s]) + Cardinality(Acting(s)) <= MaxActions + Cardinality(Monitors) - 1
        BY DEF IInv, ThreadInv, Bounded
      <4> QED
        BY <4>2, <4>3, <3>1, <3>2, Cardinalities, MonitoringAssumption
    <3> QED
      BY <3>3, <3>4
  <2> QED
    BY <1>3, <1>4, <1>7, <2>2, <2>4 DEF IInv, ThreadInv
<1> QED
  BY <1>8, <1>9, <1>10

\* A machine that was about to act has acted: the sum stays what it was.
LEMMA CreateCustomActionFileInv ==
  ASSUME IInv, NEW i \in Monitors, CreateCustomActionFile(i), UNCHANGED queueVars PROVE IInv'
<1> DEFINE t == Monitor(i)
<1> PICK d \in Dump \ executed[rule[i]] :
      /\ executed' = [executed EXCEPT ![rule[i]] = @ \cup {d}]
      /\ Become(t, [thread[t] EXCEPT !.pc = "dump", !.dump = d])
  BY DEF CreateCustomActionFile
<1> DEFINE local == [thread[t] EXCEPT !.pc = "dump", !.dump = d]
<1>1. t \in Thread /\ thread[t] \in Good /\ thread[t].pc = "act"
  BY Threads, ThreadGood DEF CreateCustomActionFile, At
<1>2. local \in Good /\ local.pc = "dump"
  BY <1>1 DEF Good, Local, PC, OnSession, OnDump
<1>3. SessionTypes' /\ RuleTypes' /\ FaultTypes' /\ QueueTypes' /\ rule' = rule /\ lock' = lock
  BY SameSession, SameRules, SameFaults, SameQueue DEF IInv, CreateCustomActionFile
<1>4. FolderTypes'
  BY DEF IInv, FolderTypes, CreateCustomActionFile
<1>5. thread' \in [Thread -> Good] /\ thread'[t].pc = "dump" /\ \A u \in Thread \ {t} : thread'[u] = thread[u]
  BY <1>1, <1>2 DEF Become, IInv, ThreadInv
<1>7. Bounded'
  <2> SUFFICES ASSUME Monitors # {}, NEW s \in Session
               PROVE  Cardinality(executed'[s]) + Cardinality(Acting(s)')
                        <= MaxActions + Cardinality(Monitors) - 1
    BY DEF Bounded
  <2>1. Acting(s) \in SUBSET Monitors /\ Acting(s)' \in SUBSET Monitors /\ executed[s] \in SUBSET Dump
    BY DEF Acting, IInv, FolderTypes
  <2>2. Cardinality(executed[s]) + Cardinality(Acting(s)) <= MaxActions + Cardinality(Monitors) - 1
    BY DEF IInv, ThreadInv, Bounded
  <2>3. CASE s = rule[i]
    <3>1. executed'[s] = executed[s] \cup {d} /\ d \notin executed[s]
      BY <2>3 DEF IInv, FolderTypes
    <3>2. Cardinality(executed'[s]) = Cardinality(executed[s]) + 1
      BY <3>1, <2>1, Cardinalities, FS_AddElement
    <3>3. i \in Acting(s)
      BY <2>3, <1>1 DEF Acting, At
    <3>4. Acting(s)' \subseteq Acting(s) \ {i}
      BY <1>3, <1>5, Threads DEF Acting, At
    <3>5. Acting(s) \ {i} \in SUBSET Monitors
      BY <2>1
    <3>6. Cardinality(Acting(s) \ {i}) = Cardinality(Acting(s)) - 1
      BY <3>3, <2>1, Cardinalities, FS_RemoveElement
    <3>7. Cardinality(Acting(s)') <= Cardinality(Acting(s) \ {i})
      BY <3>4, <3>5, Cardinalities, FS_Subset
    <3> QED
      BY <2>1, <2>2, <3>2, <3>6, <3>7, Cardinalities, MonitoringAssumption
  <2>4. CASE s # rule[i]
    <3>1. executed'[s] = executed[s]
      BY <2>4 DEF IInv, FolderTypes
    <3>2. Acting(s)' \subseteq Acting(s)
      BY <1>3, <1>5, Threads DEF Acting, At
    <3>3. Cardinality(Acting(s)') <= Cardinality(Acting(s))
      BY <3>2, <2>1, Cardinalities, FS_Subset
    <3> QED
      BY <2>1, <2>2, <3>1, <3>3, Cardinalities, MonitoringAssumption
  <2> QED
    BY <2>3, <2>4
<1> QED
  BY <1>3, <1>4, <1>5, <1>7 DEF IInv, ThreadInv

\* The dump is uploaded, or not.
LEMMA MoveToPermanentStorageInv ==
  ASSUME IInv, NEW i \in Monitors, MoveToPermanentStorage(i), UNCHANGED queueVars PROVE IInv'
<1> DEFINE t == Monitor(i)
<1>1. t \in Thread /\ thread[t] \in Good /\ thread[t].pc = "dump"
  BY Threads, ThreadGood DEF MoveToPermanentStorage, At
<1>2. thread[t].dump \in Dump
  BY <1>1 DEF Good, OnDump
<1>3. WithPc(thread[t], "moved") \in Good /\ WithPc(thread[t], "moved").pc = "moved"
  BY <1>1, <1>2, GotoGood DEF PC, OnSession, OnDump
<1>4. SessionTypes' /\ RuleTypes' /\ QueueTypes' /\ rule' = rule /\ lock' = lock /\ executed' = executed
  BY SameSession, SameRules, SameQueue DEF IInv, MoveToPermanentStorage
<1>5. FolderTypes'
  BY <1>2 DEF IInv, FolderTypes, MoveToPermanentStorage
<1>6. FaultTypes'
  BY MonitoringAssumption DEF IInv, FaultTypes, MoveToPermanentStorage
<1>7. Become(t, WithPc(thread[t], "moved"))
  BY GotoBecomes DEF MoveToPermanentStorage
<1>8. ThreadInv'
  <2> HIDE DEF t
  <2> QED
    BY <1>1, <1>3, <1>4, <1>5, <1>7, OneThreadStep, LockOk
<1> QED
  BY <1>4, <1>5, <1>6, <1>8 DEF IInv

\* The action fails: the thread forgets about it.
LEMMA ExecuteActionThrowsInv ==
  ASSUME IInv, NEW i \in Monitors, ExecuteActionThrows(i), UNCHANGED queueVars PROVE IInv'
<1>1. SessionTypes' /\ FolderTypes' /\ RuleTypes' /\ QueueTypes' /\ rule' = rule /\ executed' = executed
  BY SameSession, SameFolders, SameRules, SameQueue DEF IInv, ExecuteActionThrows
<1>2. FaultTypes'
  BY MonitoringAssumption DEF IInv, FaultTypes, ExecuteActionThrows
<1>3. Become(Monitor(i), Idle) /\ UNCHANGED lock
  BY DEF ExecuteActionThrows
<1>4. ThreadInv'
  BY <1>1, <1>3, NullTypes, Threads, OneThreadStep, LockOk
<1> QED
  BY <1>1, <1>2, <1>4 DEF IInv

\* The action is done; the session is stopped when the limit is reached.
LEMMA ActionCompletedInv ==
  ASSUME IInv, NEW i \in Monitors, ActionCompleted(i), UNCHANGED queueVars PROVE IInv'
<1> DEFINE t == Monitor(i)
           local == [Idle EXCEPT !.pc = IF LimitReached(rule[i]) THEN "stop" ELSE "idle"]
<1>1. t \in Thread /\ thread[t].dump \in Dump
  BY Threads, ThreadGood DEF ActionCompleted, At, Good, OnDump
<1>2. local \in Good /\ local.pc \in {"stop", "idle"}
  BY NullTypes DEF Good, Local, PC, OnSession, OnDump
<1>3. SessionTypes' /\ FaultTypes' /\ QueueTypes' /\ rule' = rule /\ executed' = executed /\ lock' = lock
  BY SameSession, SameFaults, SameQueue DEF IInv, ActionCompleted
<1>4. FolderTypes'
  BY <1>1 DEF IInv, FolderTypes, ActionCompleted
<1>5. RuleTypes'
  BY MonitoringAssumption DEF IInv, RuleTypes, ActionCompleted
<1>6. Become(t, local)
  BY DEF ActionCompleted
<1>7. ThreadInv'
  <2> HIDE DEF t, local
  <2> QED
    BY <1>1, <1>2, <1>3, <1>4, <1>6, OneThreadStep, LockOk
<1> QED
  BY <1>3, <1>4, <1>5, <1>7 DEF IInv

-----------------------------------------------------------------------------
(* Stopping and saving a session *)

\* After a stop a runner works on the session it had in its rule, if at all.
LEMMA AfterStopGood ==
  ASSUME IInv, NEW t \in Thread
  PROVE  AfterStop(t) \in Good /\ AfterStop(t).pc \in {"idle", "getSession"}
<1>1. CASE \E i \in Monitors : t = Monitor(i) /\ rule[i] # 0 /\ mode[rule[i]] = "CollectKillAndAnalyze"
  <2> PICK i \in Monitors : t = Monitor(i) /\ rule[i] # 0
    BY <1>1
  <2>1. t[1] = i /\ rule[i] \in Session
    BY MonitoringAssumption DEF Monitor, IInv, RuleTypes, Session
  <2>2. AfterStop(t) = WithSession(Idle, "getSession", rule[i])
    BY <1>1, <2>1 DEF AfterStop, WithSession
  <2>3. "getSession" \in PC \ OnDump
    BY DEF PC, OnDump
  <2> QED
    BY <2>1, <2>2, <2>3, NullTypes, SessionGood
<1>2. CASE ~(\E i \in Monitors : t = Monitor(i) /\ rule[i] # 0 /\ mode[rule[i]] = "CollectKillAndAnalyze")
  BY <1>2, NullTypes DEF AfterStop
<1> QED
  BY <1>1, <1>2

\* Only the thread of a runner drops the rule of the runner.
LEMMA DropRuleStep ==
  ASSUME IInv, NEW t \in Thread, DropRule(t), count' = count
  PROVE  /\ RuleTypes'
         /\ \/ rule' = rule
            \/ \E i \in Monitors : t = Monitor(i) /\ \E x : rule' = [rule EXCEPT ![i] = x]
<1>1. CASE t[2] = "monitor"
  <2>1. PICK i \in Monitors : t = Monitor(i)
    BY <1>1 DEF Thread, Monitor, Analyzer, Request
  <2>2. /\ rule' = [rule EXCEPT ![i] = 0]
        /\ failedStop' = [failedStop EXCEPT ![i] = FALSE]
        /\ decided' = [decided EXCEPT ![i] = 0]
    BY <1>1, <2>1 DEF DropRule, Monitor
  <2>3. RuleTypes'
    BY <2>2, NullTypes DEF IInv, RuleTypes
  <2> QED
    BY <2>1, <2>2, <2>3
<1>2. CASE t[2] # "monitor"
  BY <1>2 DEF DropRule, IInv, RuleTypes
<1> QED
  BY <1>1, <1>2

\* No active session, or one that will be stopped.
LEMMA StopMonitoringSessionInv ==
  ASSUME IInv, NEW t \in Thread, StopMonitoringSession(t), UNCHANGED queueVars PROVE IInv'
<1>1. /\ UNCHANGED sessionVars /\ UNCHANGED folderVars /\ UNCHANGED faultVars
      /\ UNCHANGED lock /\ UNCHANGED count
  BY DEF StopMonitoringSession
<1>2. SessionTypes' /\ FolderTypes' /\ FaultTypes' /\ QueueTypes' /\ executed' = executed
  BY <1>1, SameSession, SameFolders, SameFaults, SameQueue DEF IInv
<1>3. CASE active = {} /\ DropRule(t) /\ Become(t, AfterStop(t))
  <2>1. RuleTypes' /\ ThreadInv'
    BY <1>1, <1>2, <1>3, AfterStopGood, DropRuleStep, OneThreadStep, LockOk
  <2> QED
    BY <1>2, <2>1 DEF IInv
<1>4. CASE \E s \in active :
             /\ Become(t, [thread[t] EXCEPT !.pc = "exists", !.sid = s])
             /\ UNCHANGED <<rule, failedStop, decided>>
  <2> PICK s \in active :
             /\ Become(t, [thread[t] EXCEPT !.pc = "exists", !.sid = s])
             /\ UNCHANGED <<rule, failedStop, decided>>
    BY <1>4
  <2>1. s \in Session
    BY DEF IInv, SessionTypes
  <2>2. RuleTypes' /\ rule' = rule
    BY <1>1 DEF IInv, RuleTypes
  <2> DEFINE local == WithSession(thread[t], "exists", s)
  <2>3. "exists" \in PC \ OnDump /\ thread[t] \in Good
    BY ThreadGood DEF PC, OnDump
  <2>4. local \in Good /\ local.pc = "exists"
    BY <2>1, <2>3, SessionGood
  <2>5. Become(t, local)
    BY DEF WithSession
  <2>6. ThreadInv'
    <3> HIDE DEF local
    <3> QED
      BY <1>1, <1>2, <2>2, <2>4, <2>5, OneThreadStep, LockOk
  <2> QED
    BY <1>2, <2>2, <2>6 DEF IInv
<1> QED
  BY <1>3, <1>4 DEF StopMonitoringSession

\* The completed file is there, or must be written.
LEMMA CheckCompletedInv ==
  ASSUME IInv, NEW t \in Thread, CheckCompleted(t), UNCHANGED queueVars PROVE IInv'
<1>1. PICK p \in {"collect", "delete"} : Goto(t, p)
  BY DEF CheckCompleted
<1>2. thread[t] \in Good /\ thread[t].sid \in Session
  BY ThreadGood DEF CheckCompleted, At, Good, OnSession
<1>3. WithPc(thread[t], p) \in Good /\ WithPc(thread[t], p).pc = p
  BY <1>2, GotoGood DEF PC, OnDump
<1>4. UNCHANGED <<unchangedSession, queueVars>>
  BY DEF CheckCompleted, unchangedSession
<1>5. Become(t, WithPc(thread[t], p))
  BY <1>1, GotoBecomes
<1> QED
  BY <1>3, <1>4, <1>5, OnlyThreadStep

\* The session file that will be written claims no completed analysis.
LEMMA GetCollectedLogsInv ==
  ASSUME IInv, NEW t \in Thread, GetCollectedLogs(t), UNCHANGED queueVars PROVE IInv'
<1> DEFINE s == thread[t].sid
           Copy(files) == [status |-> "NotStarted", files |-> files,
                           reported |-> files \cap reports[s], errors |-> {}]
           Local1(files) == [thread[t] EXCEPT !.pc = "acquire", !.then = "delete", !.copy = Copy(files)]
<1>1. thread[t] \in Good /\ s \in Session
  BY ThreadGood DEF GetCollectedLogs, At, Good, OnSession
<1>2. blobs[s] \in SUBSET Dump
  BY <1>1 DEF IInv, FolderTypes
<1>3. PICK files \in SUBSET Dump : Become(t, Local1(files))
  BY <1>2 DEF GetCollectedLogs
<1>4. Copy(files) \in GoodFile
  BY DEF GoodFile, SessionFile, Decided, AnalysisStatus
<1>5. Local1(files) \in Good /\ Local1(files).pc = "acquire"
  <2> HIDE DEF Copy
  <2>1. Local1(files) \in Local
    BY <1>1, <1>4 DEF Good, Local, PC, GoodFile
  <2> QED
    BY <1>1, <1>4, <2>1 DEF Good, Local, OnSession, OnDump
<1>6. SessionTypes' /\ FolderTypes' /\ RuleTypes' /\ QueueTypes' /\ rule' = rule /\ executed' = executed
  BY SameSession, SameFolders, SameRules, SameQueue DEF IInv, GetCollectedLogs
<1>7. FaultTypes' /\ lock' = lock
  BY MonitoringAssumption DEF IInv, FaultTypes, GetCollectedLogs
<1>8. ThreadInv'
  <2> HIDE DEF Local1
  <2> QED
    BY <1>3, <1>5, <1>6, <1>7, OneThreadStep, LockOk
<1> QED
  BY <1>6, <1>7, <1>8 DEF IInv

\* The stop succeeds.
LEMMA DeleteActiveFileInv ==
  ASSUME IInv, NEW t \in Thread, DeleteActiveFile(t), UNCHANGED queueVars PROVE IInv'
<1>1. SessionTypes'
  <2> DEFINE s == thread[t].sid
  <2>2. active' \in SUBSET Session
    BY DEF IInv, SessionTypes, DeleteActiveFile
  <2>3. stops' \in [Monitors -> [0..MaxSession -> SUBSET Session]]
    <3>1. s \in Session
      BY ThreadGood DEF DeleteActiveFile, At, Good, OnSession
    <3>2. CASE t[2] = "monitor"
      <4>1. PICK i \in Monitors : t = Monitor(i)
        BY <3>2 DEF Thread, Monitor, Analyzer, Request
      <4>2. stops' = [stops EXCEPT ![i][decided[i]] = @ \cup {s}]
        BY <3>2, <4>1 DEF DeleteActiveFile, Monitor
      <4> QED
        BY <3>1, <4>2 DEF IInv, SessionTypes
    <3>3. CASE t[2] # "monitor"
      BY <3>3 DEF DeleteActiveFile, IInv, SessionTypes
    <3> QED
      BY <3>2, <3>3
  <2> QED
    BY <2>2, <2>3 DEF IInv, SessionTypes, DeleteActiveFile
<1>2. FolderTypes' /\ FaultTypes' /\ QueueTypes' /\ executed' = executed
  BY SameFolders, SameFaults, SameQueue DEF IInv, DeleteActiveFile
<1>3. DropRule(t) /\ Become(t, AfterStop(t)) /\ UNCHANGED lock /\ UNCHANGED count
  BY DEF DeleteActiveFile
<1>4. RuleTypes' /\ ThreadInv'
  BY <1>2, <1>3, AfterStopGood, DropRuleStep, OneThreadStep, LockOk
<1> QED
  BY <1>1, <1>2, <1>4 DEF IInv

\* The stop fails.
LEMMA StopFailsInv ==
  ASSUME IInv, NEW t \in Thread, StopFails(t), UNCHANGED queueVars PROVE IInv'
<1>1. SessionTypes' /\ FolderTypes' /\ QueueTypes' /\ executed' = executed
  BY SameSession, SameFolders, SameQueue DEF IInv, StopFails
<1>2. FaultTypes'
  BY MonitoringAssumption DEF IInv, FaultTypes, StopFails
<1>3. RuleTypes' /\ rule' = rule
  BY DEF IInv, RuleTypes, StopFails, NoteFailedStop
<1>4. Become(t, Idle) /\ UNCHANGED lock
  BY DEF StopFails
<1>5. ThreadInv'
  BY <1>1, <1>3, <1>4, NullTypes, OneThreadStep, LockOk
<1> QED
  BY <1>1, <1>2, <1>3, <1>5 DEF IInv

\* The lock is taken, or the thread goes on without it.
LEMMA AcquireSessionLockInv ==
  ASSUME IInv, NEW t \in Thread, AcquireSessionLock(t) \/ GoOnUnlocked(t), UNCHANGED queueVars
  PROVE  IInv'
<1>1. /\ SessionTypes' /\ FolderTypes' /\ RuleTypes' /\ QueueTypes'
      /\ rule' = rule /\ executed' = executed
  BY SameSession, SameFolders, SameRules, SameQueue DEF IInv, AcquireSessionLock, GoOnUnlocked
<1>2. FaultTypes'
  BY MonitoringAssumption, SameFaults DEF IInv, FaultTypes, faultVars, AcquireSessionLock, GoOnUnlocked
<1>3. PICK p \in {"write", "writeUnlocked"} : Goto(t, p)
  BY DEF AcquireSessionLock, GoOnUnlocked
<1>4. WithPc(thread[t], p) \in Good /\ WithPc(thread[t], p).pc = p /\ Become(t, WithPc(thread[t], p))
  BY <1>3, GotoBecomes, GotoFree, FreeStates
<1>5. lock' \in SUBSET Thread
  BY LockOk DEF AcquireSessionLock, GoOnUnlocked
<1>6. ThreadInv'
  BY <1>1, <1>4, <1>5, OneThreadStep
<1> QED
  BY <1>1, <1>2, <1>6 DEF IInv

\* What a thread goes on with when it has saved is what it was asked to.
LEMMA AfterSaveGood ==
  ASSUME NEW l \in Good
  PROVE  /\ AfterSave(l) \in Good /\ AfterSave(l).pc = l.then
         /\ AfterSave(l).pc \in {"idle", "delete", "cleanup"}
         /\ l.then # "idle" => AfterSave(l).sid = l.sid
<1>1. CASE l.then = "idle"
  BY <1>1, NullTypes DEF AfterSave
<1>2. CASE l.then # "idle"
  <2>1. l.then \in {"delete", "cleanup"} /\ (l.then = "delete" => l.sid \in Session)
    BY <1>2 DEF Good
  <2>2. /\ AfterSave(l) \in Local /\ AfterSave(l).pc = l.then
        /\ AfterSave(l).then = "idle" /\ AfterSave(l).copy = NoFile
        /\ AfterSave(l).sid = l.sid
    BY <1>2, <2>1, NullTypes DEF AfterSave, Good, Local, PC, GoodFile
  <2> QED
    BY <2>1, <2>2, NullTypes DEF Good, OnSession, OnDump
<1> QED
  BY <1>1, <1>2

\* The copy is written, with the lock or without.
LEMMA SaveSessionInv ==
  ASSUME IInv, NEW t \in Thread, SaveSession(t), UNCHANGED queueVars PROVE IInv'
<1>1. thread[t] \in Good
  BY ThreadGood
<1>2. AfterSave(thread[t]) \in Good /\ AfterSave(thread[t]).pc # "act"
  BY <1>1, AfterSaveGood
<1>3. SessionTypes'
  BY <1>1 DEF IInv, SessionTypes, SaveSession, Good
<1>4. /\ FolderTypes' /\ RuleTypes' /\ FaultTypes' /\ QueueTypes'
      /\ rule' = rule /\ executed' = executed
  BY SameFolders, SameRules, SameFaults, SameQueue DEF IInv, SaveSession
<1>5. Become(t, AfterSave(thread[t])) /\ lock' \in SUBSET Thread
  BY LockOk DEF SaveSession
<1>6. ThreadInv'
  BY <1>2, <1>4, <1>5, OneThreadStep
<1> QED
  BY <1>3, <1>4, <1>6 DEF IInv

\* Nothing is written, and the lock is not released.
LEMMA SaveFailsInv ==
  ASSUME IInv, NEW t \in Thread, SaveFails(t), UNCHANGED queueVars PROVE IInv'
<1>1. SessionTypes' /\ FolderTypes' /\ QueueTypes' /\ executed' = executed
  BY SameSession, SameFolders, SameQueue DEF IInv, SaveFails
<1>2. FaultTypes'
  BY MonitoringAssumption DEF IInv, FaultTypes, SaveFails
<1>3. RuleTypes' /\ rule' = rule
  BY DEF IInv, RuleTypes, SaveFails, NoteFailedStop
<1>4. PICK local \in {Idle, AfterSave(thread[t])} : Become(t, local)
  BY DEF SaveFails
<1>5. local \in Good /\ local.pc # "act" /\ lock' = lock
  BY ThreadGood, AfterSaveGood, NullTypes DEF SaveFails
<1>6. ThreadInv'
  BY <1>1, <1>3, <1>4, <1>5, LockOk, OneThreadStep
<1> QED
  BY <1>1, <1>2, <1>3, <1>6 DEF IInv

-----------------------------------------------------------------------------
(* Requests, time and crashes *)

\* A request finds no active session.
LEMMA CheckForActiveSessionInv ==
  ASSUME IInv, NEW t \in Thread, CheckForActiveSession(t), UNCHANGED queueVars PROVE IInv'
<1>1. WithPc(thread[t], "clear") \in Good /\ WithPc(thread[t], "clear").pc = "clear"
  BY GotoFree, FreeStates
<1>2. UNCHANGED <<unchangedSession, queueVars>>
  BY DEF CheckForActiveSession, unchangedSession
<1>3. Become(t, WithPc(thread[t], "clear"))
  BY GotoBecomes DEF CheckForActiveSession
<1> QED
  BY <1>1, <1>2, <1>3, OnlyThreadStep

\* The other requests change what sessions there are, and go on.
LEMMA RequestStepInv ==
  ASSUME IInv, NEW t \in Thread,
         DeleteDirectoryContents(t) \/ CreateSession(t) \/ RequestStop(t), UNCHANGED queueVars
  PROVE  IInv'
<1>1. SessionTypes'
  <2>1. CASE DeleteDirectoryContents(t)
    BY <2>1 DEF IInv, SessionTypes, DeleteDirectoryContents
  <2>2. CASE CreateSession(t)
    <3>1. created + 1 \in Session /\ created' \in 0..MaxSession
      BY <2>2, MonitoringAssumption DEF IInv, SessionTypes, CreateSession, Session
    <3> QED
      BY <2>2, <3>1 DEF IInv, SessionTypes, CreateSession
  <2>3. CASE RequestStop(t)
    <3>1. requests' \in 0..MaxRequest
      BY <2>3, MonitoringAssumption DEF IInv, SessionTypes, RequestStop
    <3> QED
      BY <2>3, <3>1 DEF IInv, SessionTypes, RequestStop
  <2> QED
    BY <2>1, <2>2, <2>3
<1>2. /\ UNCHANGED folderVars /\ UNCHANGED ruleVars /\ UNCHANGED faultVars /\ UNCHANGED lock
  BY DEF DeleteDirectoryContents, CreateSession, RequestStop
<1>3. /\ FolderTypes' /\ RuleTypes' /\ FaultTypes' /\ QueueTypes'
      /\ rule' = rule /\ executed' = executed
  BY <1>2, SameFolders, SameRules, SameFaults, SameQueue DEF IInv
<1>4. \E local \in Good : local.pc # "act" /\ Become(t, local)
  BY GotoBecomes, GotoFree, FreeStates, NullTypes
     DEF DeleteDirectoryContents, CreateSession, RequestStop
<1>5. ThreadInv'
  BY <1>2, <1>3, <1>4, OneThreadStep, LockOk
<1> QED
  BY <1>1, <1>3, <1>5 DEF IInv

\* A step that leaves threads, lock and rules alone and adds no action.
LEMMA NoThreadStep ==
  ASSUME IInv, UNCHANGED <<thread, rule>>, lock' \in SUBSET Thread, FolderTypes',
         \A s \in Session : executed'[s] \subseteq executed[s]
  PROVE  ThreadInv'
<1>1. \A s \in Session : Acting(s)' \subseteq Acting(s)
  BY DEF Acting, At
<1>2. Bounded'
  BY <1>1, BoundedStep
<1> QED
  BY <1>2 DEF IInv, ThreadInv

\* The deletion of a session: the request, its blobs, its file, its folder.
LEMMA RequestDeleteInv ==
  ASSUME IInv, NEW t \in Thread, RequestDelete(t), UNCHANGED queueVars PROVE IInv'
<1>1. PICK s \in Session : Become(t, [Idle EXCEPT !.pc = "rmBlobs", !.sid = s])
  BY DEF RequestDelete
<1> DEFINE local == WithSession(Idle, "rmBlobs", s)
<1>2. local \in Good /\ local.pc = "rmBlobs"
  <2>1. "rmBlobs" \in PC \ OnDump
    BY DEF PC, OnDump
  <2> QED
    BY <2>1, NullTypes, SessionGood
<1>3. SessionTypes'
  <2>1. deletes' \in 0..MaxDelete
    BY MonitoringAssumption DEF IInv, SessionTypes, RequestDelete
  <2> QED
    BY <2>1 DEF IInv, SessionTypes, RequestDelete
<1>4. /\ FolderTypes' /\ RuleTypes' /\ FaultTypes' /\ QueueTypes'
      /\ rule' = rule /\ executed' = executed
  BY SameFolders, SameRules, SameFaults, SameQueue DEF IInv, RequestDelete
<1>5. Become(t, local) /\ lock' = lock
  BY <1>1 DEF RequestDelete, WithSession
<1>6. ThreadInv'
  <2> HIDE DEF local
  <2> QED
    BY <1>2, <1>4, <1>5, OneThreadStep, LockOk
<1> QED
  BY <1>3, <1>4, <1>6 DEF IInv

\* Blobs go away.
LEMMA DeleteFilesFromStorageInv ==
  ASSUME IInv, NEW t \in Thread, DeleteFilesFromStorage(t), UNCHANGED queueVars PROVE IInv'
<1>1. thread[t] \in Good /\ thread[t].sid \in Session
  BY ThreadGood DEF DeleteFilesFromStorage, At, Good, OnSession
<1>2. WithPc(thread[t], "rmFile") \in Good /\ WithPc(thread[t], "rmFile").pc = "rmFile"
  BY <1>1, GotoGood DEF PC, OnDump
<1>3. FolderTypes' /\ executed' = executed
  BY DEF IInv, FolderTypes, DeleteFilesFromStorage
<1>4. SessionTypes' /\ RuleTypes' /\ QueueTypes' /\ rule' = rule
  BY SameSession, SameRules, SameQueue DEF IInv, DeleteFilesFromStorage
<1>5. FaultTypes' /\ lock' = lock
  BY MonitoringAssumption DEF IInv, FaultTypes, DeleteFilesFromStorage
<1>6. Become(t, WithPc(thread[t], "rmFile"))
  BY GotoBecomes DEF DeleteFilesFromStorage
<1>7. ThreadInv'
  BY <1>2, <1>3, <1>4, <1>5, <1>6, OneThreadStep, LockOk
<1> QED
  BY <1>3, <1>4, <1>5, <1>7 DEF IInv

\* The completed file goes away.
LEMMA DeleteSessionFileInv ==
  ASSUME IInv, NEW t \in Thread, DeleteSessionFile(t), UNCHANGED queueVars PROVE IInv'
<1>1. thread[t] \in Good /\ thread[t].sid \in Session
  BY ThreadGood DEF DeleteSessionFile, At, Good, OnSession
<1>2. WithPc(thread[t], "rmFolder") \in Good /\ WithPc(thread[t], "rmFolder").pc = "rmFolder"
  BY <1>1, GotoGood DEF PC, OnDump
<1>3. SessionTypes'
  BY NullTypes DEF IInv, SessionTypes, DeleteSessionFile
<1>4. /\ FolderTypes' /\ RuleTypes' /\ FaultTypes' /\ QueueTypes'
      /\ rule' = rule /\ executed' = executed /\ lock' = lock
  BY SameFolders, SameRules, SameFaults, SameQueue DEF IInv, DeleteSessionFile
<1>5. Become(t, WithPc(thread[t], "rmFolder"))
  BY GotoBecomes DEF DeleteSessionFile
<1>6. ThreadInv'
  BY <1>2, <1>4, <1>5, OneThreadStep, LockOk
<1> QED
  BY <1>3, <1>4, <1>6 DEF IInv

\* The log folder goes away, and with it the actions that count.
LEMMA DeleteLogFolderInv ==
  ASSUME IInv, NEW t \in Thread, DeleteLogFolder(t), UNCHANGED queueVars PROVE IInv'
<1>1. FolderTypes' /\ \A r \in Session : executed'[r] \subseteq executed[r]
  BY DEF IInv, FolderTypes, DeleteLogFolder
<1>2. SessionTypes' /\ RuleTypes' /\ FaultTypes' /\ QueueTypes' /\ rule' = rule /\ lock' = lock
  BY SameSession, SameRules, SameFaults, SameQueue DEF IInv, DeleteLogFolder
<1>3. Become(t, Idle)
  BY DEF DeleteLogFolder
<1>4. ThreadInv'
  BY <1>1, <1>2, <1>3, NullTypes, OneThreadStep, LockOk
<1> QED
  BY <1>1, <1>2, <1>4 DEF IInv

\* A lock file is closed.
LEMMA FinalizeLockInv ==
  ASSUME IInv, NEW t \in Thread, FinalizeLock(t), UNCHANGED queueVars PROVE IInv'
<1>1. /\ SessionTypes' /\ FolderTypes' /\ RuleTypes' /\ FaultTypes' /\ QueueTypes'
      /\ rule' = rule /\ executed' = executed
  BY SameSession, SameFolders, SameRules, SameFaults, SameQueue DEF IInv, FinalizeLock
<1>2. lock' \in SUBSET Thread
  BY LockOk DEF FinalizeLock
<1>3. ThreadInv'
  BY <1>1, <1>2, NoThreadStep DEF FinalizeLock
<1> QED
  BY <1>1, <1>3 DEF IInv

\* A session becomes too old.
LEMMA TimePassesInv ==
  ASSUME IInv, NEW s \in Session, TimePasses(s), UNCHANGED queueVars PROVE IInv'
<1>1. SessionTypes'
  BY DEF IInv, SessionTypes, TimePasses
<1>2. /\ FolderTypes' /\ RuleTypes' /\ FaultTypes' /\ QueueTypes'
      /\ rule' = rule /\ executed' = executed
  BY SameFolders, SameRules, SameFaults, SameQueue DEF IInv, TimePasses
<1>3. ThreadInv'
  BY <1>2, LockOk, NoThreadStep DEF TimePasses
<1> QED
  BY <1>1, <1>2, <1>3 DEF IInv

\* The threads of a dead runner hold no lock and no longer act.
LEMMA CrashRunnerInv ==
  ASSUME IInv, NEW i \in Machine, CrashRunner(i), UNCHANGED queueVars PROVE IInv'
<1> DEFINE own == {Monitor(i), Analyzer(i)}
<1>1. /\ SessionTypes' /\ FolderTypes' /\ QueueTypes' /\ executed' = executed
  BY SameSession, SameFolders, SameQueue DEF IInv, CrashRunner
<1>2. FaultTypes'
  BY MonitoringAssumption DEF IInv, FaultTypes, CrashRunner
<1>3. /\ thread' = [t \in Thread |-> IF t \in own THEN Idle ELSE thread[t]]
      /\ lock' = lock \ own
  BY DEF CrashRunner
<1>4. RuleTypes' /\ \A j \in Monitors : j # i => rule'[j] = rule[j]
  <2>1. CASE i \in Monitors
    <3>1. /\ rule' = [rule EXCEPT ![i] = 0]
          /\ count' = [count EXCEPT ![i] = 0]
          /\ failedStop' = [failedStop EXCEPT ![i] = FALSE]
          /\ decided' = [decided EXCEPT ![i] = 0]
      BY <2>1 DEF CrashRunner
    <3>2. 0 \in 0..MaxSession /\ 0 \in 0..ThresholdCount
      BY NullTypes, MonitoringAssumption
    <3> QED
      BY <3>1, <3>2 DEF IInv, RuleTypes
  <2>2. CASE i \notin Monitors
    BY <2>2, SameRules DEF IInv, CrashRunner
  <2> QED
    BY <2>1, <2>2
<1>5. thread' \in [Thread -> Good] /\ lock' \in SUBSET Thread
  BY <1>3, NullTypes DEF IInv, ThreadInv
<1>7. ASSUME NEW s \in Session PROVE Acting(s)' \subseteq Acting(s)
  BY <1>3, <1>4, NullTypes, Threads DEF Acting, At
<1>8. Bounded'
  BY <1>1, <1>7, BoundedStep
<1> QED
  BY <1>1, <1>2, <1>4, <1>5, <1>8 DEF IInv, ThreadInv

-----------------------------------------------------------------------------
(* Queueing analyses *)

\* Every dump queued means that the copy is saved, InProgress.
LEMMA QueueNextGood ==
  ASSUME NEW l \in Good, l.sid \in Session
  PROVE  QueueNext(l) \in Good /\ QueueNext(l).pc \in {"acquire", "queue"}
<1>1. CASE l.todo = {}
  <2> DEFINE copy == [l.copy EXCEPT !.status = "InProgress"]
             next == [l EXCEPT !.pc = "acquire", !.then = "idle", !.copy.status = "InProgress", !.dump = NoDump]
  <2>1. copy \in GoodFile
    BY DEF Good, GoodFile, SessionFile, Decided, AnalysisStatus
  <2>2. next = [l EXCEPT !.pc = "acquire", !.then = "idle", !.copy = copy, !.dump = NoDump]
    BY DEF Good, Local
  <2>3. next \in Local /\ next.pc = "acquire" /\ next.then = "idle" /\ next.copy = copy
    <3> HIDE DEF copy, next
    <3> QED
      BY <2>1, <2>2 DEF Good, Local, PC, GoodFile
  <2>4. next \in Good
    <3> HIDE DEF copy, next
    <3> QED
      BY <2>1, <2>3 DEF Good, OnSession, OnDump
  <2> QED
    BY <1>1, <2>3, <2>4 DEF QueueNext
<1>2. CASE l.todo # {}
  <2> DEFINE next == [l EXCEPT !.pc = "queue", !.dump = NoDump]
  <2>1. next \in Local
    BY DEF Good, Local, PC
  <2>2. next \in Good /\ next.pc = "queue"
    BY <2>1 DEF Good, Local, OnSession, OnDump
  <2> QED
    BY <1>2, <2>2 DEF QueueNext
<1> QED
  BY <1>1, <1>2

\* A request to analyse a session.
LEMMA RequestAnalysisInv ==
  ASSUME IInv, NEW u \in User, NEW s \in Session, RequestAnalysis(Request(u), s) PROVE IInv'
<1> DEFINE local == WithSession(Idle, "getSession", s)
<1>1. local \in Good /\ local.pc = "getSession"
  <2>1. "getSession" \in PC \ OnDump
    BY DEF PC, OnDump
  <2> QED
    BY <2>1, NullTypes, SessionGood
<1>2. /\ FolderTypes' /\ RuleTypes' /\ FaultTypes' /\ QueueTypes'
      /\ rule' = rule /\ executed' = executed
  <2>1. UNCHANGED folderVars /\ UNCHANGED ruleVars /\ UNCHANGED faultVars /\ UNCHANGED queueVars
    BY DEF RequestAnalysis
  <2> QED
    BY <2>1, SameFolders, SameRules, SameFaults, SameQueue DEF IInv
<1>3. SessionTypes'
  <2>1. requests' \in 0..MaxRequest
    BY MonitoringAssumption DEF IInv, SessionTypes, RequestAnalysis
  <2> QED
    BY <2>1 DEF IInv, SessionTypes, RequestAnalysis
<1>4. Become(Request(u), local) /\ UNCHANGED lock
  BY DEF RequestAnalysis, WithSession
<1>5. ThreadInv'
  <2> HIDE DEF local
  <2> QED
    BY <1>1, <1>2, <1>4, Threads, OneThreadStep, LockOk
<1> QED
  BY <1>2, <1>3, <1>5 DEF IInv

\* The session is read: nothing to do, or its dumps are queued.
LEMMA GetSessionInv ==
  ASSUME IInv, NEW t \in Thread, GetSession(t) PROVE IInv'
<1> DEFINE file == completed[thread[t].sid]
           base == [thread[t] EXCEPT !.copy = file, !.todo = file.files \ file.reported]
           local == IF file = NoFile THEN Idle ELSE QueueNext(base)
<1>1. thread[t] \in Good /\ thread[t].sid \in Session
  BY ThreadGood DEF GetSession, At, Good, OnSession
<1>2. file \in GoodFile
  BY <1>1 DEF IInv, SessionTypes
<1>3. file.files \ file.reported \in SUBSET Dump
  BY <1>2 DEF GoodFile, SessionFile
<1>4. base \in Good /\ base.sid \in Session
  <2> HIDE DEF file
  <2>1. base \in Local
    BY <1>1, <1>2, <1>3 DEF Good, Local, GoodFile
  <2> QED
    BY <1>1, <1>2, <1>3, <2>1 DEF Good, Local
<1>5. local \in Good /\ local.pc # "act"
  <2> HIDE DEF base, file
  <2> QED
    BY <1>4, NullTypes, QueueNextGood
<1>6. Become(t, local) /\ UNCHANGED <<unchangedSession, queueVars>>
  BY DEF GetSession
<1> HIDE DEF local
<1> QED
  BY <1>5, <1>6, OnlyThreadStep

\* The queue is searched for a file of the dump.
LEMMA CheckExistingRequestInv ==
  ASSUME IInv, NEW t \in Thread, CheckExistingRequest(t) PROVE IInv'
<1>1. thread[t] \in Good /\ thread[t].sid \in Session
  BY ThreadGood DEF CheckExistingRequest, At, Good, OnSession
<1> PICK d \in thread[t].todo :
      \/ Become(t, [thread[t] EXCEPT !.pc = "enqueue", !.dump = d])
      \/ Become(t, QueueNext([thread[t] EXCEPT !.todo = @ \ {d}]))
  BY DEF CheckExistingRequest
<1>2. d \in Dump
  BY <1>1 DEF Good, Local
<1> DEFINE found == [thread[t] EXCEPT !.pc = "enqueue", !.dump = d]
           base == [thread[t] EXCEPT !.todo = @ \ {d}]
<1>3. found \in Good /\ found.pc = "enqueue"
  <2>1. found \in Local
    BY <1>1, <1>2 DEF Good, Local, PC
  <2> QED
    BY <1>1, <1>2, <2>1 DEF Good, Local
<1>4. base \in Good /\ base.sid \in Session
  BY <1>1 DEF Good, Local
<1>5. QueueNext(base) \in Good /\ QueueNext(base).pc \notin {"act", "write"}
  <2> HIDE DEF base
  <2> QED
    BY <1>4, QueueNextGood
<1>6. UNCHANGED <<unchangedSession, queueVars>>
  BY DEF CheckExistingRequest
<1>7. Become(t, found) \/ Become(t, QueueNext(base))
  OBVIOUS
<1> HIDE DEF found, base
<1> QED
  BY <1>3, <1>5, <1>6, <1>7, OnlyThreadStep

\* A step that changes one thread and the queue.
LEMMA QueueStep ==
  ASSUME IInv, NEW t \in Thread, NEW local \in Good, Become(t, local),
         local.pc # "act", UNCHANGED unchangedSession, QueueTypes'
  PROVE  IInv'
<1>1. /\ UNCHANGED sessionVars /\ UNCHANGED folderVars /\ UNCHANGED ruleVars
      /\ UNCHANGED faultVars /\ UNCHANGED lock
  BY DEF unchangedSession
<1>2. SessionTypes' /\ FolderTypes' /\ RuleTypes' /\ FaultTypes'
  BY <1>1, SameSession, SameFolders, SameRules, SameFaults DEF IInv
<1>3. ThreadInv'
  BY <1>1, <1>2, OneThreadStep, SameFolders, SameRules DEF IInv, ThreadInv
<1> QED
  BY <1>2, <1>3 DEF IInv

\* A new request is retried no time yet.
LEMMA QueueAnalysisRequestInv ==
  ASSUME IInv, NEW t \in Thread, QueueAnalysisRequest(t) PROVE IInv'
<1> DEFINE base == [thread[t] EXCEPT !.todo = @ \ {thread[t].dump}]
<1>1. thread[t] \in Good /\ thread[t].sid \in Session
  BY ThreadGood DEF QueueAnalysisRequest, At, Good, OnSession
<1>2. base \in Good /\ base.sid \in Session
  BY <1>1 DEF Good, Local
<1>3. QueueNext(base) \in Good /\ QueueNext(base).pc \notin {"act", "write"}
  <2> HIDE DEF base
  <2> QED
    BY <1>2, QueueNextGood
<1>4. [retry |-> 0, expires |-> "never"] \in AnalysisRequest
  BY MonitoringAssumption DEF AnalysisRequest
<1>5. QueueTypes'
  BY <1>4 DEF IInv, QueueTypes, QueueAnalysisRequest
<1>6. Become(t, QueueNext(base)) /\ UNCHANGED unchangedSession
  BY DEF QueueAnalysisRequest
<1> HIDE DEF base
<1> QED
  BY <1>3, <1>5, <1>6, QueueStep

-----------------------------------------------------------------------------
(* The analysis thread *)

\* A thread that works on a session and a dump works on a file of the queue.
LEMMA KeyGood ==
  ASSUME IInv, NEW t \in Thread, thread[t].pc \in OnSession \cap OnDump
  PROVE  thread[t].sid \in Session /\ thread[t].dump \in Dump /\ KeyOf(t) \in Key
BY ThreadGood DEF Good, KeyOf, Key

\* What a file of the queue makes of the locals of the thread that takes it.
WithName(p, k) == [Idle EXCEPT !.pc = p, !.sid = k[1], !.dump = k[2]]
WithKey(p, k, r) == [Idle EXCEPT !.pc = p, !.sid = k[1], !.dump = k[2], !.request = r]

\* Taking a file of the queue.
LEMMA TakeGood ==
  ASSUME NEW k \in Key, NEW p \in PC, NEW r \in AnalysisRequest \cup {NoRequest}
  PROVE  /\ WithName(p, k) \in Good /\ WithName(p, k).pc = p
         /\ WithKey(p, k, r) \in Good /\ WithKey(p, k, r).pc = p
<1>1. k[1] \in Session /\ k[2] \in Dump
  BY DEF Key
<1>2. WithName(p, k) \in Local /\ WithKey(p, k, r) \in Local
  BY <1>1, NullTypes DEF WithName, WithKey, Good, Local
<1>3. WithName(p, k) \in Good /\ WithName(p, k).pc = p
  BY <1>1, <1>2, NullTypes DEF WithName, Good, Local
<1>4. WithKey(p, k, r) \in Good /\ WithKey(p, k, r).pc = p
  BY <1>1, <1>2, NullTypes DEF WithKey, Good, Local
<1> QED
  BY <1>3, <1>4

\* A request is taken.
LEMMA DequeueAnalysisRequestInv ==
  ASSUME IInv, NEW i \in Analyzers, DequeueAnalysisRequest(i) PROVE IInv'
<1> PICK k \in Key : Become(Analyzer(i), WithName("clearTarget", k))
  BY DEF DequeueAnalysisRequest, WithName
<1> DEFINE local == WithName("clearTarget", k)
<1>1. local \in Good /\ local.pc = "clearTarget"
  BY TakeGood DEF PC
<1>3. Become(Analyzer(i), local)
  OBVIOUS
<1>4. UNCHANGED <<unchangedSession, queueVars>>
  BY DEF DequeueAnalysisRequest
<1> HIDE DEF local
<1> QED
  BY <1>1, <1>3, <1>4, Threads, OnlyThreadStep

\* The target of the move is deleted.
LEMMA ClearTargetInv ==
  ASSUME IInv, NEW i \in Analyzers, ClearTarget(i) PROVE IInv'
<1> DEFINE t == Analyzer(i)
<1>1. t \in Thread /\ thread[t] \in Good /\ thread[t].pc = "clearTarget"
  BY Threads, ThreadGood DEF ClearTarget, At
<1>2. thread[t].sid \in Session /\ thread[t].dump \in Dump
  BY <1>1, KeyGood DEF OnSession, OnDump
<1>3. WithPc(thread[t], "rename") \in Good /\ WithPc(thread[t], "rename").pc = "rename"
  BY <1>1, <1>2, GotoGood DEF PC
<1>4. QueueTypes'
  BY DEF IInv, QueueTypes, ClearTarget
<1>5. Become(t, WithPc(thread[t], "rename")) /\ UNCHANGED unchangedSession
  BY GotoBecomes DEF ClearTarget
<1> HIDE DEF t
<1> QED
  BY <1>1, <1>3, <1>4, <1>5, QueueStep

\* The move, or the failure of it.
LEMMA RenameRequestInv ==
  ASSUME IInv, NEW i \in Analyzers, RenameRequest(i) PROVE IInv'
<1> DEFINE t == Analyzer(i)
           k == KeyOf(t)
<1>1. t \in Thread /\ thread[t] \in Good /\ thread[t].pc = "rename"
  BY Threads, ThreadGood DEF RenameRequest, At
<1>2. thread[t].sid \in Session /\ thread[t].dump \in Dump /\ k \in Key
  BY <1>1, KeyGood DEF OnSession, OnDump
<1>3. WithPc(thread[t], "load") \in Good /\ WithPc(thread[t], "load").pc = "load"
  BY <1>1, <1>2, GotoGood DEF PC
<1>4. request[k] \in AnalysisRequest \cup {NoRequest}
  BY <1>2 DEF IInv, QueueTypes
<1>5. QueueTypes'
  <2> HIDE DEF k
  <2>1. CASE inProgress' = [inProgress EXCEPT ![k] = request[k]] /\ request' = [request EXCEPT ![k] = NoRequest]
    BY <1>4, <2>1 DEF IInv, QueueTypes, RenameRequest
  <2>2. CASE UNCHANGED <<request, inProgress>>
    BY <2>2 DEF IInv, QueueTypes, RenameRequest
  <2> QED
    BY <2>1, <2>2 DEF RenameRequest, k
<1>6. Become(t, WithPc(thread[t], "load")) \/ Become(t, Idle)
  BY GotoBecomes DEF RenameRequest
<1>7. UNCHANGED unchangedSession
  BY DEF RenameRequest
<1> HIDE DEF t
<1> QED
  BY <1>1, <1>3, <1>5, <1>6, <1>7, NullTypes, QueueStep

\* The file is read, or gone.
LEMMA LoadRequestInv ==
  ASSUME IInv, NEW i \in Analyzers, LoadRequest(i) PROVE IInv'
<1> DEFINE t == Analyzer(i)
           file == inProgress[KeyOf(t)]
           local == [thread[t] EXCEPT !.pc = "analyzing", !.request = file]
<1>1. t \in Thread /\ thread[t] \in Good /\ thread[t].pc = "load"
  BY Threads, ThreadGood DEF LoadRequest, At
<1>2. thread[t].sid \in Session /\ thread[t].dump \in Dump /\ KeyOf(t) \in Key
  BY <1>1, KeyGood DEF OnSession, OnDump
<1>3. file \in AnalysisRequest \cup {NoRequest}
  BY <1>2 DEF IInv, QueueTypes
<1>4. local \in Good /\ local.pc = "analyzing"
  <2> HIDE DEF file
  <2>1. local \in Local
    BY <1>1, <1>3 DEF Good, Local, PC
  <2> QED
    BY <1>1, <1>2, <2>1 DEF Good, Local
<1>5. Become(t, local) \/ Become(t, Idle)
  BY DEF LoadRequest
<1>6. UNCHANGED <<unchangedSession, queueVars>>
  BY DEF LoadRequest
<1> HIDE DEF t, local
<1> QED
  BY <1>1, <1>4, <1>5, <1>6, NullTypes, OnlyThreadStep

\* A request has a time to expire, be it from a file or not.
LEMMA AliveGood ==
  ASSUME NEW r \in AnalysisRequest \cup {NoRequest}
  PROVE  [r EXCEPT !.expires = "later"] \in AnalysisRequest
BY MonitoringAssumption DEF AnalysisRequest, NoRequest

\* The file is written anew.
LEMMA HeartbeatInv ==
  ASSUME IInv, NEW i \in Analyzers, Heartbeat(i) PROVE IInv'
<1> DEFINE t == Analyzer(i)
           alive == [thread[t] EXCEPT !.request.expires = "later"]
           r == [thread[t].request EXCEPT !.expires = "later"]
<1>1. t \in Thread /\ thread[t] \in Good /\ thread[t].pc = "analyzing"
  BY Threads, ThreadGood DEF Heartbeat, At
<1>2. r \in AnalysisRequest
  BY <1>1, AliveGood DEF Good, Local
<1>3. alive = [thread[t] EXCEPT !.request = r] /\ alive.request = r
  BY <1>1 DEF Good, Local
<1>4. alive \in Good /\ alive.pc = "analyzing"
  <2> HIDE DEF alive, r
  <2>1. alive \in Local
    BY <1>1, <1>2, <1>3 DEF Good, Local
  <2> QED
    BY <1>1, <1>3, <2>1 DEF Good, Local
<1>5. QueueTypes'
  <2>1. inProgress' = [inProgress EXCEPT ![KeyOf(t)] = alive.request] /\ UNCHANGED <<request, overdue>>
    BY DEF Heartbeat
  <2> HIDE DEF alive, r
  <2> QED
    BY <1>2, <1>3, <2>1 DEF IInv, QueueTypes
<1>6. Become(t, alive) /\ UNCHANGED unchangedSession
  BY DEF Heartbeat
<1> HIDE DEF t, alive
<1> QED
  BY <1>1, <1>4, <1>5, <1>6, QueueStep

\* The analyzer writes a report.
LEMMA WriteReportInv ==
  ASSUME IInv, NEW i \in Analyzers, WriteReport(i) PROVE IInv'
<1>1. Analyzer(i) \in Thread /\ thread[Analyzer(i)].dump \in Dump
  BY Threads, ThreadGood DEF WriteReport, At, Good, OnDump
<1>2. SessionTypes' /\ RuleTypes' /\ FaultTypes' /\ QueueTypes' /\ rule' = rule /\ lock' = lock
  BY SameSession, SameRules, SameFaults, SameQueue DEF IInv, WriteReport
<1>3. FolderTypes' /\ executed' = executed
  BY <1>1 DEF IInv, FolderTypes, WriteReport
<1>4. ThreadInv'
  BY <1>2, <1>3, LockOk, NoThreadStep DEF WriteReport
<1> QED
  BY <1>2, <1>3, <1>4 DEF IInv

\* The analyzer ends.
LEMMA AnalysisEndsInv ==
  ASSUME IInv, NEW i \in Analyzers, NEW how \in Outcome, AnalysisEnds(i, how) PROVE IInv'
<1> DEFINE t == Analyzer(i)
           local == [thread[t] EXCEPT !.pc = "result", !.outcome = how]
<1>1. t \in Thread /\ thread[t] \in Good /\ thread[t].pc = "analyzing"
  BY Threads, ThreadGood DEF AnalysisEnds, At
<1>2. thread[t].sid \in Session /\ thread[t].dump \in Dump
  BY <1>1, KeyGood DEF OnSession, OnDump
<1>3. local \in Good /\ local.pc = "result"
  <2>1. local \in Local
    BY <1>1 DEF Good, Local, PC
  <2> QED
    BY <1>1, <1>2, <2>1 DEF Good, Local
<1>4. WithPc(thread[t], "list") \in Good /\ WithPc(thread[t], "list").pc = "list"
  BY <1>1, <1>2, GotoGood DEF PC
<1>5. UNCHANGED <<unchangedSession, queueVars>>
  BY DEF AnalysisEnds
<1>6. Become(t, local) \/ Become(t, WithPc(thread[t], "list"))
  BY DEF AnalysisEnds, WithPc
<1> HIDE DEF t, local
<1> QED
  BY <1>1, <1>3, <1>4, <1>5, <1>6, OnlyThreadStep

\* The folder is listed.
LEMMA ListReportsInv ==
  ASSUME IInv, NEW i \in Analyzers, ListReports(i) PROVE IInv'
<1> DEFINE t == Analyzer(i)
           With(how) == [thread[t] EXCEPT !.pc = "result", !.outcome = how]
<1>1. t \in Thread /\ thread[t] \in Good /\ thread[t].pc = "list"
  BY Threads, ThreadGood DEF ListReports, At
<1>2. thread[t].sid \in Session /\ thread[t].dump \in Dump
  BY <1>1, KeyGood DEF OnSession, OnDump
<1>3. PICK how \in {"report", "error"} : Become(t, With(how))
  BY DEF ListReports
<1>4. With(how) \in Good /\ With(how).pc = "result"
  <2>1. With(how) \in Local
    BY <1>1 DEF Good, Local, PC, Outcome
  <2> QED
    BY <1>1, <1>2, <2>1 DEF Good, Local
<1>5. UNCHANGED <<unchangedSession, queueVars>>
  BY DEF ListReports
<1> HIDE DEF t, With
<1> QED
  BY <1>1, <1>3, <1>4, <1>5, OnlyThreadStep

\* A result completes the analysis only when every dump has one.
LEMMA WithResultGood ==
  ASSUME NEW file \in GoodFile, NEW local
  PROVE  WithResult(file, local) \in GoodFile
<1> DEFINE listed == file.files \cap {local.dump}
           marked == IF local.outcome = "report" THEN [file EXCEPT !.reported = @ \cup listed]
                     ELSE [file EXCEPT !.errors = @ \cup listed]
<1>1. listed \in SUBSET Dump
  BY DEF GoodFile, SessionFile
<1>2. marked \in GoodFile
  <2> HIDE DEF listed
  <2> QED
    BY <1>1 DEF GoodFile, SessionFile, Decided
<1>3. marked.files \subseteq marked.reported \cup marked.errors
        => [marked EXCEPT !.status = "Completed"] \in GoodFile
  <2> HIDE DEF marked
  <2> QED
    BY <1>2 DEF GoodFile, SessionFile, Decided, AnalysisStatus
<1>4. \/ WithResult(file, local) = marked
      \/ /\ marked.files \subseteq marked.reported \cup marked.errors
         /\ WithResult(file, local) = [marked EXCEPT !.status = "Completed"]
  BY DEF WithResult
<1> QED
  BY <1>2, <1>3, <1>4

\* The result goes into a copy of the session, if there is one.
LEMMA AddReportToLogInv ==
  ASSUME IInv, NEW i \in Analyzers, AddReportToLog(i) PROVE IInv'
<1> DEFINE t == Analyzer(i)
           file == completed[thread[t].sid]
           next == IF IsFinal(thread[t]) THEN "cleanup" ELSE "idle"
           copy == WithResult(file, thread[t])
           saves == [thread[t] EXCEPT !.pc = "acquire", !.then = next, !.copy = copy]
<1>1. t \in Thread /\ thread[t] \in Good /\ thread[t].pc = "result"
  BY Threads, ThreadGood DEF AddReportToLog, At
<1>2. thread[t].sid \in Session
  BY <1>1, KeyGood DEF OnSession, OnDump
<1>3. copy \in GoodFile
  BY <1>2, WithResultGood DEF IInv, SessionTypes
<1>4. next \in {"cleanup", "idle"}
  OBVIOUS
<1>5. saves \in Good /\ saves.pc = "acquire"
  <2> HIDE DEF copy, next
  <2>1. saves \in Local
    BY <1>1, <1>3, <1>4 DEF Good, Local, PC, GoodFile
  <2> QED
    BY <1>1, <1>3, <1>4, <2>1 DEF Good, Local, OnSession, OnDump
<1>6. WithPc(thread[t], "cleanup") \in Good /\ WithPc(thread[t], "cleanup").pc = "cleanup"
  BY <1>1, GotoFree, FreeStates
<1>7. Become(t, saves) \/ Become(t, Idle) \/ Become(t, WithPc(thread[t], "cleanup"))
  BY DEF AddReportToLog, WithPc
<1>8. UNCHANGED <<unchangedSession, queueVars>>
  BY DEF AddReportToLog
<1> HIDE DEF t, saves
<1> QED
  BY <1>1, <1>5, <1>6, <1>7, <1>8, NullTypes, OnlyThreadStep

\* The file of a request that came to its end is deleted.
LEMMA DeleteInProgressInv ==
  ASSUME IInv, NEW i \in Analyzers, DeleteInProgress(i) PROVE IInv'
<1>1. QueueTypes'
  BY DEF IInv, QueueTypes, DeleteInProgress
<1>2. Become(Analyzer(i), Idle) /\ UNCHANGED unchangedSession
  BY DEF DeleteInProgress
<1> QED
  BY <1>1, <1>2, NullTypes, Threads, QueueStep

\* An expired file is found.
LEMMA FindExpiredInv ==
  ASSUME IInv, NEW i \in Analyzers, FindExpired(i) PROVE IInv'
<1> PICK k \in Key : Become(Analyzer(i), WithKey("expired", k, inProgress[k]))
  BY DEF FindExpired, WithKey
<1> DEFINE local == WithKey("expired", k, inProgress[k])
<1>1. "expired" \in PC /\ inProgress[k] \in AnalysisRequest \cup {NoRequest}
  BY DEF PC, IInv, QueueTypes
<1>2. local \in Good /\ local.pc = "expired"
  BY <1>1, TakeGood
<1>3. UNCHANGED <<unchangedSession, queueVars>>
  BY DEF FindExpired
<1>4. Become(Analyzer(i), local)
  OBVIOUS
<1> HIDE DEF local
<1> QED
  BY <1>2, <1>3, <1>4, Threads, OnlyThreadStep

\* It is deleted, and retried below the limit of retries.
LEMMA DeleteExpiredInv ==
  ASSUME IInv, NEW i \in Analyzers, DeleteExpired(i) PROVE IInv'
<1> DEFINE t == Analyzer(i)
           r == [thread[t].request EXCEPT !.retry = @ + 1, !.expires = "never"]
           local == [thread[t] EXCEPT !.pc = "requeue", !.request.retry = @ + 1, !.request.expires = "never"]
<1>1. t \in Thread /\ thread[t] \in Good
  BY Threads, ThreadGood
<1>2. ASSUME thread[t].request.retry < MaxRetry PROVE r \in AnalysisRequest
  <2>1. thread[t].request.retry \in 0..MaxRetry
    BY <1>1, MonitoringAssumption DEF Good, Local, AnalysisRequest, NoRequest
  <2>2. thread[t].request.retry + 1 \in 0..MaxRetry
    BY <1>2, <2>1, MonitoringAssumption
  <2> QED
    BY <1>1, <2>2 DEF Good, Local, AnalysisRequest, NoRequest
<1>3. local = [thread[t] EXCEPT !.pc = "requeue", !.request = r]
  BY <1>1 DEF Good, Local, AnalysisRequest, NoRequest
<1>4. ASSUME thread[t].request.retry < MaxRetry PROVE local \in Good /\ local.pc = "requeue"
  <2> HIDE DEF local, r
  <2>1. local \in Local
    BY <1>1, <1>2, <1>3, <1>4 DEF Good, Local, PC
  <2> QED
    BY <1>1, <1>3, <2>1 DEF Good, Local, OnSession, OnDump
<1>5. QueueTypes'
  BY DEF IInv, QueueTypes, DeleteExpired
<1>6. Become(t, IF thread[t].request.retry < MaxRetry THEN local ELSE Idle) /\ UNCHANGED unchangedSession
  BY DEF DeleteExpired
<1> HIDE DEF t, local
<1> QED
  BY <1>1, <1>4, <1>5, <1>6, NullTypes, QueueStep

\* It is queued again.
LEMMA ReSubmitInv ==
  ASSUME IInv, NEW i \in Analyzers, ReSubmit(i) PROVE IInv'
<1>1. thread[Analyzer(i)].request \in AnalysisRequest \cup {NoRequest}
  BY Threads, ThreadGood DEF Good, Local
<1>2. QueueTypes'
  BY <1>1 DEF IInv, QueueTypes, ReSubmit
<1>3. Become(Analyzer(i), Idle) /\ UNCHANGED unchangedSession
  BY DEF ReSubmit
<1> QED
  BY <1>2, <1>3, NullTypes, Threads, QueueStep

\* Time passes for the queue.
LEMMA QueueTimeInv ==
  ASSUME IInv, NEW k \in Key, RequestExpires(k) \/ RequestOverdue(k) PROVE IInv'
<1>1. /\ UNCHANGED sessionVars /\ UNCHANGED folderVars /\ UNCHANGED ruleVars
      /\ UNCHANGED lock /\ UNCHANGED thread
  BY DEF RequestExpires, RequestOverdue, unchangedSession
<1>2. SessionTypes' /\ FolderTypes' /\ RuleTypes' /\ rule' = rule /\ executed' = executed
  BY <1>1, SameSession, SameFolders, SameRules DEF IInv
<1>3. FaultTypes'
  BY MonitoringAssumption DEF IInv, FaultTypes, RequestExpires, RequestOverdue, unchangedSession, faultVars
<1>4. QueueTypes'
  <2>1. CASE RequestExpires(k)
    <3>1. inProgress[k] \in AnalysisRequest \cup {NoRequest} /\ inProgress[k].expires = "later"
      BY <2>1 DEF IInv, QueueTypes, RequestExpires
    <3>2. [inProgress[k] EXCEPT !.expires = "passed"] \in AnalysisRequest
      BY <3>1, MonitoringAssumption DEF AnalysisRequest, NoRequest
    <3>3. inProgress' = [inProgress EXCEPT ![k] = [inProgress[k] EXCEPT !.expires = "passed"]]
      BY <2>1 DEF RequestExpires
    <3> QED
      BY <2>1, <3>2, <3>3 DEF IInv, QueueTypes, RequestExpires
  <2>2. CASE RequestOverdue(k)
    BY <2>2 DEF IInv, QueueTypes, RequestOverdue
  <2> QED
    BY <2>1, <2>2
<1>5. ThreadInv'
  BY <1>1, <1>2, LockOk, NoThreadStep
<1> QED
  BY <1>2, <1>3, <1>4, <1>5 DEF IInv

-----------------------------------------------------------------------------
(* The invariant *)

\* It holds before anything happened.
LEMMA InitIInv == InitAll => IInv
<1> SUFFICES ASSUME InitAll PROVE IInv
  OBVIOUS
<1>1. SessionTypes
  BY NullTypes, MonitoringAssumption DEF InitAll, Init, SessionTypes
<1>2. FolderTypes
  BY DEF InitAll, Init, FolderTypes
<1>3. RuleTypes
  BY NullTypes, MonitoringAssumption DEF InitAll, Init, RuleTypes
<1>4. FaultTypes /\ QueueTypes
  BY MonitoringAssumption DEF InitAll, Init, FaultTypes, QueueTypes
<1>5. thread \in [Thread -> Good] /\ \A t \in Thread : thread[t].pc = "idle"
  BY NullTypes DEF InitAll, Init
<1>6. lock \in SUBSET Thread
  BY DEF InitAll, Init
<1>7. Bounded
  <2> SUFFICES ASSUME Monitors # {}, NEW s \in Session
               PROVE  Cardinality(executed[s]) + Cardinality(Acting(s))
                        <= MaxActions + Cardinality(Monitors) - 1
    BY DEF Bounded
  <2>1. executed[s] = {} /\ Acting(s) = {}
    BY <1>5, Threads DEF Acting, At, InitAll, Init
  <2>2. Cardinality(Monitors) # 0
    BY FS_EmptySet, FS_Subset, MonitoringAssumption
  <2> QED
    BY <2>1, <2>2, FS_EmptySet, Cardinalities, MonitoringAssumption
<1> QED
  BY <1>1, <1>2, <1>3, <1>4, <1>5, <1>6, <1>7 DEF IInv, ThreadInv

\* Every step keeps it.
LEMMA NextIInv == IInv /\ [Next]_vars => IInv'
<1> SUFFICES ASSUME IInv, [Next]_vars PROVE IInv'
  OBVIOUS
<1>1. CASE MonitoringNext /\ UNCHANGED queueVars
  <2>1. ASSUME NEW i \in Monitors, RuleStep(i) PROVE IInv'
    BY <1>1, <2>1, CheckMonitoringEnabledInv, RuleEndsInv, CpuLowInv, CpuHighInv,
       CreateCustomActionFileInv, MoveToPermanentStorageInv, ExecuteActionThrowsInv,
       ActionCompletedInv DEF RuleStep
  <2>2. ASSUME NEW t \in Thread, StopStep(t) PROVE IInv'
    BY <1>1, <2>2, StopMonitoringSessionInv, CheckCompletedInv, GetCollectedLogsInv,
       DeleteActiveFileInv, StopFailsInv, AcquireSessionLockInv, SaveSessionInv, SaveFailsInv DEF StopStep
  <2>3. ASSUME NEW u \in User, CreateStep(Request(u)) \/ RequestStop(Request(u)) PROVE IInv'
    BY <1>1, <2>3, Threads, CheckForActiveSessionInv, RequestStepInv DEF CreateStep
  <2>6. ASSUME NEW u \in User, RequestDelete(Request(u)) \/ DeleteStep(Request(u)) PROVE IInv'
    BY <1>1, <2>6, Threads, RequestDeleteInv, DeleteFilesFromStorageInv, DeleteSessionFileInv,
       DeleteLogFolderInv DEF DeleteStep
  <2>7. ASSUME NEW t \in Thread, FinalizeLock(t) PROVE IInv'
    BY <1>1, <2>7, FinalizeLockInv
  <2>4. ASSUME NEW s \in Session, TimePasses(s) PROVE IInv'
    BY <1>1, <2>4, TimePassesInv
  <2>5. ASSUME NEW i \in Machine, CrashRunner(i) PROVE IInv'
    BY <1>1, <2>5, CrashRunnerInv
  <2> QED
    BY <1>1, <2>1, <2>2, <2>3, <2>4, <2>5, <2>6, <2>7 DEF MonitoringNext
<1>2. ASSUME NEW t \in Thread, AnalyzeStep(t) PROVE IInv'
  BY <1>2, GetSessionInv, CheckExistingRequestInv, QueueAnalysisRequestInv DEF AnalyzeStep
<1>3. ASSUME NEW u \in User, NEW s \in Session, RequestAnalysis(Request(u), s) PROVE IInv'
  BY <1>3, RequestAnalysisInv
<1>4. ASSUME NEW i \in Analyzers, AnalyzerStep(i) PROVE IInv'
  BY <1>4, DequeueAnalysisRequestInv, ClearTargetInv, RenameRequestInv, LoadRequestInv,
     HeartbeatInv, WriteReportInv, AnalysisEndsInv, ListReportsInv, AddReportToLogInv, DeleteInProgressInv, FindExpiredInv,
     DeleteExpiredInv, ReSubmitInv DEF AnalyzerStep
<1>5. ASSUME NEW k \in Key, RequestExpires(k) \/ RequestOverdue(k) PROVE IInv'
  BY <1>5, QueueTimeInv
<1>6. CASE UNCHANGED vars
  <2>1. /\ UNCHANGED sessionVars /\ UNCHANGED folderVars /\ UNCHANGED ruleVars
        /\ UNCHANGED faultVars /\ UNCHANGED lock /\ UNCHANGED thread /\ UNCHANGED queueVars
    BY <1>6 DEF vars, monitoringVars
  <2>2. /\ SessionTypes' /\ FolderTypes' /\ RuleTypes' /\ FaultTypes' /\ QueueTypes'
        /\ rule' = rule /\ executed' = executed
    BY <2>1, SameSession, SameFolders, SameRules, SameFaults, SameQueue DEF IInv
  <2>3. ThreadInv'
    BY <2>1, <2>2, LockOk, NoThreadStep
  <2> QED
    BY <2>2, <2>3 DEF IInv
<1> QED
  BY <1>1, <1>2, <1>3, <1>4, <1>5, <1>6 DEF Next

\* The invariant, with what each control state of each thread works on, always holds.
THEOREM InvariantHolds == Spec => []IInv
<1> QED
  BY InitIInv, NextIInv, PTL DEF Spec

-----------------------------------------------------------------------------
(* Theorems *)

\* Every variable keeps its type, whatever the machines, modes and bounds.
THEOREM TypeCorrect == Spec => []TypeOK
<1> QED
  BY InvariantHolds, IInvTypes, PTL

\* The dumps that any number of machines take for a session, counting without a
\* lock, exceed its limit by at most one for each machine but one.
THEOREM ActionsAreBounded == ASSUME Monitors # {} PROVE Spec => []ActionsBounded
<1>1. IInv => ActionsBounded
  BY IInvBound
<1> QED
  BY <1>1, InvariantHolds, PTL

\* However many stale copies of a session the machines write over each other, a
\* session that says its analysis is completed has a result for every dump.
THEOREM CompletedIsDecided == Spec => []CompletedMeansDecided
<1>1. IInv => CompletedMeansDecided
  BY DEF IInv, SessionTypes, GoodFile, Decided, CompletedMeansDecided
<1> QED
  BY <1>1, InvariantHolds, PTL

-----------------------------------------------------------------------------
(* What depends on how a session came to where it is: that reports named   *)
(* by a session were written, and that a session is never in neither       *)
(* directory.  Both hold as long as no session is deleted; the second      *)
(* where requests are served one at a time.  One more invariant carries    *)
(* them.                                                                   *)

\* Requests are served one at a time: two that both find no active session empty
\* the directory of each other.
OneRequest == \A u, v \in User : u = v

\* The completed file of s is there; one of its files is.
Present(s) == completed[s] # NoFile
Known(s) == s \in active \/ Present(s)

\* Control states in which a thread holds a copy it will write, in which it stops
\* a session that it has found, and in which it deletes one.
Writing == {"queue", "enqueue", "acquire", "write", "writeUnlocked"}
Stopping == {"exists", "collect", "acquire", "write", "writeUnlocked"}
Deleting == {"rmBlobs", "rmFile", "rmFolder"}

\* What the locals of a thread say is backed by what is on the disk.
Backed(l) ==
  /\ l.pc \notin Deleting
  /\ l.pc \in Writing =>
       l.sid \in Session /\ l.copy.reported \subseteq reports[l.sid] /\ l.copy.status # "Absent"
  /\ l.pc = "result" /\ l.outcome = "report" => l.dump \in reports[l.sid]
  /\ l.pc \in {"queue", "enqueue", "delete"} => l.sid \in Session /\ Present(l.sid)
  /\ OneRequest /\ l.pc \in Stopping => Known(l.sid)

\* So is what the session files say.
FilesBacked ==
  /\ \A s \in Session : completed[s].reported \subseteq reports[s]
  /\ \A s \in Session : completed[s].status = "Absent" => completed[s] = NoFile
  /\ OneRequest => \A s \in Session : s > created => ~Known(s)
  /\ OneRequest => \A u \in User : thread[Request(u)].pc \in {"clear", "create"} => active = {}

History == deletes = 0 => FilesBacked /\ \A t \in Thread : Backed(thread[t])

-----------------------------------------------------------------------------
(* Steps that take nothing back *)

\* Nothing a thread relies on is taken back.
Grows ==
  /\ \A s \in Session : reports[s] \subseteq reports'[s]
  /\ \A s \in Session : Present(s) => Present(s)'
  /\ OneRequest => \A s \in Session : Known(s) => Known(s)'

\* What a thread says stays backed while it takes no step.
LEMMA BackedStays ==
  ASSUME IInv, Grows, NEW t \in Thread, Backed(thread[t]), thread'[t] = thread[t]
  PROVE  Backed(thread[t])'
<1> DEFINE l == thread[t]
<1>1. l \in Good
  BY ThreadGood
<1>2. l.pc \in {"exists", "collect"} \cup Writing \cup {"delete"} => l.sid \in Session
  BY <1>1 DEF Good, OnSession, Backed, Writing
<1>3. l.pc \in Writing =>
        l.sid \in Session /\ l.copy.reported \subseteq reports'[l.sid] /\ l.copy.status # "Absent"
  BY DEF Backed, Grows
<1>4. l.pc = "result" /\ l.outcome = "report" => l.dump \in reports'[l.sid]
  BY <1>1 DEF Backed, Grows, Good, OnSession
<1>5. l.pc \in {"queue", "enqueue", "delete"} => l.sid \in Session /\ Present(l.sid)'
  <2>1. ASSUME NEW s \in Session, Present(s) PROVE Present(s)'
    BY <2>1 DEF Grows
  <2> QED
    BY <2>1 DEF Backed, Present
<1>6. ASSUME OneRequest, l.pc \in Stopping
      PROVE  l.sid \in active' \/ completed'[l.sid] # NoFile
  <2>1. l.sid \in Session /\ Known(l.sid)
    BY <1>2, <1>6 DEF Backed, Writing, Stopping
  <2> QED
    BY <1>6, <2>1 DEF Grows, Known, Present
<1>7. l.pc \notin Deleting
  BY DEF Backed
<1> QED
  BY <1>3, <1>4, <1>5, <1>6, <1>7 DEF Backed, Known, Present

\* A step of one thread.
LEMMA ThreadStep ==
  ASSUME IInv, History, NEW t \in Thread, NEW local, Become(t, local), UNCHANGED deletes,
         deletes = 0 => Grows /\ FilesBacked' /\ Backed(thread[t])'
  PROVE  History'
<1> SUFFICES ASSUME deletes = 0 PROVE FilesBacked' /\ \A u \in Thread : Backed(thread[u])'
  BY DEF History
<1>1. \A u \in Thread : u # t => thread'[u] = thread[u]
  BY DEF Become, IInv, ThreadInv
<1> QED
  BY <1>1, BackedStays DEF History

\* A step that changes neither session files nor reports.
SameFiles == UNCHANGED <<active, completed, created, reports, deletes>>

\* Such a step takes nothing back, and what files say stays backed.
LEMMA SameFilesStep ==
  ASSUME History, SameFiles, deletes = 0,
         \A u \in User : thread'[Request(u)].pc \in {"clear", "create"} =>
                           thread[Request(u)].pc \in {"clear", "create"} \/ active = {}
  PROVE  Grows /\ FilesBacked'
<1>1. Grows
  BY DEF Grows, SameFiles, Present, Known
<1>2. FilesBacked
  BY DEF History
<1>3. /\ \A s \in Session : completed'[s].reported \subseteq reports'[s]
      /\ \A s \in Session : completed'[s].status = "Absent" => completed'[s] = NoFile
  BY <1>2 DEF FilesBacked, SameFiles
<1>4. OneRequest => \A s \in Session : s > created' => ~(s \in active' \/ completed'[s] # NoFile)
  BY <1>2 DEF FilesBacked, SameFiles, Known, Present
<1>5. OneRequest => \A u \in User : thread'[Request(u)].pc \in {"clear", "create"} => active' = {}
  BY <1>2 DEF FilesBacked, SameFiles
<1> QED
  BY <1>1, <1>3, <1>4, <1>5 DEF FilesBacked, Known, Present

\* A step of one thread that changes none of them.
LEMMA DiskStep ==
  ASSUME IInv, History, NEW t \in Thread, NEW local, Become(t, local), SameFiles,
         local.pc \in {"clear", "create"} => thread[t].pc \in {"clear", "create"} \/ active = {},
         deletes = 0 => Backed(thread[t])'
  PROVE  History'
<1>1. ASSUME NEW u \in User, thread'[Request(u)].pc \in {"clear", "create"}
      PROVE  thread[Request(u)].pc \in {"clear", "create"} \/ active = {}
  BY <1>1, Threads DEF Become, IInv, ThreadInv
<1>2. deletes = 0 => Grows /\ FilesBacked'
  BY <1>1, SameFilesStep
<1> QED
  BY <1>2, ThreadStep DEF SameFiles

\* Control states that say nothing of the disk.
Quiet == PC \ (Writing \cup Stopping \cup Deleting \cup {"delete", "result", "clear", "create"})

\* A step of one thread to one of these.
LEMMA QuietStep ==
  ASSUME IInv, History, NEW t \in Thread, NEW local, Become(t, local), SameFiles, local.pc \in Quiet
  PROVE  History'
<1>1. thread'[t] = local
  BY DEF Become, IInv, ThreadInv
<1>2. Backed(thread[t])'
  BY <1>1 DEF Backed, Quiet, Writing
<1>3. local.pc \notin {"clear", "create"}
  BY DEF Quiet
<1> QED
  BY <1>2, <1>3, DiskStep

\* A thread that steps becomes what the step makes of it.
LEMMA Becomes ==
  ASSUME IInv, NEW t \in Thread, NEW local, Become(t, local)
  PROVE  thread'[t] = local
BY DEF Become, IInv, ThreadInv

-----------------------------------------------------------------------------
(* The rule *)

\* The thread of the rule takes dumps and waits: it says nothing of the disk.
LEMMA RuleHistory == ASSUME IInv, History, NEW i \in Monitors, RuleStep(i) PROVE History'
<1> DEFINE t == Monitor(i)
<1>1. t \in Thread /\ thread[t] \in Good
  BY Threads, ThreadGood
<1>2. \A p \in {"idle", "sample", "act", "moved", "wait", "stop"} : WithPc(thread[t], p).pc \in Quiet
  <2>1. \A p \in PC : WithPc(thread[t], p).pc = p
    BY <1>1 DEF Good, Local, WithPc
  <2> QED
    BY <2>1 DEF Quiet, PC, Writing, Stopping, Deleting
<1>3. \A d : [thread[t] EXCEPT !.pc = "dump", !.dump = d].pc \in Quiet
  BY <1>1 DEF Good, Local, Quiet, PC, Writing, Stopping, Deleting
<1>4. \A p \in {"idle", "stop"} : [Idle EXCEPT !.pc = p].pc \in Quiet
  BY DEF Idle, Quiet, PC, Writing, Stopping, Deleting
<1>5. Idle.pc \in Quiet
  BY DEF Idle, Quiet, PC, Writing, Stopping, Deleting
<1>6. SameFiles /\ \E local : Become(t, local) /\ local.pc \in Quiet
  <2>1. CASE CheckMonitoringEnabled(i) \/ RuleEnds(i) \/ EndWait(i)
    BY <1>2, <2>1, GotoBecomes DEF CheckMonitoringEnabled, RuleEnds, EndWait, SameFiles, sessionVars, folderVars
  <2>2. CASE CpuLow(i) \/ CpuHigh(i)
    BY <1>2, <2>2, GotoBecomes DEF CpuLow, CpuHigh, SameFiles, sessionVars, folderVars
  <2>3. CASE CreateCustomActionFile(i)
    BY <1>3, <2>3 DEF CreateCustomActionFile, SameFiles, sessionVars
  <2>4. CASE MoveToPermanentStorage(i)
    BY <1>2, <2>4, GotoBecomes DEF MoveToPermanentStorage, SameFiles, sessionVars
  <2>5. CASE ExecuteActionThrows(i)
    BY <1>5, <2>5 DEF ExecuteActionThrows, SameFiles, sessionVars, folderVars
  <2>6. CASE ActionCompleted(i)
    BY <1>4, <2>6 DEF ActionCompleted, SameFiles, sessionVars
  <2> QED
    BY <2>1, <2>2, <2>3, <2>4, <2>5, <2>6 DEF RuleStep
<1> QED
  BY <1>1, <1>6, QuietStep

-----------------------------------------------------------------------------
(* Stopping and saving a session *)

\* There is nothing to stop, or the active session is known.
LEMMA StopMonitoringSessionHistory ==
  ASSUME IInv, History, NEW t \in Thread, StopMonitoringSession(t) PROVE History'
<1>1. SameFiles
  BY DEF StopMonitoringSession, SameFiles, sessionVars, folderVars
<1>2. CASE Become(t, AfterStop(t))
  <2>1. AfterStop(t).pc \in Quiet
    BY AfterStopGood DEF Quiet, PC, Writing, Stopping, Deleting
  <2> QED
    BY <1>1, <1>2, <2>1, QuietStep
<1>3. CASE \E s \in active : Become(t, [thread[t] EXCEPT !.pc = "exists", !.sid = s])
  <2> PICK s \in active : Become(t, [thread[t] EXCEPT !.pc = "exists", !.sid = s])
    BY <1>3
  <2> DEFINE local == WithSession(thread[t], "exists", s)
  <2>1. local.pc = "exists" /\ local.sid = s /\ Become(t, local)
    BY ThreadGood DEF WithSession, Good, Local
  <2> HIDE DEF local
  <2>2. thread'[t] = local /\ s \in active'
    BY <1>1, <2>1, Becomes DEF SameFiles
  <2>3. Backed(thread[t])'
    BY <2>1, <2>2 DEF Backed, Writing, Stopping, Deleting, Known
  <2> QED
    BY <1>1, <2>1, <2>3, DiskStep
<1> QED
  BY <1>2, <1>3 DEF StopMonitoringSession

\* The session is still known, and a completed file that is there stays.
LEMMA CheckCompletedHistory ==
  ASSUME IInv, History, NEW t \in Thread, CheckCompleted(t) PROVE History'
<1> DEFINE p == IF completed[thread[t].sid] = NoFile THEN "collect" ELSE "delete"
           local == WithPc(thread[t], p)
<1>1. SameFiles
  BY DEF CheckCompleted, SameFiles, sessionVars, folderVars
<1>2. thread[t] \in Good /\ thread[t].pc = "exists" /\ thread[t].sid \in Session
  BY ThreadGood DEF CheckCompleted, At, Good, OnSession
<1>3. local.pc = p /\ local.sid = thread[t].sid
  BY <1>2 DEF WithPc, Good, Local
<1>4. Become(t, local)
  BY GotoBecomes DEF CheckCompleted
<1> HIDE DEF local
<1>5. thread'[t] = local
  BY <1>4, Becomes
<1>6. local.pc \in {"collect", "delete"}
  BY <1>3
<1>7. ASSUME deletes = 0 PROVE Backed(thread[t])'
  <2>1. local.pc = "delete" => completed'[local.sid] # NoFile
    BY <1>1, <1>3 DEF SameFiles, Present
  <2>2. OneRequest => local.sid \in active' \/ completed'[local.sid] # NoFile
    BY <1>1, <1>2, <1>3, <1>7 DEF SameFiles, Known, Present, History, Backed, Stopping
  <2> QED
    BY <1>2, <1>3, <1>5, <1>6, <2>1, <2>2 DEF Backed, Writing, Deleting, Known, Present
<1>8. local.pc \notin {"clear", "create"}
  BY <1>6
<1> QED
  BY <1>1, <1>4, <1>7, <1>8, DiskStep

\* The reports of the copy are there.
LEMMA GetCollectedLogsHistory ==
  ASSUME IInv, History, NEW t \in Thread, GetCollectedLogs(t) PROVE History'
<1> DEFINE s == thread[t].sid
           Copy(files) == [status |-> "NotStarted", files |-> files,
                           reported |-> files \cap reports[s], errors |-> {}]
           Local1(files) == [thread[t] EXCEPT !.pc = "acquire", !.then = "delete", !.copy = Copy(files)]
<1>1. SameFiles
  BY DEF GetCollectedLogs, SameFiles, sessionVars, folderVars
<1>2. thread[t] \in Good /\ thread[t].pc = "collect" /\ s \in Session
  BY ThreadGood DEF GetCollectedLogs, At, Good, OnSession
<1>3. PICK files : Become(t, Local1(files))
  BY DEF GetCollectedLogs
<1> DEFINE local == Local1(files)
<1>4. /\ local.pc = "acquire" /\ local.sid = s
      /\ local.copy.reported \subseteq reports[s] /\ local.copy.status = "NotStarted"
  BY <1>2 DEF Good, Local
<1> HIDE DEF local
<1>5. thread'[t] = local
  BY <1>3, Becomes DEF local
<1>6. ASSUME deletes = 0 PROVE Backed(thread[t])'
  <2>1. OneRequest => s \in active' \/ completed'[s] # NoFile
    BY <1>1, <1>2, <1>6 DEF SameFiles, Known, Present, History, Backed, Stopping
  <2>2. reports' = reports
    BY <1>1 DEF SameFiles
  <2> HIDE DEF s
  <2> QED
    BY <1>2, <1>4, <1>5, <2>1, <2>2 DEF Backed, Deleting, Known, Present
<1>7. local.pc \notin {"clear", "create"}
  BY <1>4
<1> QED
  BY <1>1, <1>3, <1>6, <1>7, DiskStep DEF local

\* The active file goes away where there is a completed one.
LEMMA DeleteActiveFileHistory ==
  ASSUME IInv, History, NEW t \in Thread, DeleteActiveFile(t) PROVE History'
<1> DEFINE s == thread[t].sid
<1>1. /\ UNCHANGED <<completed, created, reports, deletes>>
      /\ active' = active \ {s} /\ Become(t, AfterStop(t)) /\ thread[t].pc = "delete"
  BY DEF DeleteActiveFile, folderVars, At
<1>2. thread'[t].pc \in Quiet
  BY <1>1, AfterStopGood, Becomes DEF Quiet, PC, Writing, Stopping, Deleting
<1>3. ASSUME deletes = 0 PROVE Grows /\ FilesBacked'
  <2>1. s \in Session /\ completed[s] # NoFile
    BY <1>1, <1>3 DEF History, Backed, Present
  <2>2. Grows
    BY <1>1, <2>1 DEF Grows, Present, Known
  <2>3. FilesBacked
    BY <1>3 DEF History
  <2>4. \A u \in User : thread'[Request(u)].pc \in {"clear", "create"} => thread[Request(u)].pc \in {"clear", "create"}
    BY <1>1, <1>2, Threads DEF Become, IInv, ThreadInv, Quiet
  <2>5. /\ \A r \in Session : completed'[r].reported \subseteq reports'[r]
        /\ \A r \in Session : completed'[r].status = "Absent" => completed'[r] = NoFile
    BY <1>1, <2>3 DEF FilesBacked
  <2>6. OneRequest => \A r \in Session : r > created' => ~(r \in active' \/ completed'[r] # NoFile)
    BY <1>1, <2>3 DEF FilesBacked, Known, Present
  <2>7. OneRequest => \A u \in User : thread'[Request(u)].pc \in {"clear", "create"} => active' = {}
    BY <1>1, <2>3, <2>4 DEF FilesBacked
  <2> QED
    BY <2>2, <2>5, <2>6, <2>7 DEF FilesBacked, Known, Present
<1>4. Backed(thread[t])'
  BY <1>2 DEF Backed, Quiet, Writing
<1> QED
  BY <1>1, <1>3, <1>4, ThreadStep

\* A stop that failed says nothing any more.
LEMMA StopFailsHistory ==
  ASSUME IInv, History, NEW t \in Thread, StopFails(t) PROVE History'
<1>1. SameFiles /\ Become(t, Idle)
  BY DEF StopFails, SameFiles, sessionVars, folderVars
<1>2. Idle.pc \in Quiet
  BY NullTypes DEF Quiet, PC, Writing, Stopping, Deleting
<1> QED
  BY <1>1, <1>2, QuietStep

\* The copy stays what it is while the thread waits for the lock, or does not.
LEMMA AcquireSessionLockHistory ==
  ASSUME IInv, History, NEW t \in Thread, AcquireSessionLock(t) \/ GoOnUnlocked(t) PROVE History'
<1>1. SameFiles
  BY DEF AcquireSessionLock, GoOnUnlocked, SameFiles, sessionVars, folderVars
<1>2. PICK p \in {"write", "writeUnlocked"} : Goto(t, p)
  BY DEF AcquireSessionLock, GoOnUnlocked
<1> DEFINE local == WithPc(thread[t], p)
<1>3. thread[t] \in Good /\ thread[t].pc = "acquire" /\ Become(t, local)
  BY <1>2, ThreadGood, GotoBecomes DEF AcquireSessionLock, GoOnUnlocked, At
<1>4. local.pc = p /\ local.sid = thread[t].sid /\ local.copy = thread[t].copy
  BY <1>3 DEF WithPc, Good, Local
<1> HIDE DEF local
<1>5. thread'[t] = local
  BY <1>3, Becomes
<1>6. ASSUME deletes = 0 PROVE Backed(thread[t])'
  <2>1. Backed(thread[t])
    BY <1>6 DEF History
  <2>2. UNCHANGED <<active, completed, reports>>
    BY <1>1 DEF SameFiles
  <2> QED
    BY <1>3, <1>4, <1>5, <2>1, <2>2 DEF Backed, Writing, Stopping, Deleting, Known, Present
<1>7. local.pc \notin {"clear", "create"}
  BY <1>4
<1> QED
  BY <1>1, <1>3, <1>6, <1>7, DiskStep

\* The file that is written is there from now on, and names reports that are.
LEMMA SaveSessionHistory ==
  ASSUME IInv, History, NEW t \in Thread, SaveSession(t) PROVE History'
<1> DEFINE l == thread[t]
           local == AfterSave(l)
<1>1. /\ UNCHANGED <<active, created, reports, deletes>>
      /\ completed' = [completed EXCEPT ![l.sid] = l.copy] /\ Become(t, local)
      /\ l.pc \in {"write", "writeUnlocked"}
  BY DEF SaveSession, folderVars
<1>2. l \in Good /\ completed \in [Session -> GoodFile]
  BY ThreadGood DEF IInv, SessionTypes
<1>3. local.pc \in {"idle", "delete", "cleanup"} /\ (local.pc = "delete" => local.sid = l.sid)
  BY <1>2, AfterSaveGood
<1> HIDE DEF local
<1>4. thread'[t] = local
  BY <1>1, Becomes
<1>5. ASSUME deletes = 0 PROVE Grows /\ FilesBacked' /\ Backed(thread[t])'
  <2>1. FilesBacked /\ Backed(l)
    BY <1>5 DEF History
  <2>2. /\ l.sid \in Session /\ l.copy.reported \subseteq reports[l.sid] /\ l.copy.status # "Absent"
        /\ OneRequest => Known(l.sid)
    BY <1>1, <2>1 DEF Backed, Writing, Stopping
  <2>3. l.copy # NoFile
    BY <2>2 DEF NoFile
  <2>4. Grows
    BY <1>1, <1>2, <2>2, <2>3 DEF Grows, Present, Known
  <2>5. \A u \in User : thread'[Request(u)].pc \in {"clear", "create"} => thread[Request(u)].pc \in {"clear", "create"}
    BY <1>1, <1>3, <1>4, Threads DEF Become, IInv, ThreadInv
  <2>6. /\ \A r \in Session : completed'[r].reported \subseteq reports'[r]
        /\ \A r \in Session : completed'[r].status = "Absent" => completed'[r] = NoFile
    BY <1>1, <1>2, <2>1, <2>2 DEF FilesBacked
  <2>7. OneRequest => \A r \in Session : r > created' => ~(r \in active' \/ completed'[r] # NoFile)
    BY <1>1, <1>2, <2>1, <2>2 DEF FilesBacked, Known, Present
  <2>8. OneRequest => \A u \in User : thread'[Request(u)].pc \in {"clear", "create"} => active' = {}
    BY <1>1, <2>1, <2>5 DEF FilesBacked
  <2>9. FilesBacked'
    BY <2>2, <2>6, <2>7, <2>8 DEF FilesBacked, Known, Present
  <2>10. completed'[l.sid] # NoFile
    BY <1>1, <1>2, <2>2, <2>3
  <2>11. Backed(thread[t])'
    BY <1>3, <1>4, <2>2, <2>10 DEF Backed, Writing, Stopping, Deleting, Present
  <2> QED
    BY <2>4, <2>9, <2>11
<1> QED
  BY <1>1, <1>5, ThreadStep

\* A copy that was not written is gone; who adds a report goes on all the same.
LEMMA SaveFailsHistory ==
  ASSUME IInv, History, NEW t \in Thread, SaveFails(t) PROVE History'
<1>1. SameFiles /\ thread[t] \in Good
  BY ThreadGood DEF SaveFails, SameFiles, sessionVars, folderVars
<1>2. {"idle", "cleanup"} \subseteq Quiet /\ Idle.pc = "idle"
  BY NullTypes DEF Quiet, PC, Writing, Stopping, Deleting
<1>3. CASE thread[t].then = "delete"
  <2>1. Become(t, Idle)
    BY <1>3 DEF SaveFails
  <2> QED
    BY <1>1, <1>2, <2>1, QuietStep
<1>4. CASE thread[t].then # "delete"
  <2>1. Become(t, AfterSave(thread[t])) /\ AfterSave(thread[t]).pc \in Quiet
    BY <1>1, <1>2, <1>4, AfterSaveGood DEF SaveFails
  <2> QED
    BY <1>1, <2>1, QuietStep
<1> QED
  BY <1>3, <1>4

-----------------------------------------------------------------------------
(* Requests, time and crashes *)

\* A request begins to create a session when none is active, or to stop one.
LEMMA RequestBeginsHistory ==
  ASSUME IInv, History, NEW u \in User,
         CheckForActiveSession(Request(u)) \/ RequestStop(Request(u))
  PROVE  History'
<1> DEFINE t == Request(u)
<1>1. SameFiles
  BY DEF CheckForActiveSession, RequestStop, SameFiles, sessionVars, folderVars
<1>2. PICK p \in {"clear", "stop"} : Goto(t, p) /\ (p = "clear" => active = {})
  BY DEF CheckForActiveSession, RequestStop
<1> DEFINE local == WithPc(thread[t], p)
<1>3. t \in Thread /\ Become(t, local)
  BY <1>2, Threads, GotoBecomes
<1>4. local.pc = p
  BY <1>3, ThreadGood DEF WithPc, Good, Local
<1> HIDE DEF local
<1>5. thread'[t] = local
  BY <1>3, Becomes
<1>6. Backed(thread[t])'
  BY <1>4, <1>5 DEF Backed, Writing, Stopping, Deleting
<1> HIDE DEF t
<1> QED
  BY <1>1, <1>2, <1>3, <1>4, <1>6, DiskStep

\* The directory that is emptied is empty, and the new session is a new one.
LEMMA CreateHistory ==
  ASSUME IInv, History, NEW u \in User,
         DeleteDirectoryContents(Request(u)) \/ CreateSession(Request(u))
  PROVE  History'
<1> DEFINE t == Request(u)
<1>1. t \in Thread /\ thread[t].pc \in {"clear", "create"}
  BY Threads DEF DeleteDirectoryContents, CreateSession, At
<1>2. UNCHANGED <<completed, reports, deletes>>
  BY DEF DeleteDirectoryContents, CreateSession, folderVars
<1>3. \/ /\ active' = {} /\ created' = created
         /\ Become(t, WithPc(thread[t], "create")) /\ WithPc(thread[t], "create").pc = "create"
      \/ active' = active \cup {created + 1} /\ created' = created + 1 /\ Become(t, Idle)
  BY <1>1, ThreadGood, GotoBecomes DEF DeleteDirectoryContents, CreateSession, WithPc, Good, Local
<1>4. thread'[t].pc \in {"create", "idle"}
  BY <1>1, <1>3, Becomes, NullTypes
<1>5. Backed(thread[t])'
  BY <1>4 DEF Backed, Writing, Stopping, Deleting
<1>6. ASSUME deletes = 0 PROVE Grows /\ FilesBacked'
  <2>1. FilesBacked
    BY <1>6 DEF History
  <2>2. OneRequest => active = {}
    BY <1>1, <2>1 DEF FilesBacked
  <2>3. OneRequest => active \subseteq active'
    BY <2>2
  <2>4. Grows
    BY <1>2, <2>3 DEF Grows, Present, Known
  <2>5. /\ \A r \in Session : completed'[r].reported \subseteq reports'[r]
        /\ \A r \in Session : completed'[r].status = "Absent" => completed'[r] = NoFile
    BY <1>2, <2>1 DEF FilesBacked
  <2>6. OneRequest => \A r \in Session : r > created' => ~(r \in active' \/ completed'[r] # NoFile)
    <3> SUFFICES ASSUME OneRequest, NEW r \in Session, r > created'
                 PROVE  r \notin active' /\ completed'[r] = NoFile
      OBVIOUS
    <3>1. r \in Nat /\ created \in Nat
      BY MonitoringAssumption DEF Session, IInv, SessionTypes
    <3>2. (r > created /\ r # created + 1) \/ (active' = {} /\ r > created)
      BY <1>3, <3>1
    <3> QED
      BY <1>2, <1>3, <2>1, <3>1, <3>2 DEF FilesBacked, Known, Present
  <2>7. OneRequest => \A v \in User : thread'[Request(v)].pc \in {"clear", "create"} => active' = {}
    BY <1>1, <1>3, <1>4, Becomes, NullTypes DEF OneRequest
  <2> QED
    BY <2>4, <2>5, <2>6, <2>7 DEF FilesBacked, Known, Present
<1>7. \E local : Become(t, local)
  BY <1>3
<1> HIDE DEF t
<1> QED
  BY <1>1, <1>2, <1>5, <1>6, <1>7, ThreadStep

\* A session that is going to be deleted ends what is said here; none is before.
LEMMA DeletionHistory ==
  ASSUME IInv, History, NEW t \in Thread, RequestDelete(t) \/ DeleteStep(t) PROVE History'
<1>1. CASE RequestDelete(t)
  <2>1. deletes \in Nat /\ deletes' = deletes + 1
    <3>1. deletes \in Nat
      BY MonitoringAssumption DEF IInv, SessionTypes
    <3>2. deletes' = deletes + 1
      BY <1>1 DEF RequestDelete
    <3> QED
      BY <3>1, <3>2
  <2> QED
    BY <2>1 DEF History
<1>2. CASE DeleteStep(t)
  <2>1. thread[t].pc \in Deleting /\ deletes' = deletes
    BY <1>2 DEF DeleteStep, DeleteFilesFromStorage, DeleteSessionFile, DeleteLogFolder, At, Deleting, sessionVars
  <2> QED
    BY <2>1 DEF History, Backed
<1> QED
  BY <1>1, <1>2

\* Time passes for a session or for the queue, or a lock file is closed.
LEMMA TimeHistory ==
  ASSUME IInv, History,
         \/ \E s \in Session : TimePasses(s)
         \/ \E t \in Thread : FinalizeLock(t)
         \/ \E k \in Key : RequestExpires(k) \/ RequestOverdue(k)
         \/ UNCHANGED vars
  PROVE  History'
<1>1. SameFiles /\ thread' = thread
  BY DEF TimePasses, FinalizeLock, RequestExpires, RequestOverdue, SameFiles, unchangedSession, sessionVars,
         folderVars, vars, monitoringVars
<1> SUFFICES ASSUME deletes = 0 PROVE FilesBacked' /\ \A u \in Thread : Backed(thread[u])'
  BY <1>1 DEF History, SameFiles
<1>2. Grows /\ FilesBacked'
  BY <1>1, SameFilesStep
<1> QED
  BY <1>1, <1>2, BackedStays DEF History

\* The threads of a dead runner say nothing any more.
LEMMA CrashRunnerHistory ==
  ASSUME IInv, History, NEW i \in Machine, CrashRunner(i) PROVE History'
<1> DEFINE own == {Monitor(i), Analyzer(i)}
<1>1. SameFiles /\ thread' = [t \in Thread |-> IF t \in own THEN Idle ELSE thread[t]]
  BY DEF CrashRunner, SameFiles, sessionVars, folderVars
<1>2. \A t \in Thread : thread'[t] = thread[t] \/ thread'[t].pc = "idle"
  BY <1>1, NullTypes
<1> SUFFICES ASSUME deletes = 0 PROVE FilesBacked' /\ \A u \in Thread : Backed(thread[u])'
  BY <1>1 DEF History, SameFiles
<1>3. Grows /\ FilesBacked'
  BY <1>1, <1>2, Threads, SameFilesStep
<1>4. \A u \in Thread : thread'[u].pc = "idle" => Backed(thread[u])'
  BY DEF Backed, Writing, Stopping, Deleting
<1>5. \A u \in Thread : Backed(thread[u])'
  BY <1>2, <1>3, <1>4, BackedStays DEF History
<1> QED
  BY <1>3, <1>5

-----------------------------------------------------------------------------
(* Queueing analyses *)

\* A step that leaves everything but threads and the queue alone.
LEMMA SessionUnchanged == UNCHANGED unchangedSession => SameFiles
BY DEF unchangedSession, SameFiles, sessionVars, folderVars

\* A copy of a session file that is there.
FromFile(l) ==
  /\ l \in Good /\ l.sid \in Session /\ l.copy.reported \subseteq reports[l.sid]
  /\ l.copy.status # "Absent" /\ Present(l.sid)

\* A thread that goes on with such a copy.
LEMMA FromFileStep ==
  ASSUME IInv, History, NEW t \in Thread, NEW local, Become(t, local),
         UNCHANGED unchangedSession, local.pc \in {"queue", "enqueue", "acquire"},
         deletes = 0 => FromFile(local)
  PROVE  History'
<1>1. SameFiles
  BY SessionUnchanged
<1>2. thread'[t] = local
  BY Becomes
<1>3. ASSUME deletes = 0 PROVE Backed(thread[t])'
  <2>1. UNCHANGED <<active, completed, reports>>
    BY <1>1 DEF SameFiles
  <2> QED
    BY <1>2, <1>3, <2>1 DEF Backed, FromFile, Writing, Deleting, Known, Present
<1>4. local.pc \notin {"clear", "create"}
  OBVIOUS
<1> QED
  BY <1>1, <1>3, <1>4, DiskStep

\* Queueing the next dump keeps the copy; so does saving it.
LEMMA QueueNextKeeps ==
  ASSUME NEW l \in Good
  PROVE  /\ QueueNext(l).sid = l.sid /\ QueueNext(l).pc \in {"queue", "acquire"}
         /\ QueueNext(l).copy.reported = l.copy.reported
         /\ QueueNext(l).copy.status \in {l.copy.status, "InProgress"}
BY DEF QueueNext, Good, Local, SessionFile

\* A thread that queues on.
LEMMA QueueNextStep ==
  ASSUME IInv, History, NEW t \in Thread, NEW l \in Good, l.sid \in Session,
         Become(t, QueueNext(l)), UNCHANGED unchangedSession, deletes = 0 => FromFile(l)
  PROVE  History'
<1> DEFINE local == QueueNext(l)
<1>1. local \in Good
  BY QueueNextGood
<1>2. /\ local.sid = l.sid /\ local.pc \in {"queue", "acquire"}
      /\ local.copy.reported = l.copy.reported
      /\ local.copy.status \in {l.copy.status, "InProgress"}
  BY QueueNextKeeps
<1> HIDE DEF local
<1>3. deletes = 0 => FromFile(local)
  BY <1>1, <1>2 DEF FromFile
<1>4. Become(t, local)
  BY DEF local
<1> QED
  BY <1>2, <1>3, <1>4, FromFileStep

\* The file of the session is there when it is read.
LEMMA GetSessionHistory ==
  ASSUME IInv, History, NEW t \in Thread, GetSession(t) PROVE History'
<1> DEFINE file == completed[thread[t].sid]
           l == [thread[t] EXCEPT !.copy = file, !.todo = file.files \ file.reported]
<1>1. thread[t] \in Good /\ thread[t].sid \in Session /\ UNCHANGED unchangedSession
  BY ThreadGood DEF GetSession, At, Good, OnSession
<1>2. CASE file = NoFile
  <2>1. Become(t, Idle)
    BY <1>2 DEF GetSession
  <2>2. SameFiles
    BY <1>1, SessionUnchanged
  <2>3. Idle.pc \in Quiet
    BY NullTypes DEF Quiet, PC, Writing, Stopping, Deleting
  <2> QED
    BY <2>1, <2>2, <2>3, QuietStep
<1>3. CASE file # NoFile
  <2>1. file \in GoodFile
    BY <1>1 DEF IInv, SessionTypes
  <2>2. l \in Good /\ l.sid = thread[t].sid /\ l.copy = file
    <3> HIDE DEF file
    <3>1. file.files \ file.reported \in SUBSET Dump
      BY <2>1 DEF GoodFile, SessionFile
    <3>2. l \in Local /\ l.sid = thread[t].sid /\ l.copy = file
      BY <1>1, <2>1, <3>1 DEF Good, Local, GoodFile
    <3> QED
      BY <1>1, <2>1, <3>2 DEF Good, Local
  <2>3. Become(t, QueueNext(l))
    BY <1>3 DEF GetSession
  <2>4. ASSUME deletes = 0 PROVE FromFile(l)
    <3>1. file.reported \subseteq reports[thread[t].sid] /\ file.status # "Absent"
      BY <1>1, <1>3, <2>4 DEF History, FilesBacked
    <3>2. Present(thread[t].sid)
      BY <1>3 DEF Present
    <3> HIDE DEF file, l
    <3> QED
      BY <1>1, <2>2, <3>1, <3>2 DEF FromFile
  <2>5. l.sid \in Session
    BY <1>1, <2>2
  <2> HIDE DEF file, l
  <2> QED
    BY <1>1, <2>2, <2>3, <2>4, <2>5, QueueNextStep
<1> QED
  BY <1>2, <1>3

\* What a thread that queues dumps holds is such a copy.
LEMMA QueueingFromFile ==
  ASSUME IInv, History, NEW t \in Thread, thread[t].pc \in {"queue", "enqueue"}
  PROVE  /\ thread[t] \in Good /\ thread[t].sid \in Session
         /\ deletes = 0 => FromFile(thread[t])
BY ThreadGood DEF History, Backed, Writing, FromFile, Good, OnSession

\* A dump is found in the queue, or not.
LEMMA CheckExistingRequestHistory ==
  ASSUME IInv, History, NEW t \in Thread, CheckExistingRequest(t) PROVE History'
<1>1. /\ thread[t] \in Good /\ thread[t].sid \in Session /\ (deletes = 0 => FromFile(thread[t]))
      /\ UNCHANGED unchangedSession
  BY QueueingFromFile DEF CheckExistingRequest, At
<1>2. PICK d \in thread[t].todo :
        \/ Become(t, [thread[t] EXCEPT !.pc = "enqueue", !.dump = d])
        \/ Become(t, QueueNext([thread[t] EXCEPT !.todo = @ \ {d}]))
  BY DEF CheckExistingRequest
<1>3. CASE Become(t, [thread[t] EXCEPT !.pc = "enqueue", !.dump = d])
  <2> DEFINE l == [thread[t] EXCEPT !.pc = "enqueue", !.dump = d]
  <2>1. /\ l \in Good /\ l.pc = "enqueue" /\ l.sid = thread[t].sid /\ l.copy = thread[t].copy
    BY <1>1, <1>2 DEF Good, Local, PC
  <2>2. Become(t, l)
    BY <1>3
  <2> HIDE DEF l
  <2>3. deletes = 0 => FromFile(l)
    BY <1>1, <2>1 DEF FromFile
  <2> QED
    BY <1>1, <2>1, <2>2, <2>3, FromFileStep
<1>4. CASE Become(t, QueueNext([thread[t] EXCEPT !.todo = @ \ {d}]))
  <2> DEFINE l == [thread[t] EXCEPT !.todo = @ \ {d}]
  <2>1. /\ l \in Good /\ l.sid = thread[t].sid /\ l.copy = thread[t].copy
    BY <1>1 DEF Good, Local
  <2>2. Become(t, QueueNext(l))
    BY <1>4
  <2> HIDE DEF l
  <2>3. deletes = 0 => FromFile(l)
    BY <1>1, <2>1 DEF FromFile
  <2>4. l.sid \in Session
    BY <1>1, <2>1
  <2> QED
    BY <1>1, <2>1, <2>2, <2>3, <2>4, QueueNextStep
<1> QED
  BY <1>2, <1>3, <1>4

\* A dump is queued.
LEMMA QueueAnalysisRequestHistory ==
  ASSUME IInv, History, NEW t \in Thread, QueueAnalysisRequest(t) PROVE History'
<1> DEFINE l == [thread[t] EXCEPT !.todo = @ \ {thread[t].dump}]
<1>1. /\ thread[t] \in Good /\ thread[t].sid \in Session /\ (deletes = 0 => FromFile(thread[t]))
      /\ UNCHANGED unchangedSession
  BY QueueingFromFile DEF QueueAnalysisRequest, At
<1>2. /\ l \in Good /\ l.sid = thread[t].sid /\ l.copy = thread[t].copy
  BY <1>1 DEF Good, Local
<1>3. Become(t, QueueNext(l))
  BY DEF QueueAnalysisRequest
<1> HIDE DEF l
<1>4. deletes = 0 => FromFile(l)
  BY <1>1, <1>2 DEF FromFile
<1>5. l.sid \in Session
  BY <1>1, <1>2
<1> QED
  BY <1>1, <1>2, <1>3, <1>4, <1>5, QueueNextStep

-----------------------------------------------------------------------------
(* The analysis thread *)

\* A request to analyse a session says nothing of it yet.
LEMMA RequestAnalysisHistory ==
  ASSUME IInv, History, NEW u \in User, NEW s \in Session, RequestAnalysis(Request(u), s)
  PROVE  History'
<1> DEFINE t == Request(u)
           local == [Idle EXCEPT !.pc = "getSession", !.sid = s]
<1>1. SameFiles
  BY DEF RequestAnalysis, SameFiles, folderVars
<1>2. t \in Thread /\ Become(t, local) /\ local.pc = "getSession"
  BY Threads DEF RequestAnalysis, Idle
<1> HIDE DEF local, t
<1>3. local.pc \in Quiet
  BY <1>2 DEF Quiet, PC, Writing, Stopping, Deleting
<1> QED
  BY <1>1, <1>2, <1>3, QuietStep

\* Working on the queue says nothing of a session either.
LEMMA QueueWorkHistory ==
  ASSUME IInv, History, NEW i \in Analyzers,
         \/ DequeueAnalysisRequest(i) \/ ClearTarget(i) \/ RenameRequest(i) \/ LoadRequest(i)
         \/ Heartbeat(i) \/ DeleteInProgress(i) \/ FindExpired(i) \/ DeleteExpired(i) \/ ReSubmit(i)
  PROVE  History'
<1> DEFINE t == Analyzer(i)
           pcs == {"clearTarget", "rename", "load", "analyzing", "expired", "requeue", "idle"}
<1>1. t \in Thread /\ thread[t] \in Good /\ UNCHANGED unchangedSession
  BY Threads, ThreadGood DEF DequeueAnalysisRequest, ClearTarget, RenameRequest, LoadRequest,
     Heartbeat, DeleteInProgress, FindExpired, DeleteExpired, ReSubmit
<1>2. SameFiles
  BY <1>1, SessionUnchanged
<1>3. Idle.pc \in pcs
  BY NullTypes
<1>4. \E local : Become(t, local) /\ local.pc \in pcs
  <2>1. CASE DequeueAnalysisRequest(i) \/ FindExpired(i)
    <3>1. \A k \in Key : \A r : /\ WithName("clearTarget", k).pc \in pcs
                                /\ WithKey("expired", k, r).pc \in pcs
      BY DEF WithName, WithKey, Idle
    <3> QED
      BY <2>1, <3>1 DEF DequeueAnalysisRequest, FindExpired, WithName, WithKey
  <2>2. CASE ClearTarget(i) \/ RenameRequest(i)
    <3>1. \A p \in {"rename", "load"} : WithPc(thread[t], p).pc \in pcs
      BY <1>1 DEF Good, Local, WithPc
    <3> QED
      BY <1>3, <2>2, <3>1, GotoBecomes DEF ClearTarget, RenameRequest
  <2>3. CASE LoadRequest(i)
    <3>1. \A r : [thread[t] EXCEPT !.pc = "analyzing", !.request = r].pc \in pcs
      BY <1>1 DEF Good, Local
    <3> QED
      BY <1>3, <2>3, <3>1 DEF LoadRequest
  <2>4. CASE Heartbeat(i)
    <3>1. [thread[t] EXCEPT !.request.expires = "later"].pc \in pcs
      BY <1>1, <2>4 DEF Good, Local, Heartbeat, At
    <3> QED
      BY <2>4, <3>1 DEF Heartbeat
  <2>5. CASE DeleteInProgress(i) \/ ReSubmit(i)
    BY <1>3, <2>5 DEF DeleteInProgress, ReSubmit
  <2>6. CASE DeleteExpired(i)
    <3> DEFINE l == [thread[t] EXCEPT !.pc = "requeue", !.request.retry = @ + 1, !.request.expires = "never"]
    <3>1. l.pc \in pcs
      BY <1>1 DEF Good, Local
    <3>2. Become(t, IF thread[t].request.retry < MaxRetry THEN l ELSE Idle)
      BY <2>6 DEF DeleteExpired
    <3> HIDE DEF l, t, pcs
    <3> QED
      BY <1>3, <3>1, <3>2
  <2> QED
    BY <2>1, <2>2, <2>3, <2>4, <2>5, <2>6
<1>5. PICK local : Become(t, local) /\ local.pc \in pcs
  BY <1>4
<1> HIDE DEF t
<1>6. local.pc \in Quiet
  BY <1>5 DEF Quiet, PC, Writing, Stopping, Deleting
<1> QED
  BY <1>1, <1>2, <1>5, <1>6, QuietStep

\* There is a report more.
LEMMA WriteReportHistory ==
  ASSUME IInv, History, NEW i \in Analyzers, WriteReport(i) PROVE History'
<1> DEFINE t == Analyzer(i)
<1>1. /\ UNCHANGED <<active, completed, created, deletes, thread>>
      /\ reports' = [reports EXCEPT ![thread[t].sid] = @ \cup {thread[t].dump}]
  BY DEF WriteReport, sessionVars
<1>2. \A s \in Session : reports[s] \subseteq reports'[s]
  BY <1>1 DEF IInv, FolderTypes
<1> SUFFICES ASSUME deletes = 0 PROVE FilesBacked' /\ \A u \in Thread : Backed(thread[u])'
  BY <1>1 DEF History
<1>3. Grows
  BY <1>1, <1>2 DEF Grows, Present, Known
<1>4. FilesBacked
  BY DEF History
<1>5. /\ \A r \in Session : completed'[r].reported \subseteq reports'[r]
      /\ \A r \in Session : completed'[r].status = "Absent" => completed'[r] = NoFile
  BY <1>1, <1>2, <1>4 DEF FilesBacked
<1>6. OneRequest => \A r \in Session : r > created' => ~(r \in active' \/ completed'[r] # NoFile)
  BY <1>1, <1>4 DEF FilesBacked, Known, Present
<1>7. OneRequest => \A u \in User : thread'[Request(u)].pc \in {"clear", "create"} => active' = {}
  BY <1>1, <1>4 DEF FilesBacked
<1>8. FilesBacked'
  BY <1>5, <1>6, <1>7 DEF FilesBacked, Known, Present
<1> QED
  BY <1>1, <1>3, <1>8, BackedStays DEF History

\* The analyzer that has ended has a report when one is found in the folder.
LEMMA AnalysisEndsHistory ==
  ASSUME IInv, History, NEW i \in Analyzers,
         ListReports(i) \/ \E how \in Outcome \ {"none"} : AnalysisEnds(i, how)
  PROVE  History'
<1> DEFINE t == Analyzer(i)
           With(how) == [thread[t] EXCEPT !.pc = "result", !.outcome = how]
<1>1. SameFiles /\ t \in Thread /\ thread[t] \in Good
  BY Threads, ThreadGood, SessionUnchanged DEF ListReports, AnalysisEnds
<1>2. \A how : /\ With(how).pc = "result" /\ With(how).outcome = how
               /\ With(how).sid = thread[t].sid /\ With(how).dump = thread[t].dump
  BY <1>1 DEF Good, Local
<1>3. CASE Become(t, WithPc(thread[t], "list"))
  <2>1. WithPc(thread[t], "list").pc \in Quiet
    BY <1>1 DEF WithPc, Good, Local, Quiet, PC, Writing, Stopping, Deleting
  <2> HIDE DEF t
  <2> QED
    BY <1>1, <1>3, <2>1, QuietStep
<1>4. ASSUME NEW how, Become(t, With(how)), how = "report" => thread[t].dump \in reports[thread[t].sid]
      PROVE  History'
  <2> DEFINE local == With(how)
  <2>1. /\ local.pc = "result" /\ local.outcome = how
        /\ local.sid = thread[t].sid /\ local.dump = thread[t].dump
    BY <1>2
  <2>2. thread'[t] = local
    BY <1>1, <1>4, Becomes
  <2> HIDE DEF With
  <2>3. Backed(thread[t])'
    BY <1>1, <1>4, <2>1, <2>2 DEF Backed, Writing, Stopping, Deleting, SameFiles
  <2>4. local.pc \notin {"clear", "create"}
    BY <2>1
  <2> HIDE DEF local, t
  <2> QED
    BY <1>1, <1>4, <2>3, <2>4, DiskStep DEF local
<1>5. \/ Become(t, WithPc(thread[t], "list"))
      \/ \E how : Become(t, With(how)) /\ (how = "report" => thread[t].dump \in reports[thread[t].sid])
  <2>1. CASE ListReports(i)
    <3>1. PICK how \in {"report", "error"} :
            Become(t, With(how)) /\ (how = "report" => thread[t].dump \in reports[thread[t].sid])
      BY <2>1 DEF ListReports
    <3> QED
      BY <3>1
  <2>2. CASE \E how \in Outcome \ {"none"} : AnalysisEnds(i, how)
    BY <2>2 DEF AnalysisEnds, WithPc
  <2> QED
    BY <2>1, <2>2
<1> QED
  BY <1>3, <1>4, <1>5

\* A result adds at most the dump the analyzer has reported on.
LEMMA WithResultKeeps ==
  ASSUME NEW file \in GoodFile, NEW l
  PROVE  /\ WithResult(file, l).reported \subseteq
              IF l.outcome = "report" THEN file.reported \cup {l.dump} ELSE file.reported
         /\ WithResult(file, l).status \in {file.status, "Completed"}
BY DEF WithResult, GoodFile, SessionFile

\* The result goes into a copy of a session file that is there.
LEMMA AddReportToLogHistory ==
  ASSUME IInv, History, NEW i \in Analyzers, AddReportToLog(i) PROVE History'
<1> DEFINE t == Analyzer(i)
           file == completed[thread[t].sid]
           next == IF IsFinal(thread[t]) THEN "cleanup" ELSE "idle"
           copy == WithResult(file, thread[t])
           saves == [thread[t] EXCEPT !.pc = "acquire", !.then = next, !.copy = copy]
<1>1. /\ t \in Thread /\ thread[t] \in Good /\ thread[t].pc = "result" /\ thread[t].sid \in Session
      /\ UNCHANGED unchangedSession
  BY Threads, ThreadGood DEF AddReportToLog, At, Good, OnSession
<1>2. file \in GoodFile
  BY <1>1 DEF IInv, SessionTypes
<1>3. CASE file # NoFile
  <2>1. copy \in GoodFile
    BY <1>2, WithResultGood
  <2>2. saves \in Good /\ saves.pc = "acquire" /\ saves.sid = thread[t].sid /\ saves.copy = copy
    <3> HIDE DEF copy
    <3>1. next \in {"cleanup", "idle"}
      OBVIOUS
    <3> HIDE DEF next
    <3>2. saves \in Local /\ saves.pc = "acquire" /\ saves.sid = thread[t].sid /\ saves.copy = copy
          /\ saves.then = next
      BY <1>1, <2>1, <3>1 DEF Good, Local, PC, GoodFile
    <3> QED
      BY <2>1, <3>1, <3>2 DEF Good, OnSession, OnDump
  <2>3. Become(t, saves)
    BY <1>3 DEF AddReportToLog
  <2>4. ASSUME deletes = 0 PROVE FromFile(saves)
    <3>1. file.reported \subseteq reports[thread[t].sid] /\ file.status # "Absent"
      BY <1>1, <1>3, <2>4 DEF History, FilesBacked
    <3>2. thread[t].outcome = "report" => thread[t].dump \in reports[thread[t].sid]
      BY <1>1, <2>4 DEF History, Backed
    <3>3. copy.reported \subseteq reports[thread[t].sid] /\ copy.status # "Absent"
      <4> HIDE DEF file
      <4> QED
        BY <1>2, <3>1, <3>2, WithResultKeeps
    <3>4. Present(thread[t].sid)
      BY <1>3 DEF Present
    <3> HIDE DEF saves, copy
    <3> QED
      BY <1>1, <2>2, <3>3, <3>4 DEF FromFile
  <2>5. saves.pc \in {"queue", "enqueue", "acquire"}
    BY <2>2
  <2> HIDE DEF saves, t
  <2> QED
    BY <1>1, <2>3, <2>4, <2>5, FromFileStep
<1>4. CASE file = NoFile
  <2>1. SameFiles
    BY <1>1, SessionUnchanged
  <2>2. WithPc(thread[t], "cleanup").pc = "cleanup" /\ Idle.pc = "idle"
    BY <1>1, NullTypes DEF Good, Local, WithPc
  <2>3. {"cleanup", "idle"} \subseteq Quiet
    BY DEF Quiet, PC, Writing, Stopping, Deleting
  <2>4. Become(t, Idle) \/ Become(t, WithPc(thread[t], "cleanup"))
    BY <1>4 DEF AddReportToLog, WithPc
  <2>5. PICK local : Become(t, local) /\ local.pc \in Quiet
    BY <2>2, <2>3, <2>4
  <2> HIDE DEF t
  <2> QED
    BY <1>1, <2>1, <2>5, QuietStep
<1> QED
  BY <1>3, <1>4

-----------------------------------------------------------------------------
(* The invariant *)

\* It holds before anything happened.
LEMMA InitHistory == InitAll => History
<1> SUFFICES ASSUME InitAll PROVE History
  OBVIOUS
<1>1. /\ completed = [s \in Session |-> NoFile] /\ reports = [s \in Session |-> {}]
      /\ active = {} /\ thread = [t \in Thread |-> Idle]
  BY DEF InitAll, Init
<1>2. \A t \in Thread : thread[t].pc = "idle"
  BY <1>1, NullTypes
<1>3. \A t \in Thread : Backed(thread[t])
  BY <1>2 DEF Backed, Writing, Stopping, Deleting
<1>4. FilesBacked
  <2>1. \A s \in Session : completed[s].reported \subseteq reports[s] /\ completed[s] = NoFile
    BY <1>1 DEF NoFile
  <2> QED
    BY <1>1, <2>1 DEF FilesBacked, Known, Present
<1> QED
  BY <1>3, <1>4 DEF History

\* Every step keeps it.
LEMMA NextHistory == IInv /\ History /\ [Next]_vars => History'
<1> SUFFICES ASSUME IInv, History, [Next]_vars PROVE History'
  OBVIOUS
<1>1. CASE MonitoringNext
  <2>1. ASSUME NEW i \in Monitors, RuleStep(i) PROVE History'
    BY <2>1, RuleHistory
  <2>2. ASSUME NEW t \in Thread, StopStep(t) PROVE History'
    BY <2>2, StopMonitoringSessionHistory, CheckCompletedHistory, GetCollectedLogsHistory,
       DeleteActiveFileHistory, StopFailsHistory, AcquireSessionLockHistory, SaveSessionHistory,
       SaveFailsHistory DEF StopStep
  <2>3. ASSUME NEW u \in User, CreateStep(Request(u)) \/ RequestStop(Request(u)) PROVE History'
    BY <2>3, RequestBeginsHistory, CreateHistory DEF CreateStep
  <2>4. ASSUME NEW u \in User, RequestDelete(Request(u)) \/ DeleteStep(Request(u)) PROVE History'
    BY <2>4, Threads, DeletionHistory
  <2>5. ASSUME NEW i \in Machine, CrashRunner(i) PROVE History'
    BY <2>5, CrashRunnerHistory
  <2>6. ASSUME (\E s \in Session : TimePasses(s)) \/ \E t \in Thread : FinalizeLock(t) PROVE History'
    BY <2>6, TimeHistory
  <2> QED
    BY <1>1, <2>1, <2>2, <2>3, <2>4, <2>5, <2>6 DEF MonitoringNext
<1>2. ASSUME NEW t \in Thread, AnalyzeStep(t) PROVE History'
  BY <1>2, GetSessionHistory, CheckExistingRequestHistory, QueueAnalysisRequestHistory DEF AnalyzeStep
<1>3. ASSUME NEW u \in User, NEW s \in Session, RequestAnalysis(Request(u), s) PROVE History'
  BY <1>3, RequestAnalysisHistory
<1>4. ASSUME NEW i \in Analyzers, AnalyzerStep(i) PROVE History'
  BY <1>4, QueueWorkHistory, WriteReportHistory, AnalysisEndsHistory, AddReportToLogHistory DEF AnalyzerStep
<1>5. ASSUME NEW k \in Key, RequestExpires(k) \/ RequestOverdue(k) PROVE History'
  BY <1>5, TimeHistory
<1>6. CASE UNCHANGED vars
  BY <1>6, TimeHistory
<1> QED
  BY <1>1, <1>2, <1>3, <1>4, <1>5, <1>6 DEF Next

\* Until a session is deleted, what threads and files say is backed by the disk.
THEOREM HistoryHolds == Spec => []History
<1>1. InitAll => IInv /\ History
  BY InitIInv, InitHistory
<1>2. IInv /\ History /\ [Next]_vars => (IInv /\ History)'
  BY NextIInv, NextHistory
<1> QED
  BY <1>1, <1>2, PTL DEF Spec

-----------------------------------------------------------------------------
(* Theorems *)

\* A session never names a report that is not there, though machines write copies
\* of the session file that they read before an analysis or a lock.
THEOREM NamedReportsExist == Spec => []ReportsExist
<1>1. History => ReportsExist
  BY DEF History, FilesBacked, ReportsExist
<1> QED
  BY <1>1, HistoryHolds, PTL

\* Nothing is deleted.
LEMMA NothingDeleted == ASSUME IInv, MaxDelete = 0 PROVE deletes = 0
BY DEF IInv, SessionTypes

\* What a session id looks like from outside.
LEMMA StageIs ==
  ASSUME NEW s \in Session
  PROVE  /\ Stage[s] = IF s \in active THEN "active" ELSE IF completed[s] # NoFile THEN "closed" ELSE "none"
         /\ Stage'[s] = IF s \in active' THEN "active" ELSE IF completed'[s] # NoFile THEN "closed" ELSE "none"
BY DEF Stage

\* A step that moves one session along is one of the abstract specification.
LEMMA StageStep ==
  ASSUME NEW s \in Session, \A r \in Session : r # s => Stage'[r] = Stage[r],
         \/ Stage'[s] = Stage[s]
         \/ Stage[s] = "none" /\ Stage'[s] = "active"
         \/ Stage[s] = "active" /\ Stage'[s] = "closed"
  PROVE  [Lifecycle!Next]_Stage
<1>1. Stage' = [Stage EXCEPT ![s] = Stage'[s]]
  BY DEF Stage
<1>2. Stage'[s] = Stage[s] => Stage' = Stage
  BY <1>1 DEF Stage
<1> HIDE DEF Stage
<1> QED
  BY <1>1, <1>2 DEF Lifecycle!Next, Lifecycle!Submit, Lifecycle!Close

\* Every step is one of the life cycle.
LEMMA LifecycleStep ==
  ASSUME MaxDelete = 0, OneRequest, IInv, History, [Next]_vars
  PROVE  [Lifecycle!Next]_Stage
<1>1. deletes = 0 /\ FilesBacked /\ \A t \in Thread : Backed(thread[t])
  BY NothingDeleted DEF History
<1>2. CASE UNCHANGED <<active, completed>>
  <2>1. Stage' = Stage
    BY <1>2 DEF Stage
  <2> QED
    BY <2>1
<1>3. ASSUME NEW t \in Thread, DeleteActiveFile(t) PROVE [Lifecycle!Next]_Stage
  <2> DEFINE s == thread[t].sid
  <2>1. s \in Session /\ completed[s] # NoFile /\ active' = active \ {s} /\ completed' = completed
    BY <1>1, <1>3 DEF DeleteActiveFile, At, Backed, Present
  <2> HIDE DEF s
  <2>2. PICK r \in Session : r = s
    BY <2>1
  <2>3. /\ \A q \in Session : q # r => Stage'[q] = Stage[q]
        /\ Stage'[r] = "closed" /\ Stage[r] \in {"active", "closed"}
    BY <2>1, <2>2, StageIs
  <2> QED
    BY <2>3, StageStep
<1>4. ASSUME NEW t \in Thread, SaveSession(t) PROVE [Lifecycle!Next]_Stage
  <2> DEFINE s == thread[t].sid
  <2>1. /\ s \in Session /\ Known(s) /\ thread[t].copy # NoFile
        /\ active' = active /\ completed' = [completed EXCEPT ![s] = thread[t].copy]
    BY <1>1, <1>4 DEF SaveSession, Backed, Writing, Stopping, NoFile
  <2>2. completed'[s] # NoFile /\ \A q \in Session : q # s => completed'[q] = completed[q]
    BY <2>1 DEF IInv, SessionTypes
  <2>3. \A q \in Session : Stage'[q] = Stage[q]
    BY <2>1, <2>2, StageIs DEF Known, Present
  <2>4. Stage' = Stage
    BY <2>3 DEF Stage
  <2> QED
    BY <2>4
<1>5. ASSUME NEW u \in User, CreateSession(Request(u)) PROVE [Lifecycle!Next]_Stage
  <2> DEFINE s == created + 1
  <2>1. active' = active \cup {s} /\ completed' = completed
    BY <1>5 DEF CreateSession
  <2>2. s \in Session /\ s > created
    BY <1>5, MonitoringAssumption DEF CreateSession, Session, IInv, SessionTypes
  <2>3. s \notin active /\ completed[s] = NoFile
    BY <1>1, <2>2 DEF FilesBacked, Known, Present
  <2> HIDE DEF s
  <2>4. PICK r \in Session : r = s
    BY <2>2
  <2>5. /\ \A q \in Session : q # r => Stage'[q] = Stage[q]
        /\ Stage[r] = "none" /\ Stage'[r] = "active"
    BY <2>1, <2>3, <2>4, StageIs
  <2> QED
    BY <2>5, StageStep
<1>6. ASSUME NEW u \in User, DeleteDirectoryContents(Request(u)) PROVE [Lifecycle!Next]_Stage
  <2>1. UNCHANGED <<active, completed>>
    BY <1>1, <1>6 DEF DeleteDirectoryContents, At, FilesBacked
  <2> QED
    BY <1>2, <2>1
<1>7. ASSUME NEW u \in User, DeleteStep(Request(u)) PROVE FALSE
  BY <1>1, <1>7, Threads DEF DeleteStep, DeleteFilesFromStorage, DeleteSessionFile, DeleteLogFolder, At,
                             Backed, Deleting
<1>8. ASSUME ~UNCHANGED <<active, completed>>
      PROVE  \/ \E t \in Thread : DeleteActiveFile(t) \/ SaveSession(t)
             \/ \E u \in User : CreateSession(Request(u)) \/ DeleteDirectoryContents(Request(u))
             \/ \E u \in User : DeleteStep(Request(u))
  <2>1. ASSUME NEW i \in Monitors, RuleStep(i) PROVE FALSE
    BY <1>8, <2>1 DEF RuleStep, CheckMonitoringEnabled, RuleEnds, CpuLow, CpuHigh, CreateCustomActionFile,
       MoveToPermanentStorage, ExecuteActionThrows, ActionCompleted, EndWait, sessionVars
  <2>2. ASSUME NEW t \in Thread, StopStep(t) PROVE DeleteActiveFile(t) \/ SaveSession(t)
    BY <1>8, <2>2 DEF StopStep, StopMonitoringSession, CheckCompleted, GetCollectedLogs, StopFails,
       AcquireSessionLock, GoOnUnlocked, SaveFails, sessionVars
  <2>3. ASSUME NEW u \in User, CreateStep(Request(u)) \/ RequestStop(Request(u))
        PROVE  CreateSession(Request(u)) \/ DeleteDirectoryContents(Request(u))
    BY <1>8, <2>3 DEF CreateStep, CheckForActiveSession, RequestStop, sessionVars
  <2>4. ASSUME MonitoringNext PROVE \/ \E i \in Monitors : RuleStep(i)
                                    \/ \E t \in Thread : StopStep(t)
                                    \/ \E u \in User : CreateStep(Request(u)) \/ RequestStop(Request(u))
                                    \/ \E u \in User : DeleteStep(Request(u))
    BY <1>8, <2>4 DEF MonitoringNext, RequestDelete, FinalizeLock, TimePasses, CrashRunner, sessionVars
  <2>5. ASSUME NEW t \in Thread, AnalyzeStep(t) PROVE FALSE
    BY <1>8, <2>5 DEF AnalyzeStep, GetSession, CheckExistingRequest, QueueAnalysisRequest,
       unchangedSession, sessionVars
  <2>6. ASSUME NEW i \in Analyzers, AnalyzerStep(i) PROVE FALSE
    BY <1>8, <2>6 DEF AnalyzerStep, DequeueAnalysisRequest, ClearTarget, RenameRequest, LoadRequest,
       Heartbeat, WriteReport, AnalysisEnds, ListReports, AddReportToLog, DeleteInProgress, FindExpired, DeleteExpired, ReSubmit,
       unchangedSession, sessionVars
  <2>7. ASSUME NEW k \in Key, RequestExpires(k) \/ RequestOverdue(k) PROVE FALSE
    BY <1>8, <2>7 DEF RequestExpires, RequestOverdue, unchangedSession, sessionVars
  <2>8. ASSUME NEW u \in User, NEW s \in Session, RequestAnalysis(Request(u), s) PROVE FALSE
    BY <1>8, <2>8 DEF RequestAnalysis
  <2>9. ~UNCHANGED vars
    BY <1>8 DEF vars, monitoringVars, sessionVars
  <2> QED
    BY <2>1, <2>2, <2>3, <2>4, <2>5, <2>6, <2>7, <2>8, <2>9 DEF Next
<1> QED
  BY <1>2, <1>3, <1>4, <1>5, <1>6, <1>7, <1>8

\* However many machines stop a session, fail at it and die, and whichever copies
\* they save, the session goes from active to completed and stays there.
THEOREM ImplementsLifecycleHolds ==
  ASSUME MaxDelete = 0, \A u, v \in User : u = v
  PROVE  Spec => ImplementsLifecycle
<1>1. InitAll => Lifecycle!Init
  <2> SUFFICES ASSUME InitAll PROVE Stage = [s \in Session |-> "none"]
    BY DEF Lifecycle!Init
  <2>1. \A s \in Session : s \notin active /\ completed[s] = NoFile
    BY DEF InitAll, Init
  <2> QED
    BY <2>1 DEF Stage
<1>2. OneRequest
  BY DEF OneRequest
<1>3. IInv /\ History /\ [Next]_vars => [Lifecycle!Next]_Stage
  BY <1>2, LifecycleStep
<1> QED
  BY <1>1, <1>3, InvariantHolds, HistoryHolds, PTL DEF Spec, ImplementsLifecycle, Lifecycle!Spec
-----------------------------------------------------------------------------
(* How often a runner stops a session for one that it found at its end.    *)
(* Sessions get ever higher ids, so once the one a runner had found is no  *)
(* longer active it never becomes the rule again; and as long as it is, it *)
(* is the first one active, which a stop takes.                            *)

\* Control states of the rule, and of a runner that stops a session it has found.
OfRule == {"sample", "act", "dump", "moved"}
Stops(l) ==
  \/ l.pc \in {"exists", "collect", "delete"}
  \/ l.pc \in {"acquire", "write", "writeUnlocked"} /\ l.then = "delete"

\* What a runner knows of is no younger than what is active.
Ordered(i) ==
  /\ rule[i] <= created /\ decided[i] <= created
  /\ \A s \in active : s <= created /\ rule[i] <= s /\ decided[i] <= s

\* A runner that stops has found a session at its end, and stops that one unless
\* it is not active any more.
Found(i) ==
  LET l == thread[Monitor(i)] IN
  /\ l.pc \in OfRule => rule[i] # 0
  /\ failedStop[i] \/ l.pc \in {"wait", "stop"} \/ Stops(l) => decided[i] # 0
  /\ Stops(l) => l.sid = decided[i] \/ decided[i] \notin active

\* A session upon whose end the runner has acted is past.
Once(i) ==
  /\ stops[i][0] = {}
  /\ \A r \in Session :
       /\ \A s, u \in stops[i][r] : s = u
       /\ stops[i][r] # {} => r <= created /\ r \notin active /\ r # rule[i] /\ r # decided[i]

Decides(i) == Ordered(i) /\ Found(i) /\ Once(i)
AllDecide == \A i \in Monitors : Decides(i)

\* Sessions are stopped, or a new one comes.
Grown ==
  \/ created' = created /\ active' \subseteq active
  \/ created' = created + 1 /\ active' \subseteq active \cup {created + 1}

\* Everything that concerns the runner of i alone stays.
Keeps(i) ==
  /\ rule'[i] = rule[i] /\ decided'[i] = decided[i] /\ failedStop'[i] = failedStop[i]
  /\ stops'[i] = stops[i] /\ thread'[Monitor(i)] = thread[Monitor(i)]

\* Numbers are numbers.
LEMMA DecideTypes ==
  ASSUME IInv, NEW i \in Monitors
  PROVE  /\ rule[i] \in Nat /\ decided[i] \in Nat /\ created \in Nat
         /\ \A s \in Session : s \in Nat /\ s # 0
         /\ active \subseteq Session
BY MonitoringAssumption DEF IInv, RuleTypes, SessionTypes, Session

\* A runner that does nothing is where it was.
LEMMA KeepsDecides ==
  ASSUME IInv, NEW i \in Monitors, Decides(i), Grown, Keeps(i)
  PROVE  Decides(i)'
<1>1. Ordered(i)'
  BY DecideTypes DEF Decides, Ordered, Grown, Keeps
<1>2. Found(i)'
  <2>1. decided[i] \notin active => decided[i] \notin active'
    BY DecideTypes DEF Decides, Ordered, Grown
  <2> QED
    BY <2>1 DEF Decides, Found, Keeps, Stops
<1>3. Once(i)'
  BY DecideTypes DEF Decides, Once, Grown, Keeps
<1> QED
  BY <1>1, <1>2, <1>3 DEF Decides

\* A step of one runner.
LEMMA OneDecides ==
  ASSUME IInv, AllDecide, Grown, NEW i \in Monitors, \A j \in Monitors \ {i} : Keeps(j), Decides(i)'
  PROVE  AllDecide'
<1>1. \A j \in Monitors \ {i} : Decides(j)'
  BY KeepsDecides DEF AllDecide
<1> QED
  BY <1>1 DEF AllDecide

\* A step of a runner that neither changes the sessions nor stops one.
LEMMA OwnStep ==
  ASSUME IInv, NEW i \in Monitors, Decides(i), UNCHANGED <<active, created>>, stops'[i] = stops[i],
         rule'[i] \in {rule[i], 0} \/ IsFirstActive(rule'[i]),
         decided'[i] \in {decided[i], rule[i], 0}, Found(i)'
  PROVE  Decides(i)'
<1>1. Ordered(i)'
  BY DecideTypes DEF Decides, Ordered, IsFirstActive
<1>2. Once(i)'
  BY DecideTypes DEF Decides, Once, IsFirstActive
<1> QED
  BY <1>1, <1>2 DEF Decides

\* A step of another thread leaves that of a monitor alone.
LEMMA OtherThread ==
  ASSUME IInv, NEW t, NEW local, Become(t, local), NEW j \in Monitors, t # Monitor(j)
  PROVE  thread'[Monitor(j)] = thread[Monitor(j)]
BY Threads DEF Become, IInv, ThreadInv

\* Steps of the thread of no monitor.
LEMMA OtherDecides ==
  ASSUME IInv, AllDecide, Grown, UNCHANGED <<rule, decided, failedStop, stops>>,
         \/ thread' = thread
         \/ \E t, local : Become(t, local) /\ \A i \in Monitors : t # Monitor(i)
  PROVE  AllDecide'
<1>1. \A j \in Monitors : thread'[Monitor(j)] = thread[Monitor(j)]
  BY OtherThread
<1>2. \A j \in Monitors : Keeps(j)
  BY <1>1 DEF Keeps
<1> QED
  BY <1>2, KeepsDecides DEF AllDecide

\* The first active session becomes the rule; a stop that failed is tried again.
LEMMA CheckMonitoringEnabledDecides ==
  ASSUME IInv, NEW i \in Monitors, Decides(i), CheckMonitoringEnabled(i) PROVE Decides(i)'
<1> DEFINE m == Monitor(i)
<1>1. PICK s \in active : /\ IsFirstActive(s) /\ rule' = [rule EXCEPT ![i] = s]
                          /\ Goto(m, IF failedStop[i] THEN "stop" ELSE "sample")
  BY DEF CheckMonitoringEnabled
<1>2. rule'[i] = s /\ s # 0
  BY <1>1, DecideTypes DEF IInv, RuleTypes
<1>3. UNCHANGED <<active, created, stops, decided, failedStop>>
  BY DEF CheckMonitoringEnabled, sessionVars
<1>4. thread'[m].pc = IF failedStop[i] THEN "stop" ELSE "sample"
  BY <1>1, Threads, ThreadGood DEF Goto, Become, IInv, ThreadInv, Good, Local
<1> HIDE DEF m
<1>5. Found(i)'
  BY <1>2, <1>3, <1>4 DEF Decides, Found, Stops, OfRule, m
<1> QED
  BY <1>1, <1>2, <1>3, <1>5, OwnStep

\* The other steps of the rule: a stop begins only for a session found at its end.
LEMMA RuleOwn ==
  ASSUME IInv, NEW i \in Monitors, Decides(i), RuleStep(i) PROVE Decides(i)'
<1> DEFINE m == Monitor(i)
<1>1. m \in Thread /\ thread[m] \in Good
  BY Threads, ThreadGood
<1>2. ASSUME NEW p \in PC, Goto(m, p) PROVE thread'[m].pc = p
  BY <1>1, <1>2 DEF Goto, Become, IInv, ThreadInv, Good, Local
<1>3. ASSUME NEW local, Become(m, local) PROVE thread'[m] = local
  BY <1>1, <1>3, Becomes
<1>4. CASE CheckMonitoringEnabled(i)
  BY <1>4, CheckMonitoringEnabledDecides
<1>5. CASE RuleEnds(i)
  <2>1. thread'[m].pc = "wait" /\ thread[m].pc = "sample"
    BY <1>2, <1>5 DEF RuleEnds, PC, At
  <2>2. UNCHANGED <<active, created, stops, rule, failedStop>> /\ decided'[i] = rule[i]
    BY <1>5 DEF RuleEnds, sessionVars, IInv, RuleTypes
  <2>3. Found(i)'
    BY <2>1, <2>2 DEF Decides, Found, Stops, OfRule
  <2> QED
    BY <2>2, <2>3, OwnStep
<1>6. CASE CpuLow(i) \/ CpuHigh(i) \/ CreateCustomActionFile(i) \/ MoveToPermanentStorage(i)
           \/ ExecuteActionThrows(i)
  <2>1. thread'[m].pc \in {"idle"} \cup OfRule /\ thread[m].pc \in OfRule
    <3>1. CASE CpuLow(i) \/ CpuHigh(i)
      BY <1>2, <3>1 DEF CpuLow, CpuHigh, PC, At, OfRule
    <3>2. CASE CreateCustomActionFile(i)
      <4>1. \A d : [thread[m] EXCEPT !.pc = "dump", !.dump = d].pc = "dump"
        BY <1>1 DEF Good, Local
      <4> QED
        BY <1>3, <3>2, <4>1 DEF CreateCustomActionFile, At, OfRule
    <3>3. CASE MoveToPermanentStorage(i)
      BY <1>2, <3>3 DEF MoveToPermanentStorage, PC, At, OfRule
    <3>4. CASE ExecuteActionThrows(i)
      BY <1>3, <3>4, NullTypes DEF ExecuteActionThrows, At, OfRule
    <3> QED
      BY <1>6, <3>1, <3>2, <3>3, <3>4
  <2>2. UNCHANGED <<active, created, stops, rule, decided, failedStop>>
    BY <1>6 DEF CpuLow, CpuHigh, CreateCustomActionFile, MoveToPermanentStorage, ExecuteActionThrows,
                sessionVars, ruleVars
  <2>3. Found(i)'
    BY <2>1, <2>2 DEF Decides, Found, Stops, OfRule
  <2> QED
    BY <2>2, <2>3, OwnStep
<1>7. CASE ActionCompleted(i)
  <2>1. PICK p \in {"stop", "idle"} :
          /\ Become(m, [Idle EXCEPT !.pc = p])
          /\ decided' = IF p = "stop" THEN [decided EXCEPT ![i] = rule[i]] ELSE decided
    BY <1>7 DEF ActionCompleted
  <2>2. thread'[m].pc = p /\ thread[m].pc = "moved"
    BY <1>3, <1>7, <2>1 DEF ActionCompleted, At, Idle
  <2>3. /\ UNCHANGED <<active, created, stops, rule, failedStop>>
        /\ decided'[i] = IF p = "stop" THEN rule[i] ELSE decided[i]
    BY <1>7, <2>1 DEF ActionCompleted, sessionVars, IInv, RuleTypes
  <2>4. Found(i)'
    BY <2>2, <2>3 DEF Decides, Found, Stops, OfRule
  <2> QED
    BY <2>3, <2>4, OwnStep
<1>8. CASE EndWait(i)
  <2>1. thread'[m].pc = "stop" /\ thread[m].pc = "wait"
    BY <1>2, <1>8 DEF EndWait, PC, At
  <2>2. UNCHANGED <<active, created, stops, rule, decided, failedStop>>
    BY <1>8 DEF EndWait, sessionVars, ruleVars
  <2>3. Found(i)'
    BY <2>1, <2>2 DEF Decides, Found, Stops, OfRule
  <2> QED
    BY <2>2, <2>3, OwnStep
<1> QED
  BY <1>4, <1>5, <1>6, <1>7, <1>8 DEF RuleStep

\* They concern the runner alone.
LEMMA RuleKeeps ==
  ASSUME IInv, NEW i \in Monitors, RuleStep(i)
  PROVE  UNCHANGED <<active, created>> /\ \A j \in Monitors \ {i} : Keeps(j)
<1>1. UNCHANGED <<active, created, stops>>
  BY DEF RuleStep, CheckMonitoringEnabled, RuleEnds, CpuLow, CpuHigh, CreateCustomActionFile,
         MoveToPermanentStorage, ExecuteActionThrows, ActionCompleted, EndWait, sessionVars
<1>2. \E local : Become(Monitor(i), local)
  BY DEF RuleStep, CheckMonitoringEnabled, RuleEnds, CpuLow, CpuHigh, CreateCustomActionFile,
         MoveToPermanentStorage, ExecuteActionThrows, ActionCompleted, EndWait, Goto
<1>3. failedStop' = failedStop
  BY DEF RuleStep, CheckMonitoringEnabled, RuleEnds, CpuLow, CpuHigh, CreateCustomActionFile,
         MoveToPermanentStorage, ExecuteActionThrows, ActionCompleted, EndWait, ruleVars
<1>4. rule' = rule \/ \E x : rule' = [rule EXCEPT ![i] = x]
  BY DEF RuleStep, CheckMonitoringEnabled, RuleEnds, CpuLow, CpuHigh, CreateCustomActionFile,
         MoveToPermanentStorage, ExecuteActionThrows, ActionCompleted, EndWait, ruleVars
<1>5. decided' = decided \/ \E x : decided' = [decided EXCEPT ![i] = x]
  BY DEF RuleStep, CheckMonitoringEnabled, RuleEnds, CpuLow, CpuHigh, CreateCustomActionFile,
         MoveToPermanentStorage, ExecuteActionThrows, ActionCompleted, EndWait, ruleVars
<1>6. ASSUME NEW j \in Monitors, j # i PROVE Keeps(j)
  <2>1. thread'[Monitor(j)] = thread[Monitor(j)]
    BY <1>2, <1>6, OtherThread DEF Monitor
  <2>2. rule'[j] = rule[j] /\ decided'[j] = decided[j]
    BY <1>4, <1>5, <1>6 DEF IInv, RuleTypes
  <2> QED
    BY <1>1, <1>3, <2>1, <2>2 DEF Keeps
<1> QED
  BY <1>1, <1>6

\* What dropping the rule means for the runner, and for the others.
LEMMA DropRuleOwn ==
  ASSUME IInv, NEW i \in Monitors, DropRule(Monitor(i))
  PROVE  /\ rule'[i] = 0 /\ decided'[i] = 0 /\ ~failedStop'[i]
         /\ \A j \in Monitors \ {i} :
              rule'[j] = rule[j] /\ decided'[j] = decided[j] /\ failedStop'[j] = failedStop[j]
BY DEF DropRule, Monitor, IInv, RuleTypes

\* A runner that is done with a stop takes no part in any.
LEMMA AfterStopFound ==
  ASSUME IInv, NEW i \in Monitors, DropRule(Monitor(i)), Become(Monitor(i), AfterStop(Monitor(i)))
  PROVE  Found(i)'
<1>1. thread'[Monitor(i)].pc \in {"idle", "getSession"}
  BY AfterStopGood, Becomes, Threads
<1> QED
  BY <1>1, DropRuleOwn DEF Found, Stops, OfRule

\* The stop takes the first active session: the one that was found, if it is there.
LEMMA StopMonitoringSessionOwn ==
  ASSUME IInv, NEW i \in Monitors, Decides(i), StopMonitoringSession(Monitor(i))
  PROVE  Decides(i)'
<1> DEFINE m == Monitor(i)
<1>1. m \in Thread /\ thread[m].pc = "stop" /\ UNCHANGED <<active, created, stops>>
  BY Threads DEF StopMonitoringSession, At, sessionVars
<1>2. CASE DropRule(m) /\ Become(m, AfterStop(m))
  BY <1>1, <1>2, DropRuleOwn, AfterStopFound, OwnStep
<1>3. CASE \E s \in active : /\ IsFirstActive(s)
                             /\ Become(m, [thread[m] EXCEPT !.pc = "exists", !.sid = s])
                             /\ UNCHANGED <<rule, failedStop, decided>>
  <2> PICK s \in active : /\ IsFirstActive(s)
                          /\ Become(m, [thread[m] EXCEPT !.pc = "exists", !.sid = s])
                          /\ UNCHANGED <<rule, failedStop, decided>>
    BY <1>3
  <2>1. thread'[m].pc = "exists" /\ thread'[m].sid = s
    BY <1>1, ThreadGood, Becomes DEF Good, Local
  <2>2. s = decided[i] \/ decided[i] \notin active
    BY DecideTypes DEF Decides, Ordered, IsFirstActive
  <2>3. Found(i)'
    BY <1>1, <2>1, <2>2 DEF Decides, Found, OfRule, Stops
  <2> QED
    BY <1>1, <2>3, OwnStep
<1> QED
  BY <1>2, <1>3 DEF StopMonitoringSession

\* On its way the stop keeps to that session; when it fails that is noted.
LEMMA StoppingOwn ==
  ASSUME IInv, NEW i \in Monitors, Decides(i),
         LET m == Monitor(i) IN
         \/ CheckCompleted(m) \/ GetCollectedLogs(m) \/ StopFails(m)
         \/ AcquireSessionLock(m) \/ GoOnUnlocked(m) \/ SaveSession(m) \/ SaveFails(m)
  PROVE  Decides(i)'
<1> DEFINE m == Monitor(i)
           l == thread[m]
<1>1. m \in Thread /\ l \in Good
  BY Threads, ThreadGood
<1>2. UNCHANGED <<active, created, stops, rule, decided>>
  BY DEF CheckCompleted, GetCollectedLogs, StopFails, AcquireSessionLock, GoOnUnlocked, SaveSession,
         SaveFails, sessionVars, ruleVars
<1>3. ASSUME NEW k, Become(m, k), \/ k.pc \in {"idle", "cleanup"} /\ (failedStop'[i] => failedStop[i] \/ Stops(l))
                                  \/ /\ k.pc \in {"collect", "delete", "acquire", "write", "writeUnlocked"}
                                     /\ Stops(k) => Stops(l) /\ k.sid = l.sid
                                     /\ failedStop' = failedStop
      PROVE  Decides(i)'
  <2>1. thread'[m] = k
    BY <1>1, <1>3, Becomes
  <2>2. Found(i)'
    BY <1>2, <1>3, <2>1 DEF Decides, Found, Stops, OfRule
  <2> QED
    BY <1>2, <2>2, OwnStep
<1>4. \A p \in PC : /\ WithPc(l, p).pc = p /\ WithPc(l, p).sid = l.sid /\ WithPc(l, p).then = l.then
  BY <1>1 DEF Good, Local, WithPc
<1>5. CASE CheckCompleted(m)
  <2>1. PICK p \in {"collect", "delete"} : Become(m, WithPc(l, p))
    BY <1>5, GotoBecomes DEF CheckCompleted
  <2>2. Stops(l) /\ failedStop' = failedStop
    BY <1>5 DEF CheckCompleted, At, Stops, ruleVars
  <2> QED
    BY <1>3, <1>4, <2>1, <2>2 DEF PC
<1>6. CASE GetCollectedLogs(m)
  <2>1. PICK c : Become(m, [l EXCEPT !.pc = "acquire", !.then = "delete", !.copy = c])
    BY <1>6 DEF GetCollectedLogs
  <2> DEFINE k == [l EXCEPT !.pc = "acquire", !.then = "delete", !.copy = c]
  <2>2. k.pc = "acquire" /\ k.sid = l.sid
    BY <1>1 DEF Good, Local
  <2>3. Stops(l) /\ failedStop' = failedStop
    BY <1>6 DEF GetCollectedLogs, At, Stops, ruleVars
  <2> HIDE DEF k
  <2> QED
    BY <1>3, <2>1, <2>2, <2>3 DEF k
<1>7. CASE StopFails(m)
  <2>1. Stops(l) /\ Become(m, Idle)
    BY <1>7 DEF StopFails, Stops
  <2> QED
    BY <1>3, <2>1, NullTypes
<1>8. CASE AcquireSessionLock(m) \/ GoOnUnlocked(m)
  <2>1. PICK p \in {"write", "writeUnlocked"} : Become(m, WithPc(l, p))
    BY <1>8, GotoBecomes DEF AcquireSessionLock, GoOnUnlocked
  <2>2. l.pc = "acquire" /\ failedStop' = failedStop
    BY <1>8 DEF AcquireSessionLock, GoOnUnlocked, At, ruleVars
  <2>3. Stops(WithPc(l, p)) => Stops(l)
    BY <1>4, <2>2 DEF PC, Stops
  <2> QED
    BY <1>3, <1>4, <2>1, <2>2, <2>3 DEF PC
<1>9. AfterSave(l).pc = l.then /\ l.then \in {"idle", "delete", "cleanup"}
      /\ (l.then # "idle" => AfterSave(l).sid = l.sid)
  BY <1>1, AfterSaveGood
<1>10. CASE SaveSession(m)
  <2>1. l.pc \in {"write", "writeUnlocked"} /\ Become(m, AfterSave(l)) /\ failedStop' = failedStop
    BY <1>10 DEF SaveSession, ruleVars
  <2>2. Stops(AfterSave(l)) => Stops(l)
    BY <1>9, <2>1 DEF Stops
  <2> QED
    BY <1>3, <1>9, <2>1, <2>2 DEF Stops
<1>11. CASE SaveFails(m)
  <2>1. CASE l.then = "delete"
    <3>1. Become(m, Idle) /\ Stops(l)
      BY <1>11, <2>1 DEF SaveFails, Stops
    <3> QED
      BY <1>3, <3>1, NullTypes
  <2>2. CASE l.then # "delete"
    <3>1. Become(m, AfterSave(l)) /\ failedStop' = failedStop /\ AfterSave(l).pc \in {"idle", "cleanup"}
      BY <1>9, <1>11, <2>2 DEF SaveFails
    <3> QED
      BY <1>3, <3>1
  <2> QED
    BY <2>1, <2>2
<1> QED
  BY <1>5, <1>6, <1>7, <1>8, <1>10, <1>11

\* The session that was found is not active any more when the runner has stopped one.
LEMMA DeleteActiveFileOwn ==
  ASSUME IInv, NEW i \in Monitors, Decides(i), DeleteActiveFile(Monitor(i))
  PROVE  Decides(i)'
<1> DEFINE m == Monitor(i)
           s == thread[m].sid
           r == decided[i]
<1>1. /\ created' = created /\ active' = active \ {s} /\ DropRule(m) /\ Become(m, AfterStop(m))
      /\ stops' = [stops EXCEPT ![i][r] = @ \cup {s}] /\ thread[m].pc = "delete"
  BY DEF DeleteActiveFile, Monitor, At
<1>2. r # 0 /\ r \in Session /\ r \notin active'
  <2>1. Stops(thread[m])
    BY <1>1 DEF Stops
  <2>2. r # 0 /\ (s = r \/ r \notin active)
    BY <2>1 DEF Decides, Found
  <2>3. r \in Session
    BY <2>2, MonitoringAssumption DEF IInv, RuleTypes, Session
  <2> QED
    BY <1>1, <2>2, <2>3
<1>3. rule'[i] = 0 /\ decided'[i] = 0
  BY <1>1, DropRuleOwn
<1>4. Found(i)'
  BY <1>1, AfterStopFound
<1>5. Ordered(i)'
  BY <1>1, <1>3, DecideTypes DEF Decides, Ordered
<1>6. Once(i)'
  <2>1. stops[i] \in [0..MaxSession -> SUBSET Session] /\ r \in 0..MaxSession
    BY DEF IInv, SessionTypes, RuleTypes
  <2>2. stops'[i] = [stops[i] EXCEPT ![r] = @ \cup {s}]
    BY <1>1 DEF IInv, SessionTypes
  <2>3. stops[i][r] = {} /\ stops[i][0] = {}
    BY <1>2 DEF Decides, Once
  <2>4. stops'[i][0] = {} /\ stops'[i][r] = {s}
    BY <1>2, <2>1, <2>2, <2>3, NullTypes
  <2>5. \A q \in Session : q # r => stops'[i][q] = stops[i][q]
    BY <2>1, <2>2, NullTypes
  <2>6. r <= created
    BY DEF Decides, Ordered
  <2> HIDE DEF r, s
  <2>7. \A q \in Session : q # 0
    BY DecideTypes
  <2> SUFFICES ASSUME NEW q \in Session
               PROVE  /\ \A a, b \in stops'[i][q] : a = b
                      /\ stops'[i][q] # {} => q <= created' /\ q \notin active' /\ q # rule'[i] /\ q # decided'[i]
    BY <2>4 DEF Once
  <2>8. CASE q = r
    BY <1>1, <1>2, <1>3, <2>4, <2>6, <2>7, <2>8
  <2>9. CASE q # r
    BY <1>1, <1>3, <2>5, <2>7, <2>9 DEF Decides, Once
  <2> QED
    BY <2>8, <2>9
<1> QED
  BY <1>4, <1>5, <1>6 DEF Decides

\* Stopping and saving concern the thread that does them alone.
LEMMA StopKeeps ==
  ASSUME IInv, NEW t \in Thread, StopStep(t)
  PROVE  /\ created' = created /\ active' \subseteq active
         /\ \A j \in Monitors : t # Monitor(j) => Keeps(j)
<1>1. created' = created /\ active' \subseteq active
  BY DEF StopStep, StopMonitoringSession, CheckCompleted, GetCollectedLogs, DeleteActiveFile, StopFails,
         AcquireSessionLock, GoOnUnlocked, SaveSession, SaveFails, sessionVars
<1>2. \E local : Become(t, local)
  BY DEF StopStep, StopMonitoringSession, CheckCompleted, GetCollectedLogs, DeleteActiveFile, StopFails,
         AcquireSessionLock, GoOnUnlocked, SaveSession, SaveFails, Goto
<1>3. CASE t[2] # "monitor"
  <2>1. UNCHANGED <<rule, decided, failedStop, stops>>
    BY <1>3 DEF StopStep, StopMonitoringSession, CheckCompleted, GetCollectedLogs, DeleteActiveFile, StopFails,
       AcquireSessionLock, GoOnUnlocked, SaveSession, SaveFails, NoteFailedStop, DropRule, sessionVars, ruleVars
  <2> QED
    BY <1>1, <1>2, <2>1, OtherThread DEF Keeps
<1>4. CASE t[2] = "monitor"
  <2>1. PICK i \in Monitors : t = Monitor(i)
    BY <1>4 DEF Thread, Monitor, Analyzer, Request
  <2> SUFFICES ASSUME NEW j \in Monitors, t # Monitor(j) PROVE Keeps(j)
    BY <1>1
  <2>2. j # i /\ thread'[Monitor(j)] = thread[Monitor(j)]
    BY <1>2, <2>1, OtherThread
  <2>3. CASE DropRule(t) /\ (stops' = stops \/ \E x : stops' = [stops EXCEPT ![i] = x])
    BY <2>1, <2>2, <2>3, DropRuleOwn DEF Keeps, IInv, SessionTypes
  <2>4. CASE /\ UNCHANGED <<rule, decided, stops>>
             /\ failedStop' = failedStop \/ \E x : failedStop' = [failedStop EXCEPT ![i] = x]
    BY <2>2, <2>4 DEF Keeps, IInv, RuleTypes
  <2>5. CASE StopMonitoringSession(t)
    BY <2>3, <2>4, <2>5 DEF StopMonitoringSession, sessionVars
  <2>6. CASE DeleteActiveFile(t)
    <3>1. stops' = [stops EXCEPT ![i][decided[i]] = @ \cup {thread[t].sid}] /\ DropRule(t)
      BY <2>1, <2>6 DEF DeleteActiveFile, Monitor
    <3>2. stops' = [stops EXCEPT ![i] = [stops[i] EXCEPT ![decided[i]] = @ \cup {thread[t].sid}]]
      BY <3>1
    <3> QED
      BY <2>3, <3>1, <3>2
  <2>7. CASE StopFails(t) \/ SaveFails(t)
    BY <2>1, <2>4, <2>7 DEF StopFails, SaveFails, NoteFailedStop, Monitor, sessionVars
  <2>8. CASE CheckCompleted(t) \/ GetCollectedLogs(t) \/ AcquireSessionLock(t) \/ GoOnUnlocked(t) \/ SaveSession(t)
    BY <2>4, <2>8 DEF CheckCompleted, GetCollectedLogs, AcquireSessionLock, GoOnUnlocked, SaveSession,
                      sessionVars, ruleVars
  <2> QED
    BY <2>5, <2>6, <2>7, <2>8 DEF StopStep
<1> QED
  BY <1>3, <1>4

\* A thread that stops or saves a session.
LEMMA StopDecides ==
  ASSUME IInv, AllDecide, NEW t \in Thread, StopStep(t) PROVE AllDecide'
<1>1. Grown /\ \A j \in Monitors : t # Monitor(j) => Keeps(j)
  BY StopKeeps DEF Grown
<1>2. CASE \A j \in Monitors : t # Monitor(j)
  BY <1>1, <1>2, KeepsDecides DEF AllDecide
<1>3. ASSUME NEW i \in Monitors, t = Monitor(i) PROVE AllDecide'
  <2>1. Decides(i)'
    BY <1>3, StopMonitoringSessionOwn, StoppingOwn, DeleteActiveFileOwn DEF StopStep, AllDecide
  <2>2. \A j \in Monitors \ {i} : Keeps(j)
    BY <1>1, <1>3 DEF Monitor
  <2> QED
    BY <1>1, <2>1, <2>2, OneDecides
<1> QED
  BY <1>2, <1>3

\* The locals of a thread that queues dumps, or is done.
Queueing(l) == \/ l.pc \in {"idle", "queue", "enqueue"}
               \/ l.pc = "acquire" /\ l.then = "idle"

\* Queueing dumps is no stop.
LEMMA AnalyzeDecides ==
  ASSUME IInv, AllDecide, NEW t \in Thread, AnalyzeStep(t) PROVE AllDecide'
<1>1. UNCHANGED <<active, created, rule, decided, failedStop, stops>>
  BY DEF AnalyzeStep, GetSession, CheckExistingRequest, QueueAnalysisRequest, unchangedSession,
         sessionVars, ruleVars
<1>2. PICK local : Become(t, local) /\ Queueing(local)
  <2>1. \A k \in Good : Queueing(QueueNext(k))
    BY DEF QueueNext, Good, Local, Queueing
  <2>2. thread[t] \in Good
    BY ThreadGood
  <2>3. CASE GetSession(t)
    <3> DEFINE file == completed[thread[t].sid]
               l == [thread[t] EXCEPT !.copy = file, !.todo = file.files \ file.reported]
    <3>1. Become(t, Idle) \/ Become(t, QueueNext(l))
      BY <2>3 DEF GetSession
    <3>2. Queueing(QueueNext(l)) /\ Queueing(Idle)
      BY <2>2, NullTypes DEF QueueNext, Good, Local, Queueing
    <3> HIDE DEF l
    <3> QED
      BY <3>1, <3>2
  <2>4. CASE CheckExistingRequest(t)
    <3>1. PICK d : \/ Become(t, [thread[t] EXCEPT !.pc = "enqueue", !.dump = d])
                   \/ Become(t, QueueNext([thread[t] EXCEPT !.todo = @ \ {d}]))
      BY <2>4 DEF CheckExistingRequest
    <3>2. /\ [thread[t] EXCEPT !.todo = @ \ {d}] \in Good
          /\ Queueing([thread[t] EXCEPT !.pc = "enqueue", !.dump = d])
      BY <2>2 DEF Good, Local, Queueing
    <3> QED
      BY <2>1, <3>1, <3>2
  <2>5. CASE QueueAnalysisRequest(t)
    <3>1. [thread[t] EXCEPT !.todo = @ \ {thread[t].dump}] \in Good
      BY <2>2 DEF Good, Local
    <3>2. Become(t, QueueNext([thread[t] EXCEPT !.todo = @ \ {thread[t].dump}]))
      BY <2>5 DEF QueueAnalysisRequest
    <3> QED
      BY <2>1, <3>1, <3>2
  <2> QED
    BY <2>3, <2>4, <2>5 DEF AnalyzeStep
<1>3. thread'[t] = local
  BY <1>2, Becomes
<1>4. ASSUME NEW j \in Monitors PROVE Decides(j)'
  <2>1. CASE t = Monitor(j)
    <3>1. Found(j)'
      BY <1>1, <1>2, <1>3, <2>1 DEF AllDecide, Decides, Found, Stops, OfRule, Queueing
    <3> QED
      BY <1>1, <3>1, OwnStep DEF AllDecide
  <2>2. CASE t # Monitor(j)
    BY <1>1, <1>2, <2>2, OtherThread, KeepsDecides DEF AllDecide, Keeps, Grown
  <2> QED
    BY <2>1, <2>2
<1> QED
  BY <1>4 DEF AllDecide

\* Requests create sessions, ever younger ones, and delete completed ones.
LEMMA RequestDecides ==
  ASSUME IInv, AllDecide, NEW u \in User,
         LET t == Request(u) IN
         \/ CreateStep(t) \/ RequestStop(t) \/ RequestDelete(t) \/ DeleteStep(t)
         \/ \E s \in Session : RequestAnalysis(t, s)
  PROVE  AllDecide'
<1> DEFINE t == Request(u)
<1>1. UNCHANGED <<rule, decided, failedStop, stops>>
  BY DEF CreateStep, CheckForActiveSession, DeleteDirectoryContents, CreateSession, RequestStop, RequestDelete,
     DeleteStep, DeleteFilesFromStorage, DeleteSessionFile, DeleteLogFolder, RequestAnalysis,
     sessionVars, ruleVars
<1>2. Grown
  <2>1. CASE CreateStep(t)
    BY <2>1 DEF CreateStep, CheckForActiveSession, DeleteDirectoryContents, CreateSession, Grown, sessionVars
  <2>2. CASE ~CreateStep(t)
    BY <2>2 DEF RequestStop, RequestDelete, DeleteStep, DeleteFilesFromStorage, DeleteSessionFile,
       DeleteLogFolder, RequestAnalysis, Grown, sessionVars
  <2> QED
    BY <2>1, <2>2
<1>3. \E local : Become(t, local)
  BY DEF CreateStep, CheckForActiveSession, DeleteDirectoryContents, CreateSession, RequestStop, RequestDelete,
     DeleteStep, DeleteFilesFromStorage, DeleteSessionFile, DeleteLogFolder, RequestAnalysis, Goto
<1>4. \A i \in Monitors : t # Monitor(i)
  BY Threads DEF Request, Monitor
<1> QED
  BY <1>1, <1>2, <1>3, <1>4, OtherDecides

\* The analysis thread and time concern no runner.
LEMMA AnalyzerDecides ==
  ASSUME IInv, AllDecide,
         \/ \E i \in Analyzers : AnalyzerStep(i)
         \/ \E s \in Session : TimePasses(s)
         \/ \E t \in Thread : FinalizeLock(t)
         \/ \E k \in Key : RequestExpires(k) \/ RequestOverdue(k)
         \/ UNCHANGED vars
  PROVE  AllDecide'
<1>1. CASE \E i \in Analyzers : AnalyzerStep(i)
  <2> PICK i \in Analyzers : AnalyzerStep(i)
    BY <1>1
  <2>1. UNCHANGED <<active, created, rule, decided, failedStop, stops>>
    BY DEF AnalyzerStep, DequeueAnalysisRequest, ClearTarget, RenameRequest, LoadRequest, Heartbeat, WriteReport,
       AnalysisEnds, ListReports, AddReportToLog, DeleteInProgress, FindExpired, DeleteExpired, ReSubmit,
       unchangedSession, sessionVars, ruleVars
  <2>2. thread' = thread \/ \E local : Become(Analyzer(i), local)
    BY DEF AnalyzerStep, DequeueAnalysisRequest, ClearTarget, RenameRequest, LoadRequest, Heartbeat, WriteReport,
       AnalysisEnds, ListReports, AddReportToLog, DeleteInProgress, FindExpired, DeleteExpired, ReSubmit, Goto
  <2>3. \A j \in Monitors : Analyzer(i) # Monitor(j)
    BY DEF Analyzer, Monitor
  <2> QED
    BY <2>1, <2>2, <2>3, OtherDecides DEF Grown
<1>2. CASE ~\E i \in Analyzers : AnalyzerStep(i)
  <2>1. UNCHANGED <<active, created, rule, decided, failedStop, stops, thread>>
    BY <1>2 DEF TimePasses, FinalizeLock, RequestExpires, RequestOverdue, vars, monitoringVars,
                unchangedSession, sessionVars, ruleVars
  <2> QED
    BY <2>1, OtherDecides DEF Grown
<1> QED
  BY <1>1, <1>2

\* A runner that died knows of no session.
LEMMA CrashRunnerDecides ==
  ASSUME IInv, AllDecide, NEW i \in Machine, CrashRunner(i) PROVE AllDecide'
<1>1. /\ UNCHANGED <<active, created, stops>>
      /\ thread' = [t \in Thread |-> IF t \in {Monitor(i), Analyzer(i)} THEN Idle ELSE thread[t]]
  BY DEF CrashRunner, sessionVars
<1>2. ASSUME NEW j \in Monitors, j # i PROVE Decides(j)'
  <2>1. thread'[Monitor(j)] = thread[Monitor(j)]
    BY <1>1, <1>2, Threads DEF Monitor, Analyzer
  <2>2. rule'[j] = rule[j] /\ decided'[j] = decided[j] /\ failedStop'[j] = failedStop[j]
    BY <1>2 DEF CrashRunner, ruleVars, IInv, RuleTypes
  <2> QED
    BY <1>1, <2>1, <2>2, KeepsDecides DEF Keeps, Grown, AllDecide
<1>3. ASSUME i \in Monitors PROVE Decides(i)'
  <2>1. thread'[Monitor(i)] = Idle
    BY <1>1, <1>3, Threads
  <2>2. rule'[i] = 0 /\ decided'[i] = 0 /\ ~failedStop'[i]
    BY <1>3 DEF CrashRunner, IInv, RuleTypes
  <2>3. Found(i)'
    BY <2>1, <2>2, NullTypes DEF Found, Stops, OfRule
  <2> QED
    BY <1>1, <1>3, <2>2, <2>3, OwnStep DEF AllDecide
<1> QED
  BY <1>2, <1>3 DEF AllDecide

\* No session has been found at its end before one is there.
LEMMA InitDecides == InitAll => AllDecide
<1> SUFFICES ASSUME InitAll, NEW i \in Monitors PROVE Decides(i)
  BY DEF AllDecide
<1>1. /\ active = {} /\ created = 0 /\ rule[i] = 0 /\ decided[i] = 0 /\ ~failedStop[i]
      /\ thread[Monitor(i)] = Idle /\ stops[i] = [r \in 0..MaxSession |-> {}]
  BY Threads DEF InitAll, Init
<1>2. Ordered(i)
  BY <1>1 DEF Ordered
<1>3. Found(i)
  BY <1>1, NullTypes DEF Found, Stops, OfRule
<1>4. Once(i)
  BY <1>1, NullTypes DEF Once
<1> QED
  BY <1>2, <1>3, <1>4 DEF Decides

\* Every step keeps it.
LEMMA NextDecides == IInv /\ AllDecide /\ [Next]_vars => AllDecide'
<1> SUFFICES ASSUME IInv, AllDecide, [Next]_vars PROVE AllDecide'
  OBVIOUS
<1>1. ASSUME NEW i \in Monitors, RuleStep(i) PROVE AllDecide'
  BY <1>1, RuleOwn, RuleKeeps, OneDecides DEF AllDecide, Grown
<1>2. CASE MonitoringNext
  BY <1>1, <1>2, StopDecides, RequestDecides, AnalyzerDecides, CrashRunnerDecides DEF MonitoringNext
<1> QED
  BY <1>2, AnalyzeDecides, RequestDecides, AnalyzerDecides DEF Next

\* A runner stops no session but for one that it found at its end, and one at most
\* for each, however often its stops fail, whoever stops sessions and creates new
\* ones meanwhile, and however late the runner is: its repeated stop may hit the next
\* session, but then it has done with the one before.
THEOREM StopsAreCounted == Spec => []StopsOnce
<1>1. InitAll => IInv /\ AllDecide
  BY InitIInv, InitDecides
<1>2. IInv /\ AllDecide /\ [Next]_vars => (IInv /\ AllDecide)'
  BY NextIInv, NextDecides
<1>3. AllDecide => StopsOnce
  BY DEF AllDecide, Decides, Once, StopsOnce
<1> QED
  BY <1>1, <1>2, <1>3, PTL DEF Spec

=============================================================================
