-------------------------- MODULE FileSessionProofs --------------------------
(***************************************************************************)
(* Theorems about FileSession, for every number of machines, runners,      *)
(* requests and sessions.  The theorems named OneSession... and            *)
(* TwoSessions... say what holds while the app has had no more sessions    *)
(* than that; those named RespectedLocks... what holds of any number of    *)
(* sessions as long as nobody writes or moves a session file without       *)
(* having its lock open.                                                   *)
(***************************************************************************)
EXTENDS FileSession, TLAPS, WellFoundedInduction

\* The oldest file of a directory that has one is in that directory.
LEMMA OldestIsListed ==
  ASSUME NEW S, S \subseteq Session, S # {}
  PROVE  Oldest(S) \in S
<1>1. \E x \in S : \A y \in S : ~(<<y, x>> \in OpToRel(<, Nat))
  <2>1. S \subseteq Nat
    BY ParametersAssumption DEF Session
  <2> QED
    BY <2>1, WFMin, NatLessThanWellFounded
<1>2. PICK x \in S : \A y \in S : ~(<<y, x>> \in OpToRel(<, Nat))
  BY <1>1
<1>3. \A y \in S : ~(y < x)
  <2> SUFFICES ASSUME NEW y \in S, y < x PROVE FALSE
    OBVIOUS
  <2>1. <<y, x>> \in Nat \X Nat
    BY ParametersAssumption DEF Session
  <2>2. <<y, x>> \in {ss \in Nat \X Nat : ss[1] < ss[2]}
    BY <2>1
  <2>3. <<y, x>> \in OpToRel(<, Nat)
    BY <2>2, Zenon DEF OpToRel
  <2> QED
    BY <1>2, <2>3
<1>4. \A y \in S : x <= y
  BY <1>3, ParametersAssumption DEF Session
<1> QED
  BY <1>4 DEF Oldest

\* What GetActiveSessionAsync returns is null or a session that can be read.
LEMMA ActiveSessionReadable ==
  ASSUME TypeOK
  PROVE  /\ GetActiveSession \in 0..MaxSession
         /\ GetActiveSession # 0 =>
              /\ GetActiveSession \in Session
              /\ activeDir[GetActiveSession] \in SessionData
<1>1. CASE Listed = {}
  BY <1>1, ParametersAssumption DEF GetActiveSession
<1>2. CASE Listed # {}
  <2>1. Oldest(Listed) \in Listed
    BY <1>2, OldestIsListed DEF Listed
  <2>2. Oldest(Listed) \in Session /\ activeDir[Oldest(Listed)] # Missing
    BY <2>1 DEF Listed
  <2>3. activeDir[Oldest(Listed)] # Empty => activeDir[Oldest(Listed)] \in SessionData
    BY <2>2 DEF TypeOK, File
  <2> QED
    BY <1>2, <2>2, <2>3, ParametersAssumption DEF GetActiveSession, Session
<1> QED
  BY <1>1, <1>2

-----------------------------------------------------------------------------
(* The operators that update records keep their types *)

\* A call of UpdateActiveSessionAsync keeps the type of the caller's locals.
LEMMA CallingType ==
  ASSUME NEW r \in ThreadState, NEW o \in Update, NEW s \in 0..MaxSession, NEW f \in BOOLEAN
  PROVE  Calling(r, o, s, f) \in ThreadState
BY DEF Calling, ThreadState, PC

\* Session number 0, the null session, is always in range.
LEMMA ZeroIsNoSession == 0 \in 0..MaxSession
BY ParametersAssumption

\* An idle thread has well typed locals.
LEMMA IdleType == IdleThread \in ThreadState
BY ParametersAssumption DEF IdleThread, ThreadState, PC, Update, Absent

\* Returning from MarkSessionAsCompleteAsync keeps the type of the locals.
LEMMA MarkReturnType ==
  ASSUME NEW t, NEW r \in ThreadState
  PROVE  MarkReturn(t, r) \in ThreadState
<1>1. [r EXCEPT !.pc = "collectCheck", !.sid = 0, !.op = "Mark", !.flag = FALSE] \in ThreadState
  BY ZeroIsNoSession DEF ThreadState, PC, Update
<1>2. [IdleThread EXCEPT !.pc = "done"] \in ThreadState
  BY IdleType DEF ThreadState, PC
<1> QED
  BY <1>1, <1>2, IdleType DEF MarkReturn

\* Returning from UpdateActiveSessionAsync keeps the type of the locals.
LEMMA UpdateReturnType ==
  ASSUME NEW t \in Thread, NEW r \in ThreadState
  PROVE  UpdateReturn(t, r) \in ThreadState
<1> DEFINE clean == [r EXCEPT !.tgt = 0, !.buf = Missing, !.names = {}]
<1>1. clean \in ThreadState
  BY ZeroIsNoSession DEF ThreadState
<1>2. \A p \in PC : [clean EXCEPT !.pc = p] \in ThreadState
  BY <1>1 DEF ThreadState
<1>3. [clean EXCEPT !.pc = "limits", !.sid = 0] \in ThreadState
  BY <1>1, ZeroIsNoSession DEF ThreadState, PC
<1>4. \A o \in Update : Calling(clean, o, t[2], FALSE) \in ThreadState
  BY <1>1, CallingType DEF Thread
<1>5. r.op \in Update
  BY DEF ThreadState
<1> HIDE DEF clean
<1> QED
  BY <1>2, <1>3, <1>4, <1>5 DEF UpdateReturn, Update, PC, clean

\* Every callback of UpdateActiveSessionAsync turns session data into session data.
LEMMA UpdatedType ==
  ASSUME NEW d \in SessionData, NEW i \in Instance, NEW r \in ThreadState
  PROVE  Updated(d, i, r) \in SessionData
<1>1. \A st \in InstanceStatus : SetStatus(d, i, st) \in SessionData
  BY DEF SetStatus, SessionData, Entry
<1>2. \A ok \in BOOLEAN : AppendLogs(d, i, ok) \in SessionData
  <2> SUFFICES ASSUME NEW ok \in BOOLEAN PROVE AppendLogs(d, i, ok) \in SessionData
    OBVIOUS
  <2> DEFINE e == [d.inst[i] EXCEPT !.st = IF d.inst[i].st = Absent THEN "Active" ELSE d.inst[i].st,
                                 !.logs = d.inst[i].logs \/ ok]
  <2>1. d.inst[i] \in Entry
    BY DEF SessionData
  <2>2. (d.inst[i].logs \/ ok) \in BOOLEAN
    OBVIOUS
  <2>3. e \in Entry
    BY <2>1, <2>2 DEF Entry, InstanceStatus
  <2> HIDE DEF e
  <2>4. [d EXCEPT !.inst[i] = e] \in SessionData
    BY <2>3 DEF SessionData
  <2> QED
    BY <2>4 DEF AppendLogs, e
<1>3. \A had \in BOOLEAN : AddReports(d, i, had) \in SessionData
  <2> SUFFICES ASSUME NEW had \in BOOLEAN PROVE AddReports(d, i, had) \in SessionData
    OBVIOUS
  <2> DEFINE e == [d.inst[i] EXCEPT !.reports = d.inst[i].reports \/ (had /\ d.inst[i].logs)]
  <2>1. d.inst[i] \in Entry
    BY DEF SessionData
  <2>2. e \in Entry
    BY <2>1 DEF Entry
  <2> HIDE DEF e
  <2>3. [d EXCEPT !.inst[i] = e] \in SessionData
    BY <2>2 DEF SessionData
  <2> QED
    BY <2>3 DEF AddReports, e
<1>4. \A N \in SUBSET Instance : AddOrphans(d, N) \in SessionData
  BY DEF AddOrphans, Orphaned, NoEntry, SessionData, Entry, InstanceStatus
<1>5. \A st \in {"Complete", "TimedOut"} : [d EXCEPT !.status = st] \in SessionData
  BY DEF SessionData
<1>6. r.op \in Update /\ r.flag \in BOOLEAN /\ r.names \in SUBSET Instance
  BY DEF ThreadState
<1>7. {"Started", "Analyzing", "Complete"} \subseteq InstanceStatus
  BY DEF InstanceStatus
<1> QED
  BY <1>1, <1>2, <1>3, <1>4, <1>5, <1>6, <1>7 DEF Updated, Update

-----------------------------------------------------------------------------
(* The invariant: types, where each kind of thread may be, the task table *)

LoopPC == {"idle", "check", "orphans", "limits", "collectCheck",
           "acquire", "truncate", "write", "exists", "acquireMove", "move"}
TaskPC == {"idle", "acquire", "truncate", "write", "collecting", "analyze", "finish",
           "exists", "acquireMove", "move", "done"}
LockPC == {"acquire", "truncate", "write", "exists", "acquireMove", "move"}

\* What a thread does depends on its kind: a loop that is not idle has polled a
\* session and only orphans instances or completes the session; a task does
\* neither of the loop's steps; a thread that needs a lock names a session, one
\* that is about to write has loaded one.
ControlOf(t, r) ==
  /\ r.pc \in IF IsLoop(t) THEN LoopPC ELSE TaskPC
  /\ r.op \in IF IsLoop(t) THEN {"Orphan", "Mark"} ELSE Update \ {"Orphan"}
  /\ IsLoop(t) /\ r.pc # "idle" => r.cur \in Session
  /\ r.pc \in LockPC => r.sid \in Session
  /\ r.pc \in {"truncate", "write"} => r.tgt \in Session /\ r.buf \in SessionData

ControlOK == \A t \in Thread : ControlOf(t, thread[t])

IInv == TypeOK /\ ControlOK /\ TaskTracked

\* A thread that only moved on: everything a step of one thread must establish
\* about its new state, and about the task table.
GoodStep(t, r) ==
  /\ r \in ThreadState
  /\ ControlOf(t, r)
  /\ ~IsLoop(t) => r.pc # "idle"

\* Where a call of UpdateActiveSessionAsync starts is a good state.
LEMMA CallingGood ==
  ASSUME NEW t \in Thread, NEW r \in ThreadState, NEW o \in Update, NEW s \in Session, NEW f \in BOOLEAN,
         o \in IF IsLoop(t) THEN {"Orphan", "Mark"} ELSE Update \ {"Orphan"},
         IsLoop(t) => r.cur \in Session
  PROVE  GoodStep(t, Calling(r, o, s, f))
<1>1. Calling(r, o, s, f) \in ThreadState
  BY CallingType, ParametersAssumption DEF Session
<1>2. /\ Calling(r, o, s, f).pc = "acquire"
      /\ Calling(r, o, s, f).op = o
      /\ Calling(r, o, s, f).sid = s
      /\ Calling(r, o, s, f).cur = r.cur
  BY DEF Calling, ThreadState
<1> QED
  BY <1>1, <1>2 DEF GoodStep, ControlOf, LoopPC, TaskPC, LockPC

\* A task's second component is a session.
LEMMA TaskSession ==
  ASSUME NEW t \in Thread, ~IsLoop(t)
  PROVE  t[2] \in Session
BY ParametersAssumption DEF Thread, IsLoop, Session

\* MarkSessionAsCompleteAsync returns a loop to a loop state, a task to its end.
LEMMA MarkReturnGood ==
  ASSUME NEW t \in Thread, NEW r \in ThreadState, ControlOf(t, r), r.pc \in LockPC
  PROVE  GoodStep(t, MarkReturn(t, r))
<1>1. MarkReturn(t, r) \in ThreadState
  BY MarkReturnType
<1>2. CASE IsLoop(t)
  BY <1>1, <1>2 DEF MarkReturn, GoodStep, ControlOf, LoopPC, LockPC, IdleThread, ThreadState
<1>3. CASE ~IsLoop(t)
  BY <1>1, <1>3 DEF MarkReturn, GoodStep, ControlOf, TaskPC, LockPC, IdleThread, Update
<1> QED
  BY <1>2, <1>3

\* UpdateActiveSessionAsync returns each caller to where it goes on.
LEMMA UpdateReturnGood ==
  ASSUME NEW t \in Thread, NEW r \in ThreadState, ControlOf(t, r), r.pc \in LockPC
  PROVE  GoodStep(t, UpdateReturn(t, r))
<1> DEFINE clean == [r EXCEPT !.tgt = 0, !.buf = Missing, !.names = {}]
<1>1. clean \in ThreadState /\ clean.cur = r.cur /\ clean.sid = r.sid /\ clean.op = r.op
  BY ZeroIsNoSession DEF ThreadState
<1>2. UpdateReturn(t, r) \in ThreadState
  BY UpdateReturnType
<1> HIDE DEF clean
<1>3. CASE IsLoop(t)
  <2>1. r.op \in {"Orphan", "Mark"} /\ r.cur \in Session /\ r.sid \in Session
    BY <1>3 DEF ControlOf, LockPC
  <2>2. CASE r.op = "Orphan"
    <3>1. UpdateReturn(t, r) = [clean EXCEPT !.pc = "limits", !.sid = 0]
      BY <2>2 DEF UpdateReturn, clean
    <3> QED
      BY <1>1, <1>2, <1>3, <2>1, <3>1 DEF GoodStep, ControlOf, LoopPC, LockPC, ThreadState
  <2>3. CASE r.op = "Mark"
    <3>1. UpdateReturn(t, r) = [clean EXCEPT !.pc = "exists"]
      BY <2>3 DEF UpdateReturn, clean
    <3> QED
      BY <1>1, <1>2, <1>3, <2>1, <3>1 DEF GoodStep, ControlOf, LoopPC, LockPC, ThreadState
  <2> QED
    BY <2>1, <2>2, <2>3
<1>4. CASE ~IsLoop(t)
  <2>1. r.op \in Update \ {"Orphan"} /\ r.sid \in Session /\ t[2] \in Session
    BY <1>4, TaskSession DEF ControlOf
  <2>2. CASE r.op \in {"Append", "Reports"}
    <3>1. \E o \in {"Analyzing", "Complete"} : UpdateReturn(t, r) = Calling(clean, o, t[2], FALSE)
      BY <2>2 DEF UpdateReturn, clean
    <3> QED
      BY <1>1, <1>4, <2>1, <3>1, CallingGood DEF Update
  <2>3. CASE r.op \in {"Started", "Analyzing", "Complete", "Mark"}
    <3>1. \E p \in {"collecting", "analyze", "finish", "exists"} :
             UpdateReturn(t, r) = [clean EXCEPT !.pc = p]
      BY <2>3 DEF UpdateReturn, clean
    <3> QED
      BY <1>1, <1>2, <1>4, <2>1, <3>1 DEF GoodStep, ControlOf, TaskPC, LockPC, ThreadState
  <2> QED
    BY <2>1, <2>2, <2>3 DEF Update
<1> QED
  BY <1>3, <1>4

-----------------------------------------------------------------------------
(* Each kind of step preserves the invariant *)

\* Nothing but StartTask, a crash and the polling loop itself replaces more than
\* one thread: a step of one thread to a good state keeps the invariant about
\* threads and the task table.
LEMMA OneThreadStep ==
  ASSUME IInv, NEW t \in Thread, NEW r, GoodStep(t, r),
         thread' = [thread EXCEPT ![t] = r],
         ~IsLoop(t) => thread[t].pc # "idle",
         UNCHANGED running
  PROVE  /\ thread' \in [Thread -> ThreadState]
         /\ ControlOK'
         /\ TaskTracked'
<1>1. thread \in [Thread -> ThreadState]
  BY DEF IInv, TypeOK
<1>2. thread' \in [Thread -> ThreadState]
  BY <1>1 DEF GoodStep
<1>3. ControlOK'
  <2> SUFFICES ASSUME NEW u \in Thread PROVE ControlOf(u, thread'[u])
    BY DEF ControlOK, ControlOf
  <2>1. CASE u = t
    BY <1>1, <2>1 DEF GoodStep
  <2>2. CASE u # t
    BY <1>1, <2>2 DEF IInv, ControlOK
  <2> QED
    BY <2>1, <2>2
<1>4. TaskTracked'
  <2> SUFFICES ASSUME NEW i \in Runner, NEW s \in Session
               PROVE  thread'[<<i, s>>].pc # "idle" <=> s \in running[i]
    BY DEF TaskTracked
  <2>1. <<i, s>> \in Thread /\ ~IsLoop(<<i, s>>)
    BY ParametersAssumption DEF Thread, IsLoop, Session
  <2>2. thread[<<i, s>>].pc # "idle" <=> s \in running[i]
    BY DEF IInv, TaskTracked
  <2>3. CASE <<i, s>> = t
    BY <1>1, <2>1, <2>2, <2>3 DEF GoodStep
  <2>4. CASE <<i, s>> # t
    BY <1>1, <2>1, <2>2, <2>4
  <2> QED
    BY <2>3, <2>4
<1> QED
  BY <1>2, <1>3, <1>4

\* Taking, releasing and giving up a lock keep the types of both lock variables.
LEMMA LockTypes ==
  ASSUME TypeOK, NEW t \in Thread, NEW s \in Session
  PROVE  /\ TakeLock(t, s) \/ ReleaseSessionLock(t[1])
              => lockFile' \in [Session -> Thread \cup {Free}]
         /\ TakeLock(t, s) \/ ReleaseSessionLock(t[1]) \/ GiveUpOnLock(t, s)
              => sessionLock' \in [Runner -> [by : Thread \cup {NoThread}, sid : 0..MaxSession]]
<1>1. t[1] \in Runner /\ s \in 0..MaxSession
  BY ParametersAssumption DEF Thread, Session
<1>2. NoLock \in [by : Thread \cup {NoThread}, sid : 0..MaxSession]
  BY ZeroIsNoSession DEF NoLock
<1>3. [by |-> t, sid |-> s] \in [by : Thread \cup {NoThread}, sid : 0..MaxSession]
  BY <1>1
<1> QED
  BY <1>1, <1>2, <1>3 DEF TypeOK, TakeLock, ReleaseSessionLock, GiveUpOnLock

\* The file written under a lock, or moved, leaves both directories well typed.
LEMMA FileTypes ==
  ASSUME TypeOK, NEW s, NEW f \in File
  PROVE  /\ [activeDir EXCEPT ![s] = f] \in [Session -> File]
         /\ [completedDir EXCEPT ![s] = f] \in [Session -> File]
BY DEF TypeOK

\* The acquisition and load of UpdateActiveSessionAsync.
LEMMA AcquireAndLoadInv ==
  ASSUME IInv, NEW t \in Thread, AcquireAndLoad(t)
  PROVE  IInv'
<1> DEFINE r == thread[t]
           a == GetActiveSession
           r2 == IF a = 0 THEN UpdateReturn(t, r)
                 ELSE [r EXCEPT !.pc = IF AtomicWrites THEN "write" ELSE "truncate",
                                !.tgt = a, !.buf = Updated(activeDir[a], t[1], r)]
<1>1. r \in ThreadState /\ ControlOf(t, r) /\ r.pc = "acquire" /\ r.sid \in Session
  BY DEF IInv, TypeOK, ControlOK, ControlOf, AcquireAndLoad, LockPC
<1>2. GoodStep(t, r2)
  <2>1. CASE a = 0
    BY <1>1, <2>1, UpdateReturnGood DEF LockPC
  <2>2. CASE a # 0
    <3>1. a \in Session /\ activeDir[a] \in SessionData
      BY <2>2, ActiveSessionReadable DEF IInv
    <3>2. t[1] \in Instance
      BY ParametersAssumption DEF Thread
    <3>3. Updated(activeDir[a], t[1], r) \in SessionData
      BY <1>1, <3>1, <3>2, UpdatedType
    <3> DEFINE b == Updated(activeDir[a], t[1], r)
    <3>4. b \in SessionData
      BY <3>3
    <3>5. a \in 0..MaxSession
      BY <3>1, ParametersAssumption DEF Session
    <3> HIDE DEF b, a, r
    <3>6. \A p \in {"write", "truncate"} : GoodStep(t, [r EXCEPT !.pc = p, !.tgt = a, !.buf = b])
      BY <1>1, <3>1, <3>4, <3>5 DEF GoodStep, ControlOf, ThreadState, PC, LoopPC, TaskPC, LockPC
    <3> QED
      BY <2>2, <3>6 DEF b
  <2> QED
    BY <2>1, <2>2
<1>3. thread' = [thread EXCEPT ![t] = r2]
  BY DEF AcquireAndLoad
<1>4. TakeLock(t, r.sid) /\ UNCHANGED <<files, runnerVars, submitVars, envVars>>
  BY DEF AcquireAndLoad
<1> HIDE DEF r, r2
<1>5. thread' \in [Thread -> ThreadState] /\ ControlOK' /\ TaskTracked'
  <2>1. thread[t].pc # "idle" /\ UNCHANGED running
    BY <1>1, <1>4 DEF r, runnerVars
  <2> QED
    BY <1>2, <1>3, <2>1, OneThreadStep
<1>6. /\ lockFile' \in [Session -> Thread \cup {Free}]
      /\ sessionLock' \in [Runner -> [by : Thread \cup {NoThread}, sid : 0..MaxSession]]
  BY <1>1, <1>4, LockTypes DEF IInv
<1> QED
  BY <1>4, <1>5, <1>6 DEF IInv, TypeOK, files, runnerVars, submitVars, envVars

\* The 60 s wait of UpdateActiveSessionAsync.
LEMMA AcquireTimesOutInv ==
  ASSUME IInv, NEW t \in Thread, AcquireTimesOut(t)
  PROVE  IInv'
<1> DEFINE r == thread[t]
<1>1. r \in ThreadState /\ ControlOf(t, r) /\ r.pc = "acquire" /\ r.sid \in Session
  BY DEF IInv, TypeOK, ControlOK, ControlOf, AcquireTimesOut, LockPC
<1>2. GoodStep(t, UpdateReturn(t, r))
  BY <1>1, UpdateReturnGood DEF LockPC
<1>3. thread' = [thread EXCEPT ![t] = UpdateReturn(t, r)]
  BY DEF AcquireTimesOut
<1>4. /\ GiveUpOnLock(t, r.sid)
      /\ UNCHANGED <<files, lockFile, runnerVars, submitVars, envVars>>
  BY DEF AcquireTimesOut
<1>5. thread' \in [Thread -> ThreadState] /\ ControlOK' /\ TaskTracked'
  <2>1. thread[t].pc # "idle" /\ UNCHANGED running
    BY <1>1, <1>4 DEF runnerVars
  <2> QED
    BY <1>2, <1>3, <2>1, OneThreadStep
<1>6. sessionLock' \in [Runner -> [by : Thread \cup {NoThread}, sid : 0..MaxSession]]
  BY <1>1, <1>4, LockTypes DEF IInv
<1> QED
  BY <1>4, <1>5, <1>6 DEF IInv, TypeOK, files, runnerVars, submitVars, envVars

\* FileMode.Create.
LEMMA TruncateInv ==
  ASSUME IInv, NEW t \in Thread, Truncate(t)
  PROVE  IInv'
<1> DEFINE r == thread[t]
<1>1. r \in ThreadState /\ ControlOf(t, r) /\ r.pc = "truncate"
  BY DEF IInv, TypeOK, ControlOK, Truncate
<1>2. GoodStep(t, [r EXCEPT !.pc = "write"])
  BY <1>1 DEF GoodStep, ControlOf, ThreadState, PC, LoopPC, TaskPC, LockPC
<1>3. thread' = [thread EXCEPT ![t] = [r EXCEPT !.pc = "write"]]
  BY DEF Truncate, Goto
<1>4. thread' \in [Thread -> ThreadState] /\ ControlOK' /\ TaskTracked'
  <2>1. thread[t].pc # "idle" /\ UNCHANGED running
    BY <1>1 DEF runnerVars, Truncate
  <2> QED
    BY <1>2, <1>3, <2>1, OneThreadStep
<1>5. activeDir' \in [Session -> File]
  BY FileTypes DEF IInv, Truncate, File
<1> QED
  BY <1>4, <1>5 DEF IInv, TypeOK, Truncate, runnerVars, submitVars, envVars

\* The write of UpdateActiveSessionAsync and its release of the lock.
LEMMA WriteAndReleaseInv ==
  ASSUME IInv, NEW t \in Thread, WriteAndRelease(t)
  PROVE  IInv'
<1> DEFINE r == thread[t]
<1>1. /\ r \in ThreadState /\ ControlOf(t, r) /\ r.pc = "write"
      /\ r.buf \in SessionData /\ r.sid \in Session
  BY DEF IInv, TypeOK, ControlOK, ControlOf, WriteAndRelease, LockPC
<1>2. GoodStep(t, UpdateReturn(t, r))
  BY <1>1, UpdateReturnGood DEF LockPC
<1>3. thread' = [thread EXCEPT ![t] = UpdateReturn(t, r)]
  BY DEF WriteAndRelease
<1>4. /\ activeDir' = [activeDir EXCEPT ![r.tgt] = r.buf]
      /\ ReleaseSessionLock(t[1])
      /\ UNCHANGED <<completedDir, runnerVars, submitVars, envVars>>
  BY DEF WriteAndRelease
<1>5. thread' \in [Thread -> ThreadState] /\ ControlOK' /\ TaskTracked'
  <2>1. thread[t].pc # "idle" /\ UNCHANGED running
    BY <1>1, <1>4 DEF runnerVars
  <2> QED
    BY <1>2, <1>3, <2>1, OneThreadStep
<1>6. activeDir' \in [Session -> File]
  BY <1>1, <1>4, FileTypes DEF IInv, File
<1>7. /\ lockFile' \in [Session -> Thread \cup {Free}]
      /\ sessionLock' \in [Runner -> [by : Thread \cup {NoThread}, sid : 0..MaxSession]]
  BY <1>1, <1>4, LockTypes DEF IInv
<1> QED
  BY <1>4, <1>5, <1>6, <1>7 DEF IInv, TypeOK, runnerVars, submitVars, envVars

\* The test of File.Exists before the move.
LEMMA CheckFileExistsInv ==
  ASSUME IInv, NEW t \in Thread, CheckFileExists(t)
  PROVE  IInv'
<1> DEFINE r == thread[t]
           r2 == IF activeDir[r.sid] = Missing THEN MarkReturn(t, r) ELSE [r EXCEPT !.pc = "acquireMove"]
<1>1. r \in ThreadState /\ ControlOf(t, r) /\ r.pc \in {"exists"}
  BY DEF IInv, TypeOK, ControlOK, CheckFileExists
<1>2. GoodStep(t, r2)
  <2>1. GoodStep(t, MarkReturn(t, r))
    BY <1>1, MarkReturnGood DEF LockPC
  <2>2. GoodStep(t, [r EXCEPT !.pc = "acquireMove"])
    BY <1>1 DEF GoodStep, ControlOf, ThreadState, PC, LoopPC, TaskPC, LockPC
  <2> QED
    BY <2>1, <2>2
<1>3. thread' = [thread EXCEPT ![t] = r2]
  BY DEF CheckFileExists, Goto, EndLoop
<1>4. UNCHANGED <<files, lockFile, sessionLock, runnerVars, submitVars, envVars>>
  BY DEF CheckFileExists
<1> HIDE DEF r2
<1>5. thread' \in [Thread -> ThreadState] /\ ControlOK' /\ TaskTracked'
  <2>1. (~IsLoop(t) => thread[t].pc # "idle") /\ UNCHANGED running
    BY <1>1, <1>4 DEF runnerVars
  <2> QED
    BY <1>2, <1>3, <2>1, OneThreadStep
<1> QED
  BY <1>4, <1>5 DEF IInv, TypeOK, files, runnerVars, submitVars, envVars

\* The acquisition of the lock for the move.
LEMMA AcquireForMoveInv ==
  ASSUME IInv, NEW t \in Thread, AcquireForMove(t)
  PROVE  IInv'
<1> DEFINE r == thread[t]
           r2 == [r EXCEPT !.pc = "move"]
<1>1. r \in ThreadState /\ ControlOf(t, r) /\ r.pc \in {"acquireMove"}
  BY DEF IInv, TypeOK, ControlOK, AcquireForMove
<1>2. GoodStep(t, r2)
  BY <1>1 DEF GoodStep, ControlOf, ThreadState, PC, LoopPC, TaskPC, LockPC
<1>3. thread' = [thread EXCEPT ![t] = r2]
  BY DEF AcquireForMove, Goto, EndLoop
<1>4. UNCHANGED <<files, runnerVars, submitVars, envVars>>
  BY DEF AcquireForMove
<1> HIDE DEF r2
<1>5. thread' \in [Thread -> ThreadState] /\ ControlOK' /\ TaskTracked'
  <2>1. (~IsLoop(t) => thread[t].pc # "idle") /\ UNCHANGED running
    BY <1>1, <1>4 DEF runnerVars
  <2> QED
    BY <1>2, <1>3, <2>1, OneThreadStep
<1>6. /\ lockFile' \in [Session -> Thread \cup {Free}]
      /\ sessionLock' \in [Runner -> [by : Thread \cup {NoThread}, sid : 0..MaxSession]]
  <2>1. r.sid \in Session /\ TakeLock(t, r.sid)
    BY <1>1 DEF ControlOf, LockPC, AcquireForMove
  <2> QED
    BY <2>1, LockTypes DEF IInv
<1> QED
  BY <1>4, <1>5, <1>6 DEF IInv, TypeOK, files, runnerVars, submitVars, envVars

\* The 60 s wait before the move.
LEMMA AcquireForMoveTimesOutInv ==
  ASSUME IInv, NEW t \in Thread, AcquireForMoveTimesOut(t)
  PROVE  IInv'
<1> DEFINE r == thread[t]
           r2 == MarkReturn(t, r)
<1>1. r \in ThreadState /\ ControlOf(t, r) /\ r.pc \in {"acquireMove"}
  BY DEF IInv, TypeOK, ControlOK, AcquireForMoveTimesOut
<1>2. GoodStep(t, r2)
  BY <1>1, MarkReturnGood DEF LockPC
<1>3. thread' = [thread EXCEPT ![t] = r2]
  BY DEF AcquireForMoveTimesOut, Goto, EndLoop
<1>4. UNCHANGED <<files, lockFile, runnerVars, submitVars, envVars>>
  BY DEF AcquireForMoveTimesOut
<1> HIDE DEF r2
<1>5. thread' \in [Thread -> ThreadState] /\ ControlOK' /\ TaskTracked'
  <2>1. (~IsLoop(t) => thread[t].pc # "idle") /\ UNCHANGED running
    BY <1>1, <1>4 DEF runnerVars
  <2> QED
    BY <1>2, <1>3, <2>1, OneThreadStep
<1>6. sessionLock' \in [Runner -> [by : Thread \cup {NoThread}, sid : 0..MaxSession]]
  <2>1. r.sid \in Session /\ GiveUpOnLock(t, r.sid)
    BY <1>1 DEF ControlOf, LockPC, AcquireForMoveTimesOut
  <2> QED
    BY <2>1, LockTypes DEF IInv
<1> QED
  BY <1>4, <1>5, <1>6 DEF IInv, TypeOK, files, runnerVars, submitVars, envVars

\* The move to CompletedSessions.
LEMMA MoveToCompletedInv ==
  ASSUME IInv, NEW t \in Thread, MoveToCompleted(t)
  PROVE  IInv'
<1> DEFINE r == thread[t]
           r2 == MarkReturn(t, r)
<1>1. r \in ThreadState /\ ControlOf(t, r) /\ r.pc \in {"move"}
  BY DEF IInv, TypeOK, ControlOK, MoveToCompleted
<1>2. GoodStep(t, r2)
  BY <1>1, MarkReturnGood DEF LockPC
<1>3. thread' = [thread EXCEPT ![t] = r2]
  BY DEF MoveToCompleted, Goto, EndLoop
<1>4. UNCHANGED <<runnerVars, submitVars, envVars>>
  BY DEF MoveToCompleted
<1> HIDE DEF r2
<1>5. thread' \in [Thread -> ThreadState] /\ ControlOK' /\ TaskTracked'
  <2>1. (~IsLoop(t) => thread[t].pc # "idle") /\ UNCHANGED running
    BY <1>1, <1>4 DEF runnerVars
  <2> QED
    BY <1>2, <1>3, <2>1, OneThreadStep
<1>6. /\ lockFile' \in [Session -> Thread \cup {Free}]
      /\ sessionLock' \in [Runner -> [by : Thread \cup {NoThread}, sid : 0..MaxSession]]
  <2>1. r.sid \in Session /\ ReleaseSessionLock(t[1])
    BY <1>1 DEF ControlOf, LockPC, MoveToCompleted
  <2> QED
    BY <2>1, LockTypes DEF IInv
<1>7. activeDir' \in [Session -> File] /\ completedDir' \in [Session -> File]
  <2>1. r.sid \in Session /\ MoveFile(r.sid)
    BY <1>1 DEF ControlOf, LockPC, MoveToCompleted
  <2>2. activeDir[r.sid] \in File
    BY <2>1 DEF IInv, TypeOK
  <2> QED
    BY <2>1, <2>2, FileTypes DEF IInv, MoveFile, File
<1> QED
  BY <1>4, <1>5, <1>6, <1>7 DEF IInv, TypeOK, runnerVars, submitVars, envVars

\* A move that throws.
LEMMA MoveFailsInv ==
  ASSUME IInv, NEW t \in Thread, MoveFails(t)
  PROVE  IInv'
<1> DEFINE r == thread[t]
           r2 == MarkReturn(t, r)
<1>1. r \in ThreadState /\ ControlOf(t, r) /\ r.pc \in {"move"}
  BY DEF IInv, TypeOK, ControlOK, MoveFails
<1>2. GoodStep(t, r2)
  BY <1>1, MarkReturnGood DEF LockPC
<1>3. thread' = [thread EXCEPT ![t] = r2]
  BY DEF MoveFails, Goto, EndLoop
<1>4. UNCHANGED <<runnerVars, submitVars, age, deleted, crashes>>
  BY DEF MoveFails
<1> HIDE DEF r2
<1>5. thread' \in [Thread -> ThreadState] /\ ControlOK' /\ TaskTracked'
  <2>1. (~IsLoop(t) => thread[t].pc # "idle") /\ UNCHANGED running
    BY <1>1, <1>4 DEF runnerVars
  <2> QED
    BY <1>2, <1>3, <2>1, OneThreadStep
<1>6. /\ lockFile' \in [Session -> Thread \cup {Free}]
      /\ sessionLock' \in [Runner -> [by : Thread \cup {NoThread}, sid : 0..MaxSession]]
  <2>1. r.sid \in Session /\ ReleaseSessionLock(t[1])
    BY <1>1 DEF ControlOf, LockPC, MoveFails
  <2> QED
    BY <2>1, LockTypes DEF IInv
<1>7. activeDir' \in [Session -> File] /\ completedDir' \in [Session -> File]
  <2>1. activeDir' = activeDir /\ completedDir' = [completedDir EXCEPT ![r.sid] = Missing]
    BY DEF MoveFails
  <2> QED
    BY <2>1, FileTypes DEF IInv, TypeOK, File
<1>8. moveFails' \in 0..MaxMoveFail
  BY ParametersAssumption DEF IInv, TypeOK, MoveFails
<1> QED
  BY <1>4, <1>5, <1>6, <1>7, <1>8 DEF IInv, TypeOK, runnerVars, submitVars, envVars

\* CheckandCompleteSessionIfNeededAsync.
LEMMA CheckAndCompleteInv ==
  ASSUME IInv, NEW t \in Thread, CheckAndComplete(t)
  PROVE  IInv'
<1> DEFINE r == thread[t]
           r2 == IF GetActiveSession # 0 /\ AllInstancesFinished(activeDir[GetActiveSession])
                 THEN Calling(r, "Mark", GetActiveSession, FALSE)
                 ELSE IF ~IsLoop(t) THEN [IdleThread EXCEPT !.pc = "done"]
                 ELSE IF GetActiveSession = 0 THEN IdleThread
                 ELSE [r EXCEPT !.pc = "orphans"]
<1>1. r \in ThreadState /\ ControlOf(t, r) /\ r.pc \in {"check", "finish"}
  BY DEF IInv, TypeOK, ControlOK, CheckAndComplete
<1>2. GoodStep(t, r2)
  <2>1. IsLoop(t) => r.cur \in Session
    BY <1>1 DEF ControlOf
  <2>2. GetActiveSession # 0 => GoodStep(t, Calling(r, "Mark", GetActiveSession, FALSE))
    BY <1>1, <2>1, ActiveSessionReadable, CallingGood DEF IInv, Update
  <2>3. ~IsLoop(t) => GoodStep(t, [IdleThread EXCEPT !.pc = "done"])
    BY IdleType DEF GoodStep, ControlOf, IdleThread, ThreadState, PC, TaskPC, LockPC, Update
  <2>4. IsLoop(t) => GoodStep(t, IdleThread)
    BY IdleType DEF GoodStep, ControlOf, IdleThread, LoopPC, LockPC
  <2>5. IsLoop(t) => GoodStep(t, [r EXCEPT !.pc = "orphans"])
    BY <1>1, <2>1 DEF GoodStep, ControlOf, ThreadState, PC, LoopPC, LockPC
  <2> QED
    BY <2>2, <2>3, <2>4, <2>5
<1>3. thread' = [thread EXCEPT ![t] = r2]
  BY DEF CheckAndComplete, Goto, EndLoop
<1>4. UNCHANGED <<files, lockFile, sessionLock, runnerVars, submitVars, envVars>>
  BY DEF CheckAndComplete
<1> HIDE DEF r2
<1>5. thread' \in [Thread -> ThreadState] /\ ControlOK' /\ TaskTracked'
  <2>1. (~IsLoop(t) => thread[t].pc # "idle") /\ UNCHANGED running
    BY <1>1, <1>4 DEF runnerVars
  <2> QED
    BY <1>2, <1>3, <2>1, OneThreadStep
<1> QED
  BY <1>4, <1>5 DEF IInv, TypeOK, files, runnerVars, submitVars, envVars

\* CancelOrphanedInstancesIfNeeded up to its update.
LEMMA CancelOrphanedInv ==
  ASSUME IInv, NEW t \in Thread, CancelOrphaned(t)
  PROVE  IInv'
<1> DEFINE r == thread[t]
           r2 == IF age[r.cur] >= 1 /\ GetActiveSession # 0
                     /\ activeDir[GetActiveSession].targets \ Present(activeDir[GetActiveSession]) # {}
                 THEN [Calling(r, "Orphan", GetActiveSession, FALSE)
                        EXCEPT !.names = activeDir[GetActiveSession].targets \ Present(activeDir[GetActiveSession])]
                 ELSE [r EXCEPT !.pc = "limits"]
<1>1. r \in ThreadState /\ ControlOf(t, r) /\ r.pc \in {"orphans"}
  BY DEF IInv, TypeOK, ControlOK, CancelOrphaned
<1>2. GoodStep(t, r2)
  <2>1. IsLoop(t) /\ r.cur \in Session
    BY <1>1 DEF ControlOf, TaskPC
  <2>2. GoodStep(t, [r EXCEPT !.pc = "limits"])
    BY <1>1, <2>1 DEF GoodStep, ControlOf, ThreadState, PC, LoopPC, LockPC
  <2>3. ASSUME GetActiveSession # 0, NEW N \in SUBSET Instance
        PROVE  GoodStep(t, [Calling(r, "Orphan", GetActiveSession, FALSE) EXCEPT !.names = N])
    <3> DEFINE c == Calling(r, "Orphan", GetActiveSession, FALSE)
    <3>1. GoodStep(t, c)
      BY <1>1, <2>1, <2>3, ActiveSessionReadable, CallingGood DEF IInv, Update
    <3> HIDE DEF c
    <3>2. GoodStep(t, [c EXCEPT !.names = N])
      BY <3>1 DEF GoodStep, ControlOf, ThreadState
    <3> QED
      BY <3>2 DEF c
  <2>4. GetActiveSession # 0 =>
          activeDir[GetActiveSession].targets \ Present(activeDir[GetActiveSession]) \in SUBSET Instance
    BY ActiveSessionReadable DEF IInv, SessionData
  <2> QED
    BY <2>2, <2>3, <2>4
<1>3. thread' = [thread EXCEPT ![t] = r2]
  BY DEF CancelOrphaned, Goto, EndLoop
<1>4. UNCHANGED <<files, lockFile, sessionLock, runnerVars, submitVars, envVars>>
  BY DEF CancelOrphaned
<1> HIDE DEF r2
<1>5. thread' \in [Thread -> ThreadState] /\ ControlOK' /\ TaskTracked'
  <2>1. (~IsLoop(t) => thread[t].pc # "idle") /\ UNCHANGED running
    BY <1>1, <1>4 DEF runnerVars
  <2> QED
    BY <1>2, <1>3, <2>1, OneThreadStep
<1> QED
  BY <1>4, <1>5 DEF IInv, TypeOK, files, runnerVars, submitVars, envVars

\* The time limit of the polling loop.
LEMMA EnforceTimeLimitInv ==
  ASSUME IInv, NEW t \in Thread, EnforceTimeLimit(t)
  PROVE  IInv'
<1> DEFINE r == thread[t]
           r2 == IF age[r.cur] = 3 /\ ~(r.cur \in running[t[1]]) /\ GetActiveSession # 0
                 THEN Calling(r, "Mark", GetActiveSession, TRUE)
                 ELSE [r EXCEPT !.pc = "collectCheck"]
<1>1. r \in ThreadState /\ ControlOf(t, r) /\ r.pc \in {"limits"}
  BY DEF IInv, TypeOK, ControlOK, EnforceTimeLimit
<1>2. GoodStep(t, r2)
  <2>1. IsLoop(t) /\ r.cur \in Session
    BY <1>1 DEF ControlOf, TaskPC
  <2>2. GoodStep(t, [r EXCEPT !.pc = "collectCheck"])
    BY <1>1, <2>1 DEF GoodStep, ControlOf, ThreadState, PC, LoopPC, LockPC
  <2>3. GetActiveSession # 0 => GoodStep(t, Calling(r, "Mark", GetActiveSession, TRUE))
    BY <1>1, <2>1, ActiveSessionReadable, CallingGood DEF IInv, Update
  <2> QED
    BY <2>2, <2>3
<1>3. thread' = [thread EXCEPT ![t] = r2]
  BY DEF EnforceTimeLimit, Goto, EndLoop
<1>4. UNCHANGED <<files, lockFile, sessionLock, running, submitVars, envVars>>
  BY DEF EnforceTimeLimit, CancelTask, runnerVars
<1> HIDE DEF r2
<1>5. thread' \in [Thread -> ThreadState] /\ ControlOK' /\ TaskTracked'
  <2>1. (~IsLoop(t) => thread[t].pc # "idle") /\ UNCHANGED running
    BY <1>1, <1>4 DEF runnerVars
  <2> QED
    BY <1>2, <1>3, <2>1, OneThreadStep
<1>6. cancelled' \in [Runner -> SUBSET Session]
  <2>1. r.cur \in running[t[1]] => r.cur \in Session
    BY <1>1 DEF ControlOf, TaskPC
  <2> QED
    BY <2>1 DEF IInv, TypeOK, EnforceTimeLimit, CancelTask, runnerVars
<1> QED
  BY <1>4, <1>5, <1>6 DEF IInv, TypeOK, files, submitVars, envVars

\* A round of the loop that starts no task.
LEMMA SkipTaskInv ==
  ASSUME IInv, NEW t \in Thread, SkipTask(t)
  PROVE  IInv'
<1> DEFINE r == thread[t]
           r2 == IdleThread
<1>1. r \in ThreadState /\ ControlOf(t, r) /\ r.pc \in {"collectCheck"}
  BY DEF IInv, TypeOK, ControlOK, SkipTask
<1>2. GoodStep(t, r2)
  <2>1. IsLoop(t)
    BY <1>1 DEF ControlOf, TaskPC
  <2> QED
    BY <2>1, IdleType DEF GoodStep, ControlOf, IdleThread, LoopPC, LockPC
<1>3. thread' = [thread EXCEPT ![t] = r2]
  BY DEF SkipTask, Goto, EndLoop
<1>4. UNCHANGED <<files, lockFile, sessionLock, runnerVars, submitVars, envVars>>
  BY DEF SkipTask
<1> HIDE DEF r2
<1>5. thread' \in [Thread -> ThreadState] /\ ControlOK' /\ TaskTracked'
  <2>1. (~IsLoop(t) => thread[t].pc # "idle") /\ UNCHANGED running
    BY <1>1, <1>4 DEF runnerVars
  <2> QED
    BY <1>2, <1>3, <2>1, OneThreadStep
<1> QED
  BY <1>4, <1>5 DEF IInv, TypeOK, files, runnerVars, submitVars, envVars

\* The end of the collection.
LEMMA CollectLogsInv ==
  ASSUME IInv, NEW t \in Thread, NEW ok \in BOOLEAN, CollectLogs(t, ok)
  PROVE  IInv'
<1> DEFINE r == thread[t]
           r2 == Calling(r, "Append", t[2], ok)
<1>1. r \in ThreadState /\ ControlOf(t, r) /\ r.pc \in {"collecting"}
  BY DEF IInv, TypeOK, ControlOK, CollectLogs
<1>2. GoodStep(t, r2)
  <2>1. ~IsLoop(t) /\ t[2] \in Session
    BY <1>1, TaskSession DEF ControlOf, LoopPC
  <2> QED
    BY <1>1, <2>1, CallingGood DEF Update
<1>3. thread' = [thread EXCEPT ![t] = r2]
  BY DEF CollectLogs, Goto, EndLoop
<1>4. UNCHANGED <<files, lockFile, sessionLock, runnerVars, submitVars, envVars>>
  BY DEF CollectLogs
<1> HIDE DEF r2
<1>5. thread' \in [Thread -> ThreadState] /\ ControlOK' /\ TaskTracked'
  <2>1. (~IsLoop(t) => thread[t].pc # "idle") /\ UNCHANGED running
    BY <1>1, <1>4 DEF runnerVars
  <2> QED
    BY <1>2, <1>3, <2>1, OneThreadStep
<1> QED
  BY <1>4, <1>5 DEF IInv, TypeOK, files, runnerVars, submitVars, envVars

\* The analysis.
LEMMA AnalyzeLogsInv ==
  ASSUME IInv, NEW t \in Thread, AnalyzeLogs(t)
  PROVE  IInv'
<1> DEFINE r == thread[t]
           r2 == IF GetActiveSession = 0 THEN Calling(r, "Complete", t[2], FALSE)
                 ELSE IF activeDir[GetActiveSession].mode = "Collect" THEN Calling(r, "Complete", t[2], FALSE)
                 ELSE IF activeDir[GetActiveSession].inst[t[1]].st = Absent THEN [IdleThread EXCEPT !.pc = "done"]
                 ELSE Calling(r, "Reports", GetActiveSession, activeDir[GetActiveSession].inst[t[1]].logs)
<1>1. r \in ThreadState /\ ControlOf(t, r) /\ r.pc \in {"analyze"}
  BY DEF IInv, TypeOK, ControlOK, AnalyzeLogs
<1>2. GoodStep(t, r2)
  <2>1. ~IsLoop(t) /\ t[2] \in Session /\ t[1] \in Instance
    BY <1>1, TaskSession, ParametersAssumption DEF ControlOf, LoopPC, Thread
  <2>2. GoodStep(t, Calling(r, "Complete", t[2], FALSE))
    BY <1>1, <2>1, CallingGood DEF Update
  <2>3. GoodStep(t, [IdleThread EXCEPT !.pc = "done"])
    BY <2>1, IdleType DEF GoodStep, ControlOf, IdleThread, ThreadState, PC, TaskPC, LockPC, Update
  <2>4. ASSUME GetActiveSession # 0
        PROVE  GoodStep(t, Calling(r, "Reports", GetActiveSession, activeDir[GetActiveSession].inst[t[1]].logs))
    <3>1. /\ GetActiveSession \in Session
          /\ activeDir[GetActiveSession].inst[t[1]].logs \in BOOLEAN
      BY <2>1, <2>4, ActiveSessionReadable DEF IInv, SessionData, Entry
    <3> QED
      BY <1>1, <2>1, <3>1, CallingGood DEF Update
  <2> QED
    BY <2>2, <2>3, <2>4
<1>3. thread' = [thread EXCEPT ![t] = r2]
  BY DEF AnalyzeLogs, Goto, EndLoop
<1>4. UNCHANGED <<files, lockFile, sessionLock, runnerVars, submitVars, envVars>>
  BY DEF AnalyzeLogs
<1> HIDE DEF r2
<1>5. thread' \in [Thread -> ThreadState] /\ ControlOK' /\ TaskTracked'
  <2>1. (~IsLoop(t) => thread[t].pc # "idle") /\ UNCHANGED running
    BY <1>1, <1>4 DEF runnerVars
  <2> QED
    BY <1>2, <1>3, <2>1, OneThreadStep
<1> QED
  BY <1>4, <1>5 DEF IInv, TypeOK, files, runnerVars, submitVars, envVars

\* A round of the polling loop starts.
LEMMA PollInv ==
  ASSUME IInv, NEW i \in Runner, Poll(i)
  PROVE  IInv'
<1> DEFINE t == <<i, 0>>
           a == GetActiveSession
           r2 == [IdleThread EXCEPT
                   !.pc = IF a \in running[i] THEN "orphans" ELSE "check",
                   !.cur = a,
                   !.seen = IF i \in activeDir[a].targets THEN activeDir[a].inst[i].st
                            ELSE NotRequested]
<1>1. t \in Thread /\ IsLoop(t) /\ i \in Instance
  BY ParametersAssumption, ZeroIsNoSession DEF Thread, IsLoop
<1>2. a \in Session /\ a \in 0..MaxSession /\ activeDir[a] \in SessionData
  BY ActiveSessionReadable DEF IInv, Poll
<1>3. GoodStep(t, r2)
  <2> DEFINE st == IF i \in activeDir[a].targets THEN activeDir[a].inst[i].st ELSE NotRequested
             p == IF a \in running[i] THEN "orphans" ELSE "check"
  <2>1. st \in InstanceStatus \cup {Absent, NotRequested}
    BY <1>1, <1>2 DEF SessionData, Entry
  <2>2. p \in {"orphans", "check"}
    OBVIOUS
  <2> HIDE DEF a, st, p
  <2>3. GoodStep(t, [IdleThread EXCEPT !.pc = p, !.cur = a, !.seen = st])
    BY <1>1, <1>2, <2>1, <2>2, IdleType DEF GoodStep, ControlOf, IdleThread, ThreadState, PC, LoopPC, LockPC
  <2> QED
    BY <2>3 DEF st, p, a
<1>4. thread' = [thread EXCEPT ![t] = r2]
  BY DEF Poll
<1>5. UNCHANGED <<files, lockFile, sessionLock, runnerVars, submitVars, envVars>>
  BY DEF Poll
<1> HIDE DEF r2, t
<1>6. thread' \in [Thread -> ThreadState] /\ ControlOK' /\ TaskTracked'
  <2>1. UNCHANGED running
    BY <1>5 DEF runnerVars
  <2> QED
    BY <1>1, <1>3, <1>4, <2>1, OneThreadStep
<1> QED
  BY <1>5, <1>6 DEF IInv, TypeOK, files, runnerVars, submitVars, envVars

\* A task is started, the finished ones are forgotten.
LEMMA StartTaskInv ==
  ASSUME IInv, NEW t \in Thread, StartTask(t)
  PROVE  IInv'
<1> DEFINE r == thread[t]
           i == t[1]
           old == FinishedTasks(i)
           k == <<i, r.cur>>
<1>1. r \in ThreadState /\ ControlOf(t, r) /\ r.pc = "collectCheck"
  BY DEF IInv, TypeOK, ControlOK, StartTask
<1>2. /\ IsLoop(t) /\ r.cur \in Session /\ i \in Runner /\ t = <<i, 0>>
      /\ r.cur \notin running[i] /\ r.seen \in InstanceStatus \cup {Absent}
  BY <1>1 DEF ControlOf, TaskPC, StartTask, ShouldStart, Thread, IsLoop, ThreadState
<1>3. k \in Thread /\ ~IsLoop(k) /\ k # t /\ k[1] = i /\ k[2] = r.cur
  BY <1>2, ParametersAssumption DEF Thread, IsLoop, Session
<1>4. GoodStep(k, StartedTask(r.cur, r.seen))
  <2> DEFINE x == [IdleThread EXCEPT !.seen = r.seen]
  <2>1. x \in ThreadState
    BY <1>2, IdleType DEF IdleThread, ThreadState
  <2> HIDE DEF x, k
  <2>2. \A o \in {"Started", "Analyzing"} : GoodStep(k, Calling(x, o, r.cur, FALSE))
    BY <1>2, <1>3, <2>1, CallingGood DEF Update
  <2> QED
    BY <2>2 DEF StartedTask, x
<1>5. GoodStep(t, IdleThread)
  BY <1>2, IdleType DEF GoodStep, ControlOf, IdleThread, LoopPC, LockPC
<1>6. \A u \in Thread : ~IsLoop(u) => IdleThread \in ThreadState /\ ControlOf(u, IdleThread)
  BY IdleType DEF ControlOf, IdleThread, TaskPC, LockPC, Update
<1>7. old \subseteq Session /\ old \subseteq running[i] /\ running[i] \subseteq Session
  BY <1>2 DEF IInv, TypeOK, FinishedTasks
<1>8. \A u \in Thread : thread'[u] = IF u = t \/ (u[1] = i /\ u[2] \in old) THEN IdleThread
                                     ELSE IF u = k THEN StartedTask(r.cur, r.seen) ELSE thread[u]
  BY DEF StartTask
<1>9. thread' = [u \in Thread |-> thread'[u]]
  BY DEF StartTask
<1>10. running' = [running EXCEPT ![i] = (running[i] \ old) \cup {r.cur}]
  BY DEF StartTask
<1>11. \A u \in Thread : u # t /\ u[1] = i /\ u[2] \in old => ~IsLoop(u)
  BY <1>7, ParametersAssumption DEF IsLoop, Session
<1>12. \A u \in Thread : thread[u] \in ThreadState /\ ControlOf(u, thread[u])
  BY DEF IInv, TypeOK, ControlOK
<1> HIDE DEF r, i, old, k
<1>13. \A u \in Thread : thread'[u] \in ThreadState /\ ControlOf(u, thread'[u])
  <2> SUFFICES ASSUME NEW u \in Thread
               PROVE  thread'[u] \in ThreadState /\ ControlOf(u, thread'[u])
    OBVIOUS
  <2>1. CASE u = t
    BY <1>5, <1>8, <2>1 DEF GoodStep
  <2>2. CASE u # t /\ ~(u[1] = i /\ u[2] \in old) /\ u = k
    BY <1>4, <1>8, <2>2 DEF GoodStep
  <2>3. CASE u # t /\ u[1] = i /\ u[2] \in old
    BY <1>6, <1>8, <1>11, <2>3
  <2>4. CASE u # t /\ u # k /\ ~(u[1] = i /\ u[2] \in old)
    BY <1>8, <1>12, <2>4
  <2> QED
    BY <2>1, <2>2, <2>3, <2>4
<1>14. thread' \in [Thread -> ThreadState] /\ ControlOK'
  BY <1>9, <1>13 DEF ControlOK, ControlOf
<1>15. running' \in [Runner -> SUBSET Session]
  BY <1>2, <1>7, <1>10 DEF IInv, TypeOK
<1>16. cancelled' \in [Runner -> SUBSET Session]
  BY <1>2 DEF IInv, TypeOK, StartTask, r, i
<1>17. TaskTracked'
  <2> SUFFICES ASSUME NEW j \in Runner, NEW s \in Session
               PROVE  thread'[<<j, s>>].pc # "idle" <=> s \in running'[j]
    BY DEF TaskTracked
  <2> DEFINE u == <<j, s>>
  <2>1. u \in Thread /\ u # t /\ u[1] = j /\ u[2] = s
    BY <1>2, ParametersAssumption DEF Thread, Session
  <2>2. thread[u].pc # "idle" <=> s \in running[j]
    BY DEF IInv, TaskTracked
  <2>3. running \in [Runner -> SUBSET Session]
    BY DEF IInv, TypeOK
  <2>4. CASE j # i
    <3>1. u # k /\ running'[j] = running[j]
      BY <1>3, <1>10, <2>1, <2>3, <2>4
    <3> QED
      BY <1>8, <2>1, <2>2, <2>4, <3>1
  <2>5. CASE j = i /\ s = r.cur
    <3>1. u = k /\ thread'[u] = StartedTask(r.cur, r.seen) /\ s \in running'[j]
      BY <1>2, <1>7, <1>8, <1>10, <2>1, <2>3, <2>5 DEF k
    <3> QED
      BY <1>3, <1>4, <3>1 DEF GoodStep
  <2>6. CASE j = i /\ s # r.cur
    <3>1. u # k /\ (s \in running'[j] <=> s \in running[j] /\ s \notin old)
      BY <1>2, <1>3, <1>10, <2>1, <2>3, <2>6
    <3>2. s \in old => thread'[u] = IdleThread
      BY <1>8, <2>1, <2>6, <3>1
    <3>3. s \notin old => thread'[u] = thread[u]
      BY <1>8, <2>1, <2>6, <3>1
    <3> QED
      BY <2>2, <3>1, <3>2, <3>3 DEF IdleThread
  <2> QED
    BY <2>4, <2>5, <2>6
<1> QED
  BY <1>14, <1>15, <1>16, <1>17 DEF IInv, TypeOK, StartTask, files, submitVars, envVars

\* A step that leaves threads and the task table alone keeps what is said of them.
LEMMA ThreadsUnchanged ==
  ASSUME IInv, UNCHANGED <<thread, running>>
  PROVE  ControlOK' /\ TaskTracked'
BY DEF IInv, ControlOK, ControlOf, TaskTracked

\* Every step of a submitting request.
LEMMA SubmitInv ==
  ASSUME IInv, NEW w \in Worker, Submit(w)
  PROVE  IInv'
<1> DEFINE idle == [pc |-> "idle", sid |-> 0, new |-> Missing]
<1>1. idle \in WorkerState
  BY ZeroIsNoSession DEF WorkerState
<1>2. \A p \in {"idle", "checked", "locked", "writing"} :
        [worker EXCEPT ![w].pc = p] \in [Worker -> WorkerState]
  BY DEF IInv, TypeOK, WorkerState
<1>3. worker[w] \in WorkerState
  BY DEF IInv, TypeOK
<1>4. CASE SubmitNewSession(w)
  BY <1>2, <1>4, ThreadsUnchanged
  DEF IInv, TypeOK, SubmitNewSession, files, runnerVars, envVars
<1>5. CASE AcquireActiveSessionLock(w)
  BY <1>2, <1>5, ThreadsUnchanged
  DEF IInv, TypeOK, AcquireActiveSessionLock, files, runnerVars, envVars
<1>6. CASE RefuseUnderLock(w)
  BY <1>2, <1>6, ThreadsUnchanged
  DEF IInv, TypeOK, RefuseUnderLock, files, runnerVars, envVars
<1>7. ASSUME NEW T \in TargetSets, NEW m \in Modes, SaveSession(w, T, m)
      PROVE  IInv'
  <2>1. issued + 1 \in 1..MaxSession
    BY <1>7, ParametersAssumption DEF IInv, TypeOK, SaveSession
  <2>2. NewSession(T, m) \in SessionData
    BY ParametersAssumption DEF NewSession, SessionData, NoEntry, Entry, Absent
  <2>3. [pc |-> "writing", sid |-> issued + 1, new |-> NewSession(T, m)] \in WorkerState
    BY <2>1, <2>2, ParametersAssumption DEF WorkerState
  <2>4. worker' \in [Worker -> WorkerState]
    BY <1>7, <2>3 DEF IInv, TypeOK, SaveSession
  <2>5. activeDir' \in [Session -> File]
    BY <1>7, FileTypes DEF IInv, TypeOK, SaveSession, File
  <2>6. issued' \in 0..MaxSession
    BY <1>7, <2>1, ParametersAssumption DEF SaveSession
  <2> QED
    BY <1>7, <2>4, <2>5, <2>6, ThreadsUnchanged
    DEF IInv, TypeOK, SaveSession, runnerVars, envVars
<1>8. CASE WriteNewSession(w)
  <2>1. activeDir' \in [Session -> File]
    BY <1>3, <1>8, FileTypes DEF IInv, WriteNewSession, WorkerState, File
  <2>2. worker' \in [Worker -> WorkerState]
    BY <1>1, <1>8 DEF IInv, TypeOK, WriteNewSession
  <2> QED
    BY <1>8, <2>1, <2>2, ThreadsUnchanged DEF IInv, TypeOK, WriteNewSession, runnerVars, envVars
<1> QED
  BY <1>4, <1>5, <1>6, <1>7, <1>8 DEF Submit

\* Time, deletion, the finaliser and the crash of a request.
LEMMA EnvironmentInv ==
  ASSUME IInv,
         \/ \E w \in Worker : CrashWorker(w)
         \/ \E s \in Session : FinalizeLock(s) \/ Age(s) \/ DeleteSession(s)
  PROVE  IInv'
<1>1. ASSUME NEW w \in Worker, CrashWorker(w) PROVE IInv'
  <2>1. [pc |-> "idle", sid |-> 0, new |-> Missing] \in WorkerState
    BY ZeroIsNoSession DEF WorkerState
  <2>2. worker' \in [Worker -> WorkerState]
    BY <1>1, <2>1 DEF IInv, TypeOK, CrashWorker
  <2>3. crashes' \in 0..MaxCrash
    BY <1>1, ParametersAssumption DEF IInv, TypeOK, CrashWorker
  <2> QED
    BY <1>1, <2>2, <2>3, ThreadsUnchanged DEF IInv, TypeOK, CrashWorker, files, runnerVars
<1>2. ASSUME NEW s \in Session, FinalizeLock(s) PROVE IInv'
  BY <1>2, ThreadsUnchanged
  DEF IInv, TypeOK, FinalizeLock, files, runnerVars, submitVars, envVars
<1>3. ASSUME NEW s \in Session, Age(s) PROVE IInv'
  <2>1. age[s] + 1 \in 0..3
    BY <1>3, ParametersAssumption DEF IInv, TypeOK, Age
  <2>2. age' \in [Session -> 0..3]
    BY <1>3, <2>1 DEF IInv, TypeOK, Age
  <2> QED
    BY <1>3, <2>2, ThreadsUnchanged DEF IInv, TypeOK, Age, files, runnerVars, submitVars
<1>4. ASSUME NEW s \in Session, DeleteSession(s) PROVE IInv'
  <2>1. completedDir' \in [Session -> File]
    BY <1>4, FileTypes DEF IInv, DeleteSession, File
  <2> QED
    BY <1>4, <2>1, ThreadsUnchanged DEF IInv, TypeOK, DeleteSession, runnerVars, submitVars
<1> QED
  BY <1>1, <1>2, <1>3, <1>4

\* The restart of a runner.
LEMMA CrashRunnerInv ==
  ASSUME IInv, NEW i \in Runner, CrashRunner(i)
  PROVE  IInv'
<1>1. \A u \in Thread : thread'[u] = IF u[1] = i THEN IdleThread ELSE thread[u]
  BY DEF CrashRunner
<1>2. thread' = [u \in Thread |-> thread'[u]]
  BY DEF CrashRunner
<1>3. \A u \in Thread : IdleThread \in ThreadState /\ ControlOf(u, IdleThread)
  BY IdleType DEF ControlOf, IdleThread, LoopPC, TaskPC, LockPC, Update
<1>4. \A u \in Thread : thread[u] \in ThreadState /\ ControlOf(u, thread[u])
  BY DEF IInv, TypeOK, ControlOK
<1>5. thread' \in [Thread -> ThreadState] /\ ControlOK'
  <2>1. \A u \in Thread : thread'[u] \in ThreadState /\ ControlOf(u, thread'[u])
    BY <1>1, <1>3, <1>4
  <2> QED
    BY <1>2, <2>1 DEF ControlOK, ControlOf
<1>6. TaskTracked'
  <2> SUFFICES ASSUME NEW j \in Runner, NEW s \in Session
               PROVE  thread'[<<j, s>>].pc # "idle" <=> s \in running'[j]
    BY DEF TaskTracked
  <2>1. <<j, s>> \in Thread /\ <<j, s>>[1] = j
    BY ParametersAssumption DEF Thread, Session
  <2>2. running' = [running EXCEPT ![i] = {}] /\ running \in [Runner -> SUBSET Session]
    BY DEF CrashRunner, IInv, TypeOK
  <2>3. thread[<<j, s>>].pc # "idle" <=> s \in running[j]
    BY DEF IInv, TaskTracked
  <2>4. CASE j = i
    BY <1>1, <2>1, <2>2, <2>4 DEF IdleThread
  <2>5. CASE j # i
    BY <1>1, <2>1, <2>2, <2>3, <2>5
  <2> QED
    BY <2>4, <2>5
<1>7. NoLock \in [by : Thread \cup {NoThread}, sid : 0..MaxSession]
  BY ZeroIsNoSession DEF NoLock
<1>8. crashes' \in 0..MaxCrash
  BY ParametersAssumption DEF IInv, TypeOK, CrashRunner
<1>9. /\ running' \in [Runner -> SUBSET Session] /\ cancelled' \in [Runner -> SUBSET Session]
      /\ sessionLock' \in [Runner -> [by : Thread \cup {NoThread}, sid : 0..MaxSession]]
      /\ lockFile' \in [Session -> Thread \cup {Free}]
  BY <1>7 DEF IInv, TypeOK, CrashRunner
<1> QED
  BY <1>5, <1>6, <1>8, <1>9 DEF IInv, TypeOK, CrashRunner, files, submitVars

-----------------------------------------------------------------------------
(* The theorems *)

\* The initial states satisfy the invariant.
LEMMA InitIInv == Init => IInv
<1> SUFFICES ASSUME Init PROVE IInv
  OBVIOUS
<1>1. \A u \in Thread : IdleThread \in ThreadState /\ ControlOf(u, IdleThread)
  BY IdleType DEF ControlOf, IdleThread, LoopPC, TaskPC, LockPC, Update
<1>2. ControlOK
  BY <1>1 DEF Init, ControlOK
<1>3. TaskTracked
  <2>1. \A i \in Runner, s \in Session : <<i, s>> \in Thread
    BY ParametersAssumption DEF Thread, Session
  <2> QED
    BY <2>1 DEF Init, TaskTracked, IdleThread
<1>4. NoLock \in [by : Thread \cup {NoThread}, sid : 0..MaxSession]
  BY ZeroIsNoSession DEF NoLock
<1>5. [pc |-> "idle", sid |-> 0, new |-> Missing] \in WorkerState
  BY ZeroIsNoSession DEF WorkerState
<1>6. 0 \in 0..MaxSession /\ 0 \in 0..MaxCrash /\ 0 \in 0..MaxMoveFail /\ 0 \in 0..3
  BY ParametersAssumption
<1>7. TypeOK
  BY <1>1, <1>4, <1>5, <1>6 DEF Init, TypeOK, File
<1> QED
  BY <1>2, <1>3, <1>7 DEF IInv

\* Every step preserves the invariant.
LEMMA NextIInv == IInv /\ [Next]_vars => IInv'
<1> SUFFICES ASSUME IInv, [Next]_vars PROVE IInv'
  OBVIOUS
<1>1. ASSUME NEW t \in Thread, Progress(t) PROVE IInv'
  BY <1>1, AcquireAndLoadInv, AcquireTimesOutInv, TruncateInv, WriteAndReleaseInv,
     CheckFileExistsInv, AcquireForMoveInv, AcquireForMoveTimesOutInv, MoveToCompletedInv,
     CheckAndCompleteInv, CancelOrphanedInv, EnforceTimeLimitInv, StartTaskInv, SkipTaskInv,
     AnalyzeLogsInv
  DEF Progress
<1>2. ASSUME NEW t \in Thread, MoveFails(t) PROVE IInv'
  BY <1>2, MoveFailsInv
<1>3. ASSUME NEW t \in Thread, NEW ok \in BOOLEAN, CollectLogs(t, ok) PROVE IInv'
  BY <1>3, CollectLogsInv
<1>4. ASSUME NEW i \in Runner, Poll(i) PROVE IInv'
  BY <1>4, PollInv
<1>5. ASSUME NEW i \in Runner, CrashRunner(i) PROVE IInv'
  BY <1>5, CrashRunnerInv
<1>6. ASSUME NEW w \in Worker, Submit(w) PROVE IInv'
  BY <1>6, SubmitInv
<1>7. CASE \/ \E w \in Worker : CrashWorker(w)
           \/ \E s \in Session : FinalizeLock(s) \/ Age(s) \/ DeleteSession(s)
  BY <1>7, EnvironmentInv
<1>8. CASE UNCHANGED vars
  BY <1>8 DEF IInv, TypeOK, ControlOK, ControlOf, TaskTracked, vars, files, runnerVars,
              submitVars, envVars
<1> QED
  BY <1>1, <1>2, <1>3, <1>4, <1>5, <1>6, <1>7, <1>8 DEF Next

\* The invariant holds in every reachable state.
THEOREM InvariantHolds == Spec => []IInv
BY InitIInv, NextIInv, PTL DEF Spec

\* Session files, lock files, the runners' tables and the locals of every thread
\* keep their types, in whatever order the handlers run.
THEOREM TypeCorrect == Spec => []TypeOK
<1>1. IInv => TypeOK
  BY DEF IInv
<1> QED
  BY <1>1, InvariantHolds, PTL

\* _runningSessions holds exactly the sessions a task of the process exists for.
THEOREM TasksAreTracked == Spec => []TaskTracked
<1>1. IInv => TaskTracked
  BY DEF IInv
<1> QED
  BY <1>1, InvariantHolds, PTL

-----------------------------------------------------------------------------
(* The lock of the first session of an app.  Once a thread takes the lock of  *)
(* another session the invariant is false: a thread then writes a session     *)
(* under the lock of another one.                                             *)

\* Whoever is in the critical section has the lock file open and is the one the
\* static field of its process refers to, so nobody releases or finalises it.
LockInv == \A t \in Thread :
  InCritical(t) => lockFile[1] = t /\ sessionLock[t[1]] = [by |-> t, sid |-> 1]

\* No thread is about to take or has taken the lock of another session.
OnlyFirst == 1 \in Session /\ \A t \in Thread : thread[t].pc \in LockPC => thread[t].sid = 1

\* With one session every thread takes the lock of that one.
LEMMA OneIsOnly ==
  ASSUME MaxSession = 1, IInv
  PROVE  OnlyFirst
BY DEF OnlyFirst, IInv, ControlOK, ControlOf, Session

\* Returning from an update or from a completion leaves the critical section.
LEMMA ReturnsOutside ==
  ASSUME NEW t \in Thread, NEW r \in ThreadState
  PROVE  /\ UpdateReturn(t, r).pc \notin CriticalPC
         /\ MarkReturn(t, r).pc \notin CriticalPC
         /\ \A o, s, f : Calling(r, o, s, f).pc \notin CriticalPC
<1> DEFINE clean == [r EXCEPT !.tgt = 0, !.buf = Missing, !.names = {}]
<1>1. clean \in ThreadState /\ r.op \in Update
  BY ZeroIsNoSession DEF ThreadState
<1>2. \A x \in ThreadState : \A o, s, f : Calling(x, o, s, f).pc \notin CriticalPC
  BY DEF Calling, ThreadState, CriticalPC
<1>3. MarkReturn(t, r).pc \notin CriticalPC
  BY DEF MarkReturn, IdleThread, ThreadState, CriticalPC
<1> HIDE DEF clean
<1>4. \A p : [clean EXCEPT !.pc = p].pc = p /\ [clean EXCEPT !.pc = p, !.sid = 0].pc = p
  BY <1>1 DEF ThreadState
<1>5. UpdateReturn(t, r).pc \notin CriticalPC
  BY <1>1, <1>2, <1>4 DEF UpdateReturn, Update, CriticalPC, clean
<1> QED
  BY <1>2, <1>3, <1>5

\* A step that leaves both lock variables alone and lets nobody into the critical
\* section keeps the invariant.
LEMMA OutsideStep ==
  ASSUME LockInv, UNCHANGED <<lockFile, sessionLock>>,
         \A u \in Thread : thread'[u] = thread[u] \/ thread'[u].pc \notin CriticalPC
  PROVE  LockInv'
BY DEF LockInv, InCritical

\* While someone is in the critical section the lock of the session is neither
\* free nor leaked.
LEMMA HeldNotLeaked ==
  ASSUME OnlyFirst, IInv, LockInv, NEW u \in Thread, InCritical(u)
  PROVE  lockFile[1] # Free /\ ~Leaked(1)
<1>1. lockFile[1] = u /\ Free \notin Thread
  BY SentinelAssumption DEF LockInv
<1>2. thread[u].sid = 1
  BY DEF OnlyFirst, LockPC, InCritical, CriticalPC
<1> QED
  BY <1>1, <1>2 DEF Leaked

\* A thread that takes the lock is alone with it.
LEMMA TakeStep ==
  ASSUME OnlyFirst, IInv, LockInv, NEW t \in Thread, TakeLock(t, 1),
         \A u \in Thread : u # t => thread'[u] = thread[u]
  PROVE  LockInv'
<1>1. \A u \in Thread : ~InCritical(u)
  BY HeldNotLeaked DEF TakeLock
<1>2. lockFile'[1] = t /\ sessionLock'[t[1]] = [by |-> t, sid |-> 1]
  <2>1. 1 \in Session /\ t[1] \in Runner
    BY DEF OnlyFirst, Thread
  <2> QED
    BY <2>1 DEF TakeLock, IInv, TypeOK
<1> QED
  BY <1>1, <1>2 DEF LockInv, InCritical

\* Giving up happens only when nobody works under the lock.
LEMMA GiveUpStep ==
  ASSUME OnlyFirst, ~Stalls, IInv, LockInv, NEW t \in Thread, GiveUpOnLock(t, 1),
         \A u \in Thread : thread'[u] = thread[u] \/ thread'[u].pc \notin CriticalPC
  PROVE  LockInv'
<1>1. \A u \in Thread : ~InCritical(u)
  BY HeldNotLeaked DEF GiveUpOnLock
<1> QED
  BY <1>1 DEF LockInv, InCritical

\* A thread that leaves the critical section was the only one in it.
LEMMA ReleaseStep ==
  ASSUME LockInv, NEW t \in Thread, InCritical(t), thread'[t].pc \notin CriticalPC,
         \A u \in Thread : u # t => thread'[u] = thread[u]
  PROVE  LockInv'
<1>1. \A u \in Thread : InCritical(u) => u = t
  BY DEF LockInv
<1> QED
  BY <1>1 DEF LockInv, InCritical

\* The steps of one thread keep the lock invariant.
LEMMA ProgressLock ==
  ASSUME OnlyFirst, ~Stalls, IInv, LockInv, NEW t \in Thread,
         \/ Progress(t) \/ MoveFails(t) \/ \E ok \in BOOLEAN : CollectLogs(t, ok)
  PROVE  LockInv'
<1>1. thread \in [Thread -> ThreadState] /\ thread[t] \in ThreadState
  BY DEF IInv, TypeOK
<1>2. thread[t].pc \in LockPC => thread[t].sid = 1
  BY DEF OnlyFirst
<1>3. ASSUME AcquireAndLoad(t) \/ AcquireForMove(t) PROVE LockInv'
  <2>1. TakeLock(t, 1)
    BY <1>2, <1>3 DEF AcquireAndLoad, AcquireForMove, LockPC
  <2>2. \A u \in Thread : u # t => thread'[u] = thread[u]
    BY <1>1, <1>3 DEF AcquireAndLoad, AcquireForMove, Goto
  <2> QED
    BY <2>1, <2>2, TakeStep
<1>4. ASSUME AcquireTimesOut(t) \/ AcquireForMoveTimesOut(t) PROVE LockInv'
  <2>1. GiveUpOnLock(t, 1)
    BY <1>2, <1>4 DEF AcquireTimesOut, AcquireForMoveTimesOut, LockPC
  <2>2. \A u \in Thread : thread'[u] = thread[u] \/ thread'[u].pc \notin CriticalPC
    BY <1>1, <1>4, ReturnsOutside DEF AcquireTimesOut, AcquireForMoveTimesOut
  <2> QED
    BY <2>1, <2>2, GiveUpStep
<1>5. ASSUME WriteAndRelease(t) \/ MoveToCompleted(t) \/ MoveFails(t) PROVE LockInv'
  <2>1. InCritical(t)
    BY <1>5 DEF WriteAndRelease, MoveToCompleted, MoveFails, InCritical, CriticalPC
  <2>2. thread'[t].pc \notin CriticalPC
    BY <1>1, <1>5, ReturnsOutside DEF WriteAndRelease, MoveToCompleted, MoveFails
  <2>3. \A u \in Thread : u # t => thread'[u] = thread[u]
    BY <1>1, <1>5 DEF WriteAndRelease, MoveToCompleted, MoveFails
  <2> QED
    BY <2>1, <2>2, <2>3, ReleaseStep
<1>6. ASSUME Truncate(t) PROVE LockInv'
  <2>1. InCritical(t) /\ \A u \in Thread : u # t => thread'[u] = thread[u]
    BY <1>1, <1>6 DEF Truncate, Goto, InCritical, CriticalPC
  <2>2. UNCHANGED <<lockFile, sessionLock>>
    BY <1>6 DEF Truncate
  <2> QED
    BY <2>1, <2>2 DEF LockInv, InCritical
<1>7. ASSUME CheckFileExists(t) \/ CheckAndComplete(t) \/ CancelOrphaned(t) \/ EnforceTimeLimit(t)
             \/ SkipTask(t) \/ AnalyzeLogs(t) \/ \E ok \in BOOLEAN : CollectLogs(t, ok)
      PROVE  LockInv'
  <2> DEFINE r == thread[t]
  <2>1. UNCHANGED <<lockFile, sessionLock>>
    BY <1>7 DEF CheckFileExists, CheckAndComplete, CancelOrphaned, EnforceTimeLimit, SkipTask,
                AnalyzeLogs, CollectLogs
  <2>2. IdleThread.pc \notin CriticalPC /\ [IdleThread EXCEPT !.pc = "done"].pc \notin CriticalPC
    BY DEF IdleThread, CriticalPC
  <2>3. \A p : [r EXCEPT !.pc = p].pc = p
    BY <1>1 DEF ThreadState
  <2>4. \A o, x, f, N : [Calling(r, o, x, f) EXCEPT !.names = N].pc \notin CriticalPC
    BY <1>1 DEF Calling, ThreadState, CriticalPC
  <2>5. \A o, x, f : Calling(r, o, x, f).pc \notin CriticalPC
    BY <1>1, ReturnsOutside
  <2>6. MarkReturn(t, r).pc \notin CriticalPC
    BY <1>1, ReturnsOutside
  <2>7. {"acquireMove", "orphans", "limits", "collectCheck"} \cap CriticalPC = {}
    BY DEF CriticalPC
  <2>8. \E x : thread' = [thread EXCEPT ![t] = x] /\ x.pc \notin CriticalPC
    <3>1. CASE CheckFileExists(t)
      BY <2>3, <2>6, <2>7, <3>1 DEF CheckFileExists
    <3>2. CASE CheckAndComplete(t)
      BY <2>2, <2>3, <2>5, <2>7, <3>2 DEF CheckAndComplete
    <3>3. CASE CancelOrphaned(t)
      <4> DEFINE a == GetActiveSession
                 orphans == activeDir[a].targets \ Present(activeDir[a])
                 x1 == [Calling(r, "Orphan", a, FALSE) EXCEPT !.names = orphans]
                 x2 == [r EXCEPT !.pc = "limits"]
      <4>1. x1.pc \notin CriticalPC /\ x2.pc \notin CriticalPC
        BY <2>3, <2>4, <2>7
      <4>2. \/ thread' = [thread EXCEPT ![t] = x1]
            \/ thread' = [thread EXCEPT ![t] = x2]
        BY <3>3 DEF CancelOrphaned
      <4> QED
        BY <4>1, <4>2
    <3>4. CASE EnforceTimeLimit(t)
      BY <2>3, <2>5, <2>7, <3>4 DEF EnforceTimeLimit
    <3>5. CASE SkipTask(t)
      BY <2>2, <3>5 DEF SkipTask, EndLoop
    <3>6. CASE AnalyzeLogs(t)
      BY <2>2, <2>5, <3>6 DEF AnalyzeLogs
    <3>7. CASE \E ok \in BOOLEAN : CollectLogs(t, ok)
      BY <2>5, <3>7 DEF CollectLogs
    <3> QED
      BY <1>7, <3>1, <3>2, <3>3, <3>4, <3>5, <3>6, <3>7
  <2>9. \A u \in Thread : thread'[u] = thread[u] \/ thread'[u].pc \notin CriticalPC
    BY <1>1, <2>8
  <2> QED
    BY <2>1, <2>9, OutsideStep
<1>8. ASSUME StartTask(t) PROVE LockInv'
  <2>1. \A u \in Thread : thread'[u] = thread[u] \/ thread'[u] = IdleThread
                          \/ \E x, seen : thread'[u] = StartedTask(x, seen)
    BY <1>8 DEF StartTask
  <2>2. IdleThread.pc \notin CriticalPC /\ \A x, seen : StartedTask(x, seen).pc \notin CriticalPC
    BY DEF IdleThread, StartedTask, Calling, CriticalPC
  <2>3. UNCHANGED <<lockFile, sessionLock>>
    BY <1>8 DEF StartTask
  <2> QED
    BY <2>1, <2>2, <2>3, OutsideStep
<1> QED
  BY <1>3, <1>4, <1>5, <1>6, <1>7, <1>8 DEF Progress

\* The restart of a runner frees the locks of its own threads only.
LEMMA CrashRunnerLock ==
  ASSUME OnlyFirst, IInv, LockInv, NEW i \in Runner, CrashRunner(i)
  PROVE  LockInv'
<1> SUFFICES ASSUME NEW u \in Thread, InCritical(u)'
             PROVE  lockFile'[1] = u /\ sessionLock'[u[1]] = [by |-> u, sid |-> 1]
  BY DEF LockInv
<1>1. thread'[u] = IF u[1] = i THEN IdleThread ELSE thread[u]
  BY DEF CrashRunner
<1>2. u[1] # i /\ InCritical(u)
  BY <1>1 DEF InCritical, CriticalPC, IdleThread
<1>3. lockFile[1] = u /\ sessionLock[u[1]] = [by |-> u, sid |-> 1]
  BY <1>2 DEF LockInv
<1>4. 1 \in Session /\ u[1] \in Runner
  BY DEF OnlyFirst, Thread
<1> QED
  BY <1>2, <1>3, <1>4 DEF CrashRunner, IInv, TypeOK

\* Every step from a state where no other lock is about to be taken preserves it.
LEMMA FirstLock ==
  ASSUME ~Stalls, OnlyFirst, IInv, LockInv, [Next]_vars
  PROVE  LockInv'
<1>1. ASSUME NEW t \in Thread,
             Progress(t) \/ MoveFails(t) \/ \E ok \in BOOLEAN : CollectLogs(t, ok)
      PROVE  LockInv'
  BY <1>1, ProgressLock
<1>2. ASSUME NEW i \in Runner, Poll(i) PROVE LockInv'
  <2>1. \A u \in Thread : thread'[u] = thread[u] \/ thread'[u].pc \in {"orphans", "check"}
    BY <1>2 DEF Poll, IInv, TypeOK, IdleThread
  <2> QED
    BY <1>2, <2>1, OutsideStep DEF Poll, CriticalPC
<1>3. ASSUME NEW i \in Runner, CrashRunner(i) PROVE LockInv'
  BY <1>3, CrashRunnerLock
<1>4. ASSUME NEW w \in Worker, Submit(w) \/ CrashWorker(w) PROVE LockInv'
  BY <1>4, OutsideStep
  DEF Submit, SubmitNewSession, AcquireActiveSessionLock, RefuseUnderLock, SaveSession,
      WriteNewSession, CrashWorker
<1>5. ASSUME NEW s \in Session, FinalizeLock(s) PROVE LockInv'
  <2>1. s = 1 => \A u \in Thread : ~InCritical(u)
    BY <1>5 DEF FinalizeLock, LockInv
  <2>2. s # 1 => lockFile'[1] = lockFile[1]
    BY <1>5 DEF FinalizeLock, IInv, TypeOK, OnlyFirst
  <2> QED
    BY <1>5, <2>1, <2>2 DEF FinalizeLock, LockInv, InCritical
<1>6. ASSUME NEW s \in Session, Age(s) \/ DeleteSession(s) PROVE LockInv'
  BY <1>6, OutsideStep DEF Age, DeleteSession
<1>7. CASE UNCHANGED vars
  BY <1>7, OutsideStep DEF vars
<1> QED
  BY <1>1, <1>2, <1>3, <1>4, <1>5, <1>6, <1>7 DEF Next

\* With one session every step preserves the lock invariant.
LEMMA NextLock ==
  ASSUME MaxSession = 1, ~Stalls
  PROVE  IInv /\ LockInv /\ [Next]_vars => LockInv'
BY OneIsOnly, FirstLock

\* While the app has one session, and no holder outlasts the 60 s of a waiter,
\* only the holder of the session's lock writes the session, for any number of
\* machines, requests and crashes.
THEOREM OneSessionIsLocked ==
  ASSUME MaxSession = 1, ~Stalls
  PROVE  Spec => []WriterHoldsLock
<1>1. Init => LockInv
  BY DEF Init, LockInv, InCritical, CriticalPC, IdleThread
<1>2. IInv /\ LockInv => WriterHoldsLock
  <2> SUFFICES ASSUME IInv, LockInv, NEW t \in Thread, Writing(t)
               PROVE  lockFile[thread[t].tgt] = t
    BY DEF WriterHoldsLock
  <2>1. thread[t].tgt = 1
    BY DEF IInv, ControlOK, ControlOf, Writing, Session
  <2>2. lockFile[1] = t
    BY DEF LockInv, Writing, InCritical, CriticalPC
  <2> QED
    BY <2>1, <2>2
<1> QED
  BY <1>1, <1>2, InitIInv, NextIInv, NextLock, PTL DEF Spec

-----------------------------------------------------------------------------
(* Steps of the threads                                                       *)

\* A thread that makes a step of its own has been started.
LEMMA StepsOfStarted ==
  ASSUME NEW t \in Thread, Progress(t) \/ MoveFails(t) \/ \E ok \in BOOLEAN : CollectLogs(t, ok)
  PROVE  /\ thread[t].pc # "idle"
         /\ UNCHANGED <<worker, issued, deleted, age>>
<1>1. ASSUME \/ AcquireAndLoad(t) \/ AcquireTimesOut(t) \/ Truncate(t) \/ WriteAndRelease(t)
             \/ CheckFileExists(t) \/ AcquireForMove(t) \/ AcquireForMoveTimesOut(t)
             \/ MoveToCompleted(t) \/ MoveFails(t)
      PROVE  thread[t].pc # "idle" /\ UNCHANGED <<worker, issued, deleted, age>>
  BY <1>1 DEF AcquireAndLoad, AcquireTimesOut, Truncate, WriteAndRelease, CheckFileExists,
     AcquireForMove, AcquireForMoveTimesOut, MoveToCompleted, MoveFails, submitVars, envVars
<1>2. ASSUME \/ CheckAndComplete(t) \/ CancelOrphaned(t) \/ EnforceTimeLimit(t)
             \/ StartTask(t) \/ SkipTask(t) \/ AnalyzeLogs(t)
             \/ \E ok \in BOOLEAN : CollectLogs(t, ok)
      PROVE  thread[t].pc # "idle" /\ UNCHANGED <<worker, issued, deleted, age>>
  BY <1>2 DEF CheckAndComplete, CancelOrphaned, EnforceTimeLimit, StartTask, SkipTask,
     AnalyzeLogs, CollectLogs, submitVars, envVars
<1> QED
  BY <1>1, <1>2 DEF Progress

\* A step of a thread other than a load and the truncation that follows it lets
\* nobody write.
LEMMA NotWriting ==
  ASSUME IInv, NEW t \in Thread,
         Progress(t) \/ MoveFails(t) \/ \E ok \in BOOLEAN : CollectLogs(t, ok),
         ~AcquireAndLoad(t), ~Truncate(t)
  PROVE  \A u \in Thread : thread'[u] = thread[u] \/ ~Writing(u)'
<1> DEFINE r == thread[t]
           Quiet(p) == p \notin {"truncate", "write"}
<1> SUFFICES \A u \in Thread : thread'[u] = thread[u] \/ Quiet(thread'[u].pc)
  BY DEF Writing
<1>1. thread \in [Thread -> ThreadState] /\ r \in ThreadState
  BY DEF IInv, TypeOK
<1>2. CASE \/ WriteAndRelease(t) \/ MoveToCompleted(t) \/ MoveFails(t)
           \/ AcquireTimesOut(t) \/ CheckFileExists(t) \/ AcquireForMove(t)
           \/ AcquireForMoveTimesOut(t)
  BY <1>1, <1>2, ReturnsOutside
  DEF WriteAndRelease, MoveToCompleted, MoveFails, AcquireTimesOut, CheckFileExists, AcquireForMove,
      AcquireForMoveTimesOut, Goto, CriticalPC, ThreadState
<1>3. CASE CheckAndComplete(t) \/ CancelOrphaned(t) \/ EnforceTimeLimit(t)
           \/ SkipTask(t) \/ AnalyzeLogs(t) \/ \E ok \in BOOLEAN : CollectLogs(t, ok)
  <2>1. \A o, x, f : Calling(r, o, x, f).pc = "acquire"
    BY <1>1 DEF Calling, ThreadState
  <2>2. \A o, x, f, N : [Calling(r, o, x, f) EXCEPT !.names = N].pc = "acquire"
    BY <1>1 DEF Calling, ThreadState
  <2>3. \A p \in {"orphans", "limits", "collectCheck"} : [r EXCEPT !.pc = p].pc = p
    BY <1>1 DEF ThreadState
  <2>4. IdleThread.pc = "idle" /\ [IdleThread EXCEPT !.pc = "done"].pc = "done"
    BY DEF IdleThread
  <2>5. \E q : thread' = [thread EXCEPT ![t] = q] /\ Quiet(q.pc)
    <3>1. CASE CheckAndComplete(t)
      BY <2>1, <2>3, <2>4, <3>1 DEF CheckAndComplete
    <3>2. CASE CancelOrphaned(t)
      <4>1. \E q : /\ thread' = [thread EXCEPT ![t] = q]
                   /\ \/ \E o, x, f, N : q = [Calling(r, o, x, f) EXCEPT !.names = N]
                      \/ q = [r EXCEPT !.pc = "limits"]
        BY <3>2 DEF CancelOrphaned
      <4> QED
        BY <2>2, <2>3, <4>1
    <3>3. CASE EnforceTimeLimit(t)
      BY <2>1, <2>3, <3>3 DEF EnforceTimeLimit
    <3>4. CASE SkipTask(t)
      BY <2>4, <3>4 DEF SkipTask, EndLoop
    <3>5. CASE AnalyzeLogs(t)
      BY <2>1, <2>4, <3>5 DEF AnalyzeLogs
    <3>6. CASE \E ok \in BOOLEAN : CollectLogs(t, ok)
      BY <2>1, <3>6 DEF CollectLogs
    <3> QED
      BY <1>3, <3>1, <3>2, <3>3, <3>4, <3>5, <3>6
  <2> QED
    BY <1>1, <2>5
<1>4. CASE StartTask(t)
  <2>1. \A u \in Thread : thread'[u] = thread[u] \/ thread'[u] = IdleThread
                          \/ \E x, seen : thread'[u] = StartedTask(x, seen)
    BY <1>4 DEF StartTask
  <2>2. Quiet(IdleThread.pc) /\ \A x, seen : Quiet(StartedTask(x, seen).pc)
    BY DEF IdleThread, StartedTask, Calling
  <2> QED
    BY <2>1, <2>2
<1> QED
  BY <1>2, <1>3, <1>4 DEF Progress

-----------------------------------------------------------------------------
(* Which sessions the threads know of                                         *)

\* Thread t in state r works on session s, or is about to.
Names(t, r, s) == s \in {r.sid, r.cur, r.tgt} \/ (t[2] = s /\ r.pc # "idle")

\* A thread that moves on, makes a call or returns from one knows no new session but
\* the one it calls for.
LEMMA NamesKept ==
  ASSUME NEW t \in Thread, NEW r \in ThreadState, NEW s \in Session, ~Names(t, r, s), r.pc # "idle"
  PROVE  /\ \A p : ~Names(t, [r EXCEPT !.pc = p], s)
         /\ \A o, x, f, N : x # s => /\ ~Names(t, Calling(r, o, x, f), s)
                                     /\ ~Names(t, [Calling(r, o, x, f) EXCEPT !.names = N], s)
         /\ ~Names(t, IdleThread, s) /\ ~Names(t, [IdleThread EXCEPT !.pc = "done"], s)
         /\ ~Names(t, UpdateReturn(t, r), s)
         /\ ~Names(t, MarkReturn(t, r), s)
<1> DEFINE clean == [r EXCEPT !.tgt = 0, !.buf = Missing, !.names = {}]
<1>1. s # 0 /\ t[2] # s
  BY ParametersAssumption DEF Session, Names
<1>2. \A p : ~Names(t, [r EXCEPT !.pc = p], s)
  BY <1>1 DEF Names, ThreadState
<1>3. \A o, x, f, N : x # s => /\ ~Names(t, Calling(r, o, x, f), s)
                               /\ ~Names(t, [Calling(r, o, x, f) EXCEPT !.names = N], s)
  BY <1>1 DEF Names, Calling, ThreadState
<1>4. ~Names(t, IdleThread, s) /\ ~Names(t, [IdleThread EXCEPT !.pc = "done"], s)
  BY <1>1 DEF Names, IdleThread
<1>5. clean \in ThreadState /\ ~Names(t, clean, s)
  BY <1>1, ZeroIsNoSession DEF Names, ThreadState
<1> HIDE DEF clean
<1>6. /\ \A p : ~Names(t, [clean EXCEPT !.pc = p], s) /\ ~Names(t, [clean EXCEPT !.pc = p, !.sid = 0], s)
      /\ \A o, f : ~Names(t, Calling(clean, o, t[2], f), s)
  BY <1>1, <1>5 DEF Names, ThreadState, Calling
<1>7. ~Names(t, UpdateReturn(t, r), s)
  <2>1. r.op \in Update
    BY DEF ThreadState
  <2> QED
    BY <1>6, <2>1 DEF UpdateReturn, Update, clean
<1>8. ~Names(t, MarkReturn(t, r), s)
  BY <1>1, <1>2, <1>4 DEF MarkReturn, Names, ThreadState
<1> QED
  BY <1>2, <1>3, <1>4, <1>7, <1>8

\* A session that is neither the active one nor known to a thread stays unknown.
LEMMA NamesStep ==
  ASSUME IInv, NEW s \in Session, \A u \in Thread : ~Names(u, thread[u], s), GetActiveSession # s,
         \/ \E t \in Thread : Progress(t) \/ MoveFails(t) \/ \E ok \in BOOLEAN : CollectLogs(t, ok)
         \/ \E i \in Runner : Poll(i) \/ CrashRunner(i)
  PROVE  \A u \in Thread : ~Names(u, thread'[u], s)
<1>1. thread \in [Thread -> ThreadState] /\ s # 0
  BY ParametersAssumption DEF IInv, TypeOK, Session
<1>2. ASSUME NEW t \in Thread, NEW q, thread' = [thread EXCEPT ![t] = q], ~Names(t, q, s)
      PROVE  \A u \in Thread : ~Names(u, thread'[u], s)
  BY <1>1, <1>2
<1>3. ASSUME NEW t \in Thread,
             \/ AcquireAndLoad(t) \/ AcquireTimesOut(t) \/ Truncate(t) \/ WriteAndRelease(t)
             \/ CheckFileExists(t) \/ AcquireForMove(t) \/ AcquireForMoveTimesOut(t)
             \/ MoveToCompleted(t) \/ MoveFails(t)
      PROVE  \A u \in Thread : ~Names(u, thread'[u], s)
  <2> DEFINE r == thread[t]
             a == GetActiveSession
  <2>1. r \in ThreadState /\ ~Names(t, r, s) /\ r.pc # "idle"
    BY <1>1, <1>3, StepsOfStarted DEF Progress
  <2>2. ASSUME AcquireAndLoad(t) PROVE \A u \in Thread : ~Names(u, thread'[u], s)
    <3> DEFINE p == IF AtomicWrites THEN "write" ELSE "truncate"
               b == Updated(activeDir[a], t[1], r)
               q == [r EXCEPT !.pc = p, !.tgt = a, !.buf = b]
    <3>1. thread' = [thread EXCEPT ![t] = IF a = 0 THEN UpdateReturn(t, r) ELSE q]
      BY <2>2 DEF AcquireAndLoad
    <3>2. ~Names(t, q, s)
      <4> HIDE DEF p, b
      <4>1. q.sid = r.sid /\ q.cur = r.cur /\ q.tgt = a
        BY <2>1 DEF ThreadState
      <4> QED
        BY <1>1, <2>1, <4>1 DEF Names
    <3>3. ~Names(t, UpdateReturn(t, r), s)
      BY <2>1, NamesKept
    <3> HIDE DEF q
    <3> QED
      BY <1>2, <3>1, <3>2, <3>3
  <2>3. ASSUME AcquireTimesOut(t) \/ WriteAndRelease(t) PROVE \A u \in Thread : ~Names(u, thread'[u], s)
    BY <1>2, <2>1, <2>3, NamesKept DEF AcquireTimesOut, WriteAndRelease
  <2>4. ASSUME Truncate(t) \/ AcquireForMove(t) PROVE \A u \in Thread : ~Names(u, thread'[u], s)
    <3>1. \E p : thread' = [thread EXCEPT ![t] = [r EXCEPT !.pc = p]]
      BY <1>1, <2>4 DEF Truncate, AcquireForMove, Goto
    <3> QED
      BY <1>2, <2>1, <3>1, NamesKept
  <2>5. ASSUME AcquireForMoveTimesOut(t) \/ MoveToCompleted(t) \/ MoveFails(t)
        PROVE  \A u \in Thread : ~Names(u, thread'[u], s)
    BY <1>2, <2>1, <2>5, NamesKept DEF AcquireForMoveTimesOut, MoveToCompleted, MoveFails
  <2>6. ASSUME CheckFileExists(t) PROVE \A u \in Thread : ~Names(u, thread'[u], s)
    BY <1>2, <2>1, <2>6, NamesKept DEF CheckFileExists
  <2> QED
    BY <1>3, <2>2, <2>3, <2>4, <2>5, <2>6
<1>4. ASSUME NEW t \in Thread,
             \/ CheckAndComplete(t) \/ CancelOrphaned(t) \/ EnforceTimeLimit(t)
             \/ SkipTask(t) \/ AnalyzeLogs(t) \/ \E ok \in BOOLEAN : CollectLogs(t, ok)
      PROVE  \A u \in Thread : ~Names(u, thread'[u], s)
  <2> DEFINE r == thread[t]
             a == GetActiveSession
  <2>1. r \in ThreadState /\ ~Names(t, r, s) /\ r.pc # "idle"
    BY <1>1, <1>4, StepsOfStarted DEF Progress
  <2>2. t[2] # s
    BY <2>1 DEF Names
  <2>3. CASE CheckAndComplete(t)
    BY <1>2, <2>1, <2>3, NamesKept DEF CheckAndComplete
  <2>4. CASE CancelOrphaned(t)
    <3> DEFINE orphans == activeDir[a].targets \ Present(activeDir[a])
               x1 == [Calling(r, "Orphan", a, FALSE) EXCEPT !.names = orphans]
               x2 == [r EXCEPT !.pc = "limits"]
    <3>1. ~Names(t, x1, s) /\ ~Names(t, x2, s)
      BY <2>1, NamesKept
    <3>2. \/ thread' = [thread EXCEPT ![t] = x1]
          \/ thread' = [thread EXCEPT ![t] = x2]
      BY <2>4 DEF CancelOrphaned
    <3> HIDE DEF x1, x2
    <3> QED
      BY <1>2, <3>1, <3>2
  <2>5. CASE EnforceTimeLimit(t)
    BY <1>2, <2>1, <2>5, NamesKept DEF EnforceTimeLimit
  <2>6. CASE SkipTask(t)
    BY <1>2, <2>1, <2>6, NamesKept DEF SkipTask, EndLoop
  <2>7. CASE AnalyzeLogs(t)
    BY <1>2, <2>1, <2>2, <2>7, NamesKept DEF AnalyzeLogs
  <2>8. ASSUME NEW ok \in BOOLEAN, CollectLogs(t, ok) PROVE \A u \in Thread : ~Names(u, thread'[u], s)
    BY <1>2, <2>1, <2>2, <2>8, NamesKept DEF CollectLogs
  <2> QED
    BY <1>4, <2>3, <2>4, <2>5, <2>6, <2>7, <2>8
<1>5. ASSUME NEW t \in Thread, StartTask(t) PROVE \A u \in Thread : ~Names(u, thread'[u], s)
  <2> DEFINE c == thread[t].cur
  <2>1. c # s
    BY DEF Names
  <2>2. \A u \in Thread : \/ thread'[u] = thread[u] \/ thread'[u] = IdleThread
                          \/ u = <<t[1], c>> /\ thread'[u] = StartedTask(c, thread[t].seen)
    BY <1>5 DEF StartTask
  <2>3. ~Names(t, IdleThread, s) /\ \A u \in Thread : ~Names(u, IdleThread, s)
    BY <1>1 DEF Names, IdleThread
  <2>4. \A seen : ~Names(<<t[1], c>>, StartedTask(c, seen), s)
    BY <1>1, <2>1 DEF Names, StartedTask, Calling, IdleThread
  <2> QED
    BY <2>2, <2>3, <2>4
<1>6. ASSUME NEW i \in Runner, Poll(i) PROVE \A u \in Thread : ~Names(u, thread'[u], s)
  <2> DEFINE a == GetActiveSession
             p == IF a \in running[i] THEN "orphans" ELSE "check"
             e == IF i \in activeDir[a].targets THEN activeDir[a].inst[i].st ELSE NotRequested
             q == [IdleThread EXCEPT !.pc = p, !.cur = a, !.seen = e]
  <2>1. thread' = [thread EXCEPT ![<<i, 0>>] = q] /\ <<i, 0>> \in Thread
    BY <1>6, ZeroIsNoSession DEF Poll, Thread
  <2>2. ~Names(<<i, 0>>, q, s)
    <3> HIDE DEF p, e
    <3> QED
      BY <1>1 DEF Names, IdleThread
  <2> HIDE DEF q
  <2> QED
    BY <1>2, <2>1, <2>2
<1>7. ASSUME NEW i \in Runner, CrashRunner(i) PROVE \A u \in Thread : ~Names(u, thread'[u], s)
  BY <1>1, <1>7 DEF CrashRunner, Names, IdleThread
<1> QED
  BY <1>3, <1>4, <1>5, <1>6, <1>7 DEF Progress

-----------------------------------------------------------------------------
(* Any number of sessions, as long as nobody writes or moves a session file    *)
(* without having its lock open                                               *)

\* The file a thread in the critical section works on.
FileOf(t) == IF thread[t].pc = "move" THEN thread[t].sid ELSE thread[t].tgt

\* Nobody writes or moves a session file without having its lock open.
LockRespected == \A t \in Thread : InCritical(t) => lockFile[FileOf(t)] = t

\* A request holds activesession.json.lock from the moment it has it until its
\* session is written.
RequestInv == \A w \in Worker :
  /\ worker[w].pc \in {"locked", "writing"} => submitLock = w
  /\ worker[w].pc = "writing" => /\ worker[w].sid \in Session /\ worker[w].sid <= issued
                                /\ worker[w].new \in SessionData

\* A session that is not there yet: not issued, or about to be written.
NotYet(s) == s > issued \/ \E w \in Worker : worker[w].pc = "writing" /\ worker[w].sid = s

\* What nobody has read: at most an empty file, which no thread knows of.
Unseen(s) ==
  /\ activeDir[s] \in {Missing, Empty} /\ completedDir[s] = Missing /\ s \notin deleted
  /\ \A t \in Thread : ~Names(t, thread[t], s)

\* A session is in one directory, and none before its request has written it;
\* whoever is about to write a file finds it in ActiveSessions.
DirInv ==
  /\ RequestInv /\ OneLocation
  /\ \A s \in Session : NotYet(s) => Unseen(s)
  /\ \A t \in Thread : Writing(t) => activeDir[thread[t].tgt] # Missing

\* There is a session here, or somebody is about to write one.
Live(s) ==
  \/ activeDir[s] \notin {Missing, Empty}
  \/ \E t \in Thread : Writing(t) /\ thread[t].tgt = s
  \/ \E w \in Worker : worker[w].pc = "writing" /\ worker[w].sid = s

OneLive == \A s, u \in Session : Live(s) /\ Live(u) => s = u

\* A request that has activesession.json.lock looks for an active session while a
\* thread has truncated the file of one and not written it yet.
ChecksTorn == \E w \in Worker, T \in TargetSets, m \in Modes :
  SaveSession(w, T, m) /\ \E t \in Thread : Writing(t) /\ activeDir[thread[t].tgt] = Empty

\* The types of the directories and of who works on them.
LEMMA DirFacts ==
  ASSUME IInv
  PROVE  /\ Session \subseteq Nat /\ 0 \notin Session /\ Missing # Empty
         /\ Missing \notin SessionData /\ Empty \notin SessionData
         /\ activeDir \in [Session -> File] /\ completedDir \in [Session -> File]
         /\ thread \in [Thread -> ThreadState] /\ worker \in [Worker -> WorkerState]
         /\ issued \in 0..MaxSession /\ MaxSession \in Nat
         /\ \A t \in Thread : Writing(t) => thread[t].tgt \in Session /\ thread[t].buf \in SessionData
         /\ GetActiveSession # 0 =>
              GetActiveSession \in Session /\ activeDir[GetActiveSession] \notin {Missing, Empty}
<1>1. TypeOK /\ MaxSession \in Nat /\ Session \subseteq Nat /\ 0 \notin Session
  BY ParametersAssumption DEF IInv, Session
<1>2. Missing # Empty /\ Missing \notin SessionData /\ Empty \notin SessionData
  BY DEF Missing, Empty, SessionData
<1>3. \A t \in Thread : Writing(t) => thread[t].tgt \in Session /\ thread[t].buf \in SessionData
  BY DEF IInv, ControlOK, ControlOf, Writing
<1>4. GetActiveSession # 0 =>
        GetActiveSession \in Session /\ activeDir[GetActiveSession] \notin {Missing, Empty}
  BY <1>1, <1>2, ActiveSessionReadable
<1> QED
  BY <1>1, <1>2, <1>3, <1>4 DEF TypeOK

\* A request that finds no session finds none that can be read.
LEMMA NothingFound ==
  ASSUME GetActiveSessionForKudu = 0, 0 \notin Session
  PROVE  \A s \in Session : activeDir[s] \in {Missing, Empty}
<1> DEFINE readable == {s \in Listed : activeDir[s] # Empty}
<1>1. readable # {} => Oldest(readable) \in readable
  BY OldestIsListed DEF Listed
<1>2. readable = {}
  BY <1>1 DEF GetActiveSessionForKudu, Listed
<1> QED
  BY <1>2 DEF Listed

\* What one step may do to the files.
UpdatesFile == UNCHANGED completedDir /\ \A s \in Session : activeDir[s] = Missing <=> activeDir'[s] = Missing

MovesFile(x) ==
  /\ \A s \in Session \ {x} : activeDir'[s] = activeDir[s] /\ completedDir'[s] = completedDir[s]
  /\ \/ activeDir'[x] = Missing /\ completedDir'[x] = activeDir[x]
     \/ activeDir'[x] = activeDir[x] /\ completedDir'[x] = Missing

CreatesFile(x) ==
  /\ UNCHANGED completedDir /\ completedDir[x] = Missing
  /\ \A s \in Session \ {x} : activeDir'[s] = activeDir[s]
  /\ activeDir'[x] # Missing

HowFilesMove ==
  UNCHANGED files \/ UpdatesFile \/ \E x \in Session : MovesFile(x) \/ CreatesFile(x)

\* The requests stay as they are, and so does what nobody has read.
LEMMA UnseenStay ==
  ASSUME DirInv, UNCHANGED <<worker, issued>>, \A s \in Session : NotYet(s) /\ Unseen(s) => Unseen(s)'
  PROVE  \A s \in Session : NotYet(s)' => Unseen(s)'
BY DEF DirInv, NotYet

\* A step of the threads that leaves the files alone.
LEMMA QuietDir ==
  ASSUME IInv, DirInv, UNCHANGED <<files, worker, submitLock, issued, deleted>>,
         \/ \E t \in Thread : Progress(t) \/ MoveFails(t) \/ \E ok \in BOOLEAN : CollectLogs(t, ok)
         \/ \E i \in Runner : Poll(i) \/ CrashRunner(i)
         \/ UNCHANGED thread,
         \A u \in Thread : thread'[u] = thread[u] \/ (Writing(u)' => activeDir[thread'[u].tgt] # Missing)
  PROVE  DirInv' /\ \A s \in Session : Unseen(s) => Unseen(s)'
<1>1. RequestInv' /\ OneLocation'
  BY DEF DirInv, RequestInv, OneLocation, files
<1>2. ASSUME NEW s \in Session, Unseen(s) PROVE Unseen(s)'
  <2>1. GetActiveSession # s
    BY <1>2, DirFacts DEF Unseen
  <2>2. \A u \in Thread : ~Names(u, thread'[u], s)
    BY <1>2, <2>1, NamesStep DEF Unseen
  <2> QED
    BY <1>2, <2>2 DEF Unseen, files
<1>3. \A u \in Thread : Writing(u)' => activeDir'[thread'[u].tgt] # Missing
  BY DEF DirInv, Writing, files
<1> QED
  BY <1>1, <1>2, <1>3, UnseenStay DEF DirInv

\* An update: the file is emptied, then written.
LEMMA WriteDir ==
  ASSUME IInv, DirInv, NEW t \in Thread, Truncate(t) \/ WriteAndRelease(t)
  PROVE  DirInv' /\ UpdatesFile /\ \A s \in Session : Unseen(s) => Unseen(s)'
<1> DEFINE x == thread[t].tgt
<1>1. /\ x \in Session /\ activeDir[x] # Missing /\ Writing(t)
      /\ \A s \in Session \ {x} : activeDir'[s] = activeDir[s]
      /\ activeDir'[x] # Missing
      /\ UNCHANGED <<completedDir, worker, submitLock, issued, deleted>>
  <2>1. Writing(t) /\ UNCHANGED <<completedDir, worker, submitLock, issued, deleted>>
    BY DEF Truncate, WriteAndRelease, Writing, submitVars, envVars
  <2>2. x \in Session /\ thread[t].buf \in SessionData /\ activeDir[x] # Missing
    BY <2>1, DirFacts DEF DirInv
  <2> QED
    BY <2>1, <2>2, DirFacts DEF Truncate, WriteAndRelease
<1>2. UpdatesFile
  BY <1>1 DEF UpdatesFile
<1>3. \A u \in Thread : Writing(u)' => Writing(u) /\ thread'[u].tgt = thread[u].tgt
  <2>1. CASE Truncate(t)
    BY <2>1, DirFacts DEF Truncate, Goto, Writing, ThreadState
  <2>2. CASE WriteAndRelease(t)
    <3>1. ~AcquireAndLoad(t) /\ ~Truncate(t)
      BY <2>2 DEF WriteAndRelease, AcquireAndLoad, Truncate
    <3> QED
      BY <2>2, <3>1, NotWriting DEF Progress, Writing
  <2> QED
    BY <2>1, <2>2
<1>4. \A u \in Thread : Writing(u)' => activeDir'[thread'[u].tgt] # Missing
  BY <1>2, <1>3, DirFacts DEF DirInv, UpdatesFile
<1>5. ASSUME NEW s \in Session, Unseen(s) PROVE Unseen(s)'
  <2>1. GetActiveSession # s /\ s # x
    BY <1>1, <1>5, DirFacts DEF Unseen, Names
  <2>2. \A u \in Thread : ~Names(u, thread'[u], s)
    BY <1>5, <2>1, NamesStep DEF Unseen, Progress
  <2> QED
    BY <1>1, <1>5, <2>1, <2>2 DEF Unseen
<1>6. RequestInv' /\ OneLocation'
  BY <1>1 DEF DirInv, RequestInv, OneLocation
<1> QED
  BY <1>1, <1>2, <1>4, <1>5, <1>6, UnseenStay DEF DirInv

\* The move of a session, or the deletion of what it would replace.
LEMMA MoveDir ==
  ASSUME IInv, DirInv, LockRespected, NEW t \in Thread, MoveToCompleted(t) \/ MoveFails(t)
  PROVE  /\ DirInv' /\ \E x \in Session : MovesFile(x)
         /\ \A s \in Session : Unseen(s) => Unseen(s)'
<1> DEFINE x == thread[t].sid
<1>1. thread[t].pc = "move" /\ UNCHANGED <<worker, submitLock, issued, deleted>>
  BY DEF MoveToCompleted, MoveFails, submitVars, envVars
<1>2. x \in Session
  BY <1>1 DEF IInv, ControlOK, ControlOf, LockPC
<1>3. MovesFile(x)
  <2>1. CASE MoveToCompleted(t)
    BY <1>2, <2>1, DirFacts DEF MoveToCompleted, MoveFile, MovesFile
  <2>2. CASE MoveFails(t)
    BY <1>2, <2>2, DirFacts DEF MoveFails, MovesFile
  <2> QED
    BY <2>1, <2>2
<1>4. \A u \in Thread : Writing(u) => thread[u].tgt # x
  <2> SUFFICES ASSUME NEW u \in Thread, Writing(u), thread[u].tgt = x PROVE FALSE
    OBVIOUS
  <2>1. lockFile[x] = u /\ lockFile[x] = t
    BY <1>1 DEF LockRespected, InCritical, CriticalPC, FileOf, Writing
  <2> QED
    BY <1>1, <2>1 DEF Writing
<1>5. \A u \in Thread : Writing(u)' => activeDir'[thread'[u].tgt] # Missing
  <2>1. \A u \in Thread : thread'[u] = thread[u] \/ ~Writing(u)'
    BY <1>1, NotWriting DEF Progress, AcquireAndLoad, Truncate
  <2> QED
    BY <1>3, <1>4, <2>1, DirFacts DEF DirInv, MovesFile, Writing
<1>6. ASSUME NEW s \in Session, Unseen(s) PROVE Unseen(s)'
  <2>1. GetActiveSession # s /\ s # x
    BY <1>6, DirFacts DEF Unseen, Names
  <2>2. \A u \in Thread : ~Names(u, thread'[u], s)
    BY <1>6, <2>1, NamesStep DEF Unseen, Progress
  <2> QED
    BY <1>1, <1>3, <1>6, <2>1, <2>2 DEF Unseen, MovesFile
<1>7. RequestInv' /\ OneLocation'
  BY <1>1, <1>2, <1>3 DEF DirInv, RequestInv, OneLocation, MovesFile
<1> QED
  BY <1>1, <1>2, <1>3, <1>5, <1>6, <1>7, UnseenStay DEF DirInv

\* The other steps of a thread.
LEMMA StepDir ==
  ASSUME IInv, DirInv, NEW t \in Thread,
         Progress(t) \/ \E ok \in BOOLEAN : CollectLogs(t, ok),
         ~Truncate(t), ~WriteAndRelease(t), ~MoveToCompleted(t)
  PROVE  DirInv' /\ UNCHANGED files /\ \A s \in Session : Unseen(s) => Unseen(s)'
<1>1. UNCHANGED <<files, worker, submitLock, issued, deleted>>
  BY DEF Progress, AcquireAndLoad, AcquireTimesOut, CheckFileExists, AcquireForMove,
     AcquireForMoveTimesOut, CheckAndComplete, CancelOrphaned, EnforceTimeLimit, StartTask,
     SkipTask, AnalyzeLogs, CollectLogs, submitVars, envVars
<1>2. CASE AcquireAndLoad(t)
  <2> DEFINE a == GetActiveSession
             r == thread[t]
  <2>1. thread \in [Thread -> ThreadState] /\ r \in ThreadState
    BY DirFacts
  <2>2. \A u \in Thread : u # t => thread'[u] = thread[u]
    BY <1>2, <2>1 DEF AcquireAndLoad
  <2>3. Writing(t)' => activeDir[thread'[t].tgt] # Missing
    <3>1. CASE a = 0
      BY <1>2, <2>1, <3>1, ReturnsOutside DEF AcquireAndLoad, CriticalPC, Writing
    <3>2. CASE a # 0
      <4>1. thread'[t].tgt = a
        BY <1>2, <2>1, <3>2 DEF AcquireAndLoad, ThreadState
      <4> QED
        BY <3>2, <4>1, DirFacts
    <3> QED
      BY <3>1, <3>2
  <2> QED
    BY <1>1, <2>2, <2>3, QuietDir
<1>3. CASE ~AcquireAndLoad(t)
  <2>1. \A u \in Thread : thread'[u] = thread[u] \/ ~Writing(u)'
    BY <1>3, NotWriting
  <2> QED
    BY <1>1, <2>1, QuietDir
<1> QED
  BY <1>1, <1>2, <1>3

\* Requests: a submission creates the file of its session, empty, then writes it.
LEMMA RequestDir ==
  ASSUME IInv, DirInv, NEW w \in Worker, Submit(w) \/ CrashWorker(w)
  PROVE  /\ DirInv' /\ (UNCHANGED files \/ \E x \in Session : CreatesFile(x))
         /\ \A s \in Session : Unseen(s) => Unseen(s)' \/ (WriteNewSession(w) /\ worker[w].sid = s)
<1>1. /\ RequestInv /\ OneLocation /\ \A s \in Session : NotYet(s) => Unseen(s)
      /\ UNCHANGED <<thread, completedDir, deleted>>
  BY DEF DirInv, Submit, CrashWorker, SubmitNewSession, AcquireActiveSessionLock, RefuseUnderLock,
         SaveSession, WriteNewSession, envVars, files
<1>2. /\ worker \in [Worker -> WorkerState] /\ issued \in 0..MaxSession /\ MaxSession \in Nat
      /\ submitLock \in Worker \cup {Free} /\ Free \notin Worker
  BY DirFacts, SentinelAssumption DEF IInv, TypeOK
<1>3. CASE SubmitNewSession(w) \/ AcquireActiveSessionLock(w) \/ RefuseUnderLock(w) \/ CrashWorker(w)
  <2>1. UNCHANGED <<activeDir, issued>>
    BY <1>3 DEF SubmitNewSession, AcquireActiveSessionLock, RefuseUnderLock, CrashWorker, files
  <2>2. worker'[w].pc # "writing" /\ \A v \in Worker : v # w => worker'[v] = worker[v]
    BY <1>2, <1>3
    DEF SubmitNewSession, AcquireActiveSessionLock, RefuseUnderLock, CrashWorker, WorkerState
  <2>3. RequestInv'
    <3>1. CASE SubmitNewSession(w)
      BY <1>1, <1>2, <3>1 DEF SubmitNewSession, RequestInv, WorkerState
    <3>2. CASE AcquireActiveSessionLock(w)
      BY <1>1, <1>2, <3>2 DEF AcquireActiveSessionLock, RequestInv, WorkerState
    <3>3. CASE RefuseUnderLock(w)
      BY <1>1, <1>2, <3>3 DEF RefuseUnderLock, RequestInv, WorkerState
    <3>4. CASE CrashWorker(w)
      BY <1>1, <1>2, <3>4 DEF CrashWorker, RequestInv, WorkerState
    <3> QED
      BY <1>3, <3>1, <3>2, <3>3, <3>4
  <2>4. \A s \in Session : NotYet(s)' => NotYet(s)
    BY <2>1, <2>2 DEF NotYet
  <2>5. \A s \in Session : NotYet(s)' => Unseen(s)'
    BY <1>1, <2>1, <2>4 DEF Unseen
  <2>6. OneLocation' /\ \A t \in Thread : Writing(t)' => activeDir'[thread'[t].tgt] # Missing
    BY <1>1, <2>1 DEF DirInv, OneLocation, Writing
  <2>7. \A s \in Session : Unseen(s) => Unseen(s)'
    BY <1>1, <2>1 DEF Unseen
  <2> QED
    BY <1>1, <2>1, <2>3, <2>5, <2>6, <2>7 DEF DirInv, files
<1>4. ASSUME NEW x \in Session, NotYet(x), activeDir'[x] # Missing,
             \A s \in Session \ {x} : activeDir'[s] = activeDir[s]
      PROVE  /\ CreatesFile(x) /\ OneLocation'
             /\ \A t \in Thread : Writing(t)' => activeDir'[thread'[t].tgt] # Missing
  <2>1. completedDir[x] = Missing /\ x \notin deleted
    BY <1>1, <1>4 DEF Unseen
  <2> QED
    BY <1>1, <1>4, <2>1, DirFacts DEF DirInv, CreatesFile, OneLocation, Writing
<1>5. ASSUME NEW T \in TargetSets, NEW m \in Modes, SaveSession(w, T, m)
      PROVE  /\ DirInv' /\ (UNCHANGED files \/ \E x \in Session : CreatesFile(x))
             /\ \A s \in Session : Unseen(s) => Unseen(s)'
  <2> DEFINE x == issued + 1
  <2>1. /\ worker' = [worker EXCEPT ![w] = [pc |-> "writing", sid |-> x, new |-> NewSession(T, m)]]
        /\ issued' = x /\ submitLock' = submitLock /\ x \in Session /\ worker[w].pc = "locked"
        /\ activeDir' = IF AtomicWrites THEN activeDir ELSE [activeDir EXCEPT ![x] = Empty]
    BY <1>2, <1>5 DEF SaveSession, Session
  <2>2. NotYet(x)
    BY <1>2, <2>1 DEF NotYet
  <2>3. NewSession(T, m) \in SessionData
    BY ParametersAssumption DEF NewSession, SessionData, NoEntry, Entry
  <2>4. submitLock = w
    BY <1>1, <2>1 DEF RequestInv
  <2>5. RequestInv'
    BY <1>1, <1>2, <2>1, <2>3, <2>4 DEF RequestInv
  <2>6. ASSUME NEW s \in Session, Unseen(s) PROVE Unseen(s)'
    <3>1. activeDir'[s] \in {Missing, Empty}
      BY <2>1, <2>6, DirFacts DEF Unseen
    <3> QED
      BY <1>1, <2>6, <3>1 DEF Unseen
  <2>7. ASSUME NEW s \in Session, NotYet(s)' PROVE Unseen(s)'
    <3>1. NotYet(s)
      BY <1>2, <2>1, <2>2, <2>7 DEF NotYet, Session
    <3>2. Unseen(s)
      BY <1>1, <3>1
    <3> QED
      BY <3>2, <2>6
  <2>8. CASE AtomicWrites
    <3>1. activeDir' = activeDir
      BY <2>1, <2>8
    <3>2. OneLocation' /\ \A t \in Thread : Writing(t)' => activeDir'[thread'[t].tgt] # Missing
      BY <1>1, <3>1 DEF DirInv, OneLocation, Writing
    <3> QED
      BY <1>1, <2>5, <2>7, <2>6, <3>1, <3>2 DEF DirInv, files
  <2>9. CASE ~AtomicWrites
    <3>1. activeDir'[x] # Missing /\ \A s \in Session \ {x} : activeDir'[s] = activeDir[s]
      BY <2>1, <2>9, DirFacts
    <3> QED
      BY <1>4, <2>1, <2>2, <2>5, <2>7, <2>6, <3>1 DEF DirInv
  <2> QED
    BY <2>8, <2>9
<1>6. ASSUME WriteNewSession(w)
      PROVE  /\ DirInv' /\ \E x \in Session : CreatesFile(x)
             /\ \A s \in Session : Unseen(s) => Unseen(s)' \/ worker[w].sid = s
  <2> DEFINE x == worker[w].sid
  <2>1. /\ worker' = [worker EXCEPT ![w] = [pc |-> "idle", sid |-> 0, new |-> Missing]]
        /\ submitLock' = Free /\ issued' = issued
        /\ activeDir' = [activeDir EXCEPT ![x] = worker[w].new] /\ worker[w].pc = "writing"
    BY <1>6 DEF WriteNewSession
  <2>2. x \in Session /\ worker[w].new \in SessionData /\ submitLock = w /\ x <= issued /\ NotYet(x)
    BY <1>1, <2>1 DEF RequestInv, NotYet
  <2>3. \A v \in Worker : worker'[v].pc \notin {"locked", "writing"}
    BY <1>1, <1>2, <2>1, <2>2 DEF RequestInv
  <2>4. activeDir'[x] # Missing /\ \A s \in Session \ {x} : activeDir'[s] = activeDir[s]
    BY <2>1, <2>2, DirFacts
  <2>5. RequestInv'
    BY <2>3 DEF RequestInv
  <2>6. ASSUME NEW s \in Session, NotYet(s)' PROVE Unseen(s)'
    <3>1. s > issued
      BY <2>1, <2>3, <2>6 DEF NotYet
    <3>2. s # x /\ NotYet(s)
      BY <1>2, <2>2, <3>1 DEF NotYet, Session
    <3> QED
      BY <1>1, <2>4, <3>2 DEF Unseen
  <2>7. \A s \in Session : Unseen(s) => Unseen(s)' \/ x = s
    BY <1>1, <2>4 DEF Unseen
  <2> QED
    BY <1>4, <2>2, <2>4, <2>5, <2>6, <2>7 DEF DirInv
<1> QED
  BY <1>3, <1>5, <1>6, <1>1 DEF Submit, files

\* The steps of the environment.
LEMMA EnvironmentDir ==
  ASSUME IInv, DirInv,
         \/ \E i \in Runner : Poll(i) \/ CrashRunner(i)
         \/ \E s \in Session : FinalizeLock(s) \/ Age(s) \/ DeleteSession(s)
         \/ UNCHANGED vars
  PROVE  /\ DirInv' /\ (UNCHANGED files \/ \E x \in Session : MovesFile(x) /\ UNCHANGED activeDir)
         /\ \A s \in Session : Unseen(s) => Unseen(s)'
<1>1. ASSUME NEW i \in Runner, Poll(i) \/ CrashRunner(i)
      PROVE  DirInv' /\ UNCHANGED files /\ \A x \in Session : Unseen(x) => Unseen(x)'
  <2>1. UNCHANGED <<files, worker, submitLock, issued, deleted>>
    BY <1>1 DEF Poll, CrashRunner, submitVars, envVars
  <2>2. \A u \in Thread : thread'[u] = thread[u] \/ thread'[u].pc \in {"idle", "orphans", "check"}
    <3>1. CASE Poll(i)
      <4>1. \A u \in Thread : u # <<i, 0>> => thread'[u] = thread[u]
        BY <3>1, DirFacts DEF Poll
      <4>2. <<i, 0>> \in Thread
        BY ZeroIsNoSession DEF Thread
      <4>3. thread'[<<i, 0>>].pc \in {"orphans", "check"}
        BY <3>1, <4>2, DirFacts DEF Poll, IdleThread
      <4> QED
        BY <4>1, <4>3
    <3>2. CASE CrashRunner(i)
      BY <3>2 DEF CrashRunner, IdleThread
    <3> QED
      BY <1>1, <3>1, <3>2
  <2> QED
    BY <1>1, <2>1, <2>2, QuietDir DEF Writing
<1>2. ASSUME NEW s \in Session, FinalizeLock(s) \/ Age(s)
      PROVE  DirInv' /\ UNCHANGED files /\ \A x \in Session : Unseen(x) => Unseen(x)'
  <2>1. UNCHANGED <<files, worker, submitLock, issued, deleted, thread>>
    BY <1>2 DEF FinalizeLock, Age, submitVars, envVars
  <2> QED
    BY <2>1, QuietDir
<1>3. ASSUME NEW s \in Session, DeleteSession(s)
      PROVE  DirInv' /\ MovesFile(s) /\ UNCHANGED activeDir /\ \A x \in Session : Unseen(x) => Unseen(x)'
  <2>1. /\ completedDir[s] # Missing /\ deleted' = deleted \cup {s}
        /\ completedDir' = [completedDir EXCEPT ![s] = Missing]
        /\ UNCHANGED <<activeDir, thread, worker, submitLock, issued>>
    BY <1>3 DEF DeleteSession, submitVars
  <2>2. /\ activeDir[s] = Missing /\ ~Unseen(s)
        /\ \A u \in Session : completedDir'[u] = IF u = s THEN Missing ELSE completedDir[u]
    BY <2>1, DirFacts DEF DirInv, OneLocation, Unseen
  <2>3. RequestInv' /\ OneLocation'
    BY <2>1, <2>2 DEF DirInv, RequestInv, OneLocation
  <2>4. \A u \in Session : Unseen(u) => Unseen(u)'
    BY <2>1, <2>2 DEF Unseen
  <2>5. \A t \in Thread : Writing(t)' => activeDir'[thread'[t].tgt] # Missing
    BY <2>1 DEF DirInv, Writing
  <2> QED
    BY <2>1, <2>2, <2>3, <2>4, <2>5, UnseenStay DEF DirInv, MovesFile
<1>4. CASE UNCHANGED vars
  <2>1. UNCHANGED <<files, worker, submitLock, issued, deleted, thread>>
    BY <1>4 DEF vars, submitVars, envVars
  <2> QED
    BY <2>1, QuietDir
<1> QED
  BY <1>1, <1>2, <1>3, <1>4

\* Every step that starts with the locks respected.
LEMMA NextDir ==
  ASSUME IInv, DirInv, LockRespected, [Next]_vars
  PROVE  /\ DirInv' /\ HowFilesMove
         /\ \A s \in Session : \/ Unseen(s) => Unseen(s)'
                              \/ \E w \in Worker : WriteNewSession(w) /\ worker[w].sid = s
<1>1. ASSUME NEW t \in Thread,
             Progress(t) \/ MoveFails(t) \/ \E ok \in BOOLEAN : CollectLogs(t, ok)
      PROVE  DirInv' /\ HowFilesMove /\ \A s \in Session : Unseen(s) => Unseen(s)'
  <2>1. CASE Truncate(t) \/ WriteAndRelease(t)
    BY <2>1, WriteDir DEF HowFilesMove
  <2>2. CASE MoveToCompleted(t) \/ MoveFails(t)
    BY <2>2, MoveDir DEF HowFilesMove
  <2>3. CASE ~Truncate(t) /\ ~WriteAndRelease(t) /\ ~MoveToCompleted(t) /\ ~MoveFails(t)
    BY <1>1, <2>3, StepDir DEF HowFilesMove
  <2> QED
    BY <2>1, <2>2, <2>3
<1>2. ASSUME NEW w \in Worker, Submit(w) \/ CrashWorker(w)
      PROVE  /\ DirInv' /\ HowFilesMove
             /\ \A s \in Session : Unseen(s) => Unseen(s)' \/ (WriteNewSession(w) /\ worker[w].sid = s)
  BY <1>2, RequestDir DEF HowFilesMove
<1>3. CASE \/ \E i \in Runner : Poll(i) \/ CrashRunner(i)
           \/ \E s \in Session : FinalizeLock(s) \/ Age(s) \/ DeleteSession(s)
           \/ UNCHANGED vars
  BY <1>3, EnvironmentDir DEF HowFilesMove
<1> QED
  BY <1>1, <1>2, <1>3 DEF Next

\* A thread comes to write the session that is active, and writes no other.
LEMMA ThreadLive ==
  ASSUME IInv, NEW t \in Thread,
         Progress(t) \/ MoveFails(t) \/ \E ok \in BOOLEAN : CollectLogs(t, ok)
  PROVE  \A s \in Session : Live(s)' => Live(s)
<1> DEFINE r == thread[t]
<1>1. thread \in [Thread -> ThreadState] /\ r \in ThreadState /\ worker' = worker
  BY StepsOfStarted, DirFacts
<1>2. ASSUME \A s \in Session : activeDir'[s] \in {Missing, Empty, activeDir[s]},
             \A u \in Thread : \/ Writing(u)' => Writing(u) /\ thread'[u].tgt = thread[u].tgt
                               \/ activeDir[thread'[u].tgt] \notin {Missing, Empty}
      PROVE  \A s \in Session : Live(s)' => Live(s)
  BY <1>1, <1>2 DEF Live
<1>3. CASE AcquireAndLoad(t)
  <2> DEFINE a == GetActiveSession
             p == IF AtomicWrites THEN "write" ELSE "truncate"
             q == [r EXCEPT !.pc = p, !.tgt = a, !.buf = Updated(activeDir[a], t[1], r)]
  <2>1. /\ \A u \in Thread : u # t => thread'[u] = thread[u]
        /\ thread'[t] = IF a = 0 THEN UpdateReturn(t, r) ELSE q
        /\ activeDir' = activeDir
    BY <1>1, <1>3 DEF AcquireAndLoad, files
  <2>2. a = 0 => ~Writing(t)'
    BY <1>1, <2>1, ReturnsOutside DEF CriticalPC, Writing
  <2>3. a # 0 => thread'[t].tgt = a
    BY <1>1, <2>1 DEF ThreadState
  <2>4. a # 0 => activeDir[a] \notin {Missing, Empty}
    BY DirFacts
  <2> QED
    BY <1>2, <2>1, <2>2, <2>3, <2>4 DEF Writing
<1>4. CASE Truncate(t)
  <2>1. /\ activeDir' = [activeDir EXCEPT ![r.tgt] = Empty] /\ Writing(t)
        /\ thread' = [thread EXCEPT ![t].pc = "write"]
    BY <1>4 DEF Truncate, Goto, Writing
  <2> QED
    BY <1>1, <1>2, <2>1, DirFacts DEF Writing, ThreadState
<1>5. CASE WriteAndRelease(t)
  <2>1. activeDir' = [activeDir EXCEPT ![r.tgt] = r.buf] /\ Writing(t)
    BY <1>5 DEF WriteAndRelease, Writing
  <2>2. \A u \in Thread : thread'[u] = thread[u] \/ ~Writing(u)'
    BY <1>5, NotWriting DEF Progress, WriteAndRelease, AcquireAndLoad, Truncate
  <2>3. \A s \in Session : activeDir'[s] = activeDir[s] \/ s = r.tgt
    BY <2>1, DirFacts
  <2> QED
    BY <1>1, <2>1, <2>2, <2>3 DEF Live, Writing
<1>6. CASE ~AcquireAndLoad(t) /\ ~Truncate(t) /\ ~WriteAndRelease(t)
  <2>1. \A u \in Thread : thread'[u] = thread[u] \/ ~Writing(u)'
    BY <1>6, NotWriting
  <2>2. \A s \in Session : activeDir'[s] \in {Missing, activeDir[s]}
    <3>1. CASE MoveToCompleted(t) \/ MoveFails(t)
      <4>1. r.sid \in Session
        BY <3>1 DEF MoveToCompleted, MoveFails, IInv, ControlOK, ControlOf, LockPC
      <4> QED
        BY <3>1, <4>1, DirFacts DEF MoveToCompleted, MoveFile, MoveFails
    <3>2. CASE ~MoveToCompleted(t) /\ ~MoveFails(t)
      BY <1>6, <3>2
      DEF Progress, AcquireTimesOut, CheckFileExists, AcquireForMove, AcquireForMoveTimesOut,
          CheckAndComplete, CancelOrphaned, EnforceTimeLimit, StartTask, SkipTask, AnalyzeLogs,
          CollectLogs, files
    <3> QED
      BY <3>1, <3>2
  <2> QED
    BY <1>2, <2>1, <2>2 DEF Writing
<1> QED
  BY <1>3, <1>4, <1>5, <1>6

\* A request makes a session only where there is none, unless it looked at a file that
\* was being written.
LEMMA RequestLive ==
  ASSUME IInv, DirInv, OneLive, ~ChecksTorn, NEW w \in Worker, Submit(w) \/ CrashWorker(w)
  PROVE  OneLive'
<1>1. thread' = thread /\ worker \in [Worker -> WorkerState] /\ activeDir \in [Session -> File]
  BY DirFacts DEF Submit, CrashWorker, SubmitNewSession, AcquireActiveSessionLock, RefuseUnderLock,
     SaveSession, WriteNewSession
<1>2. CASE SubmitNewSession(w) \/ AcquireActiveSessionLock(w) \/ RefuseUnderLock(w) \/ CrashWorker(w)
  <2>1. activeDir' = activeDir
    BY <1>2 DEF SubmitNewSession, AcquireActiveSessionLock, RefuseUnderLock, CrashWorker, files
  <2>2. \A v \in Worker : worker'[v].pc = "writing" => worker'[v] = worker[v]
    BY <1>1, <1>2
    DEF SubmitNewSession, AcquireActiveSessionLock, RefuseUnderLock, CrashWorker, WorkerState
  <2> QED
    BY <1>1, <2>1, <2>2 DEF OneLive, Live, Writing
<1>3. ASSUME NEW T \in TargetSets, NEW m \in Modes, SaveSession(w, T, m) PROVE OneLive'
  <2> DEFINE x == issued + 1
             q == [pc |-> "writing", sid |-> x, new |-> NewSession(T, m)]
  <2>1. /\ activeDir' \in {activeDir, [activeDir EXCEPT ![x] = Empty]}
        /\ worker' = [worker EXCEPT ![w] = q] /\ worker[w].pc = "locked"
        /\ GetActiveSessionForKudu = 0
    BY <1>3 DEF SaveSession
  <2>2. \A s \in Session : activeDir[s] \in {Missing, Empty}
    BY <2>1, NothingFound, DirFacts
  <2>3. \A t \in Thread : ~Writing(t)
    BY <1>3, <2>2, DirFacts DEF ChecksTorn, DirInv
  <2>4. \A v \in Worker : worker[v].pc # "writing"
    BY <2>1 DEF DirInv, RequestInv
  <2>5. \A s \in Session : activeDir'[s] \in {Missing, Empty}
    BY <1>1, <2>1, <2>2
  <2>6. \A v \in Worker : worker'[v].pc = "writing" => worker'[v].sid = x
    BY <1>1, <2>1, <2>4
  <2> QED
    BY <1>1, <2>3, <2>5, <2>6 DEF OneLive, Live, Writing
<1>4. CASE WriteNewSession(w)
  <2> DEFINE x == worker[w].sid
             q == [pc |-> "idle", sid |-> 0, new |-> Missing]
  <2>1. /\ activeDir' = [activeDir EXCEPT ![x] = worker[w].new] /\ worker[w].pc = "writing"
        /\ worker' = [worker EXCEPT ![w] = q]
    BY <1>4 DEF WriteNewSession
  <2>2. \A s \in Session : activeDir'[s] = activeDir[s] \/ s = x
    BY <1>1, <2>1
  <2>3. \A v \in Worker : worker'[v].pc = "writing" => worker'[v] = worker[v]
    BY <1>1, <2>1
  <2>4. \A s \in Session : Live(s)' => Live(s)
    BY <1>1, <2>1, <2>2, <2>3 DEF Live, Writing
  <2> QED
    BY <2>4 DEF OneLive
<1> QED
  BY <1>2, <1>3, <1>4, <1>1 DEF Submit

\* One session is live at a time.
LEMMA NextLive ==
  ASSUME IInv, DirInv, OneLive, ~ChecksTorn, [Next]_vars
  PROVE  OneLive'
<1>1. ASSUME NEW t \in Thread,
             Progress(t) \/ MoveFails(t) \/ \E ok \in BOOLEAN : CollectLogs(t, ok)
      PROVE  OneLive'
  BY <1>1, ThreadLive DEF OneLive
<1>2. ASSUME NEW w \in Worker, Submit(w) \/ CrashWorker(w) PROVE OneLive'
  BY <1>2, RequestLive
<1>3. CASE \/ \E i \in Runner : Poll(i) \/ CrashRunner(i)
           \/ \E s \in Session : FinalizeLock(s) \/ Age(s) \/ DeleteSession(s)
           \/ UNCHANGED vars
  <2>1. UNCHANGED <<activeDir, worker>>
    BY <1>3 DEF Poll, CrashRunner, FinalizeLock, Age, DeleteSession, submitVars, files, vars
  <2>2. ASSUME NEW i \in Runner, Poll(i), NEW u \in Thread
        PROVE  thread'[u] = thread[u] \/ ~Writing(u)'
    <3>1. thread'[u] = thread[u] \/ u = <<i, 0>>
      BY <2>2, DirFacts DEF Poll
    <3>2. u = <<i, 0>> => thread'[u].pc \in {"orphans", "check"}
      BY <2>2, DirFacts DEF Poll, IdleThread
    <3> QED
      BY <3>1, <3>2 DEF Writing
  <2>3. ASSUME NEW i \in Runner, CrashRunner(i), NEW u \in Thread
        PROVE  thread'[u] = thread[u] \/ ~Writing(u)'
    BY <2>3 DEF CrashRunner, IdleThread, Writing
  <2>4. ASSUME \/ \E s \in Session : FinalizeLock(s) \/ Age(s) \/ DeleteSession(s)
               \/ UNCHANGED vars
        PROVE  thread' = thread
    BY <2>4 DEF FinalizeLock, Age, DeleteSession, vars
  <2>5. \A u \in Thread : thread'[u] = thread[u] \/ ~Writing(u)'
    BY <1>3, <2>2, <2>3, <2>4
  <2>6. \A s \in Session : Live(s)' => Live(s)
    BY <2>1, <2>5 DEF Live, Writing
  <2> QED
    BY <2>6 DEF OneLive
<1> QED
  BY <1>1, <1>2, <1>3 DEF Next

\* The initial states.
LEMMA InitDir == Init => DirInv /\ OneLive
<1> SUFFICES ASSUME Init PROVE DirInv /\ OneLive
  OBVIOUS
<1>1. /\ \A t \in Thread : thread[t] = IdleThread
      /\ \A w \in Worker : worker[w].pc = "idle"
      /\ Missing # Empty /\ 0 \notin Session
  BY ParametersAssumption DEF Init, Missing, Empty, Session
<1>2. \A t \in Thread : /\ ~Writing(t) /\ thread[t].pc # "truncate"
                         /\ \A s \in Session : ~Names(t, thread[t], s)
  BY <1>1 DEF Names, IdleThread, Writing
<1>3. \A s \in Session : activeDir[s] = Missing /\ Unseen(s)
  BY <1>2 DEF Init, Unseen
<1>4. RequestInv /\ OneLocation
  BY <1>1 DEF Init, RequestInv, OneLocation
<1>5. DirInv
  BY <1>2, <1>3, <1>4 DEF DirInv
<1>6. OneLive
  BY <1>1, <1>2, <1>3 DEF OneLive, Live
<1> QED
  BY <1>5, <1>6

\* The invariants while the locks are respected.
LEMMA DirInvariant == Spec /\ []LockRespected => [](IInv /\ DirInv)
<1>1. IInv /\ DirInv /\ LockRespected /\ [Next]_vars => (IInv /\ DirInv)'
  BY NextIInv, NextDir
<1> QED
  BY <1>1, InitIInv, InitDir, PTL DEF Spec

\* One session at most is live, while besides no request checks a truncated file.
LEMMA LiveInvariant == Spec /\ []LockRespected /\ [][~ChecksTorn]_vars => []OneLive
<1>1. IInv /\ DirInv /\ OneLive /\ [Next]_vars /\ [~ChecksTorn]_vars => OneLive'
  <2>1. IInv /\ UNCHANGED vars => ~ChecksTorn
    BY DirFacts DEF ChecksTorn, SaveSession, vars, submitVars
  <2> QED
    BY <2>1, NextLive
<1> QED
  BY <1>1, InitDir, DirInvariant, PTL DEF Spec

\* However many sessions, machines, requests and crashes, and however files are
\* written: as long as nobody writes or moves a session file without having its lock
\* open, a session that was moved or deleted does not come back in ActiveSessions.
THEOREM RespectedLocksOneDirectory == Spec /\ []LockRespected => []OneLocation
<1>1. DirInv => OneLocation
  BY DEF DirInv
<1> QED
  BY <1>1, DirInvariant, PTL

\* Under the same condition, and however files are written, submissions and runners
\* create one active session at a time, provided no request that has
\* activesession.json.lock looks for an active session between the truncation of its
\* file and the write: neither lock excludes the other.
THEOREM RespectedLocksOneActive ==
  Spec /\ []LockRespected /\ [][~ChecksTorn]_vars => []AtMostOneActive
<1>1. OneLive => AtMostOneActive
  BY DEF OneLive, Live, AtMostOneActive
<1> QED
  BY <1>1, LiveInvariant, PTL

\* As long as nobody writes or moves a session file without having its lock open every
\* session goes through its life cycle: it is created, closed once, and deleted once
\* closed.
THEOREM RespectedLocksImplementLifecycle == Spec /\ []LockRespected => ImplementsLifecycle
<1>1. Init => Lifecycle!Init
  BY DEF Init, Stage, Lifecycle!Init
<1>2. ASSUME IInv /\ DirInv, LockRespected, [Next]_vars PROVE [Lifecycle!Next]_Stage
  <2>1. HowFilesMove /\ OneLocation /\ OneLocation'
    BY <1>2, NextDir DEF DirInv
  <2>2. \A s \in Session :
          /\ Stage[s] = IF activeDir[s] # Missing THEN "active"
                        ELSE IF completedDir[s] # Missing THEN "closed" ELSE "none"
          /\ Stage'[s] = IF activeDir'[s] # Missing THEN "active"
                         ELSE IF completedDir'[s] # Missing THEN "closed" ELSE "none"
    BY DEF Stage
  <2>3. (\A s \in Session : Stage'[s] = Stage[s]) => Stage' = Stage
    BY DEF Stage
  <2>4. CASE UNCHANGED files
    BY <2>4 DEF Stage, files
  <2>5. CASE UpdatesFile
    BY <2>2, <2>3, <2>5 DEF UpdatesFile
  <2>6. ASSUME NEW x \in Session, MovesFile(x) \/ CreatesFile(x) PROVE [Lifecycle!Next]_Stage
    <3>1. \A s \in Session \ {x} : Stage'[s] = Stage[s]
      BY <2>2, <2>6 DEF MovesFile, CreatesFile
    <3>2. Stage' = [Stage EXCEPT ![x] = Stage'[x]]
      BY <3>1 DEF Stage
    <3>3. \/ Stage'[x] = Stage[x]
          \/ Stage[x] = "none" /\ Stage'[x] = "active"
          \/ Stage[x] = "active" /\ Stage'[x] = "closed"
          \/ Stage[x] = "closed" /\ Stage'[x] = "none"
      <4>1. CASE MovesFile(x)
        BY <2>1, <2>2, <4>1 DEF MovesFile, OneLocation
      <4>2. CASE CreatesFile(x)
        BY <2>2, <4>2 DEF CreatesFile
      <4> QED
        BY <2>6, <4>1, <4>2
    <3> QED
      BY <2>3, <3>1, <3>2, <3>3 DEF Lifecycle!Next, Lifecycle!Submit, Lifecycle!Close, Lifecycle!Delete
  <2> QED
    BY <2>1, <2>4, <2>5, <2>6 DEF HowFilesMove
<1> QED
  BY <1>1, <1>2, DirInvariant, PTL DEF Spec, ImplementsLifecycle, Lifecycle!Spec

\* An app with a single session respects its lock.
LEMMA OneSessionRespectsLock ==
  ASSUME MaxSession = 1, ~Stalls
  PROVE  Spec => []LockRespected
<1>1. Init => LockInv
  BY DEF Init, LockInv, InCritical, CriticalPC, IdleThread
<1>2. IInv /\ LockInv => LockRespected
  <2> SUFFICES ASSUME IInv, LockInv, NEW t \in Thread, InCritical(t)
               PROVE  FileOf(t) = 1
    BY DEF LockRespected, LockInv
  <2> QED
    BY DEF IInv, ControlOK, ControlOf, InCritical, CriticalPC, LockPC, FileOf, Session
<1> QED
  BY <1>1, <1>2, InitIInv, NextIInv, NextLock, PTL DEF Spec

\* While the app has one session, and no holder outlasts the 60 s of a waiter, a
\* session that was moved or deleted does not come back in ActiveSessions, for any
\* number of machines, requests and crashes and however files are written.
THEOREM OneSessionIsInOneDirectory ==
  ASSUME MaxSession = 1, ~Stalls
  PROVE  Spec => []OneLocation
BY OneSessionRespectsLock, RespectedLocksOneDirectory, PTL

\* However writers, movers, requests and deletions interleave, and however files are
\* written, the only session goes through its life cycle: it is created, closed once
\* and deleted once closed.
THEOREM OneSessionImplementsLifecycle ==
  ASSUME MaxSession = 1, ~Stalls
  PROVE  Spec => ImplementsLifecycle
BY OneSessionRespectsLock, RespectedLocksImplementLifecycle, PTL

-----------------------------------------------------------------------------
(* Two sessions                                                               *)

\* Until the second session is there, everybody works on the first one.
FirstPhase == DirInv /\ OneLive /\ LockInv /\ Unseen(2)

\* From then on there is no active session but the second one, whoever still works on
\* the first: an update loads what is active.
SecondPhase ==
  /\ issued = 2 /\ activeDir[1] \in {Missing, Empty}
  /\ \A w \in Worker : worker[w].pc # "writing"
  /\ \A t \in Thread : Writing(t) => thread[t].tgt = 2

\* Before the second session is there the locks are respected.
LEMMA FirstRespected ==
  ASSUME MaxSession = 2, IInv, LockInv, Unseen(2)
  PROVE  OnlyFirst /\ LockRespected
<1>1. Session = {1, 2}
  BY DEF Session
<1>2. \A t \in Thread : thread[t].sid # 2 /\ thread[t].tgt # 2
  BY DEF Unseen, Names
<1>3. \A t \in Thread : thread[t].pc \in LockPC => thread[t].sid = 1
  BY <1>1, <1>2 DEF IInv, ControlOK, ControlOf
<1>4. \A t \in Thread : Writing(t) => thread[t].tgt = 1
  BY <1>1, <1>2 DEF IInv, ControlOK, ControlOf, Writing
<1>5. LockRespected
  BY <1>3, <1>4 DEF LockRespected, FileOf, InCritical, CriticalPC, LockPC, LockInv, Writing
<1> QED
  BY <1>1, <1>3, <1>5 DEF OnlyFirst

\* Every step keeps the first phase or begins the second.
LEMMA FirstStep ==
  ASSUME MaxSession = 2, ~Stalls, IInv, FirstPhase, ~ChecksTorn, [Next]_vars
  PROVE  FirstPhase' \/ SecondPhase'
<1>1. 1 \in Session /\ 2 \in Session
  BY DEF Session
<1>2. OnlyFirst /\ LockRespected
  BY FirstRespected DEF FirstPhase
<1>3. DirInv' /\ OneLive' /\ LockInv'
  BY <1>2, NextDir, NextLive, FirstLock DEF FirstPhase
<1>4. CASE Unseen(2)'
  BY <1>3, <1>4 DEF FirstPhase
<1>5. ASSUME NEW w \in Worker, WriteNewSession(w), worker[w].sid = 2 PROVE SecondPhase'
  <2>1. /\ worker' = [worker EXCEPT ![w] = [pc |-> "idle", sid |-> 0, new |-> Missing]]
        /\ activeDir' = [activeDir EXCEPT ![2] = worker[w].new] /\ worker[w].pc = "writing"
        /\ thread' = thread /\ issued' = issued
    BY <1>5 DEF WriteNewSession
  <2>2. issued = 2 /\ submitLock = w
    BY <2>1, <1>5, DirFacts DEF FirstPhase, DirInv, RequestInv
  <2>3. \A v \in Worker : worker'[v].pc # "writing"
    BY <2>1, <2>2, DirFacts DEF FirstPhase, DirInv, RequestInv
  <2>4. Live(2) /\ ~Live(1)
    BY <1>1, <1>5, <2>1 DEF Live, FirstPhase, OneLive
  <2>5. \A t \in Thread : Writing(t) => thread[t].tgt = 2
    BY <2>4, DirFacts DEF Live, Session
  <2>6. activeDir'[1] \in {Missing, Empty}
    BY <1>1, <2>1, <2>4, DirFacts DEF Live
  <2> QED
    BY <2>1, <2>2, <2>3, <2>5, <2>6 DEF SecondPhase, Writing
<1> QED
  BY <1>1, <1>2, <1>4, <1>5, NextDir DEF FirstPhase

\* The second phase lasts.
LEMMA SecondStep ==
  ASSUME MaxSession = 2, IInv, SecondPhase, [Next]_vars
  PROVE  SecondPhase'
<1>1. Session = {1, 2}
  BY DEF Session
<1>2. ASSUME UNCHANGED <<worker, issued>>, activeDir'[1] \in {Missing, Empty},
             \A u \in Thread : thread'[u] = thread[u] \/ ~Writing(u)'
      PROVE  SecondPhase'
  BY <1>2 DEF SecondPhase, Writing
<1>3. ASSUME NEW t \in Thread,
             Progress(t) \/ MoveFails(t) \/ \E ok \in BOOLEAN : CollectLogs(t, ok)
      PROVE  SecondPhase'
  <2> DEFINE r == thread[t]
  <2>1. UNCHANGED <<worker, issued>>
    BY <1>3, StepsOfStarted
  <2>2. activeDir'[1] \in {Missing, Empty}
    <3>1. CASE Truncate(t) \/ WriteAndRelease(t)
      <4>1. r.tgt = 2
        BY <3>1 DEF SecondPhase, Truncate, WriteAndRelease, Writing
      <4> QED
        BY <1>1, <3>1, <4>1, DirFacts DEF Truncate, WriteAndRelease, SecondPhase
    <3>2. CASE MoveToCompleted(t) \/ MoveFails(t)
      <4>1. r.sid \in Session
        BY <3>2 DEF MoveToCompleted, MoveFails, IInv, ControlOK, ControlOf, LockPC
      <4> QED
        BY <1>1, <3>2, <4>1, DirFacts DEF MoveToCompleted, MoveFile, MoveFails, SecondPhase
    <3>3. CASE ~Truncate(t) /\ ~WriteAndRelease(t) /\ ~MoveToCompleted(t) /\ ~MoveFails(t)
      <4>1. UNCHANGED files
        BY <1>3, <3>3
        DEF Progress, AcquireAndLoad, AcquireTimesOut, CheckFileExists, AcquireForMove,
            AcquireForMoveTimesOut, CheckAndComplete, CancelOrphaned, EnforceTimeLimit, StartTask,
            SkipTask, AnalyzeLogs, CollectLogs
      <4> QED
        BY <4>1 DEF SecondPhase, files
    <3> QED
      BY <3>1, <3>2, <3>3
  <2>3. CASE AcquireAndLoad(t)
    <3> DEFINE a == GetActiveSession
    <3>1. thread \in [Thread -> ThreadState] /\ r \in ThreadState
      BY DirFacts
    <3>2. \A u \in Thread : u # t => thread'[u] = thread[u]
      BY <2>3, <3>1 DEF AcquireAndLoad
    <3>3. CASE a = 0
      <4>1. ~Writing(t)'
        BY <2>3, <3>1, <3>3, ReturnsOutside DEF AcquireAndLoad, CriticalPC, Writing
      <4> QED
        BY <1>2, <2>1, <2>2, <3>2, <4>1
    <3>4. CASE a # 0
      <4>1. a = 2
        BY <1>1, <3>4, DirFacts DEF SecondPhase
      <4>2. thread'[t].tgt = 2
        BY <2>3, <3>1, <4>1 DEF AcquireAndLoad, ThreadState
      <4> QED
        BY <2>1, <2>2, <3>2, <4>2 DEF SecondPhase, Writing
    <3> QED
      BY <3>3, <3>4
  <2>4. CASE Truncate(t)
    <3>1. thread' = [thread EXCEPT ![t].pc = "write"] /\ Writing(t)
      BY <2>4 DEF Truncate, Goto, Writing
    <3>2. \A u \in Thread : thread'[u].tgt = thread[u].tgt /\ (Writing(u)' => Writing(u))
      BY <3>1, DirFacts DEF Writing, ThreadState
    <3> QED
      BY <2>1, <2>2, <3>2 DEF SecondPhase
  <2>5. CASE ~AcquireAndLoad(t) /\ ~Truncate(t)
    BY <1>2, <1>3, <2>1, <2>2, <2>5, NotWriting
  <2> QED
    BY <2>3, <2>4, <2>5
<1>4. ASSUME NEW w \in Worker, Submit(w) \/ CrashWorker(w) PROVE SecondPhase'
  <2>1. SubmitNewSession(w) \/ AcquireActiveSessionLock(w) \/ RefuseUnderLock(w) \/ CrashWorker(w)
    BY <1>4 DEF Submit, SaveSession, WriteNewSession, SecondPhase
  <2>2. UNCHANGED <<activeDir, thread, issued>>
    BY <2>1 DEF SubmitNewSession, AcquireActiveSessionLock, RefuseUnderLock, CrashWorker, files
  <2>3. \A v \in Worker : worker'[v].pc # "writing"
    BY <2>1, DirFacts
    DEF SubmitNewSession, AcquireActiveSessionLock, RefuseUnderLock, CrashWorker, WorkerState, SecondPhase
  <2> QED
    BY <2>2, <2>3 DEF SecondPhase, Writing
<1>5. ASSUME NEW i \in Runner, Poll(i) PROVE SecondPhase'
  <2>1. \A u \in Thread : thread'[u] = thread[u] \/ u = <<i, 0>>
    BY <1>5, DirFacts DEF Poll
  <2>2. \A u \in Thread : u = <<i, 0>> => ~Writing(u)'
    BY <1>5, DirFacts DEF Poll, IdleThread, Writing
  <2> QED
    BY <1>2, <1>5, <2>1, <2>2 DEF Poll, submitVars, files, SecondPhase
<1>6. ASSUME NEW i \in Runner, CrashRunner(i) PROVE SecondPhase'
  <2>1. \A u \in Thread : thread'[u] = thread[u] \/ ~Writing(u)'
    BY <1>6 DEF CrashRunner, IdleThread, Writing
  <2> QED
    BY <1>2, <1>6, <2>1 DEF CrashRunner, submitVars, files, SecondPhase
<1>7. CASE \/ \E s \in Session : FinalizeLock(s) \/ Age(s) \/ DeleteSession(s)
           \/ UNCHANGED vars
  BY <1>2, <1>7 DEF FinalizeLock, Age, DeleteSession, vars, submitVars, files, SecondPhase
<1> QED
  BY <1>3, <1>4, <1>5, <1>6, <1>7 DEF Next

\* An app that has had at most two sessions has one active session at a time, for any
\* number of machines, requests and crashes and however files are written, while no
\* holder of a lock outlasts the 60 s of a waiter and no request looks for an active
\* session between the truncation of its file and the write: until the second session
\* is there everybody works on the first one, under its lock, and once it is there an
\* update loads and writes nothing else.
THEOREM TwoSessionsOneActive ==
  ASSUME MaxSession <= 2, ~Stalls
  PROVE  Spec /\ [][~ChecksTorn]_vars => []AtMostOneActive
<1>1. CASE MaxSession = 2
  <2>1. Session = {1, 2} /\ Missing # Empty
    BY <1>1 DEF Session, Missing, Empty
  <2>2. Init => FirstPhase
    <3>1. Init => LockInv
      BY DEF Init, LockInv, InCritical, CriticalPC, IdleThread
    <3>2. Init => Unseen(2)
      BY <2>1 DEF Init, Unseen, Names, IdleThread
    <3> QED
      BY <3>1, <3>2, InitDir DEF FirstPhase
  <2>3. IInv /\ (FirstPhase \/ SecondPhase) /\ [Next]_vars /\ [~ChecksTorn]_vars
          => (FirstPhase \/ SecondPhase)'
    <3>1. IInv /\ UNCHANGED vars => ~ChecksTorn
      BY DirFacts DEF ChecksTorn, SaveSession, vars, submitVars
    <3> QED
      BY <1>1, <3>1, FirstStep, SecondStep
  <2>4. FirstPhase \/ SecondPhase => AtMostOneActive
    BY <2>1 DEF FirstPhase, OneLive, Live, SecondPhase, AtMostOneActive
  <2> QED
    BY <2>2, <2>3, <2>4, InvariantHolds, PTL DEF Spec
<1>2. CASE MaxSession # 2
  <2>1. \A s, u \in Session : s = u
    BY <1>2, ParametersAssumption DEF Session
  <2>2. AtMostOneActive
    BY <2>1 DEF AtMostOneActive
  <2> QED
    BY <2>2, PTL
<1> QED
  BY <1>1, <1>2

-----------------------------------------------------------------------------
(* The files of the only session of an app.  With the lock above, the session  *)
(* is in one directory at a time, and every update is applied to the latest    *)
(* session: the one on disk or, while a thread has truncated the file, the one *)
(* it is about to write.                                                       *)

\* A session file is created by one request, before any runner knows of it.
Unborn(w) ==
  /\ issued = 1 /\ worker[w].sid = 1
  /\ \A v \in Worker : worker[v].pc = "writing" => v = w
  /\ \A t \in Thread : thread[t].pc = "idle"
  /\ activeDir[1] \in {Missing, Empty} /\ completedDir[1] = Missing /\ deleted = {}
  /\ worker[w].new \in SessionData
  /\ \A i \in Instance : worker[w].new.inst[i] = NoEntry

\* Before the first request there is nothing.
NothingYet == issued = 0 =>
  /\ activeDir[1] = Missing /\ completedDir[1] = Missing /\ deleted = {}
  /\ \A t \in Thread : thread[t].pc = "idle"

DiskInv ==
  /\ OneLocation /\ NothingYet
  /\ \A w \in Worker : worker[w].pc = "writing" => Unborn(w)
  /\ \A t \in Thread : Writing(t) => activeDir[1] # Missing

-----------------------------------------------------------------------------
(* What the session says of the threads that work on it                       *)

Blank == {Missing, Empty}

\* A thread has truncated the file and is about to write it.
HalfWritten ==
  activeDir[1] = Empty /\ lockFile[1] \in Thread /\ thread[lockFile[1]].pc = "write"

\* The session as it is on disk, or will be once it is written.
Now == IF HalfWritten THEN thread[lockFile[1]].buf ELSE activeDir[1]

\* The thread that writes has made its update when it truncates.
AsWritten(t) == IF HalfWritten /\ t = lockFile[1] THEN UpdateReturn(t, thread[t]) ELSE thread[t]

\* With AtomicWrites every file is complete, and the file a request is about to create
\* not there.
WholeFiles ==
  /\ activeDir[1] # Empty /\ completedDir[1] # Empty
  /\ \A t \in Thread : thread[t].pc # "truncate"
  /\ \A w \in Worker : worker[w].pc = "writing" => activeDir[1] = Missing

\* The session was there and is no longer active, or died half written.
Gone == /\ activeDir[1] \in Blank /\ ~HalfWritten
        /\ issued = 1 /\ \A w \in Worker : worker[w].pc # "writing"

\* The lock leaks only through the early return of an update that finds no session.
LeakedWhenGone == lockFile[1] \in Thread /\ ~InCritical(lockFile[1]) => Gone

\* An instance without an entry has no logs; one that is complete is analysed.
Sound(d) == \A i \in Instance :
  LET e == d.inst[i] IN
  /\ e.st = Absent => ~e.logs
  /\ d.mode = "CollectAndAnalyze" /\ e.st = "Complete" /\ e.logs => e.reports

InUpdate(r) == r.pc \in {"acquire", "truncate", "write"}

\* What a task relies on in the entry of its machine: no other thread takes the
\* machine on, except that an orphan is given up before it starts.
Relies(t, r, d) ==
  LET e == d.inst[t[1]] IN
  /\ InUpdate(r) /\ r.op \in {"Started", "Analyzing"} /\ e.st = "Complete" => e.orphan /\ ~e.logs
  /\ r.pc = "collecting" \/ (InUpdate(r) /\ r.op = "Append") => e.st \notin {Absent, "Complete"}
  /\ InUpdate(r) /\ r.op = "Reports" => r.flag = e.logs
  /\ InUpdate(r) /\ r.op = "Complete" /\ d.mode = "CollectAndAnalyze" /\ e.logs => e.reports

\* Every requested instance has finished or was orphaned.
Over(d) == \A j \in d.targets : d.inst[j].st = "Complete" \/ d.inst[j].orphan

\* A thread on the way to complete the session: it is over, or its time is up.
Completing(r) == (InUpdate(r) /\ r.op = "Mark") \/ r.pc \in {"exists", "acquireMove", "move"}

\* up: the time of the session is up.
Fits(t, r, d, up) == d \notin Blank =>
  /\ Relies(t, r, d)
  /\ Completing(r) => up \/ Over(d)
  /\ r.pc \in {"truncate", "write"} => r.buf = Updated(d, t[1], r)

SessionInv ==
  /\ AtomicWrites => WholeFiles
  /\ LeakedWhenGone
  /\ Sound(Now) /\ Sound(completedDir[1])
  /\ \A t \in Thread : thread[t].pc = "truncate" => activeDir[1] # Empty
  /\ \A t \in Thread : Fits(t, AsWritten(t), Now, age[1] = 3)


-----------------------------------------------------------------------------
(* The one session *)

\* There is one session, and the one that is active, if any, is that.
LEMMA TheSession ==
  ASSUME MaxSession = 1, TypeOK
  PROVE  /\ Session = {1}
         /\ GetActiveSession = IF activeDir[1] \in {Missing, Empty} THEN 0 ELSE 1
         /\ Missing \notin SessionData /\ Empty \notin SessionData /\ Missing # Empty
<1>1. Session = {1}
  BY DEF Session
<1>2. CASE activeDir[1] = Missing
  <2>1. Listed = {}
    BY <1>1, <1>2 DEF Listed
  <2> QED
    BY <1>1, <1>2, <2>1 DEF GetActiveSession, Missing, Empty, SessionData
<1>3. CASE activeDir[1] # Missing
  <2>1. Listed = {1}
    BY <1>1, <1>3 DEF Listed
  <2>2. Oldest(Listed) = 1
    BY <1>1, <2>1, OldestIsListed
  <2> QED
    BY <1>1, <1>3, <2>1, <2>2 DEF GetActiveSession, Missing, Empty, SessionData
<1> QED
  BY <1>1, <1>2, <1>3

\* Once a thread has started no request is about to create the session.
LEMMA StartedLater ==
  ASSUME MaxSession = 1, IInv, DiskInv, NEW t \in Thread, thread[t].pc # "idle"
  PROVE  issued = 1 /\ \A w \in Worker : worker[w].pc # "writing"
<1>1. issued \in 0..1
  BY DEF IInv, TypeOK
<1> QED
  BY <1>1 DEF DiskInv, NothingYet, Unborn

\* One thread at a time is in the critical section.
LEMMA OneCritical ==
  ASSUME LockInv, NEW t \in Thread, NEW u \in Thread, InCritical(t), InCritical(u)
  PROVE  t = u
BY DEF LockInv

-----------------------------------------------------------------------------
(* The session is in one directory at a time *)

\* A step of the threads that leaves the files alone.
LEMMA ThreadDisk ==
  ASSUME MaxSession = 1, IInv, DiskInv, NEW t \in Thread, thread[t].pc # "idle",
         UNCHANGED <<files, worker, issued, deleted>>,
         \A u \in Thread : Writing(u)' => Writing(u) \/ activeDir[1] # Missing
  PROVE  DiskInv'
<1>1. issued = 1 /\ \A w \in Worker : worker[w].pc # "writing"
  BY StartedLater
<1>2. OneLocation'
  BY DEF DiskInv, OneLocation, files
<1> QED
  BY <1>1, <1>2 DEF DiskInv, NothingYet, files

\* What a move does to the two directories.
LEMMA Moved ==
  ASSUME MaxSession = 1, IInv, NEW t \in Thread, MoveToCompleted(t) \/ MoveFails(t)
  PROVE  \/ activeDir'[1] = Missing /\ completedDir'[1] = activeDir[1]
         \/ activeDir'[1] = activeDir[1] /\ completedDir'[1] = Missing
<1>1. thread[t].sid = 1 /\ 1 \in Session
  BY DEF MoveToCompleted, MoveFails, IInv, ControlOK, ControlOf, LockPC, Session
<1> QED
  BY <1>1 DEF MoveToCompleted, MoveFails, MoveFile, IInv, TypeOK

\* A step of the threads that writes or moves the file.
LEMMA FileDisk ==
  ASSUME MaxSession = 1, IInv, LockInv, DiskInv, NEW t \in Thread,
         Truncate(t) \/ WriteAndRelease(t) \/ MoveToCompleted(t) \/ MoveFails(t)
  PROVE  DiskInv'
<1>1. /\ Session = {1} /\ Missing \notin SessionData /\ Missing # Empty
      /\ thread \in [Thread -> ThreadState] /\ thread[t] \in ThreadState
  BY TheSession DEF IInv, TypeOK
<1>2. thread[t].pc # "idle" /\ UNCHANGED <<worker, issued, deleted>>
  BY StepsOfStarted DEF Progress
<1>3. issued = 1 /\ \A w \in Worker : worker[w].pc # "writing"
  BY <1>2, StartedLater
<1>4. InCritical(t)
  BY DEF Truncate, WriteAndRelease, MoveToCompleted, MoveFails, InCritical, CriticalPC
<1>5. \A u \in Thread : u # t => ~InCritical(u) /\ thread'[u] = thread[u]
  BY <1>1, <1>4, OneCritical DEF Truncate, WriteAndRelease, MoveToCompleted, MoveFails, Goto
<1>6. CASE Truncate(t) \/ WriteAndRelease(t)
  <2>1. thread[t].tgt = 1 /\ thread[t].buf \in SessionData /\ Writing(t)
    BY <1>1, <1>6 DEF IInv, ControlOK, ControlOf, Truncate, WriteAndRelease, Writing
  <2>2. activeDir'[1] # Missing /\ completedDir' = completedDir
    BY <1>1, <1>6, <2>1 DEF Truncate, WriteAndRelease, IInv, TypeOK
  <2>3. activeDir[1] # Missing
    BY <2>1 DEF DiskInv
  <2>4. completedDir[1] = Missing /\ 1 \notin deleted
    BY <1>1, <2>3 DEF DiskInv, OneLocation
  <2>5. OneLocation'
    BY <1>1, <1>2, <2>2, <2>4 DEF OneLocation
  <2> QED
    BY <1>2, <1>3, <2>2, <2>5 DEF DiskInv, NothingYet
<1>7. CASE MoveToCompleted(t) \/ MoveFails(t)
  <2>1. thread[t].sid = 1
    BY <1>1, <1>7 DEF IInv, ControlOK, ControlOf, MoveToCompleted, MoveFails, LockPC
  <2>2. thread'[t].pc \notin CriticalPC
    BY <1>1, <1>7, ReturnsOutside DEF MoveToCompleted, MoveFails
  <2>3. \A u \in Thread : ~Writing(u)'
    BY <1>5, <2>2 DEF Writing, InCritical, CriticalPC
  <2>4. OneLocation'
    <3>1. CASE MoveToCompleted(t)
      <4>1. activeDir'[1] = Missing
        BY <1>1, <2>1, <3>1 DEF MoveToCompleted, MoveFile, IInv, TypeOK
      <4> QED
        BY <1>1, <4>1 DEF OneLocation
    <3>2. CASE MoveFails(t)
      <4>1. completedDir'[1] = Missing /\ activeDir' = activeDir
        BY <1>1, <2>1, <3>2 DEF MoveFails, IInv, TypeOK
      <4> QED
        BY <1>1, <1>2, <4>1 DEF DiskInv, OneLocation
    <3> QED
      BY <1>7, <3>1, <3>2
  <2> QED
    BY <1>2, <1>3, <2>3, <2>4 DEF DiskInv, NothingYet
<1> QED
  BY <1>6, <1>7

\* The steps of a thread.
LEMMA ProgressDisk ==
  ASSUME MaxSession = 1, IInv, LockInv, DiskInv, NEW t \in Thread,
         Progress(t) \/ MoveFails(t) \/ \E ok \in BOOLEAN : CollectLogs(t, ok)
  PROVE  DiskInv'
<1>1. /\ thread[t].pc # "idle" /\ UNCHANGED <<worker, issued, deleted>>
      /\ thread \in [Thread -> ThreadState] /\ thread[t] \in ThreadState
  BY StepsOfStarted DEF IInv, TypeOK
<1>2. CASE Truncate(t) \/ WriteAndRelease(t) \/ MoveToCompleted(t) \/ MoveFails(t)
  BY <1>2, FileDisk
<1>3. ASSUME AcquireAndLoad(t) PROVE DiskInv'
  <2>1. GetActiveSession # 0 => activeDir[1] # Missing
    BY TheSession DEF IInv
  <2>2. thread'[t].pc \notin CriticalPC \/ GetActiveSession # 0
    BY <1>1, <1>3, ReturnsOutside DEF AcquireAndLoad
  <2>3. \A u \in Thread : Writing(u)' => Writing(u) \/ activeDir[1] # Missing
    BY <1>1, <1>3, <2>1, <2>2 DEF AcquireAndLoad, Writing, CriticalPC
  <2> QED
    BY <1>1, <1>3, <2>3, ThreadDisk DEF AcquireAndLoad
<1>4. CASE \/ AcquireTimesOut(t) \/ CheckFileExists(t) \/ AcquireForMove(t)
           \/ AcquireForMoveTimesOut(t) \/ CheckAndComplete(t) \/ CancelOrphaned(t)
           \/ EnforceTimeLimit(t) \/ StartTask(t) \/ SkipTask(t) \/ AnalyzeLogs(t)
           \/ \E ok \in BOOLEAN : CollectLogs(t, ok)
  <2>1. UNCHANGED files
    BY <1>4 DEF AcquireTimesOut, CheckFileExists, AcquireForMove, AcquireForMoveTimesOut,
       CheckAndComplete, CancelOrphaned, EnforceTimeLimit, StartTask, SkipTask, AnalyzeLogs, CollectLogs
  <2>2. CASE Truncate(t) \/ AcquireAndLoad(t)
    BY <1>2, <1>3, <2>2
  <2>3. CASE ~Truncate(t) /\ ~AcquireAndLoad(t)
    <3>1. \A u \in Thread : thread'[u] = thread[u] \/ ~Writing(u)'
      BY <1>4, <2>3, NotWriting DEF Progress
    <3> QED
      BY <1>1, <2>1, <3>1, ThreadDisk DEF Writing
  <2> QED
    BY <2>2, <2>3
<1> QED
  BY <1>2, <1>3, <1>4 DEF Progress

\* A request creates the session file.
LEMMA SubmitDisk ==
  ASSUME MaxSession = 1, IInv, DiskInv, NEW w \in Worker, Submit(w) \/ CrashWorker(w)
  PROVE  DiskInv'
<1>1. /\ Session = {1} /\ Missing \notin SessionData /\ TypeOK
      /\ worker \in [Worker -> WorkerState] /\ issued \in 0..1
  BY TheSession DEF IInv, TypeOK
<1>2. UNCHANGED <<thread, deleted>>
  BY DEF Submit, CrashWorker, SubmitNewSession, AcquireActiveSessionLock, RefuseUnderLock,
         SaveSession, WriteNewSession, envVars
<1>3. ASSUME SubmitNewSession(w) \/ AcquireActiveSessionLock(w) \/ RefuseUnderLock(w) \/ CrashWorker(w)
      PROVE  DiskInv'
  <2>1. UNCHANGED <<activeDir, completedDir, issued>>
    BY <1>3 DEF SubmitNewSession, AcquireActiveSessionLock, RefuseUnderLock, CrashWorker, files
  <2>2. /\ worker'[w].pc # "writing"
        /\ \A v \in Worker : v # w => worker'[v] = worker[v]
    BY <1>1, <1>3
    DEF SubmitNewSession, AcquireActiveSessionLock, RefuseUnderLock, CrashWorker, WorkerState
  <2>3. ASSUME NEW v \in Worker, worker'[v].pc = "writing" PROVE Unborn(v)'
    <3>1. Unborn(v) /\ worker'[v] = worker[v]
      BY <2>2, <2>3 DEF DiskInv
    <3> QED
      BY <1>2, <2>1, <2>2, <3>1 DEF Unborn
  <2>4. OneLocation'
    BY <1>2, <2>1 DEF DiskInv, OneLocation
  <2> QED
    BY <1>2, <2>1, <2>3, <2>4 DEF DiskInv, NothingYet, Writing
<1>4. ASSUME NEW T \in TargetSets, NEW m \in Modes, SaveSession(w, T, m) PROVE DiskInv'
  <2>1. issued = 0 /\ issued' = 1 /\ completedDir' = completedDir
    BY <1>1, <1>4 DEF SaveSession
  <2>2. /\ activeDir[1] = Missing /\ completedDir[1] = Missing /\ deleted = {}
        /\ \A t \in Thread : thread[t].pc = "idle"
        /\ \A v \in Worker : worker[v].pc # "writing"
    BY <2>1 DEF DiskInv, NothingYet, Unborn
  <2>3. activeDir'[1] \in {Missing, Empty}
    BY <1>1, <1>4, <2>1, <2>2 DEF SaveSession, TypeOK
  <2>4. worker' = [worker EXCEPT ![w] = [pc |-> "writing", sid |-> 1, new |-> NewSession(T, m)]]
    BY <1>4, <2>1 DEF SaveSession
  <2>5. /\ worker'[w].sid = 1 /\ worker'[w].new = NewSession(T, m)
        /\ \A v \in Worker : v # w => worker'[v].pc # "writing"
    BY <1>1, <2>2, <2>4
  <2>6. NewSession(T, m) \in SessionData /\ \A i \in Instance : NewSession(T, m).inst[i] = NoEntry
    BY ParametersAssumption DEF NewSession, SessionData, NoEntry, Entry
  <2>7. \A v \in Worker : worker'[v].pc = "writing" => Unborn(v)'
    BY <1>2, <2>1, <2>2, <2>3, <2>5, <2>6 DEF Unborn
  <2>8. OneLocation'
    BY <1>1, <1>2, <2>1, <2>2 DEF OneLocation
  <2> QED
    BY <1>2, <2>1, <2>2, <2>7, <2>8 DEF DiskInv, NothingYet, Writing
<1>5. ASSUME WriteNewSession(w) PROVE DiskInv'
  <2>1. Unborn(w)
    BY <1>5 DEF WriteNewSession, DiskInv
  <2>2. /\ completedDir' = completedDir /\ issued' = issued
        /\ worker' = [worker EXCEPT ![w] = [pc |-> "idle", sid |-> 0, new |-> Missing]]
    BY <1>5 DEF WriteNewSession
  <2>3. \A v \in Worker : worker'[v].pc # "writing"
    BY <1>1, <2>1, <2>2 DEF Unborn
  <2>4. OneLocation'
    BY <1>1, <1>2, <2>1, <2>2 DEF OneLocation, Unborn
  <2> QED
    BY <1>2, <2>1, <2>2, <2>3, <2>4 DEF DiskInv, NothingYet, Unborn, Writing
<1> QED
  BY <1>3, <1>4, <1>5 DEF Submit

\* Every step keeps the session in one directory.
LEMMA NextDisk ==
  ASSUME MaxSession = 1
  PROVE  IInv /\ LockInv /\ DiskInv /\ [Next]_vars => DiskInv'
<1> SUFFICES ASSUME IInv, LockInv, DiskInv, [Next]_vars PROVE DiskInv'
  OBVIOUS
<1>1. Session = {1} /\ Missing # Empty
  BY TheSession DEF IInv
<1>2. ASSUME UNCHANGED <<files, worker, issued, deleted>>,
             \A u \in Thread : thread'[u].pc \in {"idle", thread[u].pc}
      PROVE  DiskInv'
  <2>1. OneLocation'
    BY <1>2 DEF DiskInv, OneLocation, files
  <2>2. \A w \in Worker : worker'[w].pc = "writing" => Unborn(w)'
    BY <1>2 DEF DiskInv, Unborn, files
  <2> QED
    BY <1>2, <2>1, <2>2 DEF DiskInv, NothingYet, Writing, files
<1>3. ASSUME NEW i \in Runner, Poll(i) PROVE DiskInv'
  <2>1. activeDir[1] \notin {Missing, Empty}
    BY <1>3, TheSession DEF Poll, IInv
  <2>2. /\ UNCHANGED <<files, worker, issued, deleted>>
        /\ \A u \in Thread : thread'[u] = thread[u] \/ thread'[u].pc \in {"orphans", "check"}
    BY <1>3 DEF Poll, IInv, TypeOK, IdleThread, submitVars, envVars
  <2>3. OneLocation'
    BY <2>2 DEF DiskInv, OneLocation, files
  <2> QED
    BY <2>1, <2>2, <2>3 DEF DiskInv, NothingYet, Unborn, Writing, files
<1>4. ASSUME NEW i \in Runner, CrashRunner(i) PROVE DiskInv'
  BY <1>2, <1>4 DEF CrashRunner, IdleThread, submitVars
<1>5. ASSUME NEW s \in Session, FinalizeLock(s) \/ Age(s) PROVE DiskInv'
  BY <1>2, <1>5 DEF FinalizeLock, Age, submitVars, envVars
<1>6. ASSUME NEW s \in Session, DeleteSession(s) PROVE DiskInv'
  <2>1. /\ completedDir[1] # Missing /\ deleted' = deleted \cup {1}
        /\ UNCHANGED <<activeDir, thread, worker, issued>>
    BY <1>1, <1>6 DEF DeleteSession, submitVars
  <2>2. activeDir[1] = Missing /\ issued # 0 /\ \A w \in Worker : worker[w].pc # "writing"
    BY <1>1, <2>1 DEF DiskInv, OneLocation, NothingYet, Unborn
  <2>3. OneLocation'
    BY <1>1, <2>1, <2>2 DEF OneLocation
  <2> QED
    BY <2>1, <2>2, <2>3 DEF DiskInv, NothingYet, Writing
<1>7. CASE UNCHANGED vars
  BY <1>2, <1>7 DEF vars, submitVars, envVars
<1> QED
  BY <1>3, <1>4, <1>5, <1>6, <1>7, ProgressDisk, SubmitDisk DEF Next

\* The initial states.
LEMMA InitDisk == ASSUME MaxSession = 1 PROVE Init => DiskInv
<1> SUFFICES ASSUME Init PROVE DiskInv
  OBVIOUS
<1>1. Session = {1}
  BY DEF Session
<1>2. \A t \in Thread : thread[t].pc = "idle"
  BY DEF Init, IdleThread
<1> QED
  BY <1>1, <1>2 DEF Init, DiskInv, OneLocation, NothingYet, Writing

-----------------------------------------------------------------------------
(* What an update does to a session *)

\* The entries update r of machine i changes in session d, which becomes D.
Effect(d, i, r, D) ==
  LET e == d.inst[i]
      E == D.inst[i]
  IN /\ D \in SessionData /\ D.targets = d.targets /\ D.mode = d.mode
     /\ r.op # "Orphan" => \A j \in Instance : j # i => D.inst[j] = d.inst[j]
     /\ r.op = "Mark" => E = e
     /\ r.op = "Orphan" => \A j \in Instance :
          \/ D.inst[j] = d.inst[j]
          \/ /\ d.inst[j].st = Absent /\ D.inst[j].st = "Complete"
             /\ D.inst[j].orphan /\ ~D.inst[j].logs
     /\ r.op \in {"Started", "Analyzing", "Complete", "Append", "Reports"} =>
          /\ E.orphan = e.orphan
          /\ E.st = IF r.op = "Reports" THEN e.st
                    ELSE IF r.op # "Append" THEN r.op
                    ELSE IF e.st = Absent THEN "Active" ELSE e.st
          /\ E.logs = IF r.op = "Append" THEN e.logs \/ r.flag ELSE e.logs
          /\ E.reports = IF r.op = "Reports" THEN e.reports \/ (r.flag /\ e.logs) ELSE e.reports

\* Each update has that effect.
LEMMA UpdateEffect ==
  ASSUME NEW d \in SessionData, NEW i \in Instance, NEW r \in ThreadState
  PROVE  Effect(d, i, r, Updated(d, i, r))
<1> DEFINE D == Updated(d, i, r)
           e == d.inst[i]
<1>1. D \in SessionData
  BY UpdatedType
<1>2. r.op \in Update /\ e \in Entry
  BY DEF ThreadState, SessionData
<1>3. CASE r.op \in {"Started", "Analyzing", "Complete"}
  <2>1. D = SetStatus(d, i, r.op)
    BY <1>3 DEF Updated
  <2>2. /\ D.targets = d.targets /\ D.mode = d.mode
        /\ \A j \in Instance : D.inst[j] = IF j = i THEN [e EXCEPT !.st = r.op] ELSE d.inst[j]
    BY <2>1 DEF SetStatus, SessionData
  <2> HIDE DEF D
  <2> QED
    BY <1>1, <1>2, <1>3, <2>2 DEF Entry, D, Effect
<1>4. CASE r.op = "Append"
  <2> DEFINE x == [e EXCEPT !.st = IF e.st = Absent THEN "Active" ELSE e.st,
                            !.logs = e.logs \/ r.flag]
  <2>1. D = AppendLogs(d, i, r.flag)
    BY <1>4 DEF Updated
  <2>2. /\ D.targets = d.targets /\ D.mode = d.mode
        /\ \A j \in Instance : D.inst[j] = IF j = i THEN x ELSE d.inst[j]
    BY <2>1 DEF AppendLogs, SessionData
  <2>3. /\ x.orphan = e.orphan /\ x.reports = e.reports
        /\ x.st = IF e.st = Absent THEN "Active" ELSE e.st
        /\ x.logs = (e.logs \/ r.flag)
    BY <1>2 DEF Entry
  <2> HIDE DEF D, x
  <2> QED
    BY <1>1, <1>2, <1>4, <2>2, <2>3 DEF D, Effect
<1>5. CASE r.op = "Reports"
  <2> DEFINE x == [e EXCEPT !.reports = e.reports \/ (r.flag /\ e.logs)]
  <2>1. D = AddReports(d, i, r.flag)
    BY <1>5 DEF Updated
  <2>2. /\ D.targets = d.targets /\ D.mode = d.mode
        /\ \A j \in Instance : D.inst[j] = IF j = i THEN x ELSE d.inst[j]
    BY <2>1 DEF AddReports, SessionData
  <2>3. /\ x.orphan = e.orphan /\ x.logs = e.logs /\ x.st = e.st
        /\ x.reports = (e.reports \/ (r.flag /\ e.logs))
    BY <1>2 DEF Entry
  <2> HIDE DEF D, x
  <2> QED
    BY <1>1, <1>2, <1>5, <2>2, <2>3 DEF D, Effect
<1>6. CASE r.op = "Orphan"
  <2>1. D = AddOrphans(d, r.names)
    BY <1>6 DEF Updated
  <2>2. /\ D.targets = d.targets /\ D.mode = d.mode
        /\ \A j \in Instance : D.inst[j] = IF j \in r.names /\ d.inst[j].st = Absent
                                           THEN Orphaned("Complete") ELSE d.inst[j]
    BY <2>1 DEF AddOrphans, SessionData
  <2>3. /\ Orphaned("Complete").st = "Complete" /\ Orphaned("Complete").orphan
        /\ ~Orphaned("Complete").logs
    BY DEF Orphaned, NoEntry
  <2> HIDE DEF D
  <2> QED
    BY <1>1, <1>6, <2>2, <2>3 DEF D, Effect
<1>7. CASE r.op = "Mark"
  <2>1. D.targets = d.targets /\ D.mode = d.mode /\ D.inst = d.inst
    BY <1>7 DEF Updated, SessionData
  <2> HIDE DEF D
  <2> QED
    BY <1>1, <1>7, <2>1 DEF D, Effect
<1> QED
  BY <1>2, <1>3, <1>4, <1>5, <1>6, <1>7 DEF Update

\* What an update writes depends on the update, not on where the thread is.
LEMMA UpdatedSame ==
  ASSUME NEW d, NEW i, NEW r, NEW q, q.op = r.op, q.flag = r.flag, q.names = r.names
  PROVE  Updated(d, i, q) = Updated(d, i, r)
BY DEF Updated

\* Where an update returns to depends on the update, not on where the thread is.
LEMMA ReturnSame ==
  ASSUME NEW t, NEW r \in ThreadState
  PROVE  UpdateReturn(t, [r EXCEPT !.pc = "write"]) = UpdateReturn(t, r)
BY DEF UpdateReturn, Calling, ThreadState

\* An update a thread may make keeps the session sound, and over once it is over.
LEMMA UpdateSound ==
  ASSUME NEW d \in SessionData, NEW t \in Thread, NEW r \in ThreadState, t[1] \in Instance,
         InUpdate(r), Relies(t, r, d), Sound(d)
  PROVE  Sound(Updated(d, t[1], r)) /\ (Over(d) => Over(Updated(d, t[1], r)))
<1> DEFINE i == t[1]
           D == Updated(d, i, r)
           e == d.inst[i]
<1>1. Effect(d, i, r, D)
  BY UpdateEffect
<1>2. r.op \in Update
  BY DEF ThreadState
<1> HIDE DEF D
<1>3. ASSUME NEW j \in Instance
      PROVE  /\ D.inst[j].st = Absent => ~D.inst[j].logs
             /\ D.mode = "CollectAndAnalyze" /\ D.inst[j].st = "Complete" /\ D.inst[j].logs
                  => D.inst[j].reports
             /\ d.inst[j].st = "Complete" \/ d.inst[j].orphan
                  => D.inst[j].st = "Complete" \/ D.inst[j].orphan
  <2>1. /\ d.inst[j].st = Absent => ~d.inst[j].logs
        /\ d.mode = "CollectAndAnalyze" /\ d.inst[j].st = "Complete" /\ d.inst[j].logs
             => d.inst[j].reports
    BY DEF Sound
  <2>2. CASE D.inst[j] = d.inst[j]
    BY <2>1, <2>2, <1>1 DEF Effect
  <2>3. CASE D.inst[j] # d.inst[j] /\ r.op = "Orphan"
    BY <1>1, <2>3 DEF Effect, Absent
  <2>4. CASE D.inst[j] # d.inst[j] /\ r.op # "Orphan"
    <3>1. j = i /\ r.op \in {"Started", "Analyzing", "Complete", "Append", "Reports"}
      BY <1>1, <1>2, <2>4 DEF Effect, Update
    <3> QED
      BY <1>1, <2>1, <3>1 DEF Effect, Relies, Absent
  <2> QED
    BY <2>2, <2>3, <2>4
<1>4. d.targets \subseteq Instance
  BY DEF SessionData
<1> QED
  BY <1>1, <1>3, <1>4 DEF Effect, Sound, Over, D

\* An update of one thread leaves what the other threads rely on.
LEMMA UpdateOthers ==
  ASSUME NEW d \in SessionData, NEW t \in Thread, NEW r \in ThreadState, t[1] \in Instance,
         InUpdate(r), Relies(t, r, d), Sound(d), ControlOf(t, r),
         NEW u \in Thread, NEW q \in ThreadState, u[1] \in Instance, ControlOf(u, q),
         q.pc \notin {"truncate", "write"},
         IsLoop(t) \/ IsLoop(u) \/ u[1] # t[1],
         NEW up, Fits(u, q, d, up), d \notin Blank
  PROVE  Fits(u, q, Updated(d, t[1], r), up)
<1> DEFINE i == t[1]
           D == Updated(d, i, r)
           e == d.inst[u[1]]
<1>1. Effect(d, i, r, D)
  BY UpdateEffect
<1>2. Over(d) => Over(D)
  BY UpdateSound
<1> HIDE DEF D
<1>3. Relies(u, q, D)
  <2>1. Relies(u, q, d)
    BY DEF Fits
  <2>2. CASE IsLoop(u)
    <3>1. q.pc # "collecting" /\ q.op \in {"Orphan", "Mark"}
      BY <2>2 DEF ControlOf, LoopPC
    <3> QED
      BY <3>1 DEF Relies
  <2>3. CASE ~IsLoop(u)
    <3>1. \/ D.inst[u[1]] = e
          \/ /\ e.st = Absent /\ D.inst[u[1]].st = "Complete"
             /\ D.inst[u[1]].orphan /\ ~D.inst[u[1]].logs
      BY <1>1, <2>3 DEF Effect, ControlOf
    <3>2. e.st = Absent => ~e.logs
      BY DEF Sound
    <3>3. e \in Entry /\ q.flag \in BOOLEAN /\ D.inst[u[1]] \in Entry
      BY <1>1 DEF Effect, SessionData, ThreadState
    <3> QED
      BY <1>1, <2>1, <3>1, <3>2, <3>3 DEF Effect, Relies, Entry
  <2> QED
    BY <2>2, <2>3
<1> QED
  BY <1>2, <1>3 DEF Fits, D

\* A thread that is neither in an update nor collecting nor completing relies on nothing.
LEMMA PlainFits ==
  ASSUME NEW t, NEW r, NEW d, NEW up,
         r.pc \notin {"acquire", "truncate", "write", "collecting", "exists", "acquireMove", "move"}
  PROVE  Fits(t, r, d, up)
BY DEF Fits, Relies, InUpdate, Completing

\* The call of an update relies on what the caller found.
LEMMA CallingFits ==
  ASSUME NEW t, NEW r \in ThreadState, NEW o, NEW s, NEW f, NEW d, NEW up,
         d \notin Blank =>
           LET e == d.inst[t[1]] IN
           /\ o \in {"Started", "Analyzing"} /\ e.st = "Complete" => e.orphan /\ ~e.logs
           /\ o = "Append" => e.st \notin {Absent, "Complete"}
           /\ o = "Reports" => f = e.logs
           /\ o = "Complete" /\ d.mode = "CollectAndAnalyze" /\ e.logs => e.reports
           /\ o = "Mark" => up \/ Over(d)
  PROVE  Fits(t, Calling(r, o, s, f), d, up)
<1>1. /\ Calling(r, o, s, f).pc = "acquire" /\ Calling(r, o, s, f).op = o
      /\ Calling(r, o, s, f).flag = f
  BY DEF Calling, ThreadState
<1> HIDE DEF Calling
<1> QED
  BY <1>1 DEF Fits, Relies, InUpdate, Completing

\* A thread that made its update relies on what it wrote.
LEMMA UpdateReturnFits ==
  ASSUME NEW d \in SessionData, NEW t \in Thread, NEW r \in ThreadState, t[1] \in Instance,
         InUpdate(r), Relies(t, r, d), Sound(d),
         NEW up, r.op = "Mark" => up \/ Over(d)
  PROVE  Fits(t, UpdateReturn(t, r), Updated(d, t[1], r), up)
<1> DEFINE i == t[1]
           D == Updated(d, i, r)
           e == d.inst[i]
           clean == [r EXCEPT !.tgt = 0, !.buf = Missing, !.names = {}]
<1>1. Effect(d, i, r, D)
  BY UpdateEffect
<1>2. Over(d) => Over(D)
  BY UpdateSound
<1>3. clean \in ThreadState /\ r.op \in Update
  BY ZeroIsNoSession DEF ThreadState
<1>4. \A p : [clean EXCEPT !.pc = p].pc = p /\ [clean EXCEPT !.pc = p, !.sid = 0].pc = p
  BY <1>3 DEF ThreadState
<1> HIDE DEF D, clean
<1>5. CASE r.op = "Started"
  <2>1. UpdateReturn(t, r) = [clean EXCEPT !.pc = "collecting"]
    BY <1>5 DEF UpdateReturn, clean
  <2>2. D.inst[i].st \notin {Absent, "Complete"}
    BY <1>1, <1>5 DEF Effect, Absent
  <2> QED
    BY <1>4, <2>1, <2>2 DEF Fits, Relies, InUpdate, Completing, D
<1>6. CASE r.op = "Append"
  <2>1. UpdateReturn(t, r) = Calling(clean, "Analyzing", t[2], FALSE)
    BY <1>6 DEF UpdateReturn, clean
  <2>2. D.inst[i].st # "Complete"
    BY <1>1, <1>6 DEF Effect, Relies
  <2> QED
    BY <1>3, <2>1, <2>2, CallingFits DEF D
<1>7. CASE r.op = "Reports"
  <2>1. UpdateReturn(t, r) = Calling(clean, "Complete", t[2], FALSE)
    BY <1>7 DEF UpdateReturn, clean
  <2>2. D.inst[i].logs => D.inst[i].reports
    BY <1>1, <1>7 DEF Effect, Relies
  <2> QED
    BY <1>3, <2>1, <2>2, CallingFits DEF D
<1>8. CASE r.op \in {"Analyzing", "Complete", "Orphan"}
  <2>1. UpdateReturn(t, r).pc \in {"analyze", "finish", "limits"}
    BY <1>4, <1>8 DEF UpdateReturn, clean
  <2> QED
    BY <2>1, PlainFits
<1>9. CASE r.op = "Mark"
  <2>1. UpdateReturn(t, r) = [clean EXCEPT !.pc = "exists"]
    BY <1>9 DEF UpdateReturn, clean
  <2>2. up \/ Over(D)
    BY <1>2, <1>9
  <2> QED
    BY <1>4, <2>1, <2>2 DEF Fits, Relies, InUpdate, Completing, D
<1> QED
  BY <1>3, <1>5, <1>6, <1>7, <1>8, <1>9 DEF Update


-----------------------------------------------------------------------------
(* Each kind of step keeps what the session says of the threads *)

Held == MaxSession = 1 /\ ~Stalls

AllInv == IInv /\ LockInv /\ DiskInv /\ SessionInv

Up == age[1] = 3

\* A task looks for the logs of its machine while another thread has truncated the file
\* of the session and not written it yet.
AnalyzesTorn == \E t \in Thread :
  AnalyzeLogs(t) /\ \E u \in Thread : Writing(u) /\ activeDir[thread[u].tgt] = Empty

\* The thread that writes is the only one in the critical section.
LEMMA HalfWrittenFacts ==
  ASSUME Held, AllInv, HalfWritten
  PROVE  /\ lockFile[1] \in Thread /\ InCritical(lockFile[1])
         /\ Now = thread[lockFile[1]].buf /\ Now \in SessionData
         /\ \A u \in Thread : InCritical(u) => u = lockFile[1]
  BY DEF HalfWritten, Now, InCritical, CriticalPC, AllInv, IInv, LockInv, ControlOK, ControlOf

\* The typing facts about the one session that steps need.
LEMMA Facts ==
  ASSUME Held, AllInv
  PROVE  /\ Session = {1} /\ Blank \cap SessionData = {} /\ Missing # Empty
         /\ activeDir \in [Session -> File] /\ completedDir \in [Session -> File]
         /\ activeDir[1] \notin Blank => activeDir[1] \in SessionData
         /\ ~HalfWritten => Now = activeDir[1]
         /\ HalfWritten => activeDir[1] = Empty
         /\ Now \notin Blank => Now \in SessionData
         /\ GetActiveSession = IF activeDir[1] \in Blank THEN 0 ELSE 1
         /\ thread \in [Thread -> ThreadState]
         /\ \A t \in Thread : /\ thread[t] \in ThreadState /\ t[1] \in Instance
                              /\ ControlOf(t, thread[t])
                              /\ Fits(t, AsWritten(t), Now, Up)
                              /\ ~InCritical(t) \/ ~HalfWritten => Fits(t, thread[t], Now, Up)
<1>1. \A t \in Thread : t[1] \in Instance
  BY ParametersAssumption DEF Thread
<1>2. \A t \in Thread : Fits(t, AsWritten(t), Now, Up)
  BY DEF AllInv, SessionInv, Up
<1>3. TypeOK /\ ControlOK /\ MaxSession = 1
  BY DEF AllInv, IInv, Held
<1>4. /\ Session = {1} /\ Blank \cap SessionData = {} /\ Missing # Empty
      /\ GetActiveSession = IF activeDir[1] \in Blank THEN 0 ELSE 1
  BY <1>3, TheSession DEF Blank
<1>5. activeDir \in [Session -> File] /\ (activeDir[1] \notin Blank => activeDir[1] \in SessionData)
  BY <1>3, <1>4 DEF TypeOK, File, Blank
<1>6. \A t \in Thread : ~InCritical(t) \/ ~HalfWritten => AsWritten(t) = thread[t]
  BY HalfWrittenFacts DEF AsWritten
<1>7. /\ ~HalfWritten => Now = activeDir[1]
      /\ HalfWritten => activeDir[1] = Empty
      /\ Now \notin Blank => Now \in SessionData
  BY <1>5, HalfWrittenFacts DEF Now, HalfWritten
<1> QED
  BY <1>1, <1>2, <1>3, <1>4, <1>5, <1>6, <1>7 DEF TypeOK, ControlOK

\* A lock that nobody works under any more stays leaked only once the session is gone.
LEMMA SameLeaks ==
  ASSUME LeakedWhenGone, UNCHANGED <<activeDir, worker, issued>>, HalfWritten' => HalfWritten,
         \/ lockFile'[1] \in {lockFile[1], Free}
         \/ \E u \in Thread : lockFile'[1] = u /\ InCritical(u)'
         \/ Gone,
         \A u \in Thread : InCritical(u) => InCritical(u)' \/ lockFile'[1] # u
  PROVE  LeakedWhenGone'
<1> SUFFICES ASSUME NEW u \in Thread, lockFile'[1] = u, ~InCritical(u)' PROVE Gone
  BY DEF LeakedWhenGone, Gone
<1> USE DEF InCritical
<1>1. lockFile'[1] # Free
  BY SentinelAssumption
<1>2. CASE lockFile'[1] = lockFile[1]
  BY <1>2 DEF LeakedWhenGone
<1> QED
  BY <1>1, <1>2

\* Whoever leaves the critical section frees the lock.
LEMMA ReleaseFrees ==
  ASSUME MaxSession = 1, IInv, LockInv, NEW t \in Thread, InCritical(t), ReleaseSessionLock(t[1])
  PROVE  lockFile'[1] = Free
<1>1. lockFile[1] = t /\ sessionLock[t[1]] = [by |-> t, sid |-> 1]
  BY DEF LockInv
<1>2. 1 \in Session /\ t # NoThread
  BY SentinelAssumption DEF Session
<1> QED
  BY <1>1, <1>2 DEF ReleaseSessionLock

\* A step of the threads that leaves the files alone.
LEMMA ThreadStep ==
  ASSUME Held, AllInv, UNCHANGED <<files, worker, issued, age>>, LeakedWhenGone',
         HalfWritten' = HalfWritten,
         HalfWritten => lockFile'[1] = lockFile[1] /\ thread'[lockFile[1]] = thread[lockFile[1]],
         \A u \in Thread : \/ thread'[u] = thread[u]
                           \/ ~HalfWritten /\ thread'[u].pc = "truncate"
                              /\ activeDir[1] \in SessionData /\ ~AtomicWrites
                              /\ Fits(u, thread'[u], Now, Up)
                           \/ thread'[u].pc # "truncate" /\ Fits(u, thread'[u], Now, Up)
  PROVE  SessionInv'
<1>1. /\ activeDir' = activeDir /\ completedDir' = completedDir /\ Up' = Up
      /\ (HalfWritten => lockFile[1] \in Thread)
  BY DEF files, Up, HalfWritten
<1>2. Now' = Now
  BY <1>1 DEF Now
<1>3. AtomicWrites => WholeFiles'
  BY <1>1 DEF AllInv, SessionInv, WholeFiles
<1>4. ASSUME NEW u \in Thread PROVE Fits(u, AsWritten(u)', Now, Up)
  <2>1. CASE HalfWritten /\ u = lockFile[1]
    <3>1. AsWritten(u)' = AsWritten(u)
      BY <2>1 DEF AsWritten
    <3> QED
      BY <3>1, Facts
  <2>2. CASE ~(HalfWritten /\ u = lockFile[1])
    <3>1. AsWritten(u)' = thread'[u] /\ AsWritten(u) = thread[u]
      BY <2>2 DEF AsWritten
    <3>2. Fits(u, AsWritten(u), Now, Up)
      BY Facts
    <3> QED
      BY <3>1, <3>2
  <2> QED
    BY <2>1, <2>2
<1>5. Sound(Now') /\ Sound(completedDir'[1])
  BY <1>1, <1>2 DEF AllInv, SessionInv
<1>6. \A u \in Thread : thread'[u].pc = "truncate" => activeDir'[1] # Empty
  BY <1>1, Facts DEF AllInv, SessionInv, Blank
<1> QED
  BY <1>1, <1>2, <1>3, <1>4, <1>5, <1>6 DEF SessionInv, Up

\* The same for one thread that was not in the critical section and takes no lock.
LEMMA PlainStep ==
  ASSUME Held, AllInv, UNCHANGED <<files, worker, issued, age, lockFile>>,
         NEW t \in Thread, ~InCritical(t), NEW r, thread' = [thread EXCEPT ![t] = r],
         r.pc \notin {"truncate", "write"}, Fits(t, r, Now, Up)
  PROVE  SessionInv'
<1>1. \A u \in Thread : thread'[u] = IF u = t THEN r ELSE thread[u]
  BY Facts
<1>2. \A u \in Thread : InCritical(u) => InCritical(u)'
  BY <1>1 DEF InCritical
<1>3. thread[t].pc # "write" /\ activeDir' = activeDir
  BY DEF InCritical, CriticalPC, files
<1>4. /\ HalfWritten' = HalfWritten
      /\ HalfWritten => thread'[lockFile[1]] = thread[lockFile[1]]
  BY <1>1, <1>3 DEF HalfWritten
<1>5. LeakedWhenGone'
  BY <1>2, <1>3, <1>4, SameLeaks DEF AllInv, SessionInv
<1> QED
  BY <1>1, <1>4, <1>5, ThreadStep

\* The session is loaded under its lock.
LEMMA AcquireAndLoadStep ==
  ASSUME Held, AllInv, NEW t \in Thread, AcquireAndLoad(t)
  PROVE  SessionInv'
<1> DEFINE r == thread[t]
           d == activeDir[1]
           p == IF AtomicWrites THEN "write" ELSE "truncate"
           q == [r EXCEPT !.pc = p, !.tgt = 1, !.buf = Updated(d, t[1], r)]
<1>1. /\ r.pc = "acquire" /\ TakeLock(t, 1) /\ UNCHANGED <<files, worker, issued, age>>
      /\ thread' = [thread EXCEPT ![t] = IF d \in Blank THEN UpdateReturn(t, r) ELSE q]
  <2>1. r.pc = "acquire" /\ r.sid = 1
    BY Facts DEF AcquireAndLoad, ControlOf, LockPC
  <2>2. TakeLock(t, r.sid) /\ UNCHANGED <<files, worker, issued, age>>
    BY DEF AcquireAndLoad, submitVars, envVars
  <2>3. GetActiveSession = IF d \in Blank THEN 0 ELSE 1
    BY Facts
  <2>4. CASE d \in Blank
    <3>1. thread' = [thread EXCEPT ![t] = UpdateReturn(t, r)]
      BY <2>3, <2>4 DEF AcquireAndLoad
    <3> QED
      BY <2>1, <2>2, <2>4, <3>1
  <2>5. CASE d \notin Blank
    <3>1. thread' = [thread EXCEPT ![t] = q]
      BY <2>3, <2>5 DEF AcquireAndLoad
    <3> QED
      BY <2>1, <2>2, <2>5, <3>1
  <2> QED
    BY <2>4, <2>5
<1>2. lockFile'[1] = t /\ lockFile[1] = Free
  BY <1>1, Facts DEF TakeLock, AllInv, IInv, TypeOK
<1>3. ~HalfWritten /\ Now = d /\ activeDir' = activeDir
  BY <1>1, <1>2, SentinelAssumption, Facts DEF HalfWritten, files
<1>4. \A u \in Thread : u # t => thread'[u] = thread[u]
  BY <1>1, Facts
<1>5. CASE d \in Blank
  <2>1. Gone
    BY <1>1, <1>3, <1>5, StartedLater DEF Held, AllInv, Gone
  <2>2. thread'[t] = UpdateReturn(t, r) /\ UpdateReturn(t, r).pc \notin {"truncate", "write"}
    BY <1>1, <1>5, Facts, ReturnsOutside DEF CriticalPC
  <2>3. ~HalfWritten'
    BY <1>2, <2>2 DEF HalfWritten
  <2>4. LeakedWhenGone'
    BY <1>1, <1>3, <2>1, <2>3 DEF LeakedWhenGone, Gone
  <2>5. Fits(t, UpdateReturn(t, r), Now, Up)
    BY <1>3, <1>5 DEF Fits
  <2>6. HalfWritten' = HalfWritten
    BY <1>3, <2>3 DEF HalfWritten
  <2>7. \A u \in Thread : \/ thread'[u] = thread[u]
                          \/ thread'[u].pc # "truncate" /\ Fits(u, thread'[u], Now, Up)
    BY <1>4, <2>2, <2>5
  <2> QED
    BY <1>1, <1>3, <2>4, <2>6, <2>7, ThreadStep
<1>6. CASE d \notin Blank
  <2>1. /\ q.pc = p /\ q.op = r.op /\ q.flag = r.flag /\ q.names = r.names
        /\ q.buf = Updated(d, t[1], r)
    BY Facts DEF ThreadState
  <2>2. thread'[t] = q
    BY <1>1, <1>6, Facts
  <2> HIDE DEF q
  <2>3. q.buf = Updated(d, t[1], q)
    BY <2>1, UpdatedSame
  <2>4. Fits(t, q, Now, Up)
    <3>1. Fits(t, r, d, Up)
      BY <1>3, Facts
    <3> QED
      BY <1>1, <1>3, <1>6, <2>1, <2>3, <3>1 DEF Fits, Relies, InUpdate, Completing
  <2>5. LeakedWhenGone'
    BY <1>2, <2>1, <2>2 DEF LeakedWhenGone, InCritical, CriticalPC
  <2>6. d \in SessionData /\ ~HalfWritten'
    BY <1>3, <1>6, Facts DEF HalfWritten, Blank
  <2>7. q.pc = "truncate" => ~AtomicWrites
    BY <2>1
  <2>8. HalfWritten' = HalfWritten
    BY <1>3, <2>6 DEF HalfWritten
  <2>9. \A u \in Thread : \/ thread'[u] = thread[u]
                          \/ ~HalfWritten /\ thread'[u].pc = "truncate"
                             /\ activeDir[1] \in SessionData /\ ~AtomicWrites
                             /\ Fits(u, thread'[u], Now, Up)
                          \/ thread'[u].pc # "truncate" /\ Fits(u, thread'[u], Now, Up)
    BY <1>3, <1>4, <2>2, <2>4, <2>6, <2>7
  <2> QED
    BY <1>1, <1>3, <2>5, <2>8, <2>9, ThreadStep
<1> QED
  BY <1>5, <1>6

\* Only a session that is gone leaves a lock nobody releases.
LEMMA TimeoutWhenGone ==
  ASSUME Held, AllInv, Leaked(1)
  PROVE  Now \in Blank
<1>1. lockFile[1] \in Thread /\ ~(InCritical(lockFile[1]) /\ thread[lockFile[1]].sid = 1)
  BY DEF Leaked
<1>2. InCritical(lockFile[1]) => thread[lockFile[1]].sid = 1
  BY <1>1, Facts DEF InCritical, CriticalPC, ControlOf, LockPC
<1> QED
  BY <1>1, <1>2, Facts DEF AllInv, SessionInv, LeakedWhenGone, Gone

\* A thread that gives up waiting for the lock: the session is gone.
LEMMA TimeoutStep ==
  ASSUME Held, AllInv, NEW t \in Thread, AcquireTimesOut(t) \/ AcquireForMoveTimesOut(t)
  PROVE  SessionInv'
<1> DEFINE r == thread[t]
<1>1. r.sid = 1 /\ r \in ThreadState /\ ~InCritical(t)
  BY Facts DEF AcquireTimesOut, AcquireForMoveTimesOut, ControlOf, LockPC, InCritical, CriticalPC
<1>2. Leaked(1)
  BY <1>1 DEF AcquireTimesOut, AcquireForMoveTimesOut, GiveUpOnLock, Held
<1>3. Now \in Blank
  BY <1>2, TimeoutWhenGone
<1>4. PICK q \in {UpdateReturn(t, r), MarkReturn(t, r)} : thread' = [thread EXCEPT ![t] = q]
  BY DEF AcquireTimesOut, AcquireForMoveTimesOut
<1>5. q.pc \notin {"truncate", "write"} /\ Fits(t, q, Now, Up)
  BY <1>1, <1>3, <1>4, ReturnsOutside DEF Fits, CriticalPC
<1>6. UNCHANGED <<files, worker, issued, age, lockFile>>
  BY DEF AcquireTimesOut, AcquireForMoveTimesOut, submitVars, envVars
<1> QED
  BY <1>1, <1>4, <1>5, <1>6, PlainStep

\* What the thread that is about to write has loaded and made of it.
LEMMA WriterFacts ==
  ASSUME Held, AllInv, NEW t \in Thread, Writing(t), activeDir[1] # Empty
  PROVE  LET d == activeDir[1]
             r == thread[t]
         IN /\ InCritical(t) /\ lockFile[1] = t /\ ~HalfWritten /\ Now = d
            /\ d \in SessionData /\ d \notin Blank
            /\ r \in ThreadState /\ t[1] \in Instance /\ ControlOf(t, r)
            /\ InUpdate(r) /\ Relies(t, r, d) /\ r.buf = Updated(d, t[1], r) /\ Sound(d)
            /\ r.tgt = 1
            /\ r.op = "Mark" => Up \/ Over(d)
            /\ \A u \in Thread : u # t =>
                 /\ ~InCritical(u) /\ Fits(u, thread[u], d, Up)
                 /\ IsLoop(t) \/ IsLoop(u) \/ u[1] # t[1]
<1> DEFINE d == activeDir[1]
           r == thread[t]
<1>1. ~HalfWritten
  BY DEF HalfWritten
<1>2. InCritical(t) /\ lockFile[1] = t /\ InUpdate(r)
  BY DEF Writing, InCritical, CriticalPC, AllInv, LockInv, InUpdate
<1>3. d \notin Blank /\ d \in SessionData
  BY Facts DEF AllInv, DiskInv, Blank
<1>4. Now = d /\ Fits(t, r, d, Up) /\ r \in ThreadState /\ t[1] \in Instance /\ ControlOf(t, r)
  BY <1>1, Facts
<1>5. Sound(d) /\ r.tgt = 1
  BY <1>4, Facts DEF AllInv, SessionInv, ControlOf, Writing
<1>6. Relies(t, r, d) /\ r.buf = Updated(d, t[1], r) /\ (r.op = "Mark" => Up \/ Over(d))
  BY <1>2, <1>3, <1>4 DEF Fits, Completing, Writing
<1>7. \A u \in Thread : u # t =>
        /\ ~InCritical(u) /\ Fits(u, thread[u], d, Up)
        /\ IsLoop(t) \/ IsLoop(u) \/ u[1] # t[1]
  BY <1>1, <1>2, <1>4, OneCritical, Facts DEF AllInv, IsLoop, Thread, Held
<1> QED
  BY <1>1, <1>2, <1>3, <1>4, <1>5, <1>6, <1>7

\* What the others rely on, and the writer goes on with, once its update is made.
LEMMA UpdateMade ==
  ASSUME Held, AllInv, NEW t \in Thread, Writing(t), activeDir[1] # Empty
  PROVE  LET D == Updated(activeDir[1], t[1], thread[t])
         IN /\ D \in SessionData /\ Sound(D)
            /\ Fits(t, UpdateReturn(t, thread[t]), D, Up)
            /\ \A u \in Thread : u # t => Fits(u, thread[u], D, Up)
<1> DEFINE d == activeDir[1]
           r == thread[t]
           D == Updated(d, t[1], r)
<1>1. /\ d \in SessionData /\ d \notin Blank
      /\ r \in ThreadState /\ t[1] \in Instance /\ ControlOf(t, r)
      /\ InUpdate(r) /\ Relies(t, r, d) /\ Sound(d)
      /\ r.op = "Mark" => Up \/ Over(d)
      /\ \A u \in Thread : u # t =>
           /\ ~InCritical(u) /\ Fits(u, thread[u], d, Up)
           /\ IsLoop(t) \/ IsLoop(u) \/ u[1] # t[1]
  BY WriterFacts
<1>2. D \in SessionData /\ Sound(D)
  BY <1>1, UpdatedType, UpdateSound
<1>3. Fits(t, UpdateReturn(t, r), D, Up)
  BY <1>1, UpdateReturnFits
<1>4. ASSUME NEW u \in Thread, u # t PROVE Fits(u, thread[u], D, Up)
  <2>1. thread[u] \in ThreadState /\ u[1] \in Instance /\ ControlOf(u, thread[u])
    BY Facts
  <2>2. thread[u].pc \notin {"truncate", "write"}
    BY <1>1, <1>4 DEF InCritical, CriticalPC
  <2> QED
    BY <1>1, <1>4, <2>1, <2>2, UpdateOthers
<1> QED
  BY <1>2, <1>3, <1>4

\* The file is truncated: from here on the session is what the thread will write.
LEMMA TruncateStep ==
  ASSUME Held, AllInv, NEW t \in Thread, Truncate(t)
  PROVE  SessionInv'
<1> DEFINE r == thread[t]
           q == [r EXCEPT !.pc = "write"]
           D == Updated(activeDir[1], t[1], r)
<1>1. Writing(t) /\ r.pc = "truncate" /\ activeDir[1] # Empty /\ ~AtomicWrites
  BY DEF Truncate, Writing, AllInv, SessionInv, WholeFiles
<1>2. lockFile[1] = t /\ r.tgt = 1 /\ r \in ThreadState /\ r.buf = D
  BY <1>1, WriterFacts
<1>3. /\ D \in SessionData /\ Sound(D) /\ Fits(t, UpdateReturn(t, r), D, Up)
      /\ \A u \in Thread : u # t => Fits(u, thread[u], D, Up)
  BY <1>1, UpdateMade
<1>4. /\ q.pc = "write" /\ q.buf = D
      /\ [q EXCEPT !.tgt = 0, !.buf = Missing, !.names = {}]
           = [[r EXCEPT !.tgt = 0, !.buf = Missing, !.names = {}] EXCEPT !.pc = "write"]
  BY <1>2 DEF ThreadState
<1> HIDE DEF D
<1>5. /\ activeDir'[1] = Empty /\ thread'[t] = q /\ UNCHANGED <<completedDir, lockFile, age>>
      /\ \A u \in Thread : u # t => thread'[u] = thread[u]
  BY <1>2, Facts DEF Truncate, Goto, envVars
<1>6. HalfWritten' /\ Now' = D /\ Up' = Up
  BY <1>2, <1>4, <1>5 DEF HalfWritten, Now, Up
<1>7. UpdateReturn(t, q) = UpdateReturn(t, r)
  BY <1>2, ReturnSame
<1>8. AsWritten(t)' = UpdateReturn(t, r) /\ \A u \in Thread : u # t => AsWritten(u)' = thread[u]
  BY <1>2, <1>5, <1>6, <1>7 DEF AsWritten
<1>9. \A u \in Thread : Fits(u, AsWritten(u)', Now', Up')
  BY <1>3, <1>6, <1>8
<1>10. LeakedWhenGone'
  BY <1>2, <1>4, <1>5 DEF LeakedWhenGone, InCritical, CriticalPC
<1>11. \A u \in Thread : thread'[u].pc # "truncate"
  <2>1. \A u \in Thread : u # t => ~InCritical(u)
    BY <1>1, WriterFacts
  <2> QED
    BY <1>4, <1>5, <2>1 DEF InCritical, CriticalPC
<1> QED
  BY <1>1, <1>3, <1>5, <1>6, <1>9, <1>10, <1>11 DEF SessionInv, AllInv, Up

\* The session is saved as it was loaded and updated.
LEMMA WriteStep ==
  ASSUME Held, AllInv, NEW t \in Thread, WriteAndRelease(t)
  PROVE  /\ SessionInv'
         /\ completedDir' = completedDir
         /\ activeDir[1] # Empty =>
              /\ activeDir[1] \in SessionData
              /\ activeDir'[1] = Updated(activeDir[1], t[1], thread[t])
<1> DEFINE r == thread[t]
           d == activeDir[1]
           D == Updated(d, t[1], r)
<1>1. /\ r.pc = "write" /\ r.tgt = 1 /\ ReleaseSessionLock(t[1])
      /\ activeDir' = [activeDir EXCEPT ![r.tgt] = r.buf]
      /\ thread' = [thread EXCEPT ![t] = UpdateReturn(t, r)]
      /\ UNCHANGED <<completedDir, worker, issued, age>>
  BY Facts DEF WriteAndRelease, submitVars, envVars, ControlOf
<1>2. Writing(t) /\ InCritical(t) /\ lockFile[1] = t /\ r.buf \in SessionData
  BY <1>1, Facts DEF Writing, InCritical, CriticalPC, AllInv, LockInv, ControlOf
<1>3. activeDir'[1] = r.buf /\ lockFile'[1] = Free
  BY <1>1, <1>2, Facts, ReleaseFrees DEF AllInv, Held
<1>4. \A u \in Thread : /\ thread'[u] = IF u = t THEN UpdateReturn(t, r) ELSE thread[u]
                        /\ u # t => ~InCritical(u)
  BY <1>1, <1>2, Facts, OneCritical DEF AllInv
<1>5. ~HalfWritten' /\ Now' = r.buf /\ Up' = Up /\ \A u \in Thread : AsWritten(u)' = thread'[u]
  BY <1>1, <1>3, SentinelAssumption DEF HalfWritten, Now, Up, AsWritten
<1>6. /\ Sound(r.buf) /\ Fits(t, UpdateReturn(t, r), r.buf, Up)
      /\ \A u \in Thread : u # t => Fits(u, thread[u], r.buf, Up)
  <2>1. CASE d = Empty
    <3>1. HalfWritten /\ Now = r.buf
      BY <1>1, <1>2, <2>1 DEF HalfWritten, Now
    <3>2. AsWritten(t) = UpdateReturn(t, r) /\ \A u \in Thread : u # t => AsWritten(u) = thread[u]
      BY <1>2, <3>1 DEF AsWritten
    <3> QED
      BY <3>1, <3>2, Facts DEF AllInv, SessionInv
  <2>2. CASE d # Empty
    <3>1. r.buf = D
      BY <1>2, <2>2, WriterFacts
    <3> QED
      BY <1>2, <2>2, <3>1, UpdateMade
  <2> QED
    BY <2>1, <2>2
<1>7. \A u \in Thread : Fits(u, AsWritten(u)', Now', Up')
  BY <1>4, <1>5, <1>6
<1>8. /\ activeDir'[1] \notin Blank
      /\ AtomicWrites => WholeFiles'
  <2>1. \A u \in Thread : AtomicWrites => thread'[u].pc # "truncate"
    BY <1>4, Facts, ReturnsOutside DEF AllInv, SessionInv, WholeFiles, CriticalPC
  <2>2. \A w \in Worker : worker'[w].pc # "writing"
    BY <1>1, StartedLater DEF AllInv, Held
  <2>3. activeDir'[1] \notin Blank
    BY <1>2, <1>3, Facts
  <2> QED
    BY <1>1, <2>1, <2>2, <2>3 DEF AllInv, SessionInv, WholeFiles, Blank
<1>9. LeakedWhenGone'
  BY <1>3, SentinelAssumption DEF LeakedWhenGone
<1>10. Sound(Now') /\ Sound(completedDir'[1])
  BY <1>1, <1>5, <1>6 DEF AllInv, SessionInv
<1>11. SessionInv'
  BY <1>7, <1>8, <1>9, <1>10 DEF SessionInv, Up, Blank
<1>12. d # Empty => d \in SessionData /\ r.buf = D
  BY <1>2, WriterFacts
<1> QED
  BY <1>1, <1>3, <1>11, <1>12

\* The file is moved, or cannot be; who moves it knows that the session is over.
LEMMA MoveStep ==
  ASSUME Held, AllInv, NEW t \in Thread, MoveToCompleted(t) \/ MoveFails(t)
  PROVE  /\ SessionInv'
         /\ activeDir[1] \notin Blank => Up \/ Over(activeDir[1])
<1> DEFINE r == thread[t]
           d == activeDir[1]
<1>1. /\ r.pc = "move" /\ r.sid = 1 /\ ReleaseSessionLock(t[1])
      /\ thread' = [thread EXCEPT ![t] = MarkReturn(t, r)]
      /\ UNCHANGED <<worker, issued, age>>
      /\ \/ activeDir'[1] = Missing /\ completedDir'[1] = d
         \/ activeDir'[1] = d /\ completedDir'[1] = Missing
  <2>1. r.pc = "move" /\ r.sid = 1
    BY Facts DEF MoveToCompleted, MoveFails, ControlOf, LockPC
  <2> QED
    BY <2>1, Moved DEF MoveToCompleted, MoveFails, submitVars, envVars, Held, AllInv
<1>2. InCritical(t) /\ lockFile[1] = t /\ lockFile'[1] = Free
  BY <1>1, ReleaseFrees DEF AllInv, Held, InCritical, CriticalPC, LockInv
<1>3. ~HalfWritten /\ ~HalfWritten' /\ Now = d /\ Now' = activeDir'[1]
  BY <1>1, <1>2, SentinelAssumption DEF HalfWritten, Now
<1>4. d \notin Blank => Up \/ Over(d)
  <2>1. Fits(t, r, d, Up)
    BY <1>3, Facts
  <2> QED
    BY <1>1, <2>1 DEF Fits, Completing
<1>5. LeakedWhenGone'
  BY <1>2, SentinelAssumption DEF LeakedWhenGone
<1>6. Up' = Up /\ \A u \in Thread : thread'[u] = IF u = t THEN MarkReturn(t, r) ELSE thread[u]
  BY <1>1, Facts DEF Up
<1>7. MarkReturn(t, r).pc \notin {"acquire", "truncate", "write", "collecting", "exists", "acquireMove", "move"}
  BY Facts DEF MarkReturn, IdleThread, ThreadState
<1>8. ASSUME NEW u \in Thread PROVE Fits(u, AsWritten(u)', Now', Up')
  <2>1. AsWritten(u)' = thread'[u]
    BY <1>3 DEF AsWritten
  <2>2. CASE u = t
    BY <1>6, <1>7, <2>1, <2>2, PlainFits
  <2>3. CASE u # t
    <3>1. Fits(u, thread[u], d, Up)
      BY <1>3, Facts
    <3> QED
      BY <1>1, <1>3, <1>6, <2>1, <2>3, <3>1 DEF Fits, Blank
  <2> QED
    BY <2>2, <2>3
<1>9. Sound(Missing)
  BY DEF Sound, Missing, NoEntry, Absent
<1>10. Sound(Now') /\ Sound(completedDir'[1])
  BY <1>1, <1>3, <1>9 DEF AllInv, SessionInv
<1>11. AtomicWrites => WholeFiles'
  <2>1. \A w \in Worker : worker'[w].pc # "writing"
    BY <1>1, StartedLater DEF AllInv, Held
  <2>2. Missing # Empty
    BY Facts
  <2> QED
    BY <1>1, <1>6, <1>7, <2>1, <2>2 DEF AllInv, SessionInv, WholeFiles
<1>12. \A u \in Thread : thread'[u].pc = "truncate" => activeDir'[1] # Empty
  BY <1>1, <1>6, <1>7, Facts DEF AllInv, SessionInv
<1> QED
  BY <1>4, <1>5, <1>8, <1>10, <1>11, <1>12 DEF SessionInv, Up

\* The steps between an update and the move.
LEMMA BeforeMoveStep ==
  ASSUME Held, AllInv, NEW t \in Thread, CheckFileExists(t) \/ AcquireForMove(t)
  PROVE  SessionInv'
<1> DEFINE r == thread[t]
<1>1. /\ r.pc \in {"exists", "acquireMove"} /\ r.sid = 1 /\ r \in ThreadState
      /\ Fits(t, r, Now, Up) /\ ~InCritical(t)
      /\ UNCHANGED <<files, worker, issued, age>>
  BY Facts DEF CheckFileExists, AcquireForMove, ControlOf, LockPC, InCritical, CriticalPC,
               submitVars, envVars
<1>2. \A p \in {"acquireMove", "move"} :
        [r EXCEPT !.pc = p].pc = p /\ Fits(t, [r EXCEPT !.pc = p], Now, Up)
  <2>1. Now \notin Blank => Up \/ Over(Now)
    BY <1>1 DEF Fits, Completing
  <2>2. \A p \in {"acquireMove", "move"} : [r EXCEPT !.pc = p].pc = p
    BY <1>1 DEF ThreadState
  <2> QED
    BY <2>1, <2>2 DEF Fits, Relies, InUpdate
<1>3. CASE CheckFileExists(t)
  <2>1. CASE activeDir[1] = Missing
    <3>1. thread' = [thread EXCEPT ![t] = MarkReturn(t, r)] /\ UNCHANGED lockFile
      BY <1>1, <1>3, <2>1 DEF CheckFileExists
    <3>2. Now \in Blank
      BY <2>1, Facts DEF Blank
    <3>3. MarkReturn(t, r).pc \notin {"truncate", "write"} /\ Fits(t, MarkReturn(t, r), Now, Up)
      BY <1>1, <3>2, ReturnsOutside DEF Fits, CriticalPC
    <3> QED
      BY <1>1, <3>1, <3>3, PlainStep
  <2>2. CASE activeDir[1] # Missing
    <3>1. thread' = [thread EXCEPT ![t] = [r EXCEPT !.pc = "acquireMove"]] /\ UNCHANGED lockFile
      BY <1>1, <1>3, <2>2 DEF CheckFileExists
    <3> QED
      BY <1>1, <1>2, <3>1, PlainStep
  <2> QED
    BY <2>1, <2>2
<1>4. CASE AcquireForMove(t)
  <2>1. TakeLock(t, 1) /\ thread' = [thread EXCEPT ![t] = [r EXCEPT !.pc = "move"]]
    BY <1>1, <1>4, Facts DEF AcquireForMove, Goto
  <2>2. lockFile'[1] = t /\ lockFile[1] = Free
    BY <2>1, Facts DEF TakeLock, AllInv, IInv, TypeOK
  <2>3. thread'[t] = [r EXCEPT !.pc = "move"] /\ \A u \in Thread : u # t => thread'[u] = thread[u]
    BY <2>1, Facts
  <2>4. LeakedWhenGone'
    BY <1>2, <2>2, <2>3 DEF LeakedWhenGone, InCritical, CriticalPC
  <2>5. ~HalfWritten /\ HalfWritten' = HalfWritten
    BY <1>2, <2>2, <2>3, SentinelAssumption DEF HalfWritten
  <2>6. \A u \in Thread : \/ thread'[u] = thread[u]
                          \/ thread'[u].pc # "truncate" /\ Fits(u, thread'[u], Now, Up)
    BY <1>2, <2>3
  <2> QED
    BY <1>1, <2>4, <2>5, <2>6, ThreadStep
<1> QED
  BY <1>3, <1>4

\* The decisions of the loop and of a task.
LEMMA DecisionStep ==
  ASSUME Held, AllInv, NEW t \in Thread,
         \/ CheckAndComplete(t) \/ CancelOrphaned(t) \/ EnforceTimeLimit(t) \/ SkipTask(t)
         \/ AnalyzeLogs(t) \/ \E ok \in BOOLEAN : CollectLogs(t, ok),
         ~AnalyzesTorn
  PROVE  SessionInv'
<1> DEFINE r == thread[t]
           d == activeDir[1]
           plain == {"idle", "done", "orphans", "limits", "collectCheck"}
<1>1. /\ r \in ThreadState /\ Fits(t, r, Now, Up) /\ ~InCritical(t)
      /\ UNCHANGED <<files, worker, issued, age, lockFile>>
  BY Facts DEF CheckAndComplete, CancelOrphaned, EnforceTimeLimit, SkipTask, AnalyzeLogs,
               CollectLogs, InCritical, CriticalPC, submitVars, envVars
<1>2. ASSUME NEW q, thread' = [thread EXCEPT ![t] = q], q.pc \in plain PROVE SessionInv'
  <2>1. Fits(t, q, Now, Up) /\ q.pc \notin {"truncate", "write"}
    BY <1>2, PlainFits
  <2> QED
    BY <1>1, <1>2, <2>1, PlainStep
<1>3. ASSUME NEW o, NEW x, NEW f, thread' = [thread EXCEPT ![t] = Calling(r, o, x, f)],
             Fits(t, Calling(r, o, x, f), Now, Up)
      PROVE  SessionInv'
  <2>1. Calling(r, o, x, f).pc = "acquire"
    BY <1>1 DEF Calling, ThreadState
  <2> QED
    BY <1>1, <1>3, <2>1, PlainStep
<1>4. /\ IdleThread.pc \in plain /\ [IdleThread EXCEPT !.pc = "done"].pc \in plain
      /\ \A p \in plain : [r EXCEPT !.pc = p].pc \in plain
  BY <1>1 DEF IdleThread, ThreadState
<1>5. /\ GetActiveSession = IF d \in Blank THEN 0 ELSE 1
      /\ d \notin Blank => Now = d
  BY Facts DEF Blank
<1>6. CASE CheckAndComplete(t)
  <2>1. CASE d \notin Blank /\ AllInstancesFinished(d)
    <3>1. thread' = [thread EXCEPT ![t] = Calling(r, "Mark", 1, FALSE)]
      BY <1>5, <1>6, <2>1 DEF CheckAndComplete
    <3>2. Over(d)
      BY <2>1 DEF AllInstancesFinished, Over
    <3>3. Fits(t, Calling(r, "Mark", 1, FALSE), Now, Up)
      BY <1>1, <1>5, <2>1, <3>2, CallingFits
    <3> QED
      BY <1>3, <3>1, <3>3
  <2>2. CASE ~(d \notin Blank /\ AllInstancesFinished(d))
    <3>1. \E q : thread' = [thread EXCEPT ![t] = q] /\ q.pc \in plain
      BY <1>4, <1>5, <1>6, <2>2 DEF CheckAndComplete
    <3> QED
      BY <1>2, <3>1
  <2> QED
    BY <2>1, <2>2
<1>7. CASE CancelOrphaned(t)
  <2> DEFINE N == d.targets \ Present(d)
             c == Calling(r, "Orphan", 1, FALSE)
             q == [c EXCEPT !.names = N]
  <2>1. CASE thread' = [thread EXCEPT ![t] = [r EXCEPT !.pc = "limits"]]
    BY <1>2, <1>4, <2>1
  <2>2. CASE d \notin Blank /\ thread' = [thread EXCEPT ![t] = q]
    <3>1. q.pc = "acquire" /\ q.op = "Orphan"
      BY <1>1 DEF Calling, ThreadState
    <3> HIDE DEF q
    <3>2. Fits(t, q, Now, Up)
      BY <3>1 DEF Fits, Relies, InUpdate, Completing
    <3> QED
      BY <1>1, <2>2, <3>1, <3>2, PlainStep
  <2>3. \/ thread' = [thread EXCEPT ![t] = [r EXCEPT !.pc = "limits"]]
        \/ d \notin Blank /\ thread' = [thread EXCEPT ![t] = q]
    BY <1>5, <1>7 DEF CancelOrphaned
  <2> QED
    BY <2>1, <2>2, <2>3
<1>8. CASE EnforceTimeLimit(t)
  <2>1. CASE thread' = [thread EXCEPT ![t] = [r EXCEPT !.pc = "collectCheck"]]
    BY <1>2, <1>4, <2>1
  <2>2. CASE age[r.cur] = 3 /\ d \notin Blank /\ thread' = [thread EXCEPT ![t] = Calling(r, "Mark", 1, TRUE)]
    <3>1. r.pc = "limits" /\ r.cur = 1
      BY <1>8, Facts DEF EnforceTimeLimit, ControlOf, TaskPC
    <3>2. Up
      BY <2>2, <3>1 DEF Up
    <3>3. Fits(t, Calling(r, "Mark", 1, TRUE), Now, Up)
      BY <1>1, <3>2, CallingFits
    <3> QED
      BY <1>3, <2>2, <3>3
  <2> QED
    BY <1>5, <1>8, <2>1, <2>2 DEF EnforceTimeLimit
<1>9. CASE SkipTask(t)
  BY <1>2, <1>4, <1>9 DEF SkipTask, EndLoop
<1>10. CASE AnalyzeLogs(t)
  <2> DEFINE e == d.inst[t[1]]
  <2> DEFINE stop == [IdleThread EXCEPT !.pc = "done"]
             asIs == Calling(r, "Complete", t[2], FALSE)
             report == Calling(r, "Reports", 1, e.logs)
  <2>1. CASE thread' = [thread EXCEPT ![t] = stop]
    BY <1>2, <1>4, <2>1
  <2>2. CASE (Now \in Blank \/ Now.mode = "Collect") /\ thread' = [thread EXCEPT ![t] = asIs]
    <3>1. Fits(t, asIs, Now, Up)
      BY <1>1, <2>2, CallingFits
    <3> QED
      BY <1>3, <2>2, <3>1
  <2>3. CASE Now = d /\ thread' = [thread EXCEPT ![t] = report]
    <3>1. Fits(t, report, Now, Up)
      BY <1>1, <2>3, CallingFits
    <3> QED
      BY <1>3, <2>3, <3>1
  <2> HIDE DEF stop, asIs, report
  <2>4. CASE d \in Blank
    <3>1. thread' = [thread EXCEPT ![t] = asIs]
      BY <1>5, <1>10, <2>4 DEF AnalyzeLogs, asIs
    <3>2. ~HalfWritten
      <4> SUFFICES ASSUME HalfWritten PROVE FALSE
        OBVIOUS
      <4>1. /\ lockFile[1] \in Thread /\ Writing(lockFile[1])
            /\ thread[lockFile[1]].tgt = 1 /\ activeDir[1] = Empty
        BY Facts DEF HalfWritten, Writing, ControlOf
      <4> QED
        BY <1>10, <4>1 DEF AnalyzesTorn
    <3> QED
      BY <2>2, <2>4, <3>1, <3>2, Facts
  <2>5. CASE d \notin Blank
    <3>1. thread' = [thread EXCEPT ![t] =
            IF d.mode = "Collect" THEN asIs ELSE IF e.st = Absent THEN stop ELSE report]
      BY <1>5, <1>10, <2>5 DEF AnalyzeLogs, asIs, stop, report
    <3> QED
      BY <1>5, <2>1, <2>2, <2>3, <2>5, <3>1
  <2> QED
    BY <2>4, <2>5
<1>11. ASSUME NEW ok \in BOOLEAN, CollectLogs(t, ok) PROVE SessionInv'
  <2>1. /\ r.pc = "collecting"
        /\ thread' = [thread EXCEPT ![t] = Calling(r, "Append", t[2], ok)]
    BY <1>11 DEF CollectLogs
  <2>2. Now \notin Blank => Now.inst[t[1]].st \notin {Absent, "Complete"}
    BY <1>1, <2>1 DEF Fits, Relies
  <2>3. Fits(t, Calling(r, "Append", t[2], ok), Now, Up)
    BY <1>1, <2>2, CallingFits
  <2> QED
    BY <1>3, <2>1, <2>3
<1> QED
  BY <1>6, <1>7, <1>8, <1>9, <1>10, <1>11


\* The loop starts a task on what it read of the session.
LEMMA StartTaskStep ==
  ASSUME Held, AllInv, NEW t \in Thread, StartTask(t)
  PROVE  SessionInv'
<1> DEFINE r == thread[t]
           d == activeDir[1]
           i == t[1]
           k == <<i, r.cur>>
           new == StartedTask(r.cur, r.seen)
<1>1. /\ r.pc = "collectCheck" /\ d.inst[i].st # "Complete"
      /\ r.cur \notin running[i] /\ ~HalfWritten /\ Now = d
  <2>1. GetActiveSession # 0
    BY DEF StartTask, ShouldStart
  <2>2. d \notin Blank /\ GetActiveSession = 1
    BY <2>1, Facts
  <2>3. ~HalfWritten /\ Now = d
    BY <2>2, Facts DEF Blank
  <2> QED
    BY <2>2, <2>3 DEF StartTask, ShouldStart
<1>2. r.cur = 1 /\ i \in Runner
  <2>1. IsLoop(t) /\ r.cur \in Session
    BY <1>1, Facts DEF ControlOf, TaskPC
  <2> QED
    BY <2>1, Facts DEF Thread
<1>3. thread[k].pc = "idle"
  BY <1>1, <1>2, Facts DEF AllInv, IInv, TaskTracked
<1>4. \A u \in Thread : u[1] = i /\ u[2] \in FinishedTasks(i) => thread[u].pc = "done"
  BY DEF FinishedTasks, Thread
<1>5. \A u \in Thread :
        \/ thread'[u] = thread[u]
        \/ thread[u].pc \in {"collectCheck", "done", "idle"} /\ thread'[u] = IdleThread
        \/ thread[u].pc = "idle" /\ thread'[u] = new /\ u = k
  BY <1>1, <1>3, <1>4 DEF StartTask
<1>6. UNCHANGED <<files, worker, issued, age, lockFile>>
  BY DEF StartTask, submitVars, envVars
<1>8. IdleThread.pc = "idle" /\ \A u \in Thread : Fits(u, IdleThread, Now, Up)
  <2>1. IdleThread.pc = "idle"
    BY DEF IdleThread
  <2> QED
    BY <2>1, PlainFits
<1>9. Fits(k, new, Now, Up) /\ new.pc = "acquire"
  <2>1. k[1] = i
    OBVIOUS
  <2>2. PICK o \in {"Started", "Analyzing"} :
          new = Calling([IdleThread EXCEPT !.seen = r.seen], o, r.cur, FALSE)
    BY DEF StartedTask
  <2>3. [IdleThread EXCEPT !.seen = r.seen] \in ThreadState
    BY Facts, IdleType DEF ThreadState
  <2> HIDE DEF new, k
  <2>4. Fits(k, new, Now, Up)
    BY <1>1, <2>1, <2>2, <2>3, CallingFits
  <2>5. new.pc = "acquire"
    BY <2>2, <2>3 DEF Calling, ThreadState
  <2> QED
    BY <2>4, <2>5
<1> HIDE DEF new
<1>10. \A u \in Thread : \/ thread'[u] = thread[u]
                         \/ thread'[u].pc # "truncate" /\ Fits(u, thread'[u], Now, Up)
  BY <1>5, <1>8, <1>9
<1>11. ~HalfWritten'
  <2>1. \A u \in Thread : thread'[u].pc = "write" => thread[u].pc = "write"
    BY <1>5, <1>8, <1>9
  <2> QED
    BY <1>1, <1>6, <2>1 DEF HalfWritten, files
<1>12. HalfWritten' = HalfWritten
  BY <1>1, <1>11 DEF HalfWritten
<1>13. LeakedWhenGone'
  <2>1. \A u \in Thread : InCritical(u) => InCritical(u)'
    BY <1>5 DEF InCritical, CriticalPC
  <2> QED
    BY <1>6, <1>11, <2>1, SameLeaks DEF AllInv, SessionInv, files
<1> QED
  BY <1>1, <1>6, <1>10, <1>12, <1>13, ThreadStep

\* A round of the loop begins.
LEMMA PollStep ==
  ASSUME Held, AllInv, NEW i \in Runner, Poll(i)
  PROVE  SessionInv'
<1> DEFINE t == <<i, 0>>
<1>1. t \in Thread /\ thread[t].pc = "idle"
  BY ZeroIsNoSession DEF Thread, Poll
<1>2. ~InCritical(t)
  BY <1>1 DEF InCritical, CriticalPC
<1>3. UNCHANGED <<files, worker, issued, age, lockFile>>
  BY DEF Poll, submitVars, envVars
<1>4. \E q : thread' = [thread EXCEPT ![t] = q] /\ q.pc \in {"orphans", "check"}
  <2> DEFINE a == GetActiveSession
             q == [IdleThread EXCEPT
                    !.pc = IF a \in running[i] THEN "orphans" ELSE "check",
                    !.cur = a,
                    !.seen = IF i \in activeDir[a].targets THEN activeDir[a].inst[i].st
                             ELSE NotRequested]
  <2>1. thread' = [thread EXCEPT ![t] = q]
    BY DEF Poll
  <2>2. q.pc \in {"orphans", "check"}
    BY DEF IdleThread
  <2> HIDE DEF q
  <2> QED
    BY <2>1, <2>2
<1> HIDE DEF t
<1>5. PICK q : thread' = [thread EXCEPT ![t] = q] /\ q.pc \in {"orphans", "check"}
  BY <1>4
<1>6. Fits(t, q, Now, Up) /\ q.pc \notin {"truncate", "write"}
  BY <1>5, PlainFits
<1> QED
  BY <1>1, <1>2, <1>3, <1>5, <1>6, PlainStep

\* A step that neither writes nor moves the active session; a thread it ends may have
\* truncated the file.
LEMMA OtherStep ==
  ASSUME Held, AllInv, activeDir' = activeDir, completedDir'[1] \in {completedDir[1], Missing},
         \A u \in Thread : thread'[u] \in {thread[u], IdleThread},
         lockFile'[1] \in {lockFile[1], Free}, Up => Up', LeakedWhenGone',
         AtomicWrites => \A w \in Worker : worker'[w].pc = "writing" => activeDir[1] = Missing
  PROVE  SessionInv'
<1>1. IdleThread.pc = "idle" /\ Missing # Empty
  BY Facts DEF IdleThread
<1>2. AtomicWrites => WholeFiles'
  BY <1>1 DEF AllInv, SessionInv, WholeFiles
<1>3. Sound(Missing) /\ Sound(Empty)
  BY DEF Sound, Missing, Empty, NoEntry, Absent
<1>4. \A u \in Thread : thread'[u].pc = "truncate" => activeDir'[1] # Empty
  BY <1>1 DEF AllInv, SessionInv
<1>5. CASE HalfWritten'
  <2>1. HalfWritten /\ lockFile'[1] = lockFile[1] /\ thread'[lockFile[1]] = thread[lockFile[1]]
    BY <1>1, <1>5, SentinelAssumption DEF HalfWritten
  <2>2. Now' = Now
    BY <1>5, <2>1 DEF Now
  <2>3. ASSUME NEW u \in Thread PROVE Fits(u, AsWritten(u)', Now', Up')
    <3>1. AsWritten(u)' \in {AsWritten(u), IdleThread}
      BY <1>5, <2>1 DEF AsWritten
    <3>2. Fits(u, AsWritten(u), Now, Up)
      BY Facts
    <3> QED
      BY <1>1, <2>2, <3>1, <3>2, PlainFits DEF Fits
  <2> QED
    BY <1>2, <1>3, <1>4, <2>2, <2>3 DEF AllInv, SessionInv, Up
<1>6. CASE ~HalfWritten'
  <2>1. Now' = activeDir[1] /\ \A u \in Thread : AsWritten(u)' = thread'[u]
    BY <1>6 DEF Now, AsWritten
  <2>2. Now' = Now \/ Now' = Empty
    BY <2>1, Facts
  <2>3. ASSUME NEW u \in Thread PROVE Fits(u, AsWritten(u)', Now', Up')
    <3>1. CASE Now' = Empty
      BY <3>1 DEF Fits, Blank
    <3>2. CASE Now' # Empty
      <4>1. Now' = Now /\ ~HalfWritten
        BY <2>1, <2>2, <3>2, Facts
      <4>2. Fits(u, thread[u], Now, Up)
        BY <4>1, Facts
      <4>3. AsWritten(u)' \in {thread[u], IdleThread}
        BY <2>1
      <4> QED
        BY <1>1, <4>1, <4>2, <4>3, PlainFits DEF Fits
    <3> QED
      BY <3>1, <3>2
  <2> QED
    BY <1>2, <1>3, <1>4, <2>2, <2>3 DEF AllInv, SessionInv, Up
<1> QED
  BY <1>5, <1>6

\* The first write of the session by the request that submits it.
LEMMA WriteNewStep ==
  ASSUME Held, AllInv, NEW w \in Worker, WriteNewSession(w)
  PROVE  /\ SessionInv'
         /\ activeDir[1] \in Blank /\ completedDir[1] = Missing
         /\ activeDir'[1] \in SessionData /\ completedDir' = completedDir
<1> DEFINE new == worker[w].new
<1>1. Unborn(w) /\ worker[w].pc = "writing"
  BY DEF WriteNewSession, AllInv, DiskInv
<1>2. /\ activeDir' = [activeDir EXCEPT ![worker[w].sid] = new]
      /\ worker' = [worker EXCEPT ![w] = [pc |-> "idle", sid |-> 0, new |-> Missing]]
      /\ UNCHANGED <<completedDir, lockFile, thread, issued>>
  BY DEF WriteNewSession
<1>3. /\ activeDir'[1] = new /\ new \in SessionData
      /\ \A i \in Instance : new.inst[i] = NoEntry
      /\ completedDir[1] = Missing /\ activeDir[1] \in Blank
      /\ \A u \in Thread : thread[u].pc = "idle"
  BY <1>1, <1>2, Facts DEF Unborn, Blank
<1>4. activeDir'[1] \notin Blank
  BY <1>3, Facts
<1>5. ~HalfWritten' /\ Now' = new /\ \A u \in Thread : AsWritten(u)' = thread[u]
  BY <1>2, <1>3 DEF HalfWritten, Now, AsWritten
<1>6. AtomicWrites => WholeFiles'
  <2>1. \A v \in Worker : worker'[v].pc # "writing"
    BY <1>1, <1>2 DEF Unborn, AllInv, IInv, TypeOK
  <2> QED
    BY <1>2, <1>3, <1>4, <2>1, Facts DEF WholeFiles, Blank
<1>7. LeakedWhenGone'
  BY <1>1, <1>2 DEF LeakedWhenGone, Gone, InCritical, AllInv, SessionInv
<1>8. Sound(Now') /\ Sound(completedDir'[1])
  BY <1>2, <1>3, <1>5 DEF AllInv, SessionInv, Sound, NoEntry, Absent
<1>9. \A u \in Thread : Fits(u, AsWritten(u)', Now', Up')
  BY <1>3, <1>5, PlainFits
<1>10. \A u \in Thread : thread'[u].pc # "truncate"
  BY <1>2, <1>3
<1> QED
  BY <1>2, <1>3, <1>6, <1>7, <1>8, <1>9, <1>10 DEF SessionInv, Up

\* The session file is created; nobody has done anything yet.
LEMMA SaveStep ==
  ASSUME Held, AllInv, NEW w \in Worker, NEW T \in TargetSets, NEW m \in Modes, SaveSession(w, T, m)
  PROVE  /\ SessionInv' /\ completedDir' = completedDir
         /\ activeDir' = activeDir \/ activeDir'[1] = Empty
         /\ AtomicWrites => activeDir' = activeDir
<1>1. UNCHANGED <<thread, lockFile, age, completedDir>> /\ issued = 0
  BY DEF SaveSession, envVars, Held, AllInv, IInv, TypeOK
<1>2. /\ activeDir[1] = Missing /\ \A t \in Thread : thread[t].pc = "idle"
      /\ lockFile[1] \notin Thread
  BY <1>1 DEF AllInv, DiskInv, NothingYet, SessionInv, LeakedWhenGone, Gone, InCritical, CriticalPC
<1>3. /\ activeDir' = activeDir \/ activeDir'[1] = Empty
      /\ AtomicWrites => activeDir' = activeDir
  <2>1. activeDir' = IF AtomicWrites THEN activeDir ELSE [activeDir EXCEPT ![1] = Empty]
    BY <1>1 DEF SaveSession
  <2> QED
    BY <2>1, Facts
<1>4. ~HalfWritten' /\ Now' \in Blank /\ LeakedWhenGone'
  BY <1>1, <1>2, <1>3 DEF HalfWritten, Now, Blank, LeakedWhenGone
<1>5. Sound(Missing) /\ Sound(Empty)
  BY DEF Sound, Missing, Empty, NoEntry, Absent
<1>6. \A u \in Thread : Fits(u, AsWritten(u)', Now', Up')
  BY <1>4 DEF Fits
<1>7. AtomicWrites => WholeFiles'
  BY <1>1, <1>2, <1>3 DEF AllInv, SessionInv, WholeFiles
<1>8. \A u \in Thread : thread'[u].pc # "truncate"
  BY <1>1, <1>2
<1>9. Sound(Now') /\ Sound(completedDir'[1])
  BY <1>1, <1>4, <1>5 DEF Blank, AllInv, SessionInv
<1>10. SessionInv'
  BY <1>4, <1>6, <1>7, <1>8, <1>9 DEF SessionInv, Up
<1> QED
  BY <1>1, <1>3, <1>10

\* The other steps of a request, and the death of its process.
LEMMA RequestStep ==
  ASSUME Held, AllInv, NEW w \in Worker,
         SubmitNewSession(w) \/ AcquireActiveSessionLock(w) \/ RefuseUnderLock(w) \/ CrashWorker(w)
  PROVE  SessionInv' /\ UNCHANGED files
<1>1. UNCHANGED <<thread, lockFile, age, files, issued>>
  BY DEF CrashWorker, SubmitNewSession, AcquireActiveSessionLock, RefuseUnderLock, envVars, files
<1>2. worker \in [Worker -> WorkerState]
  BY DEF AllInv, IInv, TypeOK
<1>3. \A v \in Worker : worker'[v].pc = "writing" => worker[v].pc = "writing"
  BY <1>2 DEF SubmitNewSession, AcquireActiveSessionLock, RefuseUnderLock, CrashWorker, WorkerState
<1>4. LeakedWhenGone'
  BY <1>1, <1>3
  DEF LeakedWhenGone, Gone, HalfWritten, InCritical, AllInv, SessionInv, files
<1>5. AtomicWrites => \A v \in Worker : worker'[v].pc = "writing" => activeDir[1] = Missing
  BY <1>3 DEF AllInv, SessionInv, WholeFiles
<1> QED
  BY <1>1, <1>4, <1>5, OtherStep DEF files, Up

\* A runner dies, a lock is finalised, time passes, a session is deleted.
LEMMA EnvironmentStep ==
  ASSUME Held, AllInv,
         \/ \E i \in Runner : CrashRunner(i)
         \/ \E s \in Session : FinalizeLock(s) \/ Age(s) \/ DeleteSession(s)
  PROVE  SessionInv'
<1>1. Session = {1}
  BY Facts
<1>2. UNCHANGED <<activeDir, worker, issued>>
  BY DEF CrashRunner, FinalizeLock, Age, DeleteSession, files, submitVars
<1>3. AtomicWrites => \A w \in Worker : worker'[w].pc = "writing" => activeDir[1] = Missing
  BY <1>2 DEF AllInv, SessionInv, WholeFiles
<1>4. ASSUME NEW i \in Runner, CrashRunner(i) PROVE SessionInv'
  <2>1. /\ \A u \in Thread : thread'[u] = IF u[1] = i THEN IdleThread ELSE thread[u]
        /\ lockFile'[1] = IF lockFile[1] \in Thread /\ lockFile[1][1] = i THEN Free ELSE lockFile[1]
        /\ UNCHANGED <<completedDir, age>>
    BY <1>1, <1>4 DEF CrashRunner, files
  <2>2. \A u \in Thread : InCritical(u) => InCritical(u)' \/ lockFile'[1] # u
    BY <2>1, SentinelAssumption DEF InCritical
  <2>3. HalfWritten' => HalfWritten
    BY <1>2, <2>1, SentinelAssumption DEF HalfWritten
  <2>4. LeakedWhenGone'
    BY <1>2, <2>1, <2>2, <2>3, SameLeaks DEF AllInv, SessionInv
  <2> QED
    BY <1>2, <1>3, <2>1, <2>4, OtherStep DEF Up
<1>5. ASSUME FinalizeLock(1) PROVE SessionInv'
  <2>1. lockFile'[1] = Free /\ UNCHANGED <<thread, completedDir, age>>
    BY <1>1, <1>5 DEF FinalizeLock, files, envVars, AllInv, IInv, TypeOK
  <2>2. LeakedWhenGone'
    BY <2>1, SentinelAssumption DEF LeakedWhenGone
  <2> QED
    BY <1>2, <1>3, <2>1, <2>2, OtherStep DEF Up
<1>6. ASSUME Age(1) PROVE SessionInv'
  <2>1. UNCHANGED <<thread, completedDir, lockFile>> /\ age[1] # 3
    BY <1>6, ParametersAssumption DEF Age, files
  <2>2. LeakedWhenGone'
    BY <1>2, <2>1 DEF LeakedWhenGone, Gone, HalfWritten, InCritical, AllInv, SessionInv
  <2> QED
    BY <1>2, <1>3, <2>1, <2>2, OtherStep DEF Up
<1>7. ASSUME DeleteSession(1) PROVE SessionInv'
  <2>1. UNCHANGED <<thread, lockFile, age>> /\ completedDir'[1] = Missing
    BY <1>1, <1>7 DEF DeleteSession, AllInv, IInv, TypeOK
  <2>2. LeakedWhenGone'
    BY <1>2, <2>1 DEF LeakedWhenGone, Gone, HalfWritten, InCritical, AllInv, SessionInv
  <2> QED
    BY <1>2, <1>3, <2>1, <2>2, OtherStep DEF Up
<1> QED
  BY <1>1, <1>4, <1>5, <1>6, <1>7

\* The steps of a thread other than a write or a move.
LEMMA QuietStep ==
  ASSUME Held, AllInv, ~AnalyzesTorn,
         NEW t \in Thread, Progress(t) \/ \E ok \in BOOLEAN : CollectLogs(t, ok),
         ~WriteAndRelease(t), ~MoveToCompleted(t)
  PROVE  SessionInv'
BY TruncateStep, AcquireAndLoadStep, TimeoutStep, BeforeMoveStep, DecisionStep, StartTaskStep
DEF Progress

\* Where a file is written in one step no task finds one truncated.
LEMMA WholeNotTorn ==
  ASSUME Held, AllInv, AtomicWrites
  PROVE  ~AnalyzesTorn
<1>1. \A u \in Thread : Writing(u) => thread[u].tgt = 1
  BY Facts DEF Writing, ControlOf
<1> QED
  BY <1>1 DEF AnalyzesTorn, AllInv, SessionInv, WholeFiles

\* The session files change in a few ways only: an update, which where writes are not
\* whole begins with a truncation, a move, the creation of the session and its deletion.
LEMMA HowFilesChange ==
  ASSUME Held, AllInv, [Next]_vars
  PROVE  \/ UNCHANGED files
         \/ ~AtomicWrites /\ activeDir'[1] = Empty /\ completedDir' = completedDir
         \/ \E t \in Thread : WriteAndRelease(t) \/ MoveToCompleted(t) \/ MoveFails(t)
         \/ \E w \in Worker : WriteNewSession(w)
         \/ DeleteSession(1)
<1> DEFINE Torn == ~AtomicWrites /\ activeDir'[1] = Empty /\ completedDir' = completedDir
<1>1. ASSUME NEW t \in Thread, Truncate(t) PROVE Torn
  <2>1. thread[t].tgt = 1 /\ ~AtomicWrites
    BY <1>1, Facts DEF Truncate, ControlOf, AllInv, SessionInv, WholeFiles
  <2> QED
    BY <1>1, <2>1, Facts DEF Truncate
<1>2. ASSUME NEW t \in Thread, Progress(t) \/ \E ok \in BOOLEAN : CollectLogs(t, ok)
      PROVE  Truncate(t) \/ WriteAndRelease(t) \/ MoveToCompleted(t) \/ UNCHANGED files
  BY <1>2 DEF Progress, AcquireAndLoad, AcquireTimesOut, CheckFileExists, AcquireForMove,
     AcquireForMoveTimesOut, CheckAndComplete, CancelOrphaned, EnforceTimeLimit, StartTask,
     SkipTask, AnalyzeLogs, CollectLogs
<1>3. ASSUME NEW w \in Worker, Submit(w) \/ CrashWorker(w)
      PROVE  WriteNewSession(w) \/ Torn \/ UNCHANGED files
  <2>1. ASSUME NEW T \in TargetSets, NEW m \in Modes, SaveSession(w, T, m)
        PROVE  Torn \/ UNCHANGED files
    BY <2>1, SaveStep DEF files
  <2> QED
    BY <1>3, <2>1, RequestStep DEF Submit
<1>4. ASSUME NEW i \in Runner, Poll(i) \/ CrashRunner(i) PROVE UNCHANGED files
  BY <1>4 DEF Poll, CrashRunner
<1>5. ASSUME NEW s \in Session, FinalizeLock(s) \/ Age(s) PROVE UNCHANGED files
  BY <1>5 DEF FinalizeLock, Age
<1>6. Session = {1}
  BY Facts
<1> HIDE DEF Torn
<1>7. \/ UNCHANGED files \/ Torn
      \/ \E t \in Thread : WriteAndRelease(t) \/ MoveToCompleted(t) \/ MoveFails(t)
      \/ \E w \in Worker : WriteNewSession(w)
      \/ DeleteSession(1)
  BY <1>1, <1>2, <1>3, <1>4, <1>5, <1>6 DEF Next, vars
<1> QED
  BY <1>7 DEF Torn

\* Every step keeps what the session says of the threads.
LEMMA NextSession ==
  ASSUME Held
  PROVE  AllInv /\ [Next]_vars /\ [~AnalyzesTorn]_vars => SessionInv'
<1> SUFFICES ASSUME AllInv, [Next]_vars, [~AnalyzesTorn]_vars PROVE SessionInv'
  OBVIOUS
<1>1. ASSUME NEW t \in Thread, ~AnalyzesTorn,
             Progress(t) \/ MoveFails(t) \/ \E ok \in BOOLEAN : CollectLogs(t, ok)
      PROVE  SessionInv'
  BY <1>1, QuietStep, WriteStep, MoveStep
<1>2. ASSUME NEW w \in Worker, Submit(w) \/ CrashWorker(w) PROVE SessionInv'
  BY <1>2, RequestStep, SaveStep, WriteNewStep DEF Submit
<1>3. ASSUME UNCHANGED vars PROVE SessionInv'
  <2>1. UNCHANGED <<activeDir, completedDir, thread, worker, age, issued, lockFile>>
    BY <1>3 DEF vars, files, submitVars, envVars
  <2>2. LeakedWhenGone'
    BY <2>1 DEF LeakedWhenGone, Gone, HalfWritten, InCritical, AllInv, SessionInv
  <2>3. AtomicWrites => \A w \in Worker : worker'[w].pc = "writing" => activeDir[1] = Missing
    BY <2>1 DEF AllInv, SessionInv, WholeFiles
  <2> QED
    BY <2>1, <2>2, <2>3, OtherStep DEF Up
<1> QED
  BY <1>1, <1>2, <1>3, PollStep, EnvironmentStep DEF Next

\* The initial states.
LEMMA InitSession == ASSUME Held PROVE Init => SessionInv
<1> SUFFICES ASSUME Init PROVE SessionInv
  OBVIOUS
<1>1. activeDir[1] = Missing /\ completedDir[1] = Missing /\ lockFile[1] = Free
  BY DEF Init, Session, Held
<1>2. \A t \in Thread : thread[t] = IdleThread /\ thread[t].pc = "idle"
  BY DEF Init, IdleThread
<1>3. Missing # Empty /\ \A w \in Worker : worker[w].pc = "idle"
  BY DEF Init, Missing, Empty
<1>4. WholeFiles /\ LeakedWhenGone /\ ~HalfWritten
  BY <1>1, <1>2, <1>3, SentinelAssumption DEF WholeFiles, LeakedWhenGone, HalfWritten
<1>5. Sound(Missing)
  BY DEF Sound, Missing, NoEntry, Absent
<1>6. Now = Missing /\ \A t \in Thread : Fits(t, AsWritten(t), Now, Up)
  BY <1>1, <1>4 DEF Now, Fits, Blank
<1> QED
  BY <1>1, <1>2, <1>4, <1>5, <1>6 DEF SessionInv, Up

\* The whole invariant of an app with one session.
LEMMA OneSessionInvariant ==
  ASSUME Held
  PROVE  Spec /\ [][~AnalyzesTorn]_vars => []AllInv
<1>1. MaxSession = 1 /\ ~Stalls
  BY DEF Held
<1>2. Init => LockInv
  BY DEF Init, LockInv, InCritical, CriticalPC, IdleThread
<1>3. Init => AllInv
  BY <1>1, <1>2, InitIInv, InitDisk, InitSession DEF AllInv
<1>4. AllInv /\ [Next]_vars /\ [~AnalyzesTorn]_vars => AllInv'
  <2>1. AllInv /\ [Next]_vars => IInv' /\ LockInv' /\ DiskInv'
    BY <1>1, NextIInv, NextLock, NextDisk DEF AllInv
  <2> QED
    BY <2>1, NextSession DEF AllInv
<1> QED
  BY <1>3, <1>4, PTL DEF Spec

\* Where writes are whole it holds as it is.
LEMMA WholeInvariant ==
  ASSUME Held, AtomicWrites
  PROVE  Spec => []AllInv
<1>1. Init => AllInv
  <2>1. Init => LockInv
    BY DEF Init, LockInv, InCritical, CriticalPC, IdleThread
  <2> QED
    BY <2>1, InitIInv, InitDisk, InitSession DEF AllInv, Held
<1>2. AllInv /\ [Next]_vars => AllInv'
  <2>1. AllInv /\ [Next]_vars => IInv' /\ LockInv' /\ DiskInv'
    BY NextIInv, NextLock, NextDisk DEF AllInv, Held
  <2> QED
    BY <2>1, WholeNotTorn, NextSession DEF AllInv
<1> QED
  BY <1>1, <1>2, PTL DEF Spec


-----------------------------------------------------------------------------
(* What follows for the session, while the app has one *)

\* An instance of the only session that collected logs is not reported complete before
\* its analysis was recorded: the task records the reports of what it listed under the
\* lock, and a restarted runner analyses again.  Files are truncated before they are
\* written and processes die in between; the one thing excluded is a task that looks for
\* the logs of its machine while the file is truncated and about to be written.
THEOREM OneSessionIsAnalyzed ==
  ASSUME MaxSession = 1, ~Stalls
  PROVE  Spec /\ [][~AnalyzesTorn]_vars => []CompleteMeansAnalyzed
<1>1. Held
  BY DEF Held
<1>2. ASSUME AllInv PROVE CompleteMeansAnalyzed
  <2>1. Session = {1} /\ (activeDir[1] \notin Blank => Now = activeDir[1])
    BY <1>1, <1>2, Facts DEF Blank
  <2>2. Sound(Content(1))
    BY <1>2, <2>1 DEF Content, Blank, AllInv, SessionInv
  <2> QED
    BY <2>1, <2>2 DEF CompleteMeansAnalyzed, Sound
<1> QED
  BY <1>1, <1>2, OneSessionInvariant, PTL

\* An update of the only session drops no logs another update recorded, because every
\* update is applied to what was loaded under the lock.
THEOREM OneSessionKeepsLogs ==
  ASSUME MaxSession = 1, ~Stalls, AtomicWrites
  PROVE  Spec => LogsKept
<1> DEFINE Kept == \A s \in Session, i \in Instance :
             activeDir[s].inst[i].logs /\ activeDir'[s] # Missing => activeDir'[s].inst[i].logs
<1>1. Held
  BY DEF Held
<1>2. ASSUME AllInv, [Next]_vars PROVE Kept
  <2>1. Session = {1}
    BY <1>1, <1>2, Facts
  <2>2. CASE UNCHANGED files
    BY <2>2 DEF files
  <2>3. ASSUME NEW t \in Thread, WriteAndRelease(t) PROVE Kept
    <3> DEFINE d == activeDir[1]
               D == activeDir'[1]
               r == thread[t]
    <3>1. d \in SessionData /\ D = Updated(d, t[1], r) /\ Sound(d)
      BY <1>1, <1>2, <2>3, WriteStep, Facts DEF AllInv, SessionInv, WholeFiles
    <3>2. Effect(d, t[1], r, D) /\ r.op \in Update
      <4>1. r \in ThreadState /\ t[1] \in Instance
        BY <1>1, <1>2, Facts
      <4> QED
        BY <3>1, <4>1, UpdateEffect DEF ThreadState
    <3>3. ASSUME NEW i \in Instance, d.inst[i].logs PROVE D.inst[i].logs
      <4>1. d.inst[i].st # Absent
        BY <3>1, <3>3 DEF Sound
      <4> QED
        BY <3>2, <3>3, <4>1 DEF Effect, Update
    <3> QED
      BY <2>1, <3>3
  <2>4. ASSUME NEW t \in Thread, MoveToCompleted(t) \/ MoveFails(t) PROVE Kept
    BY <1>1, <1>2, <2>1, <2>4, Moved DEF Held, AllInv
  <2>5. ASSUME NEW w \in Worker, WriteNewSession(w) PROVE Kept
    BY <1>1, <1>2, <2>1, <2>5, WriteNewStep DEF Blank, Missing, Empty, NoEntry
  <2>6. CASE DeleteSession(1)
    BY <2>6 DEF DeleteSession
  <2> QED
    BY <1>1, <1>2, <2>2, <2>3, <2>4, <2>5, <2>6, HowFilesChange
<1> QED
  BY <1>1, <1>2, WholeInvariant, PTL DEF Spec, LogsKept

\* An instance that finished its own part of the only session is never taken back to
\* an earlier stage: a task starts on an instance that is not complete, and only the
\* task of its own machine moves the instance on.
THEOREM OneSessionNeverRestarts ==
  ASSUME MaxSession = 1, ~Stalls, AtomicWrites
  PROVE  Spec => FinishedNeverRestarts
<1> DEFINE Stays == \A s \in Session, i \in Instance :
             LET d == Content(s) IN
             d.inst[i].st = "Complete" /\ ~d.inst[i].orphan /\ Content(s)' # Missing
               => (Content(s)').inst[i].st = "Complete"
<1>1. Held
  BY DEF Held
<1>2. ASSUME AllInv, [Next]_vars PROVE Stays
  <2>1. Session = {1} /\ Missing # Empty /\ Missing \notin SessionData /\ Empty \notin SessionData
    BY <1>1, <1>2, TheSession DEF Held, AllInv, IInv
  <2>2. CASE UNCHANGED files
    BY <2>2 DEF files, Content
  <2>3. ASSUME NEW t \in Thread, WriteAndRelease(t) PROVE Stays
    <3> DEFINE d == activeDir[1]
               D == activeDir'[1]
               r == thread[t]
    <3>1. d \in SessionData /\ D = Updated(d, t[1], r)
      BY <1>1, <1>2, <2>3, WriteStep DEF AllInv, SessionInv, WholeFiles
    <3>2. r \in ThreadState /\ t[1] \in Instance /\ Fits(t, r, d, Up) /\ r.pc = "write"
      <4>1. ~HalfWritten
        BY <1>2 DEF HalfWritten, AllInv, SessionInv, WholeFiles
      <4> QED
        BY <1>1, <1>2, <2>3, <4>1, Facts DEF WriteAndRelease
    <3>3. Effect(d, t[1], r, D) /\ r.op \in Update
      BY <3>1, <3>2, UpdateEffect DEF ThreadState
    <3>4. Relies(t, r, d) /\ InUpdate(r)
      BY <2>1, <3>1, <3>2 DEF Fits, InUpdate, Blank
    <3>5. ASSUME NEW i \in Instance, d.inst[i].st = "Complete", ~d.inst[i].orphan
          PROVE  D.inst[i].st = "Complete"
      BY <3>3, <3>4, <3>5 DEF Effect, Update, Relies, Absent
    <3>6. D \in SessionData
      BY <3>3 DEF Effect
    <3>7. Content(1) = d /\ Content(1)' = D
      BY <2>1, <3>1, <3>6 DEF Content
    <3> QED
      BY <2>1, <3>5, <3>7
  <2>4. ASSUME NEW t \in Thread, MoveToCompleted(t) \/ MoveFails(t) PROVE Stays
    <3>1. \/ activeDir'[1] = Missing /\ completedDir'[1] = activeDir[1]
          \/ activeDir'[1] = activeDir[1] /\ completedDir'[1] = Missing
      BY <1>1, <1>2, <2>4, Moved DEF Held, AllInv
    <3>2. activeDir[1] # Empty
      BY <1>2 DEF AllInv, SessionInv, WholeFiles
    <3>3. Content(1)' = Missing \/ Content(1)' = Content(1)
      BY <2>1, <3>1, <3>2 DEF Content
    <3> QED
      BY <2>1, <3>3
  <2>5. ASSUME NEW w \in Worker, WriteNewSession(w) PROVE Stays
    <3>1. Content(1) = Missing
      BY <1>1, <1>2, <2>5, WriteNewStep DEF Content, Blank
    <3> QED
      BY <2>1, <3>1 DEF Missing, NoEntry, Absent
  <2>6. CASE DeleteSession(1)
    <3>1. activeDir[1] = Missing /\ activeDir' = activeDir /\ completedDir'[1] = Missing
      BY <1>2, <2>1, <2>6 DEF DeleteSession, AllInv, DiskInv, OneLocation, IInv, TypeOK
    <3>2. Content(1)' = Missing
      BY <3>1 DEF Content
    <3> QED
      BY <2>1, <3>2
  <2> QED
    BY <1>1, <1>2, <2>2, <2>3, <2>4, <2>5, <2>6, HowFilesChange
<1> QED
  BY <1>1, <1>2, WholeInvariant, PTL DEF Spec, FinishedNeverRestarts

\* The only session leaves ActiveSessions when every requested instance, orphans
\* apart, has finished at that moment, or when its time is up: whoever decided to
\* close it saw that, and no update since undid it.  As above, files are truncated
\* before they are written.
THEOREM OneSessionClosesWhenFinished ==
  ASSUME MaxSession = 1, ~Stalls
  PROVE  Spec /\ [][~AnalyzesTorn]_vars => ClosedWhenFinished
<1> DEFINE Closes == \A s \in Session :
             activeDir[s] # Missing /\ activeDir'[s] = Missing /\ age[s] # 3 =>
               \A i \in activeDir[s].targets :
                 activeDir[s].inst[i].st = "Complete" \/ activeDir[s].inst[i].orphan
<1>1. Held
  BY DEF Held
<1>2. ASSUME AllInv, [Next]_vars PROVE Closes
  <2>1. Session = {1} /\ Missing \notin SessionData /\ Missing # Empty
    BY <1>1, <1>2, Facts DEF Blank
  <2>2. CASE UNCHANGED files
    BY <2>2 DEF files
  <2>3. ASSUME NEW t \in Thread, WriteAndRelease(t) PROVE Closes
    <3>1. activeDir'[1] \in SessionData
      BY <1>1, <1>2, <2>1, <2>3, Facts DEF WriteAndRelease, ControlOf
    <3> QED
      BY <2>1, <3>1
  <2>4. ASSUME NEW t \in Thread, MoveToCompleted(t) \/ MoveFails(t) PROVE Closes
    <3>1. activeDir[1] \notin Blank => Up \/ Over(activeDir[1])
      BY <1>1, <1>2, <2>4, MoveStep
    <3>2. Empty.targets = {}
      BY DEF Empty
    <3> QED
      BY <2>1, <3>1, <3>2 DEF Up, Over, Blank
  <2>5. ASSUME NEW w \in Worker, WriteNewSession(w) PROVE Closes
    BY <1>1, <1>2, <2>1, <2>5, WriteNewStep
  <2>6. CASE DeleteSession(1)
    BY <2>6 DEF DeleteSession
  <2>7. CASE activeDir'[1] = Empty
    BY <2>1, <2>7
  <2> QED
    BY <1>1, <1>2, <2>2, <2>3, <2>4, <2>5, <2>6, <2>7, HowFilesChange
<1> QED
  BY <1>1, <1>2, OneSessionInvariant, PTL DEF Spec, ClosedWhenFinished

=============================================================================
