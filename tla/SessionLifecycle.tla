--------------------------- MODULE SessionLifecycle ---------------------------
(***************************************************************************)
(* What a session manager promises of a session id, whichever store it     *)
(* keeps sessions in: a session that was submitted is active until it is   *)
(* closed, it is closed until it is deleted, an active session is never    *)
(* deleted and a closed one never active again.  FileSession, TableSession *)
(* and MonitoringAnalysis are shown to implement it.                       *)
(***************************************************************************)
CONSTANT Session

VARIABLE stage    \* [Session -> {"none", "active", "closed"}]

Init == stage = [s \in Session |-> "none"]

Submit(s) ==
  /\ stage[s] = "none"
  /\ stage' = [stage EXCEPT ![s] = "active"]

Close(s) ==
  /\ stage[s] = "active"
  /\ stage' = [stage EXCEPT ![s] = "closed"]

Delete(s) ==
  /\ stage[s] = "closed"
  /\ stage' = [stage EXCEPT ![s] = "none"]

Next == \E s \in Session : Submit(s) \/ Close(s) \/ Delete(s)

Spec == Init /\ [][Next]_stage

=============================================================================
