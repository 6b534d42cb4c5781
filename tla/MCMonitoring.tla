----------------------------- MODULE MCMonitoring -----------------------------
EXTENDS MonitoringAnalysis
CONSTANTS m1, m2, u1

\* A session that kills the process is followed by one that takes dumps, which the
\* runner that stops it has analysed.
KillThenAnalyze == [s \in Session |-> {IF s = 1 THEN "Kill" ELSE "CollectKillAndAnalyze"}]

\* Dumps are taken, and analysed when a request asks for it.
AllCollect == [s \in Session |-> {"Collect"}]
=============================================================================
