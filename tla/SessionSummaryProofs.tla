------------------------- MODULE SessionSummaryProofs -------------------------
(***************************************************************************)
(* Theorems about SessionSummary, for every set of diagnosers and every    *)
(* set of statuses a server may report.                                    *)
(*                                                                         *)
(* The invariant is that of the two loops: an aggregate takes precedence   *)
(* over, or is level with, the status of every diagnoser the loop has been *)
(* through, and is the status of one of them unless it is still unknown;   *)
(* the icons of these diagnosers are those of the reply.                   *)
(***************************************************************************)
EXTENDS SessionSummary, TLAPS

IsAggregate(aggregate, column) ==
  /\ \A d \in done : GetStatusPrecedence(aggregate) <= GetStatusPrecedence(reply[d][column])
  /\ aggregate = "Unknown" \/ \E d \in done : reply[d][column] = aggregate

LoopInv ==
  /\ IsAggregate(collectStatus, "collector")
  /\ IsAggregate(analyzeStatus, "analyzer")
  /\ \A d \in done : icon[d] = DiagnoserIcons(reply[d])

\* What is shown between two loops is what the last one made of its reply.
EntryInv ==
  pc = "idle" /\ listed =>
    /\ done = Diagnoser
    /\ summary = GenerateSessionSummary(collectStatus, analyzeStatus)

IInv == SummaryTypeOK /\ LoopInv /\ EntryInv

------------------------------------------------------------------------------
(* Statuses.                                                               *)

LEMMA PrecedenceType == \A s \in Status : GetStatusPrecedence(s) \in 0..6
  BY DEF Status, GetStatusPrecedence

\* The precedence tells the statuses apart: an aggregate stands for one status.
LEMMA PrecedenceInjective ==
  ASSUME NEW s \in Status, NEW t \in Status,
         GetStatusPrecedence(s) = GetStatusPrecedence(t)
  PROVE  s = t
  BY DEF Status, GetStatusPrecedence

\* An aggregate is one of the two it is made of, and precedes them both.
LEMMA AggregateOfTwo ==
  ASSUME NEW s \in Status, NEW t \in Status
  PROVE  /\ ComputeAggregateStatus(s, t) \in {s, t}
         /\ GetStatusPrecedence(ComputeAggregateStatus(s, t)) <= GetStatusPrecedence(s)
         /\ GetStatusPrecedence(ComputeAggregateStatus(s, t)) <= GetStatusPrecedence(t)
  BY PrecedenceType DEF ComputeAggregateStatus

LEMMA IconsType ==
  ASSUME NEW d \in [collector : Status, analyzer : Status]
  PROVE  DiagnoserIcons(d) \in Icons
  BY DEF DiagnoserIcons, Icons, GetStatusClass, Status

LEMMA ColorType == \A s \in Status : GetStatusColor(s) \in Colors
  BY DEF GetStatusColor, Status, Colors

LEMMA SummaryType ==
  ASSUME NEW c \in Status, NEW a \in Status
  PROVE  GenerateSessionSummary(c, a) \in Columns
<1>1. AnalysisColor(c, a) \in Colors
  BY ColorType DEF AnalysisColor, Colors
<1>2. AnalysisText(c, a) \in Status \cup {"StartAnalysis", "Aborted"}
  BY DEF AnalysisText, GetFriendlyStatus
<1>3. GetFriendlyStatus(c) \in Status
  BY DEF GetFriendlyStatus
<1> QED
  BY <1>1, <1>2, <1>3, ColorType DEF GenerateSessionSummary, Columns

\* The two copies of the rules: a line written over is a line made anew.
LEMMA RefreshIsGenerate ==
  ASSUME NEW shown \in Columns, NEW c \in Status, NEW a \in Status
  PROVE  RefreshSessionSummary(shown, c, a) = GenerateSessionSummary(c, a)
<1> DEFINE line == RefreshSessionSummary(shown, c, a)
           text == AnalysisText(c, a)
<1>1. /\ DOMAIN line = {"collect", "analyze", "collectColor", "analyzeColor", "pointer"}
      /\ line = [x \in DOMAIN line |-> line[x]]
  BY DEF RefreshSessionSummary, Columns
<1>2. /\ line.collect = GetFriendlyStatus(c) /\ line.analyze = text
      /\ line.collectColor = GetStatusColor(c) /\ line.analyzeColor = AnalysisColor(c, a)
      /\ line.pointer = (text = "StartAnalysis")
  BY DEF RefreshSessionSummary, Columns
<1> HIDE DEF line, text
<1>3. line = [collect |-> line.collect, analyze |-> line.analyze,
              collectColor |-> line.collectColor, analyzeColor |-> line.analyzeColor,
              pointer |-> line.pointer]
  BY <1>1
<1> QED
  BY <1>2, <1>3 DEF GenerateSessionSummary, line, text

LEMMA RefreshIconsAreNew ==
  ASSUME NEW shown \in Icons, NEW d \in [collector : Status, analyzer : Status]
  PROVE  RefreshDiagnoserSummary(shown, d) = DiagnoserIcons(d)
<1>1. DOMAIN shown = {"collector", "analyzer"}
  BY DEF Icons
<1>2. RefreshDiagnoserSummary(shown, d) = [column \in {"collector", "analyzer"} |-> DiagnoserIcons(d)[column]]
  BY <1>1 DEF RefreshDiagnoserSummary
<1> QED
  BY <1>2, IconsType DEF Icons

------------------------------------------------------------------------------
(* The loops.                                                              *)

LEMMA InitIInv == SummaryInit => IInv
<1> SUFFICES ASSUME SummaryInit PROVE IInv
  OBVIOUS
<1>1. SummaryTypeOK
  BY DEF SummaryInit, SummaryTypeOK, Status, NoIcons, Icons, NoSummary, Columns, Colors
<1>2. LoopInv
  BY DEF SummaryInit, LoopInv, IsAggregate
<1>3. EntryInv
  BY DEF SummaryInit, EntryInv
<1> QED
  BY <1>1, <1>2, <1>3 DEF IInv

LEMMA BeginIInv == ASSUME IInv, NEW r \in Replies, Begin(r) PROVE IInv'
<1>1. r \in [Diagnoser -> [collector : Status, analyzer : Status]]
  BY DEF Replies
<1>2. SummaryTypeOK'
  BY <1>1 DEF IInv, SummaryTypeOK, Begin, Status
<1>3. LoopInv'
  BY DEF Begin, LoopInv, IsAggregate
<1>4. EntryInv'
  BY DEF Begin, EntryInv
<1> QED
  BY <1>2, <1>3, <1>4 DEF IInv

\* One turn keeps the aggregate of one column.
LEMMA TurnAggregates ==
  ASSUME NEW d \in Diagnoser, NEW statuses \in [Diagnoser -> Status],
         NEW D \in SUBSET Diagnoser, NEW s \in Status,
         \A e \in D : GetStatusPrecedence(s) <= GetStatusPrecedence(statuses[e]),
         s = "Unknown" \/ \E e \in D : statuses[e] = s
  PROVE  LET t == ComputeAggregateStatus(s, statuses[d])
         IN /\ t \in Status
            /\ \A e \in D \cup {d} : GetStatusPrecedence(t) <= GetStatusPrecedence(statuses[e])
            /\ t = "Unknown" \/ \E e \in D \cup {d} : statuses[e] = t
<1> DEFINE t == ComputeAggregateStatus(s, statuses[d])
<1>1. statuses[d] \in Status
  OBVIOUS
<1>2. /\ t \in {s, statuses[d]}
      /\ GetStatusPrecedence(t) <= GetStatusPrecedence(s)
      /\ GetStatusPrecedence(t) <= GetStatusPrecedence(statuses[d])
  BY <1>1, AggregateOfTwo
<1> HIDE DEF t
<1>3. t \in Status
  BY <1>1, <1>2
<1>4. ASSUME NEW e \in D \cup {d}
      PROVE  GetStatusPrecedence(t) <= GetStatusPrecedence(statuses[e])
  <2>1. CASE e = d
    BY <1>2, <2>1
  <2>2. CASE e \in D
    <3>1. GetStatusPrecedence(s) <= GetStatusPrecedence(statuses[e])
      BY <2>2
    <3>2. /\ GetStatusPrecedence(t) \in Nat
          /\ GetStatusPrecedence(s) \in Nat
          /\ GetStatusPrecedence(statuses[e]) \in Nat
      BY <1>3, PrecedenceType, <2>2
    <3> QED
      BY <1>2, <3>1, <3>2
  <2> QED
    BY <2>1, <2>2
<1>5. t = "Unknown" \/ \E e \in D \cup {d} : statuses[e] = t
  BY <1>2
<1> QED
  BY <1>3, <1>4, <1>5 DEF t

LEMMA AggregateStep ==
  ASSUME SummaryTypeOK, NEW d \in Diagnoser, Aggregate(d),
         IsAggregate(collectStatus, "collector"), IsAggregate(analyzeStatus, "analyzer")
  PROVE  /\ collectStatus' \in Status /\ analyzeStatus' \in Status
         /\ IsAggregate(collectStatus, "collector")'
         /\ IsAggregate(analyzeStatus, "analyzer")'
<1> DEFINE collectors == [e \in Diagnoser |-> reply[e]["collector"]]
           analyzers == [e \in Diagnoser |-> reply[e]["analyzer"]]
<1>1. /\ collectors \in [Diagnoser -> Status]
      /\ analyzers \in [Diagnoser -> Status]
      /\ \A e \in Diagnoser : reply[e]["collector"] = collectors[e]
      /\ \A e \in Diagnoser : reply[e]["analyzer"] = analyzers[e]
      /\ done \in SUBSET Diagnoser /\ collectStatus \in Status /\ analyzeStatus \in Status
  BY DEF SummaryTypeOK
<1>2. /\ done' = done \cup {d} /\ reply' = reply
      /\ collectStatus' = ComputeAggregateStatus(collectStatus, reply[d]["collector"])
      /\ analyzeStatus' = ComputeAggregateStatus(analyzeStatus, reply[d]["analyzer"])
  BY DEF Aggregate
<1> HIDE DEF collectors, analyzers
<1>3. /\ collectStatus' \in Status
      /\ \A e \in done \cup {d} : GetStatusPrecedence(collectStatus') <= GetStatusPrecedence(collectors[e])
      /\ collectStatus' = "Unknown" \/ \E e \in done \cup {d} : collectors[e] = collectStatus'
  <2>1. /\ \A e \in done : GetStatusPrecedence(collectStatus) <= GetStatusPrecedence(collectors[e])
        /\ collectStatus = "Unknown" \/ \E e \in done : collectors[e] = collectStatus
    BY <1>1 DEF IsAggregate
  <2>2. collectStatus' = ComputeAggregateStatus(collectStatus, collectors[d])
    BY <1>1, <1>2
  <2> QED
    BY ONLY <1>1, <2>1, <2>2, TurnAggregates, d \in Diagnoser
<1>4. /\ analyzeStatus' \in Status
      /\ \A e \in done \cup {d} : GetStatusPrecedence(analyzeStatus') <= GetStatusPrecedence(analyzers[e])
      /\ analyzeStatus' = "Unknown" \/ \E e \in done \cup {d} : analyzers[e] = analyzeStatus'
  <2>1. /\ \A e \in done : GetStatusPrecedence(analyzeStatus) <= GetStatusPrecedence(analyzers[e])
        /\ analyzeStatus = "Unknown" \/ \E e \in done : analyzers[e] = analyzeStatus
    BY <1>1 DEF IsAggregate
  <2>2. analyzeStatus' = ComputeAggregateStatus(analyzeStatus, analyzers[d])
    BY <1>1, <1>2
  <2> QED
    BY ONLY <1>1, <2>1, <2>2, TurnAggregates, d \in Diagnoser
<1> QED
  BY <1>1, <1>2, <1>3, <1>4 DEF IsAggregate

\* Both loops leave the icons of the reply, whatever was shown before.
LEMMA IconStep ==
  ASSUME SummaryTypeOK, NEW d \in Diagnoser, GenerateDiagnoser(d) \/ RefreshDiagnoser(d)
  PROVE  icon' = [icon EXCEPT ![d] = DiagnoserIcons(reply[d])]
<1>1. icon[d] \in Icons /\ reply[d] \in [collector : Status, analyzer : Status]
  BY DEF SummaryTypeOK
<1> QED
  BY <1>1, RefreshIconsAreNew DEF GenerateDiagnoser, RefreshDiagnoser

LEMMA DiagnoserIInv ==
  ASSUME IInv, NEW d \in Diagnoser, GenerateDiagnoser(d) \/ RefreshDiagnoser(d)
  PROVE  IInv'
<1>1. SummaryTypeOK /\ LoopInv /\ Aggregate(d) /\ pc # "idle"
  BY DEF IInv, GenerateDiagnoser, RefreshDiagnoser
<1>2. /\ collectStatus' \in Status /\ analyzeStatus' \in Status
      /\ IsAggregate(collectStatus, "collector")'
      /\ IsAggregate(analyzeStatus, "analyzer")'
  BY <1>1, AggregateStep DEF LoopInv
<1>3. icon' = [icon EXCEPT ![d] = DiagnoserIcons(reply[d])]
  BY <1>1, IconStep
<1>4. DiagnoserIcons(reply[d]) \in Icons
  BY <1>1, IconsType DEF SummaryTypeOK
<1>5. UNCHANGED <<pc, reply, listed, summary>> /\ done' = done \cup {d}
  BY <1>1 DEF Aggregate
<1>6. SummaryTypeOK'
  BY <1>1, <1>2, <1>3, <1>4, <1>5 DEF SummaryTypeOK
<1>7. \A e \in done' : icon'[e] = DiagnoserIcons(reply'[e])
  BY <1>1, <1>3, <1>5 DEF SummaryTypeOK, LoopInv
<1>8. EntryInv'
  BY <1>1, <1>5 DEF EntryInv
<1> QED
  BY <1>2, <1>6, <1>7, <1>8 DEF IInv, LoopInv

LEMMA FinishIInv == ASSUME IInv, Finish PROVE IInv'
<1>1. SummaryTypeOK /\ LoopInv
  BY DEF IInv
<1>2. summary' = GenerateSessionSummary(collectStatus, analyzeStatus)
  BY <1>1, RefreshIsGenerate DEF Finish, SummaryTypeOK
<1>3. summary' \in Columns
  BY <1>1, <1>2, SummaryType DEF SummaryTypeOK
<1>4. /\ UNCHANGED <<reply, done, collectStatus, analyzeStatus, icon>>
      /\ done = Diagnoser /\ pc' = "idle" /\ listed' = TRUE
  BY DEF Finish
<1>5. SummaryTypeOK'
  BY <1>1, <1>3, <1>4 DEF SummaryTypeOK
<1>6. LoopInv'
  BY <1>1, <1>4 DEF LoopInv, IsAggregate
<1>7. EntryInv'
  BY <1>2, <1>4 DEF EntryInv
<1> QED
  BY <1>5, <1>6, <1>7 DEF IInv

LEMMA EmptyListIInv == ASSUME IInv, EmptyList PROVE IInv'
  BY DEF IInv, SummaryTypeOK, LoopInv, IsAggregate, EntryInv, EmptyList

LEMMA StutterIInv == ASSUME IInv, UNCHANGED summaryVars PROVE IInv'
  BY DEF IInv, SummaryTypeOK, LoopInv, IsAggregate, EntryInv, summaryVars

LEMMA NextIInv == IInv /\ [SummaryNext]_summaryVars => IInv'
<1> SUFFICES ASSUME IInv, [SummaryNext]_summaryVars PROVE IInv'
  OBVIOUS
<1>1. ASSUME NEW r \in Replies, Begin(r) PROVE IInv'
  BY <1>1, BeginIInv
<1>2. ASSUME NEW d \in Diagnoser, GenerateDiagnoser(d) \/ RefreshDiagnoser(d) PROVE IInv'
  BY <1>2, DiagnoserIInv
<1>3. CASE Finish
  BY <1>3, FinishIInv
<1>4. CASE EmptyList
  BY <1>4, EmptyListIInv
<1>5. CASE UNCHANGED summaryVars
  BY <1>5, StutterIInv
<1> QED
  BY <1>1, <1>2, <1>3, <1>4, <1>5 DEF SummaryNext

LEMMA Invariance == SummarySpec => []IInv
  BY InitIInv, NextIInv, PTL DEF SummarySpec

------------------------------------------------------------------------------
(* Theorems.                                                               *)

\* GenerateSession and RefreshSessionInList keep the types of the entry, and every
\* status they meet has a text, a colour and an icon.
THEOREM TypeCorrect == SummarySpec => []SummaryTypeOK
<1>1. IInv => SummaryTypeOK
  BY DEF IInv
<1> QED
  BY <1>1, Invariance, PTL

\* An aggregate that is complete leaves nothing that takes precedence over it.
LEMMA CompleteAggregate ==
  ASSUME SummaryTypeOK, NEW column \in {"collector", "analyzer"}, NEW s \in Status,
         IsAggregate(s, column), s = "Complete"
  PROVE  /\ \A d \in done : reply[d][column] \in {"Complete", "NotRequested", "Unknown"}
         /\ \E d \in done : reply[d][column] = "Complete"
<1>1. ASSUME NEW d \in done
      PROVE  reply[d][column] \in {"Complete", "NotRequested", "Unknown"}
  <2>1. reply[d][column] \in Status
    BY DEF SummaryTypeOK
  <2>2. GetStatusPrecedence("Complete") <= GetStatusPrecedence(reply[d][column])
    BY DEF IsAggregate
  <2> QED
    BY <2>1, <2>2 DEF GetStatusPrecedence, Status
<1> QED
  BY <1>1 DEF IsAggregate

\* Analysis is offered in the summary line of a session only when all its collectors
\* that were asked for are complete, one at least was, and no analysis was asked for
\* (DaaS.js, the column "StartAnalysis").
LEMMA StartOffered == SummarySpec => []StartOnlyWhenCollected
<1>1. ASSUME IInv PROVE StartOnlyWhenCollected
  <2> SUFFICES ASSUME pc = "idle", listed, summary.analyze = "StartAnalysis"
               PROVE  /\ \A d \in Diagnoser : reply[d].collector \in {"Complete", "NotRequested", "Unknown"}
                      /\ \E d \in Diagnoser : reply[d].collector = "Complete"
                      /\ \A d \in Diagnoser : reply[d].analyzer \in {"NotRequested", "Unknown"}
    BY DEF StartOnlyWhenCollected
  <2>1. SummaryTypeOK /\ LoopInv /\ EntryInv
    BY <1>1 DEF IInv
  <2>2. done = Diagnoser /\ AnalysisText(collectStatus, analyzeStatus) = "StartAnalysis"
    BY <2>1 DEF EntryInv, GenerateSessionSummary
  <2>3. collectStatus = "Complete" /\ analyzeStatus = "NotRequested"
    <3>1. collectStatus \in Status /\ analyzeStatus \in Status
      BY <2>1 DEF SummaryTypeOK
    <3> QED
      BY <2>2, <3>1 DEF AnalysisText, Startable, GetFriendlyStatus, Status
  <2>4. /\ \A d \in Diagnoser : reply[d].collector \in {"Complete", "NotRequested", "Unknown"}
        /\ \E d \in Diagnoser : reply[d].collector = "Complete"
    BY <2>1, <2>2, <2>3, CompleteAggregate DEF LoopInv, SummaryTypeOK
  <2>5. ASSUME NEW d \in Diagnoser PROVE reply[d].analyzer \in {"NotRequested", "Unknown"}
    <3>1. reply[d].analyzer \in Status
      BY <2>1 DEF SummaryTypeOK
    <3>2. GetStatusPrecedence("NotRequested") <= GetStatusPrecedence(reply[d].analyzer)
      BY <2>1, <2>2, <2>3 DEF LoopInv, IsAggregate
    <3> QED
      BY <3>1, <3>2 DEF GetStatusPrecedence, Status
  <2> QED
    BY <2>4, <2>5
<1> QED
  BY <1>1, Invariance, PTL

\* RefreshSessionInList and GenerateSession agree: what is shown of a session depends
\* on its last reply only, not on the replies before it.
THEOREM RefreshAgrees == SummarySpec => []RefreshedAsGenerated
<1>1. IInv => RefreshedAsGenerated
  BY DEF IInv, LoopInv, EntryInv, RefreshedAsGenerated
<1> QED
  BY <1>1, Invariance, PTL

\* The summary line of a session does not say Complete over the icon of a diagnoser
\* that waits, runs, failed or was cancelled.
LEMMA SummaryAgrees == SummarySpec => []SummaryAgreesWithIcons
<1>1. ASSUME IInv PROVE SummaryAgreesWithIcons
  <2> SUFFICES ASSUME pc = "idle", listed, NEW d \in Diagnoser
               PROVE  /\ summary.collect = "Complete" =>
                           icon[d].collector \in {"log", "notrequested", "unknown"}
                      /\ summary.analyze = "Complete" =>
                           \/ icon[d].analyzer \in {"report", "notrequested", "unknown"}
                           \/ icon[d].analyzer = "aborted" /\ summary.collect = "Cancelled"
    BY DEF SummaryAgreesWithIcons
  <2>1. SummaryTypeOK /\ LoopInv /\ EntryInv
    BY <1>1 DEF IInv
  <2>2. /\ done = Diagnoser
        /\ summary.collect = GetFriendlyStatus(collectStatus)
        /\ summary.analyze = AnalysisText(collectStatus, analyzeStatus)
        /\ icon[d] = DiagnoserIcons(reply[d])
    BY <2>1 DEF EntryInv, LoopInv, GenerateSessionSummary
  <2>3. /\ collectStatus \in Status /\ analyzeStatus \in Status
        /\ reply[d].collector \in Status /\ reply[d].analyzer \in Status
    BY <2>1 DEF SummaryTypeOK
  <2>4. summary.collect = collectStatus
    BY <2>2, <2>3 DEF GetFriendlyStatus
  <2>5. ASSUME summary.collect = "Complete"
        PROVE  icon[d].collector \in {"log", "notrequested", "unknown"}
    <3>1. reply[d].collector \in {"Complete", "NotRequested", "Unknown"}
      BY <2>1, <2>2, <2>3, <2>4, <2>5, CompleteAggregate DEF LoopInv
    <3> QED
      BY <2>2, <3>1 DEF DiagnoserIcons, GetStatusClass
  <2>6. ASSUME summary.analyze = "Complete"
        PROVE  \/ icon[d].analyzer \in {"report", "notrequested", "unknown"}
               \/ icon[d].analyzer = "aborted" /\ summary.collect = "Cancelled"
    <3>1. analyzeStatus = "Complete" /\ ~Aborted(collectStatus, analyzeStatus)
      BY <2>2, <2>3, <2>6 DEF AnalysisText, GetFriendlyStatus
    <3>2. reply[d].analyzer \in {"Complete", "NotRequested", "Unknown"}
      BY <2>1, <2>2, <2>3, <3>1, CompleteAggregate DEF LoopInv
    <3>3. collectStatus # "Error"
      BY <3>1 DEF Aborted
    <3>4. CASE reply[d].collector = "Error"
      <4>1. GetStatusPrecedence(collectStatus) <= GetStatusPrecedence("Error")
        BY <2>1, <2>2, <3>4 DEF LoopInv, IsAggregate
      <4>2. collectStatus = "Cancelled"
        BY <4>1, <2>3, <3>3 DEF GetStatusPrecedence, Status
      <4> QED
        BY <2>2, <2>4, <3>2, <3>4, <4>2 DEF DiagnoserIcons, GetStatusClass
    <3>5. CASE reply[d].collector # "Error"
      <4>1. GetStatusClass(reply[d].collector, "collector") # "error"
        BY <2>3, <3>5 DEF GetStatusClass, Status
      <4> QED
        BY <2>2, <3>2, <4>1 DEF DiagnoserIcons, GetStatusClass
    <3> QED
      BY <3>4, <3>5
  <2> QED
    BY <2>5, <2>6
<1> QED
  BY <1>1, Invariance, PTL

\* What GetStatusPrecedence makes of the statuses of all diagnosers is true to each of
\* them: in what the summary line offers and in what it says over the icons.
THEOREM SummaryIsTruthful == SummarySpec => []SummaryTruthful
<1>1. StartOnlyWhenCollected /\ SummaryAgreesWithIcons <=> SummaryTruthful
  BY DEF SummaryTruthful
<1> QED
  BY <1>1, StartOffered, SummaryAgrees, PTL

===============================================================================
