-------------------------- MODULE ReportPageProofs --------------------------
(***************************************************************************)
(* Theorems about ReportPage, for every set of requests, with whatever     *)
(* views they have, and every bound on the files asked for.                *)
(*                                                                         *)
(* The invariant looks ahead: while the file asked for last is awaited it  *)
(* is the last of the files on their way, and it is the one of the request,*)
(* the filter and the view selected in the panel; files that arrive before *)
(* it, or do not exist, change nothing of that.                            *)
(***************************************************************************)
EXTENDS ReportPage, SequenceTheorems, TLAPS

\* A file is the one of what is selected in the panel of its target.
Selected(file, t) ==
  /\ file.of = active[PanelOf(t)] /\ file.framework = framework[PanelOf(t)]
  /\ t = "request" => (file.async <=> stackType # "thread") \/ active["core"] # NoRequest

\* A panel with stacks is the one of a request.
StacksOfRequest ==
  /\ panel["request"] = "stack" => active["request"] \in Requests
  /\ panel["core"] = "stack" => active["core"] \in CoreRequests

\* The last file asked for is the one of what is selected, while it is awaited and
\* while it is shown.
Follows(t) ==
  panel[PanelOf(t)] = "stack" =>
    /\ latest[t] = "awaited" => gets[t] # <<>> /\ Selected(gets[t][Len(gets[t])], t)
    /\ latest[t] = "shown" => Selected(showing[t], t)

Latest == {"none", "awaited", "shown", "missing", "replaced"}

ReportInv == ReportTypeOK /\ StacksOfRequest /\ \A t \in Target : Follows(t)

-----------------------------------------------------------------------------
(* Sequences of files                                                      *)

\* What is left of a sequence when an element is taken out of it.
LEMMA RemoveAtFacts ==
  ASSUME NEW S, NEW s \in Seq(S), NEW k \in 1..Len(s)
  PROVE  /\ RemoveAt(s, k) \in Seq(S) /\ Len(RemoveAt(s, k)) = Len(s) - 1
         /\ k < Len(s) => RemoveAt(s, k)[Len(s) - 1] = s[Len(s)]
<1> DEFINE before == SubSeq(s, 1, k - 1)
           after == SubSeq(s, k + 1, Len(s))
           n == Len(s)
<1>1. n \in Nat
  BY LenProperties
<1>2. RemoveAt(s, k) = before \o after
  BY DEF RemoveAt
<1>3. \A i \in 1..n : s[i] \in S
  BY ElementOfSeq
<1>4. before \in Seq(S) /\ Len(before) = k - 1
  <2>1. k - 1 \in 0..n
    BY <1>1
  <2>2. \A i \in 1..(k - 1) : s[i] \in S
    BY <1>1, <1>3
  <2>3. before = [i \in 1..(k - 1) |-> s[i]]
    BY <1>1, <2>1
  <2> QED
    BY <2>1, <2>2, <2>3, <1>1
<1>5. after \in Seq(S) /\ Len(after) = n - k /\ \A i \in 1..(n - k) : after[i] = s[i + k]
  <2>1. after = [i \in 1..(n - k) |-> s[i + k]]
    BY <1>1
  <2>2. \A i \in 1..(n - k) : s[i + k] \in S
    BY <1>1, <1>3
  <2>3. n - k \in Nat
    BY <1>1
  <2> QED
    BY <2>1, <2>2, <2>3
<1> HIDE DEF before, after
<1>6. /\ before \o after \in Seq(S) /\ Len(before \o after) = Len(before) + Len(after)
      /\ \A i \in 1..(Len(before) + Len(after)) :
           (before \o after)[i] = IF i <= Len(before) THEN before[i] ELSE after[i - Len(before)]
  BY <1>4, <1>5, ConcatProperties
<1>7. Len(before \o after) = n - 1
  BY <1>1, <1>4, <1>5, <1>6
<1>8. ASSUME k < n
      PROVE  (before \o after)[n - 1] = s[n]
  <2>1. n - 1 \in 1..(Len(before) + Len(after)) /\ ~(n - 1 <= Len(before))
    BY <1>1, <1>4, <1>5, <1>8
  <2>2. (before \o after)[n - 1] = after[n - 1 - Len(before)]
    BY <1>6, <2>1
  <2>3. n - 1 - Len(before) = n - k /\ n - k \in 1..(n - k) /\ n - k + k = n
    BY <1>1, <1>4, <1>8
  <2> QED
    BY <1>5, <2>2, <2>3
<1> QED
  BY <1>2, <1>6, <1>7, <1>8

\* What was asked for is the last file of each target it was asked for.
LEMMA AskStep ==
  ASSUME ReportTypeOK, NEW targets \in SUBSET Target, NEW file \in File, Ask(targets, file)
  PROVE  /\ gets' \in [Target -> Seq(File)] /\ \A t \in Target : Len(gets'[t]) <= MaxGets
         /\ latest' \in [Target -> Latest] /\ showing' = showing
         /\ \A t \in targets :
              latest'[t] = "awaited" /\ gets'[t] # <<>> /\ gets'[t][Len(gets'[t])] = file
         /\ \A t \in Target \ targets : gets'[t] = gets[t] /\ latest'[t] = latest[t]
<1>1. /\ gets' = [t \in Target |-> IF t \in targets THEN Append(gets[t], file) ELSE gets[t]]
      /\ latest' = [t \in Target |-> IF t \in targets THEN "awaited" ELSE latest[t]]
      /\ UNCHANGED showing
      /\ \A t \in targets : Len(gets[t]) < MaxGets
  BY DEF Ask
<1>2. \A t \in Target : gets[t] \in Seq(File) /\ Len(gets[t]) \in Nat /\ Len(gets[t]) <= MaxGets
  BY LenProperties DEF ReportTypeOK
<1>3. \A t \in Target :
        /\ Append(gets[t], file) \in Seq(File) /\ Len(Append(gets[t], file)) = Len(gets[t]) + 1
        /\ Append(gets[t], file)[Len(gets[t]) + 1] = file
  BY <1>2, AppendProperties
<1>4. \A t \in targets :
        latest'[t] = "awaited" /\ gets'[t] # <<>> /\ gets'[t][Len(gets'[t])] = file
  <2> TAKE t \in targets
  <2>1. gets'[t] = Append(gets[t], file) /\ latest'[t] = "awaited" /\ t \in Target
    BY <1>1
  <2>2. Len(gets'[t]) # 0
    BY <1>2, <1>3, <2>1
  <2> QED
    BY <1>3, <2>1, <2>2
<1>5. \A t \in Target \ targets : gets'[t] = gets[t] /\ latest'[t] = latest[t]
  BY <1>1 DEF ReportTypeOK
<1>6. \A t \in Target : gets'[t] \in Seq(File) /\ Len(gets'[t]) <= MaxGets
  <2> TAKE t \in Target
  <2>1. CASE t \in targets
    BY <1>1, <1>2, <1>3, <2>1, ReportAssumption
  <2>2. CASE t \notin targets
    BY <1>1, <1>2, <2>2
  <2> QED
    BY <2>1, <2>2
<1>7. gets' \in [Target -> Seq(File)] /\ latest' \in [Target -> Latest]
  BY <1>1, <1>6 DEF ReportTypeOK, Latest
<1> QED
  BY <1>1, <1>4, <1>5, <1>6, <1>7

-----------------------------------------------------------------------------
(* One lemma per way of asking                                             *)

\* The stacks of a request are asked for as they are selected.
LEMMA IndividualRequestStep ==
  ASSUME ReportInv, NEW r \in Requests, NEW f \in BOOLEAN, NEW async \in BOOLEAN,
         IndividualRequest(r, f, async),
         active' = [active EXCEPT !["request"] = r],
         framework' = [framework EXCEPT !["request"] = f],
         stackType' \in {"thread", "activity", "none"}, async <=> stackType' # "thread"
  PROVE  ReportInv'
<1> DEFINE file == [of |-> r, framework |-> f, async |-> async]
<1>1. /\ active' \in [Panel -> Requests \cup CoreRequests \cup {NoRequest}]
      /\ active'["request"] = r /\ active'["core"] = active["core"]
      /\ framework' \in [Panel -> BOOLEAN]
      /\ framework'["request"] = f /\ framework'["core"] = framework["core"]
      /\ active["core"] \in CoreRequests \cup {NoRequest}
  BY DEF ReportInv, ReportTypeOK, Panel
<1>2. /\ panel' \in [Panel -> {"nothing", "details", "stack"}]
      /\ panel'["core"] = panel["core"]
  BY DEF IndividualRequest, ReportInv, ReportTypeOK, Panel
<1>3. StacksOfRequest'
  BY <1>1, <1>2 DEF ReportInv, StacksOfRequest
<1>4. \A t \in Target : t = "request" \/ PanelOf(t) = "core"
  BY DEF Target, Panel, PanelOf
<1>5. PanelOf("request") = "request" /\ "request" \in Target
  BY DEF PanelOf, Target, Panel
<1>6. CASE r \in (HasThread \cup HasActivity) \ Elsewhere
  <2>1. Ask({"request"}, file)
    BY <1>6 DEF IndividualRequest
  <2>2. file \in File /\ file.of = r /\ file.framework = f
    BY DEF File
  <2>3. /\ gets' \in [Target -> Seq(File)] /\ \A t \in Target : Len(gets'[t]) <= MaxGets
        /\ latest' \in [Target -> Latest] /\ showing' = showing /\ latest'["request"] = "awaited"
        /\ gets'["request"] # <<>> /\ gets'["request"][Len(gets'["request"])] = file
        /\ \A t \in Target \ {"request"} : gets'[t] = gets[t] /\ latest'[t] = latest[t]
    <3>1. {"request"} \in SUBSET Target /\ ReportTypeOK
      BY <1>5 DEF ReportInv
    <3> HIDE DEF file
    <3>2. file \in File
      BY <2>2
    <3> QED
      BY <2>1, <3>1, <3>2, AskStep
  <2>4. ReportTypeOK'
    BY <1>1, <1>2, <2>3 DEF ReportInv, ReportTypeOK, Latest
  <2>5. \A t \in Target : Follows(t)'
    <3> TAKE t \in Target
    <3>1. CASE t = "request"
      <4>1. file.async <=> stackType' # "thread"
        OBVIOUS
      <4> HIDE DEF file
      <4>2. Selected(file, t)'
        BY <1>1, <1>5, <2>2, <3>1, <4>1 DEF Selected
      <4> QED
        BY <2>3, <3>1, <4>2 DEF Follows
    <3>2. CASE t # "request"
      <4>1. PanelOf(t) = "core" /\ gets'[t] = gets[t] /\ latest'[t] = latest[t] /\ Follows(t)
        BY <1>4, <2>3, <3>2 DEF ReportInv
      <4> QED
        BY <1>1, <1>2, <2>3, <4>1 DEF Follows, Selected
    <3> QED
      BY <3>1, <3>2
  <2> QED
    BY <1>3, <2>4, <2>5 DEF ReportInv
<1>7. CASE r \notin (HasThread \cup HasActivity) \ Elsewhere
  <2>1. panel' = [panel EXCEPT !["request"] = "details"] /\ UNCHANGED <<gets, latest, showing>>
    BY <1>7 DEF IndividualRequest
  <2>2. panel'["request"] = "details"
    BY <2>1 DEF ReportInv, ReportTypeOK, Panel
  <2>3. ReportTypeOK'
    BY <1>1, <1>2, <2>1 DEF ReportInv, ReportTypeOK
  <2>4. \A t \in Target : Follows(t)'
    <3> TAKE t \in Target
    <3>1. CASE t = "request"
      BY <1>5, <2>2, <3>1 DEF Follows
    <3>2. CASE t # "request"
      <4>1. PanelOf(t) = "core" /\ Follows(t)
        BY <1>4, <3>2 DEF ReportInv
      <4> QED
        BY <1>1, <1>2, <2>1, <3>2, <4>1 DEF Follows, Selected
    <3> QED
      BY <3>1, <3>2
  <2> QED
    BY <1>3, <2>3, <2>4 DEF ReportInv
<1> QED
  BY <1>6, <1>7

\* So are those of a core request, and its events.
LEMMA IndividualCoreRequestStep ==
  ASSUME ReportInv, NEW r \in CoreRequests, NEW f \in BOOLEAN,
         IndividualCoreRequest(r, f),
         active' = [active EXCEPT !["core"] = r],
         framework' = [framework EXCEPT !["core"] = f],
         stackType' \in {"thread", "activity", "none"}
  PROVE  ReportInv'
<1> DEFINE file == [of |-> r, framework |-> f, async |-> TRUE]
           both == {"core", "timeline"}
<1>1. /\ active' \in [Panel -> Requests \cup CoreRequests \cup {NoRequest}]
      /\ active'["core"] = r /\ active'["request"] = active["request"]
      /\ framework' \in [Panel -> BOOLEAN]
      /\ framework'["core"] = f /\ framework'["request"] = framework["request"]
      /\ active["request"] \in Requests \cup {NoRequest} /\ r # NoRequest
  BY ReportAssumption DEF ReportInv, ReportTypeOK, Panel
<1>2. /\ panel' \in [Panel -> {"nothing", "details", "stack"}]
      /\ panel'["request"] = panel["request"]
  BY DEF IndividualCoreRequest, ReportInv, ReportTypeOK, Panel
<1>3. StacksOfRequest'
  BY <1>1, <1>2 DEF ReportInv, StacksOfRequest
<1>4. \A t \in both : PanelOf(t) = "core" /\ t # "request"
  BY DEF PanelOf
<1>5. both \in SUBSET Target /\ \A t \in Target \ both : PanelOf(t) = "request"
  BY DEF PanelOf, Target, Panel
<1>6. CASE r \in HasActivity
  <2>1. Ask(both, file)
    BY <1>6 DEF IndividualCoreRequest
  <2>2. file \in File /\ file.of = r /\ file.framework = f
    BY DEF File
  <2>3. /\ gets' \in [Target -> Seq(File)] /\ \A t \in Target : Len(gets'[t]) <= MaxGets
        /\ latest' \in [Target -> Latest] /\ showing' = showing
        /\ \A t \in both :
             latest'[t] = "awaited" /\ gets'[t] # <<>> /\ gets'[t][Len(gets'[t])] = file
        /\ \A t \in Target \ both : gets'[t] = gets[t] /\ latest'[t] = latest[t]
    <3>1. ReportTypeOK
      BY DEF ReportInv
    <3> HIDE DEF file, both
    <3>2. file \in File /\ both \in SUBSET Target
      BY <1>5, <2>2
    <3> QED
      BY <2>1, <3>1, <3>2, AskStep
  <2>4. ReportTypeOK'
    BY <1>1, <1>2, <2>3 DEF ReportInv, ReportTypeOK, Latest
  <2>5. \A t \in Target : Follows(t)'
    <3> TAKE t \in Target
    <3> HIDE DEF file, both
    <3>1. CASE t \in both
      <4>1. Selected(file, t)'
        BY <1>1, <1>4, <2>2, <3>1 DEF Selected
      <4> QED
        BY <2>3, <3>1, <4>1 DEF Follows
    <3>2. CASE t \notin both
      <4>1. PanelOf(t) = "request" /\ gets'[t] = gets[t] /\ latest'[t] = latest[t] /\ Follows(t)
        BY <1>5, <2>3, <3>2 DEF ReportInv
      <4> QED
        BY <1>1, <1>2, <2>3, <4>1 DEF Follows, Selected
    <3> QED
      BY <3>1, <3>2
  <2> QED
    BY <1>3, <2>4, <2>5 DEF ReportInv
<1>7. CASE r \notin HasActivity
  <2>1. panel' = [panel EXCEPT !["core"] = "nothing"] /\ UNCHANGED <<gets, latest, showing>>
    BY <1>7 DEF IndividualCoreRequest
  <2>2. panel'["core"] = "nothing"
    BY <2>1 DEF ReportInv, ReportTypeOK, Panel
  <2>3. ReportTypeOK'
    BY <1>1, <1>2, <2>1 DEF ReportInv, ReportTypeOK
  <2>4. \A t \in Target : Follows(t)'
    <3> TAKE t \in Target
    <3>1. CASE t \in both
      BY <1>4, <2>2, <3>1 DEF Follows
    <3>2. CASE t \notin both
      <4>1. PanelOf(t) = "request" /\ Follows(t)
        BY <1>5, <3>2 DEF ReportInv
      <4> QED
        BY <1>1, <1>2, <2>1, <4>1 DEF Follows, Selected
    <3> QED
      BY <3>1, <3>2
  <2> QED
    BY <1>3, <2>3, <2>4 DEF ReportInv
<1> QED
  BY <1>6, <1>7

\* The file that arrives first is the first one asked for, or the target is marked.
LEMMA ReceiveStep ==
  ASSUME ReportInv, NEW t \in Target, NEW k \in 1..MaxGets, Receive(t, k)
  PROVE  ReportInv'
<1> DEFINE q == gets[t]
           rest == RemoveAt(q, k)
<1>1. q \in Seq(File) /\ k \in 1..Len(q) /\ Len(q) \in Nat /\ Len(q) <= MaxGets
  BY LenProperties DEF Receive, ReportInv, ReportTypeOK
<1>2. q[k] \in File
  BY <1>1, ElementOfSeq
<1>3. /\ rest \in Seq(File) /\ Len(rest) = Len(q) - 1
      /\ k < Len(q) => rest[Len(q) - 1] = q[Len(q)]
  <2> HIDE DEF q
  <2> QED
    BY <1>1, RemoveAtFacts
<1>4. /\ gets' = [gets EXCEPT ![t] = rest]
      /\ showing' = [showing EXCEPT ![t] = IF Exists(q[k]) THEN q[k] ELSE @]
      /\ latest' = [latest EXCEPT ![t] =
           IF @ = "awaited" /\ k = Len(q) THEN IF Exists(q[k]) THEN "shown" ELSE "missing"
           ELSE IF @ = "shown" /\ Exists(q[k]) THEN "replaced" ELSE @]
      /\ UNCHANGED <<active, framework, stackType, panel>>
  BY DEF Receive
<1> HIDE DEF rest
<1>5. /\ gets' \in [Target -> Seq(File)] /\ gets'[t] = rest
      /\ \A u \in Target \ {t} : gets'[u] = gets[u]
  BY <1>3, <1>4 DEF ReportInv, ReportTypeOK
<1>6. /\ showing' \in [Target -> File \cup {NoFile}]
      /\ showing'[t] = IF Exists(q[k]) THEN q[k] ELSE showing[t]
      /\ \A u \in Target \ {t} : showing'[u] = showing[u]
  <2> HIDE DEF q
  <2> QED
    BY <1>2, <1>4 DEF ReportInv, ReportTypeOK
<1>7. /\ latest' \in [Target -> Latest]
      /\ latest'[t] = IF latest[t] = "awaited" /\ k = Len(q)
                      THEN IF Exists(q[k]) THEN "shown" ELSE "missing"
                      ELSE IF latest[t] = "shown" /\ Exists(q[k]) THEN "replaced" ELSE latest[t]
      /\ \A u \in Target \ {t} : latest'[u] = latest[u]
  <2> HIDE DEF q
  <2> QED
    BY <1>4 DEF ReportInv, ReportTypeOK, Latest
<1>9. ReportTypeOK'
  <2>1. \A u \in Target : Len(gets'[u]) <= MaxGets
    <3> TAKE u \in Target
    <3>1. CASE u = t
      BY <1>1, <1>3, <1>5, <3>1, ReportAssumption
    <3>2. CASE u # t
      BY <1>5, <3>2 DEF ReportInv, ReportTypeOK
    <3> QED
      BY <3>1, <3>2
  <2> QED
    BY <1>4, <1>5, <1>6, <1>7, <2>1 DEF ReportInv, ReportTypeOK, Latest
<1>10. StacksOfRequest'
  BY <1>4 DEF ReportInv, StacksOfRequest
<1>11. \A u \in Target : Follows(u)'
  <2> TAKE u \in Target
  <2>1. CASE u # t
    <3>1. Follows(u) /\ gets'[u] = gets[u] /\ latest'[u] = latest[u] /\ showing'[u] = showing[u]
      BY <1>5, <1>6, <1>7, <2>1 DEF ReportInv
    <3> QED
      BY <1>4, <3>1 DEF Follows, Selected
  <2>2. CASE u = t
    <3>1. SUFFICES ASSUME panel[PanelOf(t)] = "stack"
                   PROVE  /\ latest'[t] = "awaited" => rest # <<>> /\ Selected(rest[Len(rest)], t)
                          /\ latest'[t] = "shown" => Selected(showing'[t], t)
      BY <1>4, <1>5, <2>2 DEF Follows, Selected
    <3>2. latest[t] = "awaited" => Selected(q[Len(q)], t)
      BY <3>1 DEF ReportInv, Follows
    <3>3. CASE latest'[t] = "awaited"
      <4>1. latest[t] = "awaited" /\ k < Len(q)
        BY <1>1, <1>7, <3>3
      <4>2. rest # <<>> /\ rest[Len(rest)] = q[Len(q)]
        <5>1. Len(<<>>) = 0
          OBVIOUS
        <5> QED
          BY <1>1, <1>3, <4>1, <5>1
      <4> QED
        BY <3>2, <3>3, <4>1, <4>2
    <3>4. CASE latest'[t] = "shown"
      <4>1. CASE latest[t] = "awaited"
        <5>1. k = Len(q) /\ Exists(q[k])
          BY <1>7, <3>4, <4>1
        <5> QED
          BY <1>6, <3>2, <3>4, <4>1, <5>1
      <4>2. CASE latest[t] # "awaited"
        <5>1. latest[t] = "shown" /\ ~Exists(q[k])
          BY <1>7, <3>4, <4>2
        <5> QED
          BY <1>6, <3>1, <3>4, <5>1 DEF ReportInv, Follows
      <4> QED
        BY <4>1, <4>2
    <3> QED
      BY <3>3, <3>4
  <2> QED
    BY <2>1, <2>2
<1> QED
  BY <1>9, <1>10, <1>11 DEF ReportInv

-----------------------------------------------------------------------------
(* The theorems                                                            *)

\* At first nothing is displayed.
LEMMA InitInv == ReportInit => ReportInv
<1> SUFFICES ASSUME ReportInit PROVE ReportInv
  OBVIOUS
<1>1. \A t \in Target : PanelOf(t) \in Panel
  BY DEF Target, Panel, PanelOf
<1>2. \A p \in Panel : panel[p] = "nothing"
  BY DEF ReportInit
<1>3. \A t \in Target : Follows(t)
  BY <1>1, <1>2 DEF Follows
<1>4. StacksOfRequest
  BY <1>2 DEF StacksOfRequest, Panel
<1>5. \A t \in Target : gets[t] = <<>> /\ Len(<<>>) = 0 /\ <<>> \in Seq(File)
  BY DEF ReportInit
<1>6. gets \in [Target -> Seq(File)] /\ \A t \in Target : Len(gets[t]) <= MaxGets
  BY <1>5, ReportAssumption DEF ReportInit
<1>7. ReportTypeOK
  BY <1>6 DEF ReportInit, ReportTypeOK, Panel
<1> QED
  BY <1>3, <1>4, <1>7 DEF ReportInv

\* Every step keeps the invariant.
LEMMA StepInv == ASSUME ReportInv, [ReportNext]_reportPageVars PROVE ReportInv'
<1>1. CASE UNCHANGED reportPageVars
  BY <1>1 DEF ReportInv, ReportTypeOK, StacksOfRequest, Follows, Selected, reportPageVars
<1>2. ASSUME NEW r \in Requests, UpdateRequest(r) PROVE ReportInv'
  <2>1. PICK view \in {"thread", "activity", "none"} :
          /\ IndividualRequest(r, FALSE, view # "thread") /\ stackType' = view
          /\ active' = [active EXCEPT !["request"] = r]
          /\ framework' = [framework EXCEPT !["request"] = FALSE]
    BY <1>2 DEF UpdateRequest, ReportInv, ReportTypeOK
  <2>2. (view # "thread") \in BOOLEAN /\ ((view # "thread") <=> stackType' # "thread")
    BY <2>1
  <2>3. FALSE \in BOOLEAN
    OBVIOUS
  <2> QED
    BY <2>1, <2>2, <2>3, IndividualRequestStep
<1>3. ASSUME NEW view \in {"thread", "activity"}, ChangeView(view) PROVE ReportInv'
  <2>1. /\ active["request"] \in Requests /\ framework["request"] \in BOOLEAN
        /\ active \in [Panel -> Requests \cup CoreRequests \cup {NoRequest}]
        /\ framework \in [Panel -> BOOLEAN] /\ "request" \in Panel
    BY <1>3 DEF ChangeView, ReportInv, ReportTypeOK, StacksOfRequest, Panel
  <2>2. /\ active' = [active EXCEPT !["request"] = active["request"]]
        /\ framework' = [framework EXCEPT !["request"] = framework["request"]]
    BY <1>3, <2>1 DEF ChangeView
  <2>3. /\ IndividualRequest(active["request"], framework["request"], view # "thread")
        /\ stackType' \in {"thread", "activity", "none"} /\ (view # "thread") \in BOOLEAN
        /\ (view # "thread") <=> stackType' # "thread"
    BY <1>3 DEF ChangeView
  <2> QED
    BY <2>1, <2>2, <2>3, IndividualRequestStep
<1>4. ASSUME ChangeFilter PROVE ReportInv'
  <2>1. /\ active["request"] \in Requests /\ framework["request"] \in BOOLEAN
        /\ active \in [Panel -> Requests \cup CoreRequests \cup {NoRequest}]
        /\ "request" \in Panel /\ stackType \in {"thread", "activity", "none"}
    BY <1>4 DEF ChangeFilter, ReportInv, ReportTypeOK, StacksOfRequest, Panel
  <2>2. /\ active' = [active EXCEPT !["request"] = active["request"]]
        /\ framework' = [framework EXCEPT !["request"] = ~framework["request"]]
        /\ stackType' = stackType
    BY <1>4, <2>1 DEF ChangeFilter
  <2>3. /\ IndividualRequest(active["request"], ~framework["request"], stackType # "thread")
        /\ (~framework["request"]) \in BOOLEAN /\ (stackType # "thread") \in BOOLEAN
        /\ (stackType # "thread") <=> stackType' # "thread"
    BY <1>4 DEF ChangeFilter
  <2> QED
    BY <2>1, <2>2, <2>3, IndividualRequestStep
<1>5. ASSUME NEW r \in CoreRequests, UpdateCoreRequest(r) PROVE ReportInv'
  <2>1. /\ active' = [active EXCEPT !["core"] = r]
        /\ framework' = [framework EXCEPT !["core"] = FALSE]
        /\ IndividualCoreRequest(r, FALSE)
    BY <1>5 DEF UpdateCoreRequest
  <2>2. stackType' \in {"thread", "activity", "none"}
    BY <1>5 DEF UpdateCoreRequest, ReportInv, ReportTypeOK
  <2> QED
    BY <2>1, <2>2, IndividualCoreRequestStep
<1>6. ASSUME ChangeCoreFilter PROVE ReportInv'
  <2>1. /\ active["core"] \in CoreRequests /\ framework["core"] \in BOOLEAN
        /\ active \in [Panel -> Requests \cup CoreRequests \cup {NoRequest}]
        /\ "core" \in Panel /\ stackType \in {"thread", "activity", "none"}
    BY <1>6 DEF ChangeCoreFilter, ReportInv, ReportTypeOK, StacksOfRequest, Panel
  <2>2. /\ active' = [active EXCEPT !["core"] = active["core"]]
        /\ framework' = [framework EXCEPT !["core"] = ~framework["core"]]
        /\ stackType' = stackType
    BY <1>6, <2>1 DEF ChangeCoreFilter
  <2>3. /\ IndividualCoreRequest(active["core"], ~framework["core"])
        /\ (~framework["core"]) \in BOOLEAN
    BY <1>6 DEF ChangeCoreFilter
  <2> QED
    BY <2>1, <2>2, <2>3, IndividualCoreRequestStep
<1>7. ASSUME NEW t \in Target, NEW k \in 1..MaxGets, Receive(t, k) PROVE ReportInv'
  BY <1>7, ReceiveStep
<1> QED
  BY <1>1, <1>2, <1>3, <1>4, <1>5, <1>6, <1>7 DEF ReportNext

\* The invariant holds.
THEOREM ReportInvariant == ReportSpec => []ReportInv
<1>1. ReportInit => ReportInv
  BY InitInv
<1>2. ReportInv /\ [ReportNext]_reportPageVars => ReportInv'
  BY StepInv
<1> QED
  BY <1>1, <1>2, PTL DEF ReportSpec

\* The report page is type correct.
THEOREM ReportTypeCorrect == ReportSpec => []ReportTypeOK
<1>1. ReportInv => ReportTypeOK
  BY DEF ReportInv
<1> QED
  BY <1>1, ReportInvariant, PTL

\* In whatever order files arrive and whatever is clicked in the two panels meanwhile,
\* the file of what is selected in a panel is shown from its arrival until a file that
\* was asked for before it arrives after it.
THEOREM StacksAreOfTheSelected == ReportSpec => []ShowsWhatIsActive
<1>1. ReportInv => ShowsWhatIsActive
  BY DEF ReportInv, Follows, ShowsWhatIsActive, Selected
<1> QED
  BY <1>1, ReportInvariant, PTL

=============================================================================
