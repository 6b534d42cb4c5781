----------------------------- MODULE MCDaaSPage -----------------------------
(***************************************************************************)
(* A small instance of two parts of the DaaS page that share nothing: the  *)
(* launch controls with the wizard, and a diagnoser of the drill-down.  A  *)
(* behaviour is one of one of the parts; the variables of the other keep   *)
(* their initial values.                                                   *)
(***************************************************************************)
EXTENDS DaaSPage, DiagnoserLists

VARIABLE part

launchPart == <<vars, pageVars>>
allVars == <<part, launchPart, listsVars>>

MCInit ==
  /\ part \in {"launch", "lists"}
  /\ PageInit /\ ListsInit
  /\ part = "launch" => \A l \in List : files[l] = 0 /\ ~finished[l]

Launching(A) == part = "launch" /\ A /\ UNCHANGED <<part, listsVars>>
Listing(A) == part = "lists" /\ A /\ UNCHANGED <<part, launchPart>>
Wizard(A) == Launching(A /\ UNCHANGED pageVars)

MCNext == Launching(PageNext) \/ Listing(ListsNext)

\* The fairness of DaaSPage and of DiagnoserLists, each for its own part.
MCSpec ==
  /\ MCInit /\ [][MCNext]_allVars
  /\ WF_allVars(Launching(\E running \in BOOLEAN : RunningSessionsReply(running)))
  /\ WF_allVars(Launching(\E ok \in BOOLEAN : ExpressSettingsReply(ok)))
  /\ WF_allVars(Launching(\E ok \in BOOLEAN : ExpressPostReply(ok)))
  /\ WF_allVars(Launching(AnalysisReply))
  /\ WF_allVars(Launching(ConfirmationFaded))
  /\ WF_allVars(Wizard(Tick)) /\ WF_allVars(Wizard(ShieldFaded))
  /\ WF_allVars(Wizard(confirmation # "fading" /\ FadeEnds))
  /\ WF_allVars(Wizard(\E ok \in BOOLEAN, defaults \in SUBSET Diagnosers : SettingsReply(ok, defaults)))
  /\ WF_allVars(Wizard(\E ok \in BOOLEAN : InstancesReply(ok)))
  /\ WF_allVars(Wizard(\E ok \in BOOLEAN : DiagnosersReply(ok)))
  /\ WF_allVars(Wizard(\E ok \in BOOLEAN : PostSettingsReply(ok)))
  /\ WF_allVars(Wizard(\E ok \in BOOLEAN : PostSessionReply(ok)))
  /\ WF_allVars(Listing(Walk)) /\ WF_allVars(Listing(SlideEnds))
  /\ SF_allVars(Listing(class # "transitioning" /\ RefreshSessionInDrilldown(Newest)))

==============================================================================
