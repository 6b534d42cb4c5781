------------------------------- MODULE DaaSPage -------------------------------
(***************************************************************************)
(* The launch controls of the DaaS page (DaaS.js) composed with its wizard *)
(* (SessionWizard).  A launch is asked for in the page, checked against    *)
(* the sessions that run, confirmed in an overlay if there are some, and   *)
(* then carried out: an express session is posted with the default         *)
(* settings, an analysis is started, or the wizard is opened.  The         *)
(* overlays cover the whole page; those that are later in this list cover  *)
(* the earlier ones: express launch, express confirmation, confirmation,   *)
(* wizard.                                                                 *)
(***************************************************************************)
EXTENDS SessionWizard

CONSTANTS Sessions,     \* the sessions in the page whose analysis can be started
          MaxLaunch,    \* bound on the times one confirmation is clicked
          MaxPending    \* bound on the launches outstanding when one more is asked for

ASSUME PageAssumption == MaxLaunch \in Nat \ {0} /\ MaxPending \in Nat \ {0}

Nothing == "nothing"
Kind == {"express", "custom"} \cup Sessions

VARIABLES
  expressConfirmation,  \* #express-confirmation-overlay is shown
  confirmation,         \* #confirmation-overlay
  buttons,              \* YES and NO are shown on it
  classes,              \* the classes of YES: what it launches
  expressLaunch,        \* #express-launch-overlay is shown
  expressButton,        \* its close button is shown
  launching,            \* the outstanding requests of launches: GET settings of an
                        \* express one, POST of its session, POST startanalysis
  lost,                 \* a POST of an express session failed
  asked, launches       \* what was asked for last, and how often it was launched

dialogVars == <<expressConfirmation, confirmation, buttons, classes>>
launchVars == <<expressLaunch, expressButton, launching, lost>>
historyVars == <<asked, launches>>
pageVars == <<dialogVars, launchVars, historyVars>>

------------------------------------------------------------------------------
(* Asking for a launch.                                                    *)

PageFree ==
  ~Visible /\ ~expressConfirmation /\ confirmation = "hidden" /\ ~expressLaunch

Bounded == launching.settings + launching.express + launching.analysis < MaxPending

\* Mutant: YES keeps the classes of the launches that were cancelled.
AddTag(tag) ==
  /\ classes' = classes \cup {tag}
  /\ buttons' = FALSE
  /\ confirmation' = "checking"
  /\ asked' = tag /\ launches' = 0
  /\ UNCHANGED <<vars, launchVars>>

\* The running sessions are asked for, while YES is tagged with the launch.  The
\* overlay cannot be closed before the reply: it is outstanding while "checking".
ConfirmLaunch(tag) ==
  /\ classes' = {tag}
  /\ buttons' = FALSE
  /\ confirmation' = "checking"
  /\ asked' = tag /\ launches' = 0
  /\ UNCHANGED <<vars, launchVars>>

\* #launch-controls-scheduled-diagnose, or StartAnalysis of a session.
Ask(tag) ==
  /\ PageFree /\ Bounded
  /\ ConfirmLaunch(tag)
  /\ UNCHANGED expressConfirmation

\* #launch-controls-live-diagnose, which asks once more on its own.
ConfirmExpressLaunch ==
  /\ PageFree /\ Bounded
  /\ expressConfirmation' = TRUE
  /\ UNCHANGED <<vars, confirmation, buttons, classes, launchVars, historyVars>>

ExpressContinue ==
  /\ expressConfirmation
  /\ expressConfirmation' = FALSE
  /\ ConfirmLaunch("express")

ExpressCancel ==
  /\ expressConfirmation
  /\ expressConfirmation' = FALSE
  /\ UNCHANGED <<vars, confirmation, buttons, classes, launchVars, historyVars>>

------------------------------------------------------------------------------
(* Carrying it out.                                                        *)

ExpressAnalyze ==
  /\ "express" \in classes
  /\ expressLaunch' = TRUE
  /\ launching' = [launching EXCEPT !.settings = @ + 1]
  /\ UNCHANGED <<vars, expressButton, lost>>

OpenWizard ==
  /\ "express" \notin classes /\ "custom" \in classes
  /\ overlay' = IF overlay = "hidden" THEN "shown" ELSE "hidden"
  /\ UNCHANGED <<toggles, exiting, bladeVars, shieldVars, getting, submitVars, launchVars>>

ScheduleSessionAnalysis ==
  /\ {"express", "custom"} \cap classes = {}
  /\ expressLaunch' = TRUE
  /\ launching' = [launching EXCEPT !.analysis = @ + 1]
  /\ UNCHANGED <<vars, expressButton, lost>>

\* What YES does, and what the page does on its own when nothing runs: the overlay
\* fades, and the launch that the classes of YES name is carried out.
Proceed ==
  /\ confirmation' = "fading"
  /\ launches' = launches + 1
  /\ ExpressAnalyze \/ OpenWizard \/ ScheduleSessionAnalysis
  /\ UNCHANGED <<expressConfirmation, buttons, classes, asked>>

\* ConfirmLaunchHandler.  Running sessions, or the failure to get them, are a
\* reason to ask.
RunningSessionsReply(running) ==
  /\ confirmation = "checking"
  /\ IF running
     THEN /\ buttons' = TRUE
          /\ confirmation' = "asking"
          /\ UNCHANGED <<vars, expressConfirmation, classes, launchVars, historyVars>>
     ELSE Proceed

\* Mutant: they can be clicked through the wizard.
AnswerableBehind == confirmation \in {"asking", "fading"} /\ buttons

\* YES and NO can be clicked until the overlay has faded, or the wizard covers it.
Answerable == confirmation \in {"asking", "fading"} /\ buttons /\ ~Visible

ConfirmContinue ==
  /\ Answerable /\ launches < MaxLaunch
  /\ Proceed

ConfirmCancel ==
  /\ Answerable
  /\ confirmation' = "hidden"
  /\ UNCHANGED <<vars, expressConfirmation, buttons, classes, launchVars, historyVars>>

ConfirmationFaded ==
  /\ confirmation = "fading"
  /\ confirmation' = "hidden"
  /\ UNCHANGED <<vars, expressConfirmation, buttons, classes, launchVars, historyVars>>

\* SubmitExpressAnalyze: the session is posted with the settings.
ExpressSettingsReply(ok) ==
  /\ launching.settings > 0
  /\ launching' = IF ok THEN [launching EXCEPT !.settings = @ - 1, !.express = @ + 1]
                  ELSE [launching EXCEPT !.settings = @ - 1]
  /\ expressButton' = (expressButton \/ ~ok)
  /\ UNCHANGED <<vars, dialogVars, expressLaunch, lost, historyVars>>

\* The request has a handler for its success only.
ExpressPostReply(ok) ==
  /\ launching.express > 0
  /\ launching' = [launching EXCEPT !.express = @ - 1]
  /\ expressButton' = (expressButton \/ ok)
  /\ lost' = (lost \/ ~ok)
  /\ UNCHANGED <<vars, dialogVars, expressLaunch, historyVars>>

AnalysisReply ==
  /\ launching.analysis > 0
  /\ launching' = [launching EXCEPT !.analysis = @ - 1]
  /\ expressButton' = TRUE
  /\ UNCHANGED <<vars, dialogVars, expressLaunch, lost, historyVars>>

ExpressClose ==
  /\ expressLaunch /\ expressButton
  /\ confirmation = "hidden" /\ ~Visible
  /\ expressLaunch' = FALSE /\ expressButton' = FALSE
  /\ UNCHANGED <<vars, dialogVars, launching, lost, historyVars>>

------------------------------------------------------------------------------
\* A step of the wizard.  It was opened after the confirmation began to fade: no
\* fade of its own ends earlier.
WizardStep ==
  /\ \/ Callback
     \/ CloseTriggerShield \/ CloseStorageShield
     \/ \E b \in Blade : Forward(b) \/ WizardReverse(b) \/ Exit(b)
     \/ \E selection \in SUBSET Diagnosers : Select(selection)
     \/ \E change \in BOOLEAN : WizardSubmit(change)
  /\ toggles' < toggles => confirmation # "fading"
  /\ UNCHANGED pageVars

PageInit ==
  /\ Init
  /\ expressConfirmation = FALSE /\ confirmation = "hidden" /\ buttons = FALSE
  /\ classes = {}
  /\ expressLaunch = FALSE /\ expressButton = FALSE /\ lost = FALSE
  /\ launching = [settings |-> 0, express |-> 0, analysis |-> 0]
  /\ asked = Nothing /\ launches = 0

Reply ==
  \/ \E running \in BOOLEAN : RunningSessionsReply(running)
  \/ \E ok \in BOOLEAN : ExpressSettingsReply(ok) \/ ExpressPostReply(ok)
  \/ AnalysisReply

PageNext ==
  \/ WizardStep
  \/ Reply \/ ConfirmationFaded
  \/ \E tag \in {"custom"} \cup Sessions : Ask(tag)
  \/ ConfirmExpressLaunch \/ ExpressContinue \/ ExpressCancel
  \/ ConfirmContinue \/ ConfirmCancel
  \/ ExpressClose

PageSpec == PageInit /\ [][PageNext]_<<vars, pageVars>>

\* Requests are answered, well or not; timers and fades end.  Nobody has to click.
PageFairSpec ==
  /\ PageSpec
  /\ WF_<<vars, pageVars>>(\E running \in BOOLEAN : RunningSessionsReply(running))
  /\ WF_<<vars, pageVars>>(\E ok \in BOOLEAN : ExpressSettingsReply(ok))
  /\ WF_<<vars, pageVars>>(\E ok \in BOOLEAN : ExpressPostReply(ok))
  /\ WF_<<vars, pageVars>>(AnalysisReply)
  /\ WF_<<vars, pageVars>>(ConfirmationFaded)
  /\ WizardFairness

------------------------------------------------------------------------------
PageTypeOK ==
  /\ expressConfirmation \in BOOLEAN /\ buttons \in BOOLEAN
  /\ confirmation \in {"hidden", "checking", "asking", "fading"}
  /\ classes \subseteq Kind
  /\ expressLaunch \in BOOLEAN /\ expressButton \in BOOLEAN /\ lost \in BOOLEAN
  /\ launching \in [settings : Nat, express : Nat, analysis : Nat]
  /\ asked \in Kind \cup {Nothing} /\ launches \in Nat

\* The page composes the wizard: its steps are steps of the wizard or leave it alone.
ImplementsWizard == Spec

\* A step that launches something launches what was asked for.
LaunchesAsked ==
  /\ launching'.settings > launching.settings => asked = "express"
  /\ launching'.analysis > launching.analysis => asked \in Sessions
  /\ overlay = "hidden" /\ toggles = 0 /\ overlay' = "shown" => asked = "custom"

\* What is carried out is what the user asked for, whatever was asked and cancelled
\* before, and however late the reply about the running sessions comes.
LaunchedIsAsked == [][LaunchesAsked]_<<vars, pageVars>>

\* The fade that opens the wizard is a toggle: nothing that confirms a custom launch
\* finds the wizard open, and would close it without a reset.
ToggleOpens ==
  confirmation # "hidden" /\ launches = 0 => overlay = "hidden" /\ toggles = 0

\* The launch overlay never stays without its close button, but for a POST of an
\* express session that failed, which nobody handles.
ExpressLaunchEnds == expressLaunch /\ ~expressButton ~> ~expressLaunch \/ expressButton \/ lost

\* Nothing that covers the page, or a blade of the wizard, does so for ever without a
\* way out: not the shield of the first blade, not the wizard, not a launch.
WaysOut == TriggerShieldEnds /\ ExitEnds /\ ExpressLaunchEnds

==============================================================================
