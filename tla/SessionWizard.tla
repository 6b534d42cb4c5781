---------------------------- MODULE SessionWizard ----------------------------
(***************************************************************************)
(* The wizard of the DaaS page (DaaS.js) that submits a session with       *)
(* settings of its own.  Five blades lie on top of each other, ordered by  *)
(* their z-index; the buttons of the topmost one work, unless a shield is  *)
(* drawn over it.  The blades are filled from GET diagnosers, settings and *)
(* instances; the last one submits with POST settings, when the storage    *)
(* was changed, and POST sessions.  Callbacks of requests and of fades run *)
(* between the clicks.                                                     *)
(***************************************************************************)
EXTENDS Integers

CONSTANTS Diagnosers,   \* the diagnosers that can be selected
          MaxCalls      \* bound on the settings and instances asked for at a time,
                        \* now and by the fades to come

ASSUME WizardAssumption == MaxCalls \in Nat \ {0}

Blade == 1..5           \* trigger, diagnosers, instances, actions, storage
Trigger == 1
DiagnosersBlade == 2
Storage == 5

VARIABLES
  overlay,        \* #wizard-overlay, "hidden" or "shown" when no fade runs
  toggles,        \* its fades: the one that runs and those queued behind it
  exiting,
  diagnosersBladeInitialized,
  schedulerResetInterval,     \* the timer runs
  zIndex,
  checked,        \* the diagnosers that are checked
  trigger,        \* the shield of the first blade
  storage,        \* the shield of the last blade
  getting,        \* the outstanding GET requests, by what they ask for
  submitting,
  posting         \* the outstanding POST requests, by what they change

overlayVars == <<overlay, toggles, exiting>>
bladeVars == <<diagnosersBladeInitialized, schedulerResetInterval, zIndex, checked>>
shieldVars == <<trigger, storage>>
submitVars == <<submitting, posting>>
vars == <<overlayVars, bladeVars, shieldVars, getting, submitVars>>

------------------------------------------------------------------------------
(* Shields.  A shield is "closing" while it fades together with the        *)
(* overlay, whose fade was started first, and "fading" when it fades alone *)
(* or the overlay is gone; whatever is shown on it meanwhile disappears.   *)

NoButton == "none"
Shield == [vis : {"hidden", "shown", "closing", "fading"},
           button : {NoButton, "settingsfailure", "diagnosersfailure",
                     "instancesfailure", "submitfailure", "submitted"}]
NoShield == [vis |-> "hidden", button |-> NoButton]

Fades(shield) == shield.vis \in {"closing", "fading"}
Show(shield) == IF Fades(shield) THEN shield ELSE [shield EXCEPT !.vis = "shown"]
Hide(shield) == IF Fades(shield) THEN shield ELSE [shield EXCEPT !.vis = "hidden"]
Offer(shield, button) == [shield EXCEPT !.button = button]
Uncover(shield) == IF shield.vis = "closing" THEN [shield EXCEPT !.vis = "fading"] ELSE shield
\* The button can be clicked, and clicked again while it fades.
ButtonShown(shield) == shield.vis # "hidden" /\ shield.button # NoButton

\* The z-index of the blades when the wizard shows blade p.
Layering(p) == [b \in Blade |-> IF b < p THEN 2221 + b - 2 * p ELSE 2221 - b]
ResetBladeLayering == zIndex' = [b \in Blade |-> 2221 - b]

Visible == overlay = "shown" \/ toggles > 0
OnTop(b) == Visible /\ \A c \in Blade : zIndex[c] <= zIndex[b]
\* The buttons of blade b can be clicked.
Clickable(b) ==
  /\ OnTop(b)
  /\ b = Trigger => trigger.vis = "hidden"
  /\ b = Storage => storage.vis = "hidden"

------------------------------------------------------------------------------
(* ResetSchedulerWizard.                                                   *)

\* Mutant: only while the timer runs.
ResetOnce(shield) ==
  IF diagnosersBladeInitialized /\ schedulerResetInterval
  THEN /\ schedulerResetInterval' = FALSE
       /\ exiting' = FALSE
       /\ ResetBladeLayering
       /\ trigger' = Show(shield)
       /\ getting' = [getting EXCEPT !.settings = @ + 1]
  ELSE /\ trigger' = shield
       /\ UNCHANGED <<schedulerResetInterval, exiting, zIndex, getting>>

\* Without settings: the first blade is shielded and the settings are asked for.
ResetWithout(shield) ==
  IF diagnosersBladeInitialized
  THEN /\ schedulerResetInterval' = FALSE
       /\ exiting' = FALSE
       /\ ResetBladeLayering
       /\ trigger' = Show(shield)
       /\ getting' = [getting EXCEPT !.settings = @ + 1]
  ELSE /\ trigger' = shield
       /\ UNCHANGED <<schedulerResetInterval, exiting, zIndex, getting>>

\* The timer of InitializeSchedulerWizard.
Tick ==
  /\ schedulerResetInterval /\ diagnosersBladeInitialized
  /\ ResetWithout(trigger)
  /\ UNCHANGED <<overlay, toggles, diagnosersBladeInitialized, checked, storage, submitVars>>

\* The reply about the settings may check any of the diagnosers, or none.
ResetDiagnosersPage(defaults) == checked' = defaults

\* With the reply of GET settings: the blades are filled, but for the instances,
\* which are asked for.
SettingsReply(ok, defaults) ==
  /\ getting.settings > 0
  /\ schedulerResetInterval' = FALSE
  /\ exiting' = FALSE
  /\ ResetBladeLayering
  /\ IF ok
     THEN /\ ResetDiagnosersPage(defaults)
          /\ trigger' = Show(Hide(trigger))
          /\ getting' = [getting EXCEPT !.settings = @ - 1, !.instances = @ + 1]
     ELSE /\ trigger' = Offer(trigger, "settingsfailure")
          /\ getting' = [getting EXCEPT !.settings = @ - 1]
          /\ UNCHANGED checked
  /\ UNCHANGED <<overlay, toggles, diagnosersBladeInitialized, storage, submitVars>>

\* ResetInstancesPage.
InstancesReply(ok) ==
  /\ getting.instances > 0
  /\ getting' = [getting EXCEPT !.instances = @ - 1]
  /\ trigger' = IF ok THEN Hide(trigger) ELSE Offer(trigger, "instancesfailure")
  /\ UNCHANGED <<overlayVars, bladeVars, storage, submitVars>>

\* InitializeDiagnosersPage.  Nobody asks again when the request fails.
DiagnosersReply(ok) ==
  /\ getting.diagnosers > 0
  /\ getting' = [getting EXCEPT !.diagnosers = @ - 1]
  /\ diagnosersBladeInitialized' = ok
  /\ trigger' = IF ok THEN trigger ELSE Offer(trigger, "diagnosersfailure")
  /\ UNCHANGED <<overlayVars, schedulerResetInterval, zIndex, checked, storage, submitVars>>

------------------------------------------------------------------------------
(* Opening, turning and leaving the blades.                                *)

\* A confirmed custom launch fades the wizard in.
Launch ==
  /\ overlay = "hidden" /\ toggles = 0
  /\ overlay' = "shown"
  /\ UNCHANGED <<toggles, exiting, bladeVars, shieldVars, getting, submitVars>>

\* The diagnosers blade has a handler only once it is filled, and asks for one.
DiagnosersPageForward == diagnosersBladeInitialized /\ checked # {}

\* WizardGenericForwardClickHandler, past the checks of the blade; what the first one
\* asks of the times is left to the user.
Forward(b) ==
  /\ Clickable(b) /\ b # Storage
  /\ b = DiagnosersBlade => DiagnosersPageForward
  /\ zIndex' = [c \in Blade |-> IF c <= b THEN zIndex[c] - 2 ELSE zIndex[c]]
  /\ UNCHANGED <<overlayVars, diagnosersBladeInitialized, schedulerResetInterval, checked,
                 shieldVars, getting, submitVars>>

\* Mutant: the blade itself is moved as well.
ReverseThis(b) ==
  /\ Clickable(b) /\ b # Trigger
  /\ zIndex' = [c \in Blade |-> IF c <= b THEN zIndex[c] + 2 ELSE zIndex[c]]
  /\ UNCHANGED <<overlayVars, diagnosersBladeInitialized, schedulerResetInterval, checked,
                 shieldVars, getting, submitVars>>

WizardReverse(b) ==
  /\ Clickable(b) /\ b # Trigger
  /\ zIndex' = [c \in Blade |-> IF c < b THEN zIndex[c] + 2 ELSE zIndex[c]]
  /\ UNCHANGED <<overlayVars, diagnosersBladeInitialized, schedulerResetInterval, checked,
                 shieldVars, getting, submitVars>>

\* The user checks and unchecks diagnosers.
Select(selection) ==
  /\ Clickable(DiagnosersBlade) /\ diagnosersBladeInitialized
  /\ checked' = selection
  /\ UNCHANGED <<overlayVars, diagnosersBladeInitialized, schedulerResetInterval, zIndex,
                 shieldVars, getting, submitVars>>

\* WizardExitClickHandler queues a fade, unless one was and nothing was reset since.
WizardExit ==
  IF exiting THEN UNCHANGED overlayVars
  ELSE /\ getting.settings + getting.instances + toggles < MaxCalls
       /\ exiting' = TRUE
       /\ toggles' = toggles + 1
       /\ UNCHANGED overlay

Exit(b) ==
  /\ Clickable(b) /\ ~exiting
  /\ WizardExit
  /\ UNCHANGED <<bladeVars, shieldVars, getting, submitVars>>

\* The end of a fade of the overlay, which hides it or, when it was hidden in
\* between, shows it; the wizard is reset either way.
FadeEnds ==
  /\ toggles > 0
  /\ toggles' = toggles - 1
  /\ overlay' = IF overlay = "shown" THEN "hidden" ELSE "shown"
  /\ ResetWithout(Uncover(trigger))
  /\ storage' = Uncover(storage)
  /\ UNCHANGED <<diagnosersBladeInitialized, checked, submitVars>>

\* The close button of a shield: the shield fades, with the overlay if it leaves.
AfterClick(shield, leaves) ==
  IF Fades(shield) THEN shield.vis
  ELSE IF leaves /\ ~exiting THEN "closing" ELSE "fading"

\* The failure is a class of the button, which the click removes.  The wizard is left.
CloseTriggerShield ==
  /\ OnTop(Trigger) /\ ButtonShown(trigger)
  /\ WizardExit
  /\ trigger' = [vis |-> AfterClick(trigger, TRUE), button |-> NoButton]
  /\ UNCHANGED <<bladeVars, storage, getting, submitVars>>

\* Here no class means that the session was submitted, and the wizard is left: also by
\* a second click, while the shield of a failed submission fades.
CloseStorageShield ==
  /\ OnTop(Storage) /\ ButtonShown(storage)
  /\ LET leaves == storage.button \notin {"settingsfailure", "submitfailure"}
     IN /\ IF leaves THEN WizardExit ELSE UNCHANGED overlayVars
        /\ storage' = [vis |-> AfterClick(storage, leaves), button |-> "submitted"]
  /\ UNCHANGED <<bladeVars, trigger, getting, submitVars>>

ShieldFaded ==
  /\ \/ trigger.vis = "fading" /\ trigger' = NoShield /\ UNCHANGED storage
     \/ storage.vis = "fading" /\ storage' = NoShield /\ UNCHANGED trigger
  /\ UNCHANGED <<overlayVars, bladeVars, getting, submitVars>>

------------------------------------------------------------------------------
(* Submitting.                                                             *)

\* WizardSubmitClickHandler and WizardSubmitSettings: the settings are posted when
\* the storage was changed, else WizardSubmitAnalysis posts the session at once.
WizardSubmit(change) ==
  /\ Clickable(Storage)
  /\ ~submitting
  /\ submitting' = TRUE
  /\ storage' = Show(storage)
  /\ posting' = IF change THEN [posting EXCEPT !.settings = @ + 1]
                ELSE [posting EXCEPT !.session = @ + 1]
  /\ UNCHANGED <<overlayVars, bladeVars, trigger, getting>>

\* Mutant: every reply about the settings ends the submission.
PostSettingsReplyEnds(ok) ==
  /\ posting.settings > 0
  /\ posting' = IF ok THEN [posting EXCEPT !.settings = @ - 1, !.session = @ + 1]
                ELSE [posting EXCEPT !.settings = @ - 1]
  /\ submitting' = FALSE
  /\ storage' = IF ok THEN storage ELSE Offer(storage, "settingsfailure")
  /\ UNCHANGED <<overlayVars, bladeVars, trigger, getting>>

\* Changed settings are followed by WizardSubmitAnalysis, with what the blades show
\* by then.
PostSettingsReply(ok) ==
  /\ posting.settings > 0
  /\ IF ok
     THEN /\ posting' = [posting EXCEPT !.settings = @ - 1, !.session = @ + 1]
          /\ UNCHANGED <<submitting, storage>>
     ELSE /\ posting' = [posting EXCEPT !.settings = @ - 1]
          /\ submitting' = FALSE
          /\ storage' = Offer(storage, "settingsfailure")
  /\ UNCHANGED <<overlayVars, bladeVars, trigger, getting>>

PostSessionReply(ok) ==
  /\ posting.session > 0
  /\ posting' = [posting EXCEPT !.session = @ - 1]
  /\ submitting' = FALSE
  /\ storage' = Offer(storage, IF ok THEN "submitted" ELSE "submitfailure")
  /\ UNCHANGED <<overlayVars, bladeVars, trigger, getting>>

------------------------------------------------------------------------------
Init ==
  /\ overlay = "hidden" /\ toggles = 0 /\ exiting = FALSE
  /\ diagnosersBladeInitialized = FALSE /\ schedulerResetInterval = TRUE
  /\ zIndex = Layering(Trigger)
  /\ checked = {}
  /\ trigger = [vis |-> "shown", button |-> NoButton]
  /\ storage = NoShield
  /\ getting = [diagnosers |-> 1, settings |-> 0, instances |-> 0]
  /\ submitting = FALSE
  /\ posting = [settings |-> 0, session |-> 0]

Callback ==
  \/ Tick \/ FadeEnds \/ ShieldFaded
  \/ \E ok \in BOOLEAN :
       \/ \E defaults \in SUBSET Diagnosers : SettingsReply(ok, defaults)
       \/ InstancesReply(ok) \/ DiagnosersReply(ok)
       \/ PostSettingsReply(ok) \/ PostSessionReply(ok)

Click ==
  \/ Launch \/ CloseTriggerShield \/ CloseStorageShield
  \/ \E b \in Blade : Forward(b) \/ WizardReverse(b) \/ Exit(b)
  \/ \E selection \in SUBSET Diagnosers : Select(selection)
  \/ \E change \in BOOLEAN : WizardSubmit(change)

Next == Callback \/ Click

Spec == Init /\ [][Next]_vars

\* Timers and fades end, and requests are answered, well or not; nobody has to
\* click.
WizardFairness ==
  /\ WF_vars(Tick) /\ WF_vars(FadeEnds) /\ WF_vars(ShieldFaded)
  /\ WF_vars(\E ok \in BOOLEAN, defaults \in SUBSET Diagnosers : SettingsReply(ok, defaults))
  /\ WF_vars(\E ok \in BOOLEAN : InstancesReply(ok))
  /\ WF_vars(\E ok \in BOOLEAN : DiagnosersReply(ok))
  /\ WF_vars(\E ok \in BOOLEAN : PostSettingsReply(ok))
  /\ WF_vars(\E ok \in BOOLEAN : PostSessionReply(ok))

FairSpec == Spec /\ WizardFairness

------------------------------------------------------------------------------
TypeOK ==
  /\ overlay \in {"hidden", "shown"} /\ toggles \in Nat /\ exiting \in BOOLEAN
  /\ diagnosersBladeInitialized \in BOOLEAN /\ schedulerResetInterval \in BOOLEAN
  /\ zIndex \in [Blade -> Int]
  /\ checked \subseteq Diagnosers
  /\ trigger \in Shield /\ storage \in Shield
  /\ getting \in [diagnosers : Nat, settings : Nat, instances : Nat]
  /\ submitting \in BOOLEAN
  /\ posting \in [settings : Nat, session : Nat]

\* The relative moves of the blades and the absolute ones of a reset, which a late
\* reply may bring at any time, always leave the blades in the order of some page.
LayerOK == \E p \in Blade : zIndex = Layering(p)

\* Beyond the diagnosers blade a diagnoser is checked: a late reply that unchecks
\* them all brings the user back to the first blade.
DiagnoserBeyond ==
  \A p \in Blade : zIndex = Layering(p) /\ p > DiagnosersBlade => checked # {}

\* A session is submitted once: one request to change something is outstanding
\* while submitting, and none otherwise.
OneSubmission == posting.settings + posting.session = IF submitting THEN 1 ELSE 0

\* The shield over the storage blade is shut as long as the submission lasts, and
\* can be closed as soon as it is over: nobody submits twice or is locked in.
ShieldMatches ==
  /\ submitting => storage.vis = "shown" /\ storage.button = NoButton
  /\ storage.vis = "shown" /\ storage.button = NoButton => submitting

\* The wizard opens on its first blade, wherever it was left.
OpensOnFirstBlade ==
  overlay = "hidden" /\ toggles = 0 => zIndex = Layering(Trigger)

\* Whatever the order of clicks, timers, fades and late replies, the wizard is on a page
\* on which it may be.
OnPage == LayerOK /\ DiagnoserBeyond /\ OpensOnFirstBlade

\* A submission of one or two requests lasts exactly as long as the shield is shut.
SubmittedOnce == OneSubmission /\ ShieldMatches

\* From the reply about the diagnosers on, the shield over the first blade does not
\* stay without a way out: it is lifted or gets a close button.
TriggerShieldEnds ==
  getting.diagnosers = 0 ~> trigger.vis # "shown" \/ trigger.button # NoButton

\* Leaving is over at some time and possible again, once the wizard is filled: a
\* page whose diagnosers could not be had never resets the flag.
ExitEnds == exiting /\ diagnosersBladeInitialized ~> ~exiting

==============================================================================
