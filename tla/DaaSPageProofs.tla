---------------------------- MODULE DaaSPageProofs ----------------------------
(***************************************************************************)
(* Theorems about DaaSPage, for every set of sessions and diagnosers and   *)
(* every bound: the page composes the wizard, what it launches is what was *)
(* asked for, and the toggle that opens the wizard finds it closed.        *)
(*                                                                         *)
(* The invariant adds to that of the wizard that one dialog is shown at a  *)
(* time, which covers a closed wizard until something is launched, and     *)
(* that YES names what was asked for last.                                 *)
(***************************************************************************)
EXTENDS DaaSPage, TLAPS

-----------------------------------------------------------------------------
(* The wizard (SessionWizard), for every set of diagnosers and every       *)
(* bound on the requests.  The invariant has three parts.  LayerInv: the   *)
(* blades lie in the order of the page that is on top, and beyond the      *)
(* diagnosers one is checked.  SubmitInv: one POST while submitting,       *)
(* under a shut shield.  OpenInv: what makes the wizard open on its first  *)
(* blade; a wizard that was never filled is not reset when it is left,     *)
(* but it can be left only once, from the shield over its first blade.     *)

On(p) == zIndex = Layering(p)

LayerInv == LayerOK /\ DiagnoserBeyond

SubmitInv ==
  /\ OneSubmission /\ ShieldMatches
  /\ storage.vis = "hidden" => storage.button = NoButton

Unfilled ==
  /\ getting.settings = 0 /\ getting.instances = 0
  /\ exiting \/ (toggles = 0 /\ trigger.vis = "shown")
  /\ toggles > 0 => toggles = 1 /\ overlay = "shown" /\ trigger.vis = "closing"
  /\ On(Trigger) \/ (exiting /\ overlay = "shown" /\ toggles = 0)

OpenInv ==
  /\ OpensOnFirstBlade
  /\ getting.diagnosers > 0 => getting.diagnosers = 1 /\ ~diagnosersBladeInitialized
  /\ ~diagnosersBladeInitialized => Unfilled

IInv == TypeOK /\ LayerInv /\ SubmitInv /\ OpenInv

------------------------------------------------------------------------------
(* The layers.                                                             *)

LEMMA LayeringType == \A p \in Blade : Layering(p) \in [Blade -> Int]
  BY DEF Layering, Blade

LEMMA LayeringIsReset == [b \in Blade |-> 2221 - b] = Layering(Trigger)
  BY DEF Layering, Blade, Trigger

\* The order of the blades names the one on top.
LEMMA LayeringInjective ==
  ASSUME NEW p \in Blade, NEW q \in Blade, Layering(p) = Layering(q)
  PROVE  p = q
<1>1. Layering(p)[p] = 2221 - p
  BY DEF Layering, Blade
<1>2. Layering(q)[p] = IF p < q THEN 2221 + p - 2 * q ELSE 2221 - p
  BY DEF Layering, Blade
<1>3. Layering(q)[q] = 2221 - q
  BY DEF Layering, Blade
<1>4. Layering(p)[q] = IF q < p THEN 2221 + q - 2 * p ELSE 2221 - q
  BY DEF Layering, Blade
<1> QED
  BY <1>1, <1>2, <1>3, <1>4 DEF Blade

LEMMA TopIsPage ==
  ASSUME NEW p \in Blade, On(p), NEW b \in Blade, OnTop(b)
  PROVE  b = p
<1>1. zIndex[p] <= zIndex[b] /\ zIndex[p] = 2221 - p
  BY DEF OnTop, On, Layering, Blade
<1>2. zIndex[b] = IF b < p THEN 2221 + b - 2 * p ELSE 2221 - b
  BY DEF On, Layering, Blade
<1> QED
  BY <1>1, <1>2 DEF Blade

LEMMA ForwardLayering ==
  ASSUME NEW p \in Blade, p # Storage, On(p)
  PROVE  /\ p + 1 \in Blade
         /\ [c \in Blade |-> IF c <= p THEN zIndex[c] - 2 ELSE zIndex[c]] = Layering(p + 1)
<1>1. p + 1 \in Blade
  BY DEF Blade, Storage
<1>2. ASSUME NEW c \in Blade
      PROVE  (IF c <= p THEN zIndex[c] - 2 ELSE zIndex[c]) = Layering(p + 1)[c]
  <2>1. zIndex[c] = IF c < p THEN 2221 + c - 2 * p ELSE 2221 - c
    BY DEF On, Layering
  <2>2. Layering(p + 1)[c] = IF c < p + 1 THEN 2221 + c - 2 * (p + 1) ELSE 2221 - c
    BY DEF Layering
  <2> QED
    BY <2>1, <2>2 DEF Blade
<1> QED
  BY <1>1, <1>2 DEF Layering

LEMMA ReverseLayering ==
  ASSUME NEW p \in Blade, p # Trigger, On(p)
  PROVE  /\ p - 1 \in Blade
         /\ [c \in Blade |-> IF c < p THEN zIndex[c] + 2 ELSE zIndex[c]] = Layering(p - 1)
<1>1. p - 1 \in Blade
  BY DEF Blade, Trigger
<1>2. ASSUME NEW c \in Blade
      PROVE  (IF c < p THEN zIndex[c] + 2 ELSE zIndex[c]) = Layering(p - 1)[c]
  <2>1. zIndex[c] = IF c < p THEN 2221 + c - 2 * p ELSE 2221 - c
    BY DEF On, Layering
  <2>2. Layering(p - 1)[c] = IF c < p - 1 THEN 2221 + c - 2 * (p - 1) ELSE 2221 - c
    BY DEF Layering
  <2> QED
    BY <2>1, <2>2 DEF Blade
<1> QED
  BY <1>1, <1>2 DEF Layering

\* The blades are as on a page p, where at most the diagnosers blade is left or one
\* is checked.
LEMMA LayerIntro ==
  ASSUME NEW p \in Blade, On(p), p > DiagnosersBlade => checked # {}
  PROVE  LayerInv
<1>1. \A q \in Blade : On(q) => q = p
  BY LayeringInjective DEF On
<1> QED
  BY <1>1 DEF LayerInv, LayerOK, DiagnoserBeyond, On

LEMMA LayerElim ==
  ASSUME LayerInv
  PROVE  \E p \in Blade : On(p) /\ (p > DiagnosersBlade => checked # {})
  BY DEF LayerInv, LayerOK, DiagnoserBeyond, On

LEMMA LayerUnchanged ==
  ASSUME LayerInv, UNCHANGED <<zIndex, checked>>
  PROVE  LayerInv'
  BY DEF LayerInv, LayerOK, DiagnoserBeyond

LEMMA SubmitUnchanged ==
  ASSUME SubmitInv, UNCHANGED <<storage, submitVars>>
  PROVE  SubmitInv'
  BY DEF SubmitInv, OneSubmission, ShieldMatches, submitVars

LEMMA FirstBladeLayer == ASSUME On(Trigger)' PROVE LayerInv'
<1>1. Trigger \in Blade /\ ~(Trigger > DiagnosersBlade)
  BY DEF Trigger, Blade, DiagnosersBlade
<1>2. \A q \in Blade : On(q)' => q = Trigger
  BY <1>1, LayeringInjective DEF On
<1> QED
  BY <1>1, <1>2 DEF LayerInv, LayerOK, DiagnoserBeyond, On

------------------------------------------------------------------------------
(* The shields.                                                            *)

LEMMA ShieldTypes ==
  ASSUME NEW shield \in Shield
  PROVE  /\ Show(shield) \in Shield /\ Hide(shield) \in Shield /\ Uncover(shield) \in Shield
         /\ \A button \in {"settingsfailure", "diagnosersfailure", "instancesfailure",
                           "submitfailure", "submitted"} :
              /\ Offer(shield, button) \in Shield
              /\ Offer(shield, button).vis = shield.vis
              /\ Offer(shield, button).button = button
         /\ Uncover(shield).button = shield.button
         /\ Uncover(shield).vis = IF shield.vis = "closing" THEN "fading" ELSE shield.vis
         /\ Show(shield).button = shield.button
         /\ shield.vis \in {"hidden", "shown"} => Show(shield).vis = "shown"
  BY DEF Shield, Show, Hide, Uncover, Offer, Fades

LEMMA NoShieldType == NoShield \in Shield /\ NoShield.vis = "hidden" /\ NoShield.button = NoButton
  BY DEF NoShield, Shield, NoButton

LEMMA ClosedType ==
  ASSUME NEW shield \in Shield, NEW leaves \in BOOLEAN, shield.vis # "hidden"
  PROVE  /\ AfterClick(shield, leaves) \in {"closing", "fading"}
         /\ Fades(shield) => AfterClick(shield, leaves) = shield.vis
         /\ ~Fades(shield) => shield.vis = "shown"
         /\ shield.vis = "shown" /\ leaves /\ ~exiting => AfterClick(shield, leaves) = "closing"
  BY DEF Shield, AfterClick, Fades

\* Counting the requests.
Requests == [diagnosers : Nat, settings : Nat, instances : Nat]
LEMMA AskSettings ==
  ASSUME NEW g \in Requests
  PROVE  LET h == [g EXCEPT !.settings = @ + 1] IN h \in Requests /\ h.diagnosers = g.diagnosers
  BY DEF Requests
LEMMA SettingsAnswered ==
  ASSUME NEW g \in Requests, g.settings > 0
  PROVE  /\ LET h == [g EXCEPT !.settings = @ - 1] IN h \in Requests /\ h.diagnosers = g.diagnosers
         /\ LET h == [g EXCEPT !.settings = @ - 1, !.instances = @ + 1]
            IN h \in Requests /\ h.diagnosers = g.diagnosers
<1>1. g.settings - 1 \in Nat /\ g.instances + 1 \in Nat
  BY DEF Requests
<1> QED
  BY <1>1 DEF Requests
LEMMA InstancesAnswered ==
  ASSUME NEW g \in Requests, g.instances > 0
  PROVE  LET h == [g EXCEPT !.instances = @ - 1] IN h \in Requests /\ h.diagnosers = g.diagnosers
<1>1. g.instances - 1 \in Nat
  BY DEF Requests
<1> QED
  BY <1>1 DEF Requests
LEMMA DiagnosersAnswered ==
  ASSUME NEW g \in Requests, g.diagnosers > 0
  PROVE  LET h == [g EXCEPT !.diagnosers = @ - 1]
         IN /\ h \in Requests /\ h.diagnosers = g.diagnosers - 1
            /\ h.settings = g.settings /\ h.instances = g.instances
<1>1. g.diagnosers - 1 \in Nat
  BY DEF Requests
<1> QED
  BY <1>1 DEF Requests

------------------------------------------------------------------------------
(* The steps.                                                              *)

\* A reset: what was filled is back on its first blade, the rest is left alone.
LEMMA ResetStep ==
  ASSUME TypeOK, NEW shield \in Shield, ResetWithout(shield)
  PROVE  /\ schedulerResetInterval' \in BOOLEAN /\ exiting' \in BOOLEAN
         /\ zIndex' \in [Blade -> Int] /\ trigger' \in Shield /\ getting' \in Requests
         /\ getting'.diagnosers = getting.diagnosers
         /\ diagnosersBladeInitialized => On(Trigger)'
         /\ ~diagnosersBladeInitialized =>
              UNCHANGED <<schedulerResetInterval, exiting, zIndex, getting>> /\ trigger' = shield
<1>1. CASE diagnosersBladeInitialized
  <2>1. zIndex' = Layering(Trigger)
    BY <1>1, LayeringIsReset DEF ResetWithout, ResetBladeLayering
  <2>2. zIndex' \in [Blade -> Int]
    BY <2>1, LayeringType DEF Blade, Trigger
  <2>3. getting' \in Requests /\ getting'.diagnosers = getting.diagnosers
    BY <1>1, AskSettings DEF ResetWithout, TypeOK, Requests
  <2> QED
    BY <1>1, <2>1, <2>2, <2>3, ShieldTypes DEF ResetWithout, On
<1>2. CASE ~diagnosersBladeInitialized
  BY <1>2 DEF ResetWithout, TypeOK, Requests
<1> QED
  BY <1>1, <1>2

LEMMA InitIInv == Init => IInv
<1> SUFFICES ASSUME Init PROVE IInv
  OBVIOUS
<1>1. On(Trigger) /\ Trigger \in Blade /\ ~(Trigger > DiagnosersBlade)
  BY DEF Init, On, Trigger, Blade, DiagnosersBlade
<1>2. TypeOK
  <2>1. zIndex \in [Blade -> Int]
    BY <1>1, LayeringType DEF On
  <2> QED
    BY <2>1 DEF Init, TypeOK, Shield, NoShield, NoButton
<1>3. LayerInv
  BY <1>1, LayerIntro
<1>4. SubmitInv
  BY DEF Init, SubmitInv, OneSubmission, ShieldMatches, NoShield, NoButton
<1>5. OpenInv
  BY <1>1 DEF Init, OpenInv, OpensOnFirstBlade, Unfilled, On
<1> QED
  BY <1>2, <1>3, <1>4, <1>5 DEF IInv

LEMMA TickIInv == ASSUME IInv, Tick PROVE IInv'
<1>1. TypeOK /\ LayerInv /\ SubmitInv /\ OpenInv
  BY DEF IInv
<1>2. /\ diagnosersBladeInitialized /\ ResetWithout(trigger) /\ trigger \in Shield
      /\ UNCHANGED <<overlay, toggles, diagnosersBladeInitialized, checked, storage, submitVars>>
  BY <1>1 DEF Tick, TypeOK
<1>3. TypeOK'
  BY <1>1, <1>2, ResetStep DEF TypeOK, submitVars, Requests
<1>4. On(Trigger)' /\ getting'.diagnosers = getting.diagnosers
  BY <1>1, <1>2, ResetStep
<1>5. OpenInv'
  BY <1>1, <1>2, <1>4 DEF OpenInv, OpensOnFirstBlade, On
<1> QED
  BY <1>1, <1>2, <1>3, <1>4, <1>5, FirstBladeLayer, SubmitUnchanged DEF IInv

LEMMA SettingsReplyIInv ==
  ASSUME IInv, NEW ok \in BOOLEAN, NEW defaults \in SUBSET Diagnosers, SettingsReply(ok, defaults)
  PROVE  IInv'
<1>1. TypeOK /\ LayerInv /\ SubmitInv /\ OpenInv
  BY DEF IInv
<1>2. /\ getting \in Requests /\ getting.settings > 0 /\ getting.settings # 0
      /\ exiting' = FALSE /\ schedulerResetInterval' = FALSE
      /\ UNCHANGED <<overlay, toggles, diagnosersBladeInitialized, storage, submitVars>>
  BY <1>1 DEF SettingsReply, TypeOK, Requests
<1>3. zIndex' = Layering(Trigger)
  BY LayeringIsReset DEF SettingsReply, ResetBladeLayering
<1>4. zIndex' \in [Blade -> Int] /\ On(Trigger)'
  BY <1>3, LayeringType DEF Trigger, Blade, On
<1>5. getting' \in Requests /\ getting'.diagnosers = getting.diagnosers
  BY <1>2, SettingsAnswered DEF SettingsReply
<1>6. trigger' \in Shield /\ checked' \subseteq Diagnosers
  BY <1>1, ShieldTypes DEF SettingsReply, TypeOK, ResetDiagnosersPage
<1>7. TypeOK'
  BY <1>1, <1>2, <1>4, <1>5, <1>6 DEF TypeOK, submitVars, Requests
<1>8. diagnosersBladeInitialized
  BY <1>1, <1>2 DEF OpenInv, Unfilled
<1>9. OpenInv'
  BY <1>1, <1>2, <1>3, <1>5, <1>8 DEF OpenInv, OpensOnFirstBlade
<1> QED
  BY <1>1, <1>2, <1>4, <1>7, <1>9, FirstBladeLayer, SubmitUnchanged DEF IInv

LEMMA InstancesReplyIInv ==
  ASSUME IInv, NEW ok \in BOOLEAN, InstancesReply(ok) PROVE IInv'
<1>1. TypeOK /\ LayerInv /\ SubmitInv /\ OpenInv
  BY DEF IInv
<1>2. /\ getting \in Requests /\ getting.instances > 0 /\ getting.instances # 0
      /\ UNCHANGED <<overlay, toggles, exiting, diagnosersBladeInitialized,
                     schedulerResetInterval, zIndex, checked, storage, submitVars>>
  BY <1>1 DEF InstancesReply, TypeOK, Requests, overlayVars, bladeVars
<1>3. getting' \in Requests /\ getting'.diagnosers = getting.diagnosers
  BY <1>2, InstancesAnswered DEF InstancesReply
<1>4. trigger' \in Shield
  BY <1>1, ShieldTypes DEF InstancesReply, TypeOK
<1>5. TypeOK'
  BY <1>1, <1>2, <1>3, <1>4 DEF TypeOK, submitVars, Requests
<1>6. diagnosersBladeInitialized
  BY <1>1, <1>2 DEF OpenInv, Unfilled
<1>7. OpenInv'
  BY <1>1, <1>2, <1>3, <1>6 DEF OpenInv, OpensOnFirstBlade
<1> QED
  BY <1>1, <1>2, <1>5, <1>7, LayerUnchanged, SubmitUnchanged DEF IInv

LEMMA DiagnosersReplyIInv ==
  ASSUME IInv, NEW ok \in BOOLEAN, DiagnosersReply(ok) PROVE IInv'
<1>1. TypeOK /\ LayerInv /\ SubmitInv /\ OpenInv
  BY DEF IInv
<1>2. /\ getting \in Requests /\ getting.diagnosers > 0
      /\ diagnosersBladeInitialized' = ok
      /\ UNCHANGED <<overlay, toggles, exiting, schedulerResetInterval, zIndex, checked,
                     storage, submitVars>>
  BY <1>1 DEF DiagnosersReply, TypeOK, Requests, overlayVars
<1>3. /\ getting' \in Requests /\ getting'.diagnosers = getting.diagnosers - 1
      /\ getting'.settings = getting.settings /\ getting'.instances = getting.instances
  BY <1>2, DiagnosersAnswered DEF DiagnosersReply
<1>4. trigger' \in Shield /\ trigger'.vis = trigger.vis
  BY <1>1, ShieldTypes DEF DiagnosersReply, TypeOK
<1>5. TypeOK'
  BY <1>1, <1>2, <1>3, <1>4 DEF TypeOK, submitVars, Requests
<1>6. getting.diagnosers = 1 /\ ~diagnosersBladeInitialized /\ Unfilled
  BY <1>1, <1>2 DEF OpenInv
<1>7. OpenInv'
  BY <1>1, <1>2, <1>3, <1>4, <1>6 DEF OpenInv, OpensOnFirstBlade, Unfilled, On
<1> QED
  BY <1>1, <1>2, <1>5, <1>7, LayerUnchanged, SubmitUnchanged DEF IInv

LEMMA LaunchIInv == ASSUME IInv, Launch PROVE IInv'
<1>1. TypeOK /\ LayerInv /\ SubmitInv /\ OpenInv
  BY DEF IInv
<1>2. /\ overlay = "hidden" /\ toggles = 0 /\ overlay' = "shown"
      /\ UNCHANGED <<toggles, exiting, diagnosersBladeInitialized, schedulerResetInterval,
                     zIndex, checked, trigger, storage, getting, submitVars>>
  BY DEF Launch, bladeVars, shieldVars
<1>3. TypeOK'
  BY <1>1, <1>2 DEF TypeOK, submitVars
<1>4. OpenInv'
  BY <1>1, <1>2 DEF OpenInv, OpensOnFirstBlade, Unfilled, On
<1> QED
  BY <1>1, <1>2, <1>3, <1>4, LayerUnchanged, SubmitUnchanged DEF IInv

\* The blade that can be clicked is the page that is on top.
LEMMA ClickedPage ==
  ASSUME LayerInv, NEW b \in Blade, Clickable(b)
  PROVE  /\ Visible /\ On(b) /\ (b > DiagnosersBlade => checked # {})
         /\ b = Trigger => trigger.vis = "hidden"
         /\ b = Storage => storage.vis = "hidden"
<1>1. PICK p \in Blade : On(p) /\ (p > DiagnosersBlade => checked # {})
  BY LayerElim
<1>2. b = p
  BY <1>1, TopIsPage DEF Clickable
<1> QED
  BY <1>1, <1>2 DEF Clickable, OnTop

\* Moving off the first blade, or on from there, without a reset: the wizard is shown,
\* no fade of it is under way, and it was left before.
LEMMA MoveOpens ==
  ASSUME TypeOK, OpenInv, NEW b \in Blade, On(b), Visible,
         b = Trigger => trigger.vis = "hidden",
         UNCHANGED <<overlay, toggles, exiting, diagnosersBladeInitialized, trigger, getting>>
  PROVE  OpenInv'
<1>1. b # Trigger => ~On(Trigger)
  BY LayeringInjective DEF On, Trigger, Blade
<1>2. ~(overlay = "hidden" /\ toggles = 0)
  BY DEF Visible
<1>3. ASSUME ~diagnosersBladeInitialized PROVE Unfilled'
  <2>1. Unfilled
    BY <1>3 DEF OpenInv
  <2>2. exiting /\ toggles = 0 /\ overlay = "shown"
    BY <1>1, <2>1 DEF Unfilled, Visible, TypeOK
  <2> QED
    BY <2>1, <2>2 DEF Unfilled
<1> QED
  BY <1>2, <1>3 DEF OpenInv, OpensOnFirstBlade

LEMMA ForwardIInv == ASSUME IInv, NEW b \in Blade, Forward(b) PROVE IInv'
<1>1. TypeOK /\ LayerInv /\ SubmitInv /\ OpenInv
  BY DEF IInv
<1>2. /\ Clickable(b) /\ b # Storage
      /\ b = DiagnosersBlade => diagnosersBladeInitialized /\ checked # {}
      /\ zIndex' = [c \in Blade |-> IF c <= b THEN zIndex[c] - 2 ELSE zIndex[c]]
      /\ UNCHANGED <<overlay, toggles, exiting, diagnosersBladeInitialized,
                     schedulerResetInterval, checked, trigger, storage, getting, submitVars>>
  BY DEF Forward, DiagnosersPageForward, overlayVars, shieldVars
<1>3. /\ Visible /\ On(b) /\ (b > DiagnosersBlade => checked # {})
      /\ b = Trigger => trigger.vis = "hidden"
  BY <1>1, <1>2, ClickedPage
<1>4. b + 1 \in Blade /\ zIndex' = Layering(b + 1)
  BY <1>2, <1>3, ForwardLayering
<1>5. TypeOK'
  BY <1>1, <1>2, <1>4, LayeringType DEF TypeOK, submitVars
<1>6. LayerInv'
  <2>1. b + 1 > DiagnosersBlade => checked' # {}
    BY <1>2, <1>3 DEF DiagnosersBlade, Blade
  <2>2. \A q \in Blade : zIndex' = Layering(q) => q = b + 1
    BY <1>4, LayeringInjective
  <2> QED
    BY <1>4, <2>1, <2>2 DEF LayerInv, LayerOK, DiagnoserBeyond
<1>7. OpenInv'
  BY <1>1, <1>2, <1>3, MoveOpens
<1> QED
  BY <1>1, <1>2, <1>5, <1>6, <1>7, SubmitUnchanged DEF IInv

LEMMA ReverseIInv == ASSUME IInv, NEW b \in Blade, WizardReverse(b) PROVE IInv'
<1>1. TypeOK /\ LayerInv /\ SubmitInv /\ OpenInv
  BY DEF IInv
<1>2. /\ Clickable(b) /\ b # Trigger
      /\ zIndex' = [c \in Blade |-> IF c < b THEN zIndex[c] + 2 ELSE zIndex[c]]
      /\ UNCHANGED <<overlay, toggles, exiting, diagnosersBladeInitialized,
                     schedulerResetInterval, checked, trigger, storage, getting, submitVars>>
  BY DEF WizardReverse, overlayVars, shieldVars
<1>3. Visible /\ On(b) /\ (b > DiagnosersBlade => checked # {})
  BY <1>1, <1>2, ClickedPage
<1>4. b - 1 \in Blade /\ zIndex' = Layering(b - 1)
  BY <1>2, <1>3, ReverseLayering
<1>5. TypeOK'
  BY <1>1, <1>2, <1>4, LayeringType DEF TypeOK, submitVars
<1>6. LayerInv'
  <2>1. b - 1 > DiagnosersBlade => checked' # {}
    BY <1>2, <1>3 DEF DiagnosersBlade, Blade
  <2>2. \A q \in Blade : zIndex' = Layering(q) => q = b - 1
    BY <1>4, LayeringInjective
  <2> QED
    BY <1>4, <2>1, <2>2 DEF LayerInv, LayerOK, DiagnoserBeyond
<1>7. OpenInv'
  BY <1>1, <1>2, <1>3, MoveOpens
<1> QED
  BY <1>1, <1>2, <1>5, <1>6, <1>7, SubmitUnchanged DEF IInv

LEMMA SelectIInv ==
  ASSUME IInv, NEW selection \in SUBSET Diagnosers, Select(selection) PROVE IInv'
<1>1. TypeOK /\ LayerInv /\ SubmitInv /\ OpenInv
  BY DEF IInv
<1>2. /\ Clickable(DiagnosersBlade) /\ DiagnosersBlade \in Blade /\ DiagnosersBlade # Trigger
      /\ checked' = selection
      /\ UNCHANGED <<overlay, toggles, exiting, diagnosersBladeInitialized,
                     schedulerResetInterval, zIndex, trigger, storage, getting, submitVars>>
  BY DEF Select, overlayVars, shieldVars, DiagnosersBlade, Blade, Trigger
<1>3. Visible /\ On(DiagnosersBlade)
  BY <1>1, <1>2, ClickedPage
<1>4. TypeOK'
  BY <1>1, <1>2 DEF TypeOK, submitVars
<1>5. LayerInv'
  <2>1. \A q \in Blade : zIndex' = Layering(q) => q = DiagnosersBlade
    BY <1>2, <1>3, LayeringInjective DEF On
  <2> QED
    BY <1>2, <1>3, <2>1 DEF LayerInv, LayerOK, DiagnoserBeyond, On, DiagnosersBlade
<1>6. OpenInv'
  BY <1>1, <1>2, <1>3, MoveOpens
<1> QED
  BY <1>1, <1>2, <1>4, <1>5, <1>6, SubmitUnchanged DEF IInv

LEMMA ExitIInv == ASSUME IInv, NEW b \in Blade, Exit(b) PROVE IInv'
<1>1. TypeOK /\ LayerInv /\ SubmitInv /\ OpenInv
  BY DEF IInv
<1>2. /\ Clickable(b) /\ ~exiting /\ exiting' = TRUE /\ toggles' = toggles + 1
      /\ UNCHANGED <<overlay, diagnosersBladeInitialized, schedulerResetInterval, zIndex,
                     checked, trigger, storage, getting, submitVars>>
  BY DEF Exit, WizardExit, bladeVars, shieldVars
<1>3. TypeOK'
  BY <1>1, <1>2 DEF TypeOK, submitVars
<1>4. diagnosersBladeInitialized
  <2> SUFFICES ASSUME ~diagnosersBladeInitialized PROVE FALSE
    OBVIOUS
  <2>1. On(b) /\ (b = Trigger => trigger.vis = "hidden")
    BY <1>1, <1>2, ClickedPage
  <2>2. trigger.vis = "shown" /\ On(Trigger)
    BY <1>1, <1>2 DEF OpenInv, Unfilled
  <2>3. Trigger \in Blade
    BY DEF Trigger, Blade
  <2>4. b = Trigger
    BY <2>1, <2>2, <2>3, LayeringInjective DEF On
  <2> QED
    BY <2>1, <2>2, <2>4
<1>5. OpenInv'
  BY <1>1, <1>2, <1>4 DEF OpenInv, OpensOnFirstBlade, TypeOK
<1> QED
  BY <1>1, <1>2, <1>3, <1>5, LayerUnchanged, SubmitUnchanged DEF IInv

LEMMA FadeEndsIInv == ASSUME IInv, FadeEnds PROVE IInv'
<1>1. TypeOK /\ LayerInv /\ SubmitInv /\ OpenInv
  BY DEF IInv
<1>2. /\ toggles > 0 /\ toggles' = toggles - 1
      /\ overlay' = IF overlay = "shown" THEN "hidden" ELSE "shown"
      /\ ResetWithout(Uncover(trigger)) /\ storage' = Uncover(storage)
      /\ UNCHANGED <<diagnosersBladeInitialized, checked, submitVars>>
  BY DEF FadeEnds
<1>3. Uncover(trigger) \in Shield /\ storage' \in Shield
  BY <1>1, <1>2, ShieldTypes DEF TypeOK
<1>4. toggles' \in Nat
  BY <1>1, <1>2 DEF TypeOK
<1>5. TypeOK'
  BY <1>1, <1>2, <1>3, <1>4, ResetStep DEF TypeOK, submitVars, Requests
<1>6. getting'.diagnosers = getting.diagnosers
  BY <1>1, <1>2, <1>3, ResetStep
<1>7. SubmitInv'
  <2>1. /\ storage'.button = storage.button
        /\ storage'.vis = IF storage.vis = "closing" THEN "fading" ELSE storage.vis
    BY <1>1, <1>2, ShieldTypes DEF TypeOK
  <2> QED
    BY <1>1, <1>2, <2>1 DEF SubmitInv, OneSubmission, ShieldMatches, submitVars
<1>8. CASE diagnosersBladeInitialized
  <2>1. On(Trigger)'
    BY <1>1, <1>2, <1>3, <1>8, ResetStep
  <2>2. OpenInv'
    BY <1>1, <1>2, <1>6, <1>8, <2>1 DEF OpenInv, OpensOnFirstBlade, On
  <2> QED
    BY <1>5, <1>7, <2>1, <2>2, FirstBladeLayer DEF IInv
<1>9. CASE ~diagnosersBladeInitialized
  <2>1. UNCHANGED <<schedulerResetInterval, exiting, zIndex, getting>> /\ trigger' = Uncover(trigger)
    BY <1>1, <1>2, <1>3, <1>9, ResetStep
  <2>2. Unfilled
    BY <1>1, <1>9 DEF OpenInv
  <2>3. toggles = 1 /\ exiting /\ On(Trigger) /\ toggles' = 0
    BY <1>2, <2>2 DEF Unfilled
  <2>4. OpenInv'
    BY <1>1, <1>2, <2>1, <2>2, <2>3 DEF OpenInv, OpensOnFirstBlade, Unfilled, On
  <2> QED
    BY <1>1, <1>2, <1>5, <1>7, <2>1, <2>4, LayerUnchanged DEF IInv
<1> QED
  BY <1>8, <1>9

\* Leaving the wizard, from a shield: only what was left before is not queued.
LEMMA ExitFromShield ==
  ASSUME TypeOK, WizardExit
  PROVE  /\ overlay' \in {"hidden", "shown"} /\ toggles' \in Nat /\ exiting' = TRUE
         /\ toggles' >= toggles
         /\ exiting => toggles' = toggles
         /\ ~exiting => toggles' = toggles + 1
         /\ overlay' = overlay
<1>1. toggles + 1 \in Nat /\ toggles \in Nat
  BY DEF TypeOK
<1> QED
  BY <1>1 DEF WizardExit, TypeOK, overlayVars

LEMMA CloseTriggerIInv == ASSUME IInv, CloseTriggerShield PROVE IInv'
<1>1. TypeOK /\ LayerInv /\ SubmitInv /\ OpenInv
  BY DEF IInv
<1>2. /\ OnTop(Trigger) /\ trigger.vis # "hidden" /\ WizardExit
      /\ trigger' = [vis |-> AfterClick(trigger, TRUE), button |-> NoButton]
      /\ UNCHANGED <<diagnosersBladeInitialized, schedulerResetInterval, zIndex, checked,
                     storage, getting, submitVars>>
  BY DEF CloseTriggerShield, ButtonShown, bladeVars
<1>3. /\ trigger' \in Shield /\ trigger'.vis \in {"closing", "fading"}
      /\ trigger.vis = "shown" /\ ~exiting => trigger'.vis = "closing"
      /\ Fades(trigger) => trigger'.vis = trigger.vis
  BY <1>1, <1>2, ClosedType DEF TypeOK, Shield, NoButton
<1>4. /\ overlay' = overlay /\ toggles' \in Nat /\ exiting' = TRUE /\ toggles' >= toggles
      /\ exiting => toggles' = toggles
      /\ ~exiting => toggles' = toggles + 1
  BY <1>1, <1>2, ExitFromShield
<1>5. TypeOK'
  BY <1>1, <1>2, <1>3, <1>4 DEF TypeOK, submitVars
<1>6. ASSUME ~diagnosersBladeInitialized PROVE Unfilled'
  <2>1. Unfilled
    BY <1>1, <1>6 DEF OpenInv
  <2>2. CASE exiting
    <3>1. overlay' = overlay /\ toggles' = toggles /\ exiting' = TRUE
      BY <1>4, <1>2, <2>2 DEF WizardExit, overlayVars
    <3>2. toggles > 0 => trigger'.vis = "closing"
      BY <1>3, <2>1 DEF Unfilled, Fades
    <3>3. getting'.settings = 0 /\ getting'.instances = 0 /\ zIndex' = zIndex
      BY <1>2, <2>1 DEF Unfilled
    <3> QED
      BY <2>1, <2>2, <3>1, <3>2, <3>3 DEF Unfilled, On
  <2>3. CASE ~exiting
    <3>1. toggles = 0 /\ trigger.vis = "shown" /\ On(Trigger)
      BY <2>1, <2>3 DEF Unfilled
    <3>2. overlay = "shown"
      BY <1>2, <3>1 DEF OnTop, Visible
    <3>3. toggles' = 1 /\ exiting' = TRUE /\ overlay' = "shown"
      BY <1>4, <2>3, <3>1, <3>2
    <3>4. trigger'.vis = "closing"
      BY <1>3, <2>3, <3>1
    <3>5. zIndex' = zIndex /\ getting' = getting
      BY <1>2
    <3> QED
      BY <2>1, <3>1, <3>3, <3>4, <3>5 DEF Unfilled, On
  <2> QED
    BY <2>2, <2>3
<1>7. OpenInv'
  <2>1. OpensOnFirstBlade'
    <3>1. overlay = "shown" \/ toggles > 0
      BY <1>2 DEF OnTop, Visible
    <3> QED
      BY <1>1, <1>4, <3>1 DEF OpensOnFirstBlade, TypeOK
  <2> QED
    BY <1>1, <1>2, <1>6, <2>1 DEF OpenInv
<1> QED
  BY <1>1, <1>2, <1>5, <1>7, LayerUnchanged, SubmitUnchanged DEF IInv

LEMMA CloseStorageIInv == ASSUME IInv, CloseStorageShield PROVE IInv'
<1>1. TypeOK /\ LayerInv /\ SubmitInv /\ OpenInv
  BY DEF IInv
<1> DEFINE leaves == storage.button \notin {"settingsfailure", "submitfailure"}
<1>2. /\ OnTop(Storage) /\ storage.vis # "hidden" /\ storage.button # NoButton
      /\ IF leaves THEN WizardExit ELSE UNCHANGED overlayVars
      /\ storage' = [vis |-> AfterClick(storage, leaves), button |-> "submitted"]
      /\ UNCHANGED <<diagnosersBladeInitialized, schedulerResetInterval, zIndex, checked,
                     trigger, getting, submitVars>>
  BY DEF CloseStorageShield, ButtonShown, bladeVars
<1>3. storage' \in Shield /\ storage'.vis \in {"closing", "fading"}
  BY <1>1, <1>2, ClosedType DEF TypeOK, Shield
<1>4. /\ overlay' = overlay /\ toggles' \in Nat /\ exiting' \in BOOLEAN /\ toggles' >= toggles
      /\ exiting => exiting' /\ toggles' = toggles
  <2>1. CASE leaves
    BY <1>1, <1>2, <2>1, ExitFromShield
  <2>2. CASE ~leaves
    BY <1>1, <1>2, <2>2 DEF TypeOK, overlayVars
  <2> QED
    BY <2>1, <2>2
<1>5. TypeOK'
  BY <1>1, <1>2, <1>3, <1>4 DEF TypeOK, submitVars
<1>6. SubmitInv'
  BY <1>1, <1>2, <1>3 DEF SubmitInv, OneSubmission, ShieldMatches, submitVars
<1>7. ASSUME ~diagnosersBladeInitialized PROVE Unfilled'
  <2>1. Unfilled
    BY <1>1, <1>7 DEF OpenInv
  <2>2. ~On(Trigger)
    <3>1. Trigger \in Blade /\ Storage \in Blade /\ Storage # Trigger
      BY DEF Trigger, Blade, Storage
    <3> QED
      BY <1>2, <3>1, TopIsPage
  <2> QED
    BY <1>2, <1>4, <2>1, <2>2 DEF Unfilled, On
<1>8. OpenInv'
  <2>1. OpensOnFirstBlade'
    <3>1. overlay = "shown" \/ toggles > 0
      BY <1>2 DEF OnTop, Visible
    <3> QED
      BY <1>1, <1>4, <3>1 DEF OpensOnFirstBlade, TypeOK
  <2> QED
    BY <1>1, <1>2, <1>7, <2>1 DEF OpenInv
<1> QED
  BY <1>1, <1>2, <1>5, <1>6, <1>8, LayerUnchanged DEF IInv

LEMMA ShieldFadedIInv == ASSUME IInv, ShieldFaded PROVE IInv'
<1>1. TypeOK /\ LayerInv /\ SubmitInv /\ OpenInv
  BY DEF IInv
<1>2. UNCHANGED <<overlay, toggles, exiting, diagnosersBladeInitialized,
                  schedulerResetInterval, zIndex, checked, getting, submitVars>>
  BY DEF ShieldFaded, overlayVars, bladeVars
<1>3. CASE trigger.vis = "fading" /\ trigger' = NoShield /\ UNCHANGED storage
  <2>1. TypeOK'
    BY <1>1, <1>2, <1>3, NoShieldType DEF TypeOK, submitVars
  <2>2. OpenInv'
    BY <1>1, <1>2, <1>3 DEF OpenInv, OpensOnFirstBlade, Unfilled, On
  <2> QED
    BY <1>1, <1>2, <1>3, <2>1, <2>2, LayerUnchanged, SubmitUnchanged DEF IInv
<1>4. CASE storage.vis = "fading" /\ storage' = NoShield /\ UNCHANGED trigger
  <2>1. TypeOK'
    BY <1>1, <1>2, <1>4, NoShieldType DEF TypeOK, submitVars
  <2>2. OpenInv'
    BY <1>1, <1>2, <1>4 DEF OpenInv, OpensOnFirstBlade, Unfilled, On
  <2>3. SubmitInv'
    BY <1>1, <1>2, <1>4, NoShieldType DEF SubmitInv, OneSubmission, ShieldMatches, submitVars
  <2> QED
    BY <1>1, <1>2, <2>1, <2>2, <2>3, LayerUnchanged DEF IInv
<1> QED
  BY <1>3, <1>4 DEF ShieldFaded

\* Submitting touches neither the blades nor the ways in and out of the wizard.
Posts == [settings : Nat, session : Nat]
LEMMA SubmitStep ==
  ASSUME IInv, UNCHANGED <<overlayVars, bladeVars, trigger, getting>>,
         storage' \in Shield, submitting' \in BOOLEAN, posting' \in Posts, SubmitInv'
  PROVE  IInv'
<1>1. TypeOK'
  BY DEF IInv, TypeOK, overlayVars, bladeVars, Posts
<1>2. LayerInv'
  BY LayerUnchanged DEF IInv, bladeVars
<1>3. OpenInv'
  BY DEF IInv, OpenInv, OpensOnFirstBlade, Unfilled, On, overlayVars, bladeVars
<1> QED
  BY <1>1, <1>2, <1>3 DEF IInv

LEMMA PostTypes ==
  ASSUME NEW p \in Posts
  PROVE  /\ LET q == [p EXCEPT !.settings = @ + 1]
            IN q \in Posts /\ q.settings + q.session = p.settings + p.session + 1
         /\ LET q == [p EXCEPT !.session = @ + 1]
            IN q \in Posts /\ q.settings + q.session = p.settings + p.session + 1
<1>1. p.settings + 1 \in Nat /\ p.session + 1 \in Nat /\ p.settings \in Nat /\ p.session \in Nat
  BY DEF Posts
<1> QED
  BY <1>1 DEF Posts

LEMMA SettingsFailed ==
  ASSUME NEW p \in Posts, p.settings > 0
  PROVE  LET q == [p EXCEPT !.settings = @ - 1]
         IN q \in Posts /\ q.settings + q.session = p.settings + p.session - 1
<1>1. p.settings \in Nat /\ p.session \in Nat /\ p.settings - 1 \in Nat
  BY DEF Posts
<1> QED
  BY <1>1 DEF Posts

LEMMA SettingsPosted ==
  ASSUME NEW p \in Posts, p.settings > 0
  PROVE  LET q == [p EXCEPT !.settings = @ - 1, !.session = @ + 1]
         IN q \in Posts /\ q.settings + q.session = p.settings + p.session
<1> DEFINE q == [p EXCEPT !.settings = @ - 1, !.session = @ + 1]
<1>1. p.settings \in Nat /\ p.session \in Nat /\ p.settings - 1 \in Nat /\ p.session + 1 \in Nat
  BY DEF Posts
<1>2. q \in Posts /\ q.settings = p.settings - 1 /\ q.session = p.session + 1
  BY <1>1 DEF Posts
<1> QED
  BY ONLY <1>1, <1>2

LEMMA SessionAnswered ==
  ASSUME NEW p \in Posts, p.session > 0
  PROVE  LET q == [p EXCEPT !.session = @ - 1]
         IN q \in Posts /\ q.settings + q.session = p.settings + p.session - 1
<1>1. p.settings \in Nat /\ p.session \in Nat /\ p.session - 1 \in Nat
  BY DEF Posts
<1> QED
  BY <1>1 DEF Posts

LEMMA WizardSubmitIInv ==
  ASSUME IInv, NEW change \in BOOLEAN, WizardSubmit(change) PROVE IInv'
<1>1. TypeOK /\ LayerInv /\ SubmitInv
  BY DEF IInv
<1>2. /\ Clickable(Storage) /\ ~submitting /\ submitting' = TRUE /\ storage' = Show(storage)
      /\ UNCHANGED <<overlayVars, bladeVars, trigger, getting>>
  BY DEF WizardSubmit
<1>3. posting' \in Posts /\ posting'.settings + posting'.session = 1
  <2>1. posting \in Posts /\ posting.settings + posting.session = 0
    BY <1>1, <1>2 DEF TypeOK, Posts, SubmitInv, OneSubmission
  <2> QED
    BY <2>1, PostTypes DEF WizardSubmit
<1>4. storage' \in Shield /\ storage'.vis = "shown" /\ storage'.button = NoButton
  <2>1. storage.vis = "hidden" /\ storage.button = NoButton
    BY <1>1, <1>2 DEF Clickable, SubmitInv, Storage
  <2> QED
    BY <1>1, <1>2, <2>1, ShieldTypes DEF TypeOK
<1>5. SubmitInv'
  BY <1>2, <1>3, <1>4 DEF SubmitInv, OneSubmission, ShieldMatches
<1> QED
  BY <1>2, <1>3, <1>4, <1>5, SubmitStep

\* An end of the submission: the shield gets a button.
LEMMA SubmissionEnds ==
  ASSUME IInv, submitting,
         NEW button \in {"settingsfailure", "submitfailure", "submitted"},
         storage' = Offer(storage, button), submitting' = FALSE,
         posting' \in Posts, posting'.settings + posting'.session = 0,
         UNCHANGED <<overlayVars, bladeVars, trigger, getting>>
  PROVE  IInv'
<1>1. storage' \in Shield /\ storage'.vis = "shown" /\ storage'.button # NoButton
  <2>1. storage \in Shield /\ storage.vis = "shown"
    BY DEF IInv, TypeOK, SubmitInv, ShieldMatches
  <2> QED
    BY <2>1, ShieldTypes DEF NoButton
<1>2. SubmitInv'
  BY <1>1 DEF SubmitInv, OneSubmission, ShieldMatches
<1> QED
  BY <1>1, <1>2, SubmitStep

LEMMA PostSettingsReplyIInv ==
  ASSUME IInv, NEW ok \in BOOLEAN, PostSettingsReply(ok) PROVE IInv'
<1>1. /\ TypeOK /\ SubmitInv /\ posting \in Posts /\ posting.settings > 0
      /\ UNCHANGED <<overlayVars, bladeVars, trigger, getting>>
  BY DEF IInv, TypeOK, Posts, PostSettingsReply
<1>2. submitting /\ posting.settings + posting.session = 1
  BY <1>1 DEF TypeOK, SubmitInv, OneSubmission
<1>3. CASE ok
  <2>1. posting' \in Posts /\ posting'.settings + posting'.session = 1
    BY <1>1, <1>2, <1>3, SettingsPosted DEF PostSettingsReply
  <2>2. UNCHANGED <<submitting, storage>>
    BY <1>3 DEF PostSettingsReply
  <2>3. SubmitInv'
    BY <1>1, <1>2, <2>1, <2>2 DEF SubmitInv, OneSubmission, ShieldMatches
  <2> QED
    BY <1>1, <2>1, <2>2, <2>3, SubmitStep DEF TypeOK
<1>4. CASE ~ok
  <2>1. posting' \in Posts /\ posting'.settings + posting'.session = 0
    <3>1. posting' = [posting EXCEPT !.settings = @ - 1]
      BY <1>4 DEF PostSettingsReply
    <3>2. posting' \in Posts /\ posting'.settings + posting'.session = posting.settings + posting.session - 1
      BY <1>1, <3>1, SettingsFailed
    <3>3. posting.settings \in Nat /\ posting.session \in Nat
      BY <1>1 DEF Posts
    <3> QED
      BY <1>2, <3>2, <3>3
  <2>2. submitting' = FALSE /\ storage' = Offer(storage, "settingsfailure")
    BY <1>4 DEF PostSettingsReply
  <2> QED
    BY <1>1, <1>2, <2>1, <2>2, SubmissionEnds
<1> QED
  BY <1>3, <1>4

LEMMA PostSessionReplyIInv ==
  ASSUME IInv, NEW ok \in BOOLEAN, PostSessionReply(ok) PROVE IInv'
<1>1. /\ TypeOK /\ SubmitInv /\ posting \in Posts /\ posting.session > 0
      /\ UNCHANGED <<overlayVars, bladeVars, trigger, getting>>
  BY DEF IInv, TypeOK, Posts, PostSessionReply
<1>2. submitting /\ posting.settings + posting.session = 1
  BY <1>1 DEF TypeOK, SubmitInv, OneSubmission
<1>3. posting' \in Posts /\ posting'.settings + posting'.session = 0
  <2>1. posting' = [posting EXCEPT !.session = @ - 1]
    BY DEF PostSessionReply
  <2>2. posting' \in Posts /\ posting'.settings + posting'.session = posting.settings + posting.session - 1
    BY <1>1, <2>1, SessionAnswered
  <2>3. posting.settings \in Nat /\ posting.session \in Nat
    BY <1>1 DEF Posts
  <2> QED
    BY <1>2, <2>2, <2>3
<1>4. /\ submitting' = FALSE
      /\ \E button \in {"submitted", "submitfailure"} : storage' = Offer(storage, button)
  BY DEF PostSessionReply
<1> QED
  BY <1>1, <1>2, <1>3, <1>4, SubmissionEnds

LEMMA StutterIInv == ASSUME IInv, UNCHANGED vars PROVE IInv'
<1>1. UNCHANGED <<overlayVars, bladeVars, shieldVars, getting, submitVars>>
  BY DEF vars
<1> QED
  BY <1>1, LayerUnchanged, SubmitUnchanged
     DEF IInv, TypeOK, OpenInv, OpensOnFirstBlade, Unfilled, On,
         overlayVars, bladeVars, shieldVars, submitVars

LEMMA CallbackIInv == ASSUME IInv, Callback PROVE IInv'
  BY TickIInv, FadeEndsIInv, ShieldFadedIInv, SettingsReplyIInv, InstancesReplyIInv,
     DiagnosersReplyIInv, PostSettingsReplyIInv, PostSessionReplyIInv DEF Callback

LEMMA ClickIInv == ASSUME IInv, Click PROVE IInv'
  BY LaunchIInv, CloseTriggerIInv, CloseStorageIInv, ForwardIInv, ReverseIInv, ExitIInv,
     SelectIInv, WizardSubmitIInv DEF Click

LEMMA NextIInv == IInv /\ [Next]_vars => IInv'
  BY CallbackIInv, ClickIInv, StutterIInv DEF Next

LEMMA Invariance == Spec => []IInv
  BY InitIInv, NextIInv, PTL DEF Spec

------------------------------------------------------------------------------
(* Theorems.                                                               *)

\* The wizard keeps its types, whatever replies come and whatever is clicked.
THEOREM TypeCorrect == Spec => []TypeOK
<1>1. IInv => TypeOK
  BY DEF IInv
<1> QED
  BY <1>1, Invariance, PTL

\* The z-indexes, moved by WizardGenericForwardClickHandler and WizardReverse and put
\* back by ResetBladeLayering at any time, are always those of some page; nobody gets
\* or stays beyond the diagnosers blade with no diagnoser checked, although late settings
\* may uncheck them all; a closed wizard opens on its first blade, filled or not.
THEOREM StaysOnPage == Spec => []OnPage
<1>1. IInv => OnPage
  BY DEF IInv, LayerInv, OpenInv, OnPage
<1> QED
  BY <1>1, Invariance, PTL

\* WizardSubmitClickHandler has one request outstanding while "submitting", and none
\* otherwise; the shield over the storage blade is shut exactly as long.
THEOREM SubmitsOnce == Spec => []SubmittedOnce
<1>1. IInv => SubmittedOnce
  BY DEF IInv, SubmitInv, SubmittedOnce
<1> QED
  BY <1>1, Invariance, PTL

-----------------------------------------------------------------------------
(* The page.                                                               *)

Closed == overlay = "hidden" /\ toggles = 0

DialogInv ==
  /\ confirmation # "hidden" => ~expressConfirmation
  /\ expressConfirmation => Closed
  /\ ToggleOpens
  /\ confirmation = "checking" => launches = 0
  /\ confirmation # "hidden" => asked \in Kind /\ classes = {asked}

PInv == IInv /\ PageTypeOK /\ DialogInv

\* What a step of the page does to the rest, and what it promises.
GoodStep == [Next]_vars /\ PageTypeOK' /\ DialogInv' /\ LaunchesAsked

------------------------------------------------------------------------------
LEMMA VisibleOrClosed == ASSUME TypeOK PROVE Visible <=> ~Closed
  BY DEF TypeOK, Visible, Closed

\* A closed wizard is opened by a launch only.
LEMMA ClosedStays ==
  ASSUME TypeOK, WizardStep, Closed
  PROVE  UNCHANGED <<overlay, toggles>>
<1>1. ~Visible /\ ~(toggles > 0)
  BY DEF Visible, Closed
<1>2. CASE Callback
  <2>1. CASE Tick
    BY <2>1 DEF Tick
  <2>2. CASE FadeEnds
    BY <1>1, <2>2 DEF FadeEnds
  <2>3. CASE ShieldFaded
    BY <2>3 DEF ShieldFaded, overlayVars
  <2>4. ASSUME NEW ok \in BOOLEAN, NEW defaults \in SUBSET Diagnosers, SettingsReply(ok, defaults)
        PROVE  UNCHANGED <<overlay, toggles>>
    BY <2>4 DEF SettingsReply
  <2>5. ASSUME NEW ok \in BOOLEAN,
               \/ InstancesReply(ok) \/ DiagnosersReply(ok)
               \/ PostSettingsReply(ok) \/ PostSessionReply(ok)
        PROVE  UNCHANGED <<overlay, toggles>>
    BY <2>5 DEF InstancesReply, DiagnosersReply, PostSettingsReply, PostSessionReply, overlayVars
  <2> QED
    BY <1>2, <2>1, <2>2, <2>3, <2>4, <2>5 DEF Callback
<1>3. CASE ~Callback
  BY <1>1, <1>3
     DEF WizardStep, CloseTriggerShield, CloseStorageShield, Forward, WizardReverse, Exit,
         Select, WizardSubmit, Clickable, OnTop
<1> QED
  BY <1>2, <1>3

\* Counting the requests of launches.
Launches == [settings : Nat, express : Nat, analysis : Nat]
LEMMA LaunchesSettings ==
  ASSUME NEW l \in Launches
  PROVE  LET m == [l EXCEPT !.settings = @ + 1] IN m \in Launches /\ m.analysis = l.analysis
  BY DEF Launches
LEMMA LaunchesAnalysis ==
  ASSUME NEW l \in Launches
  PROVE  LET m == [l EXCEPT !.analysis = @ + 1] IN m \in Launches /\ m.settings = l.settings
  BY DEF Launches
LEMMA SettingsEnd ==
  ASSUME NEW l \in Launches, l.settings > 0
  PROVE  /\ LET m == [l EXCEPT !.settings = @ - 1]
            IN m \in Launches /\ m.settings <= l.settings /\ m.analysis = l.analysis
         /\ LET m == [l EXCEPT !.settings = @ - 1, !.express = @ + 1]
            IN m \in Launches /\ m.settings <= l.settings /\ m.analysis = l.analysis
<1>1. l.settings - 1 \in Nat /\ l.settings - 1 <= l.settings /\ l.express + 1 \in Nat
  BY DEF Launches
<1> QED
  BY <1>1 DEF Launches
LEMMA ExpressEnds ==
  ASSUME NEW l \in Launches, l.express > 0
  PROVE  LET m == [l EXCEPT !.express = @ - 1]
         IN m \in Launches /\ m.settings = l.settings /\ m.analysis = l.analysis
<1>1. l.express - 1 \in Nat
  BY DEF Launches
<1> QED
  BY <1>1 DEF Launches
LEMMA AnalysisEnds ==
  ASSUME NEW l \in Launches, l.analysis > 0
  PROVE  LET m == [l EXCEPT !.analysis = @ - 1]
         IN m \in Launches /\ m.settings = l.settings /\ m.analysis <= l.analysis
<1>1. l.analysis - 1 \in Nat /\ l.analysis - 1 <= l.analysis
  BY DEF Launches
<1> QED
  BY <1>1 DEF Launches

\* A step that leaves the wizard and the launches alone launches nothing.
LEMMA QuietStep ==
  ASSUME PageTypeOK, UNCHANGED <<overlay, launching>>
  PROVE  LaunchesAsked
<1>1. /\ launching.settings \in Nat /\ launching.analysis \in Nat
      /\ launching' = launching /\ overlay' = overlay
  BY DEF PageTypeOK
<1> QED
  BY <1>1 DEF LaunchesAsked

------------------------------------------------------------------------------
(* The steps.                                                              *)

LEMMA WizardGoodStep == ASSUME PInv, WizardStep PROVE GoodStep
<1>1. TypeOK /\ PageTypeOK /\ DialogInv
  BY DEF PInv, IInv
<1>2. UNCHANGED <<expressConfirmation, confirmation, buttons, classes, expressLaunch,
                  expressButton, launching, lost, asked, launches>>
  BY DEF WizardStep, pageVars, dialogVars, launchVars, historyVars
<1>3. Next
  BY DEF WizardStep, Next, Click
<1>4. Closed => Closed' /\ UNCHANGED overlay
  BY <1>1, ClosedStays DEF Closed
<1>5. PageTypeOK'
  BY <1>1, <1>2 DEF PageTypeOK
<1>6. DialogInv'
  BY <1>1, <1>2, <1>4 DEF DialogInv, ToggleOpens, Closed
<1>7. LaunchesAsked
  <2>1. launching.settings \in Nat /\ launching.analysis \in Nat
    BY <1>1 DEF PageTypeOK
  <2>2. ~(overlay = "hidden" /\ toggles = 0 /\ overlay' = "shown")
    BY <1>4 DEF Closed
  <2> QED
    BY <1>2, <2>1, <2>2 DEF LaunchesAsked
<1> QED
  BY <1>3, <1>5, <1>6, <1>7 DEF GoodStep

LEMMA ConfirmGoodStep ==
  ASSUME PInv, NEW tag \in Kind, ConfirmLaunch(tag), Closed, expressConfirmation' = FALSE
  PROVE  GoodStep
<1>1. PageTypeOK /\ DialogInv
  BY DEF PInv
<1>2. /\ classes' = {tag} /\ buttons' = FALSE /\ confirmation' = "checking"
      /\ asked' = tag /\ launches' = 0
      /\ UNCHANGED vars /\ UNCHANGED <<expressLaunch, expressButton, launching, lost>>
  BY DEF ConfirmLaunch, launchVars
<1>3. UNCHANGED <<overlay, toggles>>
  BY <1>2 DEF vars, overlayVars
<1>4. PageTypeOK'
  BY <1>1, <1>2 DEF PageTypeOK
<1>5. DialogInv'
  BY <1>1, <1>2, <1>3 DEF DialogInv, ToggleOpens, Closed
<1> QED
  BY <1>1, <1>2, <1>3, <1>4, <1>5, QuietStep DEF GoodStep

LEMMA AskGoodStep ==
  ASSUME PInv, NEW tag \in {"custom"} \cup Sessions, Ask(tag) PROVE GoodStep
<1>1. tag \in Kind
  BY DEF Kind
<1>2. Closed /\ expressConfirmation' = FALSE
  BY VisibleOrClosed DEF Ask, PageFree, PInv, IInv
<1> QED
  BY <1>1, <1>2, ConfirmGoodStep DEF Ask

LEMMA ExpressContinueGoodStep == ASSUME PInv, ExpressContinue PROVE GoodStep
<1>1. Closed /\ expressConfirmation' = FALSE /\ "express" \in Kind
  BY DEF ExpressContinue, PInv, DialogInv, Kind
<1> QED
  BY <1>1, ConfirmGoodStep DEF ExpressContinue

\* Showing and hiding dialogs, with nothing launched.
LEMMA DialogGoodStep ==
  ASSUME PInv, UNCHANGED <<vars, classes, launchVars, historyVars>>,
         expressConfirmation' \in BOOLEAN, buttons' \in BOOLEAN,
         confirmation' \in {"hidden", "asking", confirmation},
         confirmation' = "checking" => confirmation = "checking",
         confirmation' # "hidden" => confirmation # "hidden" /\ ~expressConfirmation',
         expressConfirmation' => Closed
  PROVE  GoodStep
<1>1. PageTypeOK /\ DialogInv
  BY DEF PInv
<1>2. /\ UNCHANGED <<overlay, toggles, expressLaunch, expressButton, launching, lost, asked, launches>>
      /\ UNCHANGED classes /\ UNCHANGED vars
  BY DEF vars, overlayVars, launchVars, historyVars
<1>3. PageTypeOK'
  BY <1>1, <1>2 DEF PageTypeOK
<1>4. DialogInv'
  BY <1>1, <1>2 DEF DialogInv, ToggleOpens, Closed
<1> QED
  BY <1>1, <1>2, <1>3, <1>4, QuietStep DEF GoodStep

LEMMA DialogStepsGood ==
  ASSUME PInv,
         ConfirmExpressLaunch \/ ExpressCancel \/ ConfirmCancel \/ ConfirmationFaded
  PROVE  GoodStep
<1>1. PageTypeOK /\ DialogInv /\ TypeOK
  BY DEF PInv, IInv
<1>2. CASE ConfirmExpressLaunch
  <2>1. Closed /\ confirmation = "hidden"
    BY <1>1, <1>2, VisibleOrClosed DEF ConfirmExpressLaunch, PageFree
  <2>2. /\ expressConfirmation' = TRUE
        /\ UNCHANGED <<vars, confirmation, buttons, classes, launchVars, historyVars>>
    BY <1>2 DEF ConfirmExpressLaunch
  <2> QED
    BY <1>1, <2>1, <2>2, DialogGoodStep DEF PageTypeOK
<1>3. CASE ExpressCancel
  <2>1. /\ expressConfirmation /\ expressConfirmation' = FALSE
        /\ UNCHANGED <<vars, confirmation, buttons, classes, launchVars, historyVars>>
    BY <1>3 DEF ExpressCancel
  <2> QED
    BY <1>1, <2>1, DialogGoodStep DEF PageTypeOK
<1>4. CASE ConfirmCancel \/ ConfirmationFaded
  <2>1. /\ confirmation' = "hidden" /\ confirmation # "hidden"
        /\ UNCHANGED <<vars, expressConfirmation, buttons, classes, launchVars, historyVars>>
    BY <1>4 DEF ConfirmCancel, ConfirmationFaded, Answerable
  <2>2. ~expressConfirmation'
    BY <1>1, <2>1 DEF DialogInv
  <2> QED
    BY <1>1, <2>1, <2>2, DialogGoodStep DEF PageTypeOK
<1> QED
  BY <1>2, <1>3, <1>4

\* What YES, or the page on its own, launches.
LEMMA ProceedGoodStep ==
  ASSUME PInv, Proceed, Closed, confirmation # "hidden"
  PROVE  GoodStep
<1>1. PageTypeOK /\ DialogInv /\ TypeOK
  BY DEF PInv, IInv
<1>2. /\ confirmation' = "fading" /\ launches' = launches + 1
      /\ UNCHANGED <<expressConfirmation, buttons, classes, asked>>
  BY DEF Proceed
<1>3. ~expressConfirmation /\ asked \in Kind /\ classes = {asked} /\ launches \in Nat
  BY <1>1 DEF DialogInv, PageTypeOK
<1>4. DialogInv'
  BY <1>2, <1>3 DEF DialogInv, ToggleOpens
<1>5. launching \in Launches
  BY <1>1 DEF PageTypeOK, Launches
<1>6. CASE ExpressAnalyze
  <2>1. /\ asked = "express" /\ expressLaunch' = TRUE
        /\ launching' = [launching EXCEPT !.settings = @ + 1]
        /\ UNCHANGED vars /\ UNCHANGED <<expressButton, lost>>
    BY <1>3, <1>6 DEF ExpressAnalyze
  <2>2. launching' \in Launches /\ launching'.analysis = launching.analysis
    BY <1>5, <2>1, LaunchesSettings
  <2>3. PageTypeOK'
    BY <1>1, <1>2, <1>3, <2>1, <2>2 DEF PageTypeOK, Launches
  <2>4. LaunchesAsked
    <3>1. UNCHANGED overlay /\ launching.analysis \in Nat
      BY <2>1, <1>5 DEF vars, overlayVars, Launches
    <3> QED
      BY <2>1, <2>2, <3>1 DEF LaunchesAsked
  <2> QED
    BY <1>4, <2>1, <2>3, <2>4 DEF GoodStep
<1>7. CASE OpenWizard
  <2>1. /\ asked = "custom" /\ overlay' = "shown"
        /\ UNCHANGED <<expressLaunch, expressButton, launching, lost>>
    BY <1>3, <1>7 DEF OpenWizard, launchVars, Closed
  <2>2. Launch
    BY <1>7 DEF OpenWizard, Launch, Closed
  <2>3. PageTypeOK'
    BY <1>1, <1>2, <1>3, <2>1 DEF PageTypeOK
  <2>4. LaunchesAsked
    <3>1. launching.settings \in Nat /\ launching.analysis \in Nat
      BY <1>5 DEF Launches
    <3> QED
      BY <2>1, <3>1 DEF LaunchesAsked
  <2> QED
    BY <1>4, <2>2, <2>3, <2>4 DEF GoodStep, Next, Click
<1>8. CASE ScheduleSessionAnalysis
  <2>1. /\ asked \in Sessions /\ expressLaunch' = TRUE
        /\ launching' = [launching EXCEPT !.analysis = @ + 1]
        /\ UNCHANGED vars /\ UNCHANGED <<expressButton, lost>>
    BY <1>3, <1>8 DEF ScheduleSessionAnalysis, Kind
  <2>2. launching' \in Launches /\ launching'.settings = launching.settings
    BY <1>5, <2>1, LaunchesAnalysis
  <2>3. PageTypeOK'
    BY <1>1, <1>2, <1>3, <2>1, <2>2 DEF PageTypeOK, Launches
  <2>4. LaunchesAsked
    <3>1. UNCHANGED overlay /\ launching.settings \in Nat
      BY <2>1, <1>5 DEF vars, overlayVars, Launches
    <3> QED
      BY <2>1, <2>2, <3>1 DEF LaunchesAsked
  <2> QED
    BY <1>4, <2>1, <2>3, <2>4 DEF GoodStep
<1> QED
  BY <1>6, <1>7, <1>8 DEF Proceed

LEMMA RunningSessionsGoodStep ==
  ASSUME PInv, NEW running \in BOOLEAN, RunningSessionsReply(running) PROVE GoodStep
<1>1. PageTypeOK /\ DialogInv
  BY DEF PInv
<1>2. confirmation = "checking"
  BY DEF RunningSessionsReply
<1>3. CASE running
  <2>1. /\ buttons' = TRUE /\ confirmation' = "asking"
        /\ UNCHANGED <<vars, expressConfirmation, classes, launchVars, historyVars>>
    BY <1>3 DEF RunningSessionsReply
  <2>2. ~expressConfirmation'
    BY <1>1, <1>2, <2>1 DEF DialogInv
  <2> QED
    BY <1>1, <1>2, <2>1, <2>2, DialogGoodStep DEF PageTypeOK
<1>4. CASE ~running
  <2>1. Closed
    BY <1>1, <1>2 DEF DialogInv, ToggleOpens, Closed
  <2> QED
    BY <1>2, <1>4, <2>1, ProceedGoodStep DEF RunningSessionsReply
<1> QED
  BY <1>3, <1>4

LEMMA ConfirmContinueGoodStep == ASSUME PInv, ConfirmContinue PROVE GoodStep
<1>1. Closed /\ confirmation # "hidden"
  BY VisibleOrClosed DEF ConfirmContinue, Answerable, PInv, IInv
<1> QED
  BY <1>1, ProceedGoodStep DEF ConfirmContinue

\* The replies about launches, and the close button of their overlay.
LEMMA LaunchReplyGood ==
  ASSUME PInv, UNCHANGED <<vars, dialogVars, historyVars>>,
         expressLaunch' \in BOOLEAN, expressButton' \in BOOLEAN, lost' \in BOOLEAN,
         launching' \in Launches,
         launching'.settings <= launching.settings, launching'.analysis <= launching.analysis
  PROVE  GoodStep
<1>1. PageTypeOK /\ DialogInv
  BY DEF PInv
<1>2. /\ UNCHANGED <<overlay, toggles, expressConfirmation, confirmation, buttons, classes,
                     asked, launches>>
      /\ UNCHANGED vars
  BY DEF vars, overlayVars, dialogVars, historyVars
<1>3. PageTypeOK'
  BY <1>1, <1>2 DEF PageTypeOK, Launches
<1>4. DialogInv'
  BY <1>1, <1>2 DEF DialogInv, ToggleOpens, Closed
<1>5. LaunchesAsked
  <2>1. /\ launching.settings \in Nat /\ launching.analysis \in Nat
        /\ launching'.settings \in Nat /\ launching'.analysis \in Nat
    BY <1>1 DEF PageTypeOK, Launches
  <2> QED
    BY <1>2, <2>1 DEF LaunchesAsked
<1> QED
  BY <1>2, <1>3, <1>4, <1>5 DEF GoodStep

LEMMA ReplyGoodStep ==
  ASSUME PInv,
         \/ \E ok \in BOOLEAN : ExpressSettingsReply(ok) \/ ExpressPostReply(ok)
         \/ AnalysisReply \/ ExpressClose
  PROVE  GoodStep
<1>1. /\ launching \in Launches
      /\ expressLaunch \in BOOLEAN /\ expressButton \in BOOLEAN /\ lost \in BOOLEAN
      /\ launching.settings <= launching.settings /\ launching.analysis <= launching.analysis
  BY DEF PInv, PageTypeOK, Launches
<1>2. ASSUME NEW ok \in BOOLEAN, ExpressSettingsReply(ok) PROVE GoodStep
  <2>1. /\ launching.settings > 0 /\ expressButton' = (expressButton \/ ~ok)
        /\ UNCHANGED <<vars, dialogVars, historyVars>> /\ UNCHANGED <<expressLaunch, lost>>
    BY <1>2 DEF ExpressSettingsReply
  <2>2. expressButton' \in BOOLEAN
    BY <2>1
  <2>3. /\ launching' \in Launches
        /\ launching'.settings <= launching.settings /\ launching'.analysis <= launching.analysis
    BY <1>1, <1>2, <2>1, SettingsEnd DEF ExpressSettingsReply
  <2> QED
    BY <1>1, <2>1, <2>2, <2>3, LaunchReplyGood
<1>3. ASSUME NEW ok \in BOOLEAN, ExpressPostReply(ok) PROVE GoodStep
  <2>1. /\ launching.express > 0 /\ launching' = [launching EXCEPT !.express = @ - 1]
        /\ expressButton' = (expressButton \/ ok) /\ lost' = (lost \/ ~ok)
        /\ UNCHANGED <<vars, dialogVars, historyVars>> /\ UNCHANGED expressLaunch
    BY <1>3 DEF ExpressPostReply
  <2>2. expressButton' \in BOOLEAN /\ lost' \in BOOLEAN
    BY <2>1
  <2>3. /\ launching' \in Launches
        /\ launching'.settings <= launching.settings /\ launching'.analysis <= launching.analysis
    BY <1>1, <2>1, ExpressEnds
  <2> QED
    BY <1>1, <2>1, <2>2, <2>3, LaunchReplyGood
<1>4. CASE AnalysisReply
  <2>1. /\ launching.analysis > 0 /\ launching' = [launching EXCEPT !.analysis = @ - 1]
        /\ expressButton' = TRUE
        /\ UNCHANGED <<vars, dialogVars, historyVars>> /\ UNCHANGED <<expressLaunch, lost>>
    BY <1>4 DEF AnalysisReply
  <2>2. /\ launching' \in Launches
        /\ launching'.settings <= launching.settings /\ launching'.analysis <= launching.analysis
    BY <1>1, <2>1, AnalysisEnds
  <2> QED
    BY <1>1, <2>1, <2>2, LaunchReplyGood
<1>5. CASE ExpressClose
  <2>1. /\ expressLaunch' = FALSE /\ expressButton' = FALSE
        /\ UNCHANGED <<vars, dialogVars, historyVars>> /\ UNCHANGED <<launching, lost>>
    BY <1>5 DEF ExpressClose
  <2>2. /\ launching' \in Launches /\ expressLaunch' \in BOOLEAN /\ expressButton' \in BOOLEAN
        /\ launching'.settings <= launching.settings /\ launching'.analysis <= launching.analysis
    BY <1>1, <2>1
  <2> QED
    BY <1>1, <2>1, <2>2, LaunchReplyGood
<1> QED
  BY <1>2, <1>3, <1>4, <1>5

LEMMA NextGoodStep == ASSUME PInv, PageNext PROVE GoodStep
<1>1. CASE WizardStep
  BY <1>1, WizardGoodStep
<1>2. ASSUME NEW running \in BOOLEAN, RunningSessionsReply(running) PROVE GoodStep
  BY <1>2, RunningSessionsGoodStep
<1>3. CASE \/ \E ok \in BOOLEAN : ExpressSettingsReply(ok) \/ ExpressPostReply(ok)
           \/ AnalysisReply \/ ExpressClose
  BY <1>3, ReplyGoodStep
<1>4. ASSUME NEW tag \in {"custom"} \cup Sessions, Ask(tag) PROVE GoodStep
  BY <1>4, AskGoodStep
<1>5. CASE ExpressContinue
  BY <1>5, ExpressContinueGoodStep
<1>6. CASE ConfirmContinue
  BY <1>6, ConfirmContinueGoodStep
<1>7. CASE ConfirmExpressLaunch \/ ExpressCancel \/ ConfirmCancel \/ ConfirmationFaded
  BY <1>7, DialogStepsGood
<1> QED
  BY <1>1, <1>2, <1>3, <1>4, <1>5, <1>6, <1>7 DEF PageNext, Reply

------------------------------------------------------------------------------
LEMMA PageInitPInv == PageInit => PInv
<1> SUFFICES ASSUME PageInit PROVE PInv
  OBVIOUS
<1>1. IInv
  BY InitIInv DEF PageInit
<1>2. PageTypeOK
  BY DEF PageInit, PageTypeOK
<1>3. DialogInv
  BY DEF PageInit, DialogInv, ToggleOpens
<1> QED
  BY <1>1, <1>2, <1>3 DEF PInv

LEMMA PageStepPInv == PInv /\ [PageNext]_<<vars, pageVars>> => PInv' /\ [Next]_vars
<1> SUFFICES ASSUME PInv, [PageNext]_<<vars, pageVars>> PROVE PInv' /\ [Next]_vars
  OBVIOUS
<1>1. CASE PageNext
  <2>1. GoodStep
    BY <1>1, NextGoodStep
  <2> QED
    BY <2>1, NextIInv DEF GoodStep, PInv
<1>2. CASE UNCHANGED <<vars, pageVars>>
  <2>1. UNCHANGED vars /\ UNCHANGED <<overlay, toggles>>
    BY <1>2 DEF vars, overlayVars
  <2>2. UNCHANGED <<expressConfirmation, confirmation, buttons, classes, expressLaunch,
                    expressButton, launching, lost, asked, launches>>
    BY <1>2 DEF pageVars, dialogVars, launchVars, historyVars
  <2>3. IInv'
    BY <2>1, NextIInv DEF PInv
  <2>4. PageTypeOK' /\ DialogInv'
    BY <2>1, <2>2 DEF PInv, PageTypeOK, DialogInv, ToggleOpens, Closed
  <2> QED
    BY <2>1, <2>3, <2>4 DEF PInv
<1> QED
  BY <1>1, <1>2

LEMMA PageInvariance == PageSpec => []PInv
  BY PageInitPInv, PageStepPInv, PTL DEF PageSpec

------------------------------------------------------------------------------
(* Theorems.                                                               *)

\* The launch controls keep their types beside those of the wizard.
THEOREM PageTypeCorrect == PageSpec => []PageTypeOK
<1>1. PInv => PageTypeOK
  BY DEF PInv
<1> QED
  BY <1>1, PageInvariance, PTL

\* The page composes the wizard: whatever OpenWizard, the confirmations and their
\* fades do to the overlay of the wizard is a step of SessionWizard.  All that is
\* proved of the wizard holds in the page.
THEOREM PageImplementsWizard == PageSpec => ImplementsWizard
<1>1. PageInit => Init
  BY DEF PageInit
<1> QED
  BY <1>1, PageInvariance, PageStepPInv, PTL DEF PageSpec, ImplementsWizard, Spec

\* The fadeToggle that opens the wizard never meets an open one.
THEOREM TogglesOpen == PageSpec => []ToggleOpens
<1>1. PInv => ToggleOpens
  BY DEF PInv, DialogInv
<1> QED
  BY <1>1, PageInvariance, PTL

\* ConfirmLaunchHandler and YES carry out what was asked for last.
THEOREM LaunchesWhatIsAsked == PageSpec => LaunchedIsAsked
<1>1. PInv /\ [PageNext]_<<vars, pageVars>> => [LaunchesAsked]_<<vars, pageVars>>
  BY NextGoodStep DEF GoodStep
<1> QED
  BY <1>1, PageInvariance, PTL DEF PageSpec, LaunchedIsAsked

==============================================================================
