---------------------------- MODULE InputsProofs ----------------------------
(***************************************************************************)
(* What Inputs promises for every set of sources, buttons and hold times.  *)
(***************************************************************************)
EXTENDS Inputs, TLAPS

(* The interval a timer waits at least is a time that may be left of a hold. *)
LEMMA FireFromInRange ==
  ASSUME NEW hold \in Hold
  PROVE  FireFrom(hold) \in TimeLeft
BY InputsAssumption DEF FireFrom, Hold, TimeLeft

(* A local handler changes one source other than the host's keys, keeps every *)
(* mask a set of buttons, and never touches deadlines or timers.              *)
LEMMA LocalStep ==
  ASSUME TypeOK, Local
  PROVE  /\ InputTypeOK'
         /\ tapped' \subseteq Button
         /\ cleared' \subseteq Button
         /\ masks'["Remote"] = masks["Remote"]
         /\ UNCHANGED keyVars
<1> USE InputsAssumption DEF TypeOK, InputTypeOK
<1> DEFINE Goal == /\ InputTypeOK'
                   /\ tapped' \subseteq Button
         /\ cleared' \subseteq Button
                   /\ masks'["Remote"] = masks["Remote"]
                   /\ UNCHANGED keyVars
<1>1. ASSUME NEW mask \in SUBSET Button, NEW down \in BOOLEAN, "Ui" \in Source,
             SetButton(mask, down)
      PROVE  Goal
  <2>1. CASE down
    BY <1>1, <2>1 DEF SetButton, SetDown, RecordEdges
  <2>2. CASE ~down
    BY <1>1, <2>2 DEF SetButton, SetUp, RecordEdges
  <2>3. QED  BY <2>1, <2>2
<1>2. ASSUME NEW mask \in SUBSET Button, "Ui" \in Source, SetDirectional(mask)
      PROVE  Goal
  BY <1>2 DEF SetDirectional, Replace, RecordEdges
<1>3. ASSUME NEW b \in Button, NEW down \in BOOLEAN, "Keyboard" \in Source,
             SetKeyboardButton({b}, down)
      PROVE  Goal
  <2>1. CASE down
    BY <1>3, <2>1 DEF SetKeyboardButton, SetDown, RecordEdges
  <2>2. CASE ~down
    BY <1>3, <2>2 DEF SetKeyboardButton, SetUp, RecordEdges
  <2>3. QED  BY <2>1, <2>2
<1>4. ASSUME "Keyboard" \in Source, ClearKeyboard
      PROVE  Goal
  BY <1>4 DEF ClearKeyboard, Clear, keyVars
<1>5. ASSUME NEW mask \in SUBSET Button, "Controller0" \in Source, GamepadChanged(mask)
      PROVE  Goal
  BY <1>5 DEF GamepadChanged, Replace, RecordEdges
<1>6. QED  BY <1>1, <1>2, <1>3, <1>4, <1>5 DEF Local

(* The handlers keep masks, deadlines and timers in their types, for any     *)
(* order of presses, releases, timers and frames.                            *)
THEOREM TypeCorrect == Spec => []TypeOK
<1> USE InputsAssumption DEF TypeOK, InputTypeOK
<1>1. Init => TypeOK
  BY DEF Init, NoInput, TimeLeft
<1>2. TypeOK /\ [Next]_vars => TypeOK'
  <2> SUFFICES ASSUME TypeOK, [Next]_vars
               PROVE  TypeOK'
    OBVIOUS
  <2>1. CASE Local
    BY <2>1, LocalStep DEF keyVars
  <2>2. CASE Remote
    <3>1. ASSUME NEW mask \in (SUBSET Button) \ {{}}, NEW hold \in Hold,
                 PressRemoteKeys(mask, hold)
          PROVE  TypeOK'
      <4>1. /\ deadlines' \in [Button -> TimeLeft]
            /\ coarse' \subseteq Button
        BY <3>1 DEF PressRemoteKeys, SetDeadlines, RecordTimer, Hold, TimeLeft
      <4>2. timers' \in [TimeLeft -> Nat]
        BY <3>1, FireFromInRange DEF PressRemoteKeys
      <4>3. QED  BY <3>1, <4>1, <4>2 DEF PressRemoteKeys, SetDown, RecordEdges
    <3>2. ASSUME NEW mask \in (SUBSET Button) \ {{}}, ReleaseRemoteKeys(mask)
          PROVE  TypeOK'
      BY <3>2 DEF ReleaseRemoteKeys, SetUp
    <3>3. QED  BY <2>2, <3>1, <3>2 DEF Remote
  <2>3. CASE TimerFires
    BY <2>3 DEF TimerFires, ReleaseExpiredRemoteKeys, SetUp, TimeLeft
  <2>4. CASE TimePasses
    BY <2>4 DEF TimePasses, TimeLeft
  <2>5. CASE Frame
    BY <2>5 DEF Frame, TakeMerged, keyVars
  <2>6. CASE PauseOrStop
    BY <2>6 DEF PauseOrStop, ResetInput, keyVars
  <2>7. CASE UNCHANGED vars
    BY <2>7 DEF vars
  <2>8. QED  BY <2>1, <2>2, <2>3, <2>4, <2>5, <2>6, <2>7 DEF Next
<1>3. QED  BY <1>1, <1>2, PTL DEF Spec

(* Every key a host holds down is watched by a timer that fires at its        *)
(* deadline or later, unless its newest press got a coarse timer: the          *)
(* inductive reason why a host that disappears leaves no other key stuck.      *)
THEOREM HeldKeysAreWatched == Spec => []HeldKeyHasTimer
<1> USE InputsAssumption DEF HeldKeyHasTimer
<1>1. Init => HeldKeyHasTimer
  BY DEF Init, NoInput
<1>2. TypeOK /\ TypeOK' /\ HeldKeyHasTimer /\ [Next]_vars => HeldKeyHasTimer'
  <2> SUFFICES ASSUME TypeOK, TypeOK', HeldKeyHasTimer, [Next]_vars,
                      NEW b \in Button, b \in masks'["Remote"] \ coarse'
               PROVE  \E t \in TimeLeft : deadlines'[b] <= t /\ timers'[t] > 0
    BY DEF TypeOK, InputTypeOK
  <2> USE DEF TypeOK, InputTypeOK
  <2>1. CASE Local
    BY <2>1, LocalStep DEF keyVars
  <2>2. CASE Remote
    <3>1. ASSUME NEW mask \in (SUBSET Button) \ {{}}, NEW hold \in Hold,
                 PressRemoteKeys(mask, hold)
          PROVE  \E t \in TimeLeft : deadlines'[b] <= t /\ timers'[t] > 0
      <4>1. /\ timers' = [timers EXCEPT ![FireFrom(hold)] = @ + 1]
            /\ FireFrom(hold) \in TimeLeft
        BY <3>1, FireFromInRange DEF PressRemoteKeys
      <4>2. CASE b \in mask
        <5>1. hold < CoarseFrom
          BY <3>1, <4>2 DEF PressRemoteKeys, RecordTimer
        <5>2. deadlines'[b] = FireFrom(hold)
          BY <3>1, <4>2, <5>1 DEF PressRemoteKeys, SetDeadlines, FireFrom
        <5>3. timers'[FireFrom(hold)] > 0
          BY <4>1
        <5>4. QED  BY <4>1, <5>2, <5>3 DEF TimeLeft
      <4>3. CASE b \notin mask
        <5>1. /\ b \in masks["Remote"] \ coarse
              /\ deadlines'[b] = deadlines[b]
          BY <3>1, <4>3 DEF PressRemoteKeys, SetDown, SetDeadlines, RecordTimer
        <5>2. PICK t \in TimeLeft : deadlines[b] <= t /\ timers[t] > 0
          BY <5>1
        <5>3. timers'[t] > 0
          BY <4>1, <5>2
        <5>4. QED  BY <5>1, <5>2, <5>3
      <4>4. QED  BY <4>2, <4>3
    <3>2. ASSUME NEW mask \in (SUBSET Button) \ {{}}, ReleaseRemoteKeys(mask)
          PROVE  \E t \in TimeLeft : deadlines'[b] <= t /\ timers'[t] > 0
      BY <3>2 DEF ReleaseRemoteKeys, SetUp
    <3>3. QED  BY <2>2, <3>1, <3>2 DEF Remote
  <2>3. CASE TimerFires
    <3>1. b \in masks["Remote"] \ coarse /\ deadlines[b] > 0
      BY <2>3 DEF TimerFires, ReleaseExpiredRemoteKeys, Expired, SetUp, TimeLeft
    <3>2. PICK t \in TimeLeft : deadlines[b] <= t /\ timers[t] > 0
      BY <3>1
    <3>3. t # 0
      BY <3>1, <3>2 DEF TimeLeft
    <3>4. QED  BY <2>3, <3>2, <3>3 DEF TimerFires
  <2>4. CASE TimePasses
    <3>1. PICK t \in TimeLeft : deadlines[b] <= t /\ timers[t] > 0
      BY <2>4 DEF TimePasses
    <3>2. deadlines[b] \in TimeLeft
      OBVIOUS
    <3>3. CASE t = 0
      <4>1. timers'[0] > 0
        BY <2>4, <3>1, <3>3 DEF TimePasses, TimeLeft
      <4>2. deadlines'[b] = 0
        BY <2>4, <3>1, <3>2, <3>3 DEF TimePasses, TimeLeft
      <4>3. QED  BY <4>1, <4>2 DEF TimeLeft
    <3>4. CASE t # 0
      <4>1. /\ t - 1 \in TimeLeft
            /\ t - 1 < MaximumKeyHoldMs
            /\ (t - 1) + 1 = t
        BY <3>1, <3>4 DEF TimeLeft
      <4>2. timers'[t - 1] > 0
        BY <2>4, <3>1, <4>1 DEF TimePasses, TimeLeft
      <4>3. deadlines'[b] <= t - 1
        BY <2>4, <3>1, <3>2, <3>4 DEF TimePasses, TimeLeft
      <4>4. QED  BY <4>1, <4>2, <4>3
    <3>5. QED  BY <3>3, <3>4
  <2>5. CASE Frame
    BY <2>5 DEF Frame, TakeMerged, keyVars
  <2>6. CASE PauseOrStop
    BY <2>6 DEF PauseOrStop, ResetInput, keyVars
  <2>7. CASE UNCHANGED vars
    BY <2>7 DEF vars
  <2>8. QED  BY <2>1, <2>2, <2>3, <2>4, <2>5, <2>6, <2>7 DEF Next
<1>3. QED  BY <1>1, <1>2, TypeCorrect, PTL DEF Spec

(* A timer armed by an earlier press never releases a key before the deadline *)
(* of its newest press, whatever the hold times and the timers' accuracy.     *)
THEOREM LaterPressKept == Spec => TimerKeepsLaterPress
<1>1. TypeOK /\ [Next]_vars
        => [timers' # timers =>
              \A b \in masks["Remote"] \ masks'["Remote"] : deadlines[b] = 0]_vars
  <2> SUFFICES ASSUME TypeOK, Next, timers' # timers,
                      NEW b \in masks["Remote"] \ masks'["Remote"]
               PROVE  deadlines[b] = 0
    OBVIOUS
  <2> USE InputsAssumption DEF TypeOK, InputTypeOK
  <2>1. CASE Local
    BY <2>1, LocalStep DEF keyVars
  <2>2. CASE Remote
    BY <2>2 DEF Remote, PressRemoteKeys, SetDown, ReleaseRemoteKeys
  <2>3. CASE TimerFires
    BY <2>3 DEF TimerFires, ReleaseExpiredRemoteKeys, Expired, SetUp
  <2>4. CASE TimePasses \/ Frame \/ PauseOrStop
    BY <2>4 DEF TimePasses, Frame, PauseOrStop, keyVars
  <2>5. QED  BY <2>1, <2>2, <2>3, <2>4 DEF Next
<1>2. QED  BY <1>1, TypeCorrect, PTL DEF Spec, TimerKeepsLaterPress
-----------------------------------------------------------------------------
(* The latch of press edges. *)

(* What a handler can do to the latch: add press edges, leave it alone, start *)
(* it over, or, losing the keyboard's focus, drop presses from it.            *)
Edges == \E edges \in SUBSET Button :
           /\ pendingPresses' = pendingPresses \cup edges
           /\ tapped' = tapped \cup edges
           /\ cleared' = cleared \ edges
StartsOver == pendingPresses' = {} /\ tapped' = {} /\ cleared' = {}
FocusLost == \E dropped \in SUBSET Button :
               /\ pendingPresses' = pendingPresses \ dropped
               /\ cleared' = cleared \cup dropped
               /\ UNCHANGED tapped
LatchKept == UNCHANGED <<pendingPresses, tapped, cleared>>

(* SetDown and Replace latch exactly the edges that are recorded. *)
LEMMA PressLatches ==
  ASSUME TypeOK, NEW s \in Source, NEW mask \in SUBSET Button,
         SetDown(s, mask) \/ Replace(s, mask), RecordEdges(s)
  PROVE  Edges
<1>1. masks'[s] \ masks[s] = mask \ masks[s]
  BY DEF SetDown, Replace, TypeOK, InputTypeOK
<1>2. pendingPresses' = pendingPresses \cup (mask \ masks[s])
  BY DEF SetDown, Replace
<1>3. /\ tapped' = tapped \cup (mask \ masks[s])
      /\ cleared' = cleared \ (mask \ masks[s])
  BY <1>1 DEF RecordEdges
<1>4. mask \ masks[s] \in SUBSET Button
  OBVIOUS
<1>5. QED  BY <1>2, <1>3, <1>4 DEF Edges

(* A release latches nothing and records nothing. *)
LEMMA ReleaseLatchesNothing ==
  ASSUME TypeOK, NEW s \in Source, NEW mask \in SUBSET Button, SetUp(s, mask), RecordEdges(s)
  PROVE  LatchKept
<1>1. masks'[s] \ masks[s] = {}
  BY DEF SetUp, TypeOK, InputTypeOK
<1>2. QED  BY <1>1 DEF RecordEdges, SetUp, LatchKept

(* Every step of the specification is one of those. *)
LEMMA LatchStep ==
  ASSUME TypeOK, [Next]_vars
  PROVE  Edges \/ StartsOver \/ FocusLost \/ LatchKept
<1> USE InputsAssumption
<1> DEFINE Goal == Edges \/ StartsOver \/ FocusLost \/ LatchKept
<1>1. ASSUME NEW mask \in SUBSET Button, NEW down \in BOOLEAN, "Ui" \in Source,
             SetButton(mask, down)
      PROVE  Goal
  BY <1>1, PressLatches, ReleaseLatchesNothing DEF SetButton
<1>2. ASSUME NEW mask \in SUBSET Button, "Ui" \in Source, SetDirectional(mask)
      PROVE  Goal
  <2>1. (masks["Ui"] \ Direction) \cup (mask \cap Direction) \in SUBSET Button
    BY <1>2 DEF TypeOK, InputTypeOK
  <2>2. QED  BY <1>2, <2>1, PressLatches DEF SetDirectional
<1>3. ASSUME NEW b \in Button, NEW down \in BOOLEAN, "Keyboard" \in Source,
             SetKeyboardButton({b}, down)
      PROVE  Goal
  <2>1. {b} \in SUBSET Button
    OBVIOUS
  <2>2. QED  BY <1>3, <2>1, PressLatches, ReleaseLatchesNothing DEF SetKeyboardButton
<1>4. ASSUME "Keyboard" \in Source, ClearKeyboard
      PROVE  Goal
  BY <1>4 DEF ClearKeyboard, Clear, FocusLost, TypeOK, InputTypeOK
<1>5. ASSUME NEW mask \in SUBSET Button, "Controller0" \in Source, GamepadChanged(mask)
      PROVE  Goal
  BY <1>5, PressLatches DEF GamepadChanged
<1>6. ASSUME NEW mask \in SUBSET Button, NEW hold \in Hold, PressRemoteKeys(mask, hold)
      PROVE  Goal
  BY <1>6, PressLatches DEF PressRemoteKeys
<1>7. ASSUME NEW mask \in SUBSET Button, ReleaseRemoteKeys(mask)
      PROVE  Goal
  BY <1>7 DEF ReleaseRemoteKeys, SetUp, LatchKept
<1>8. CASE TimerFires
  BY <1>8 DEF TimerFires, ReleaseExpiredRemoteKeys, SetUp, LatchKept
<1>9. CASE Frame \/ PauseOrStop
  BY <1>9 DEF Frame, TakeMerged, PauseOrStop, ResetInput, StartsOver
<1>10. CASE TimePasses \/ UNCHANGED vars
  BY <1>10 DEF TimePasses, vars, LatchKept
<1>11. CASE Local
  BY <1>1, <1>2, <1>3, <1>4, <1>5, <1>11 DEF Local
<1>12. CASE Remote
  BY <1>6, <1>7, <1>12 DEF Remote
<1>13. QED  BY <1>8, <1>9, <1>10, <1>11, <1>12 DEF Next

(* No frame is shown a button nobody pressed since the last one, with any      *)
(* sources and in any order of presses, releases and timers.                   *)
THEOREM NoGhosts == Spec => []NoGhostPress
<1>1. Init => NoGhostPress
  BY DEF Init, NoInput, NoGhostPress
<1>2. TypeOK /\ NoGhostPress /\ [Next]_vars => NoGhostPress'
  <2> SUFFICES ASSUME TypeOK, NoGhostPress, [Next]_vars
               PROVE  NoGhostPress'
    OBVIOUS
  <2>1. CASE Edges
    BY <2>1 DEF Edges, NoGhostPress
  <2>2. CASE StartsOver
    BY <2>2 DEF StartsOver, NoGhostPress
  <2>3. CASE FocusLost \/ LatchKept
    BY <2>3 DEF FocusLost, LatchKept, NoGhostPress
  <2>4. QED  BY <2>1, <2>2, <2>3, LatchStep
<1>3. QED  BY <1>1, <1>2, TypeCorrect, PTL DEF Spec

(* A press edge stays latched until a frame takes it.  Stronger than            *)
(* TapsLatched, which a button that is still held satisfies without the latch.  *)
TappedIsPending == tapped \subseteq pendingPresses \cup cleared

(* No tap is lost before a frame sees it, however short it is and whoever else *)
(* releases the button, but to a loss of focus while the keyboard holds the    *)
(* same button.                                                                *)
THEOREM TapsReachTheFrame == Spec => []TapsLatched
<1>1. Init => TappedIsPending
  BY DEF Init, TappedIsPending
<1>2. TypeOK /\ TappedIsPending /\ [Next]_vars => TappedIsPending'
  <2> SUFFICES ASSUME TypeOK, TappedIsPending, [Next]_vars
               PROVE  TappedIsPending'
    OBVIOUS
  <2>1. CASE Edges
    BY <2>1 DEF Edges, TappedIsPending
  <2>2. CASE StartsOver
    BY <2>2 DEF StartsOver, TappedIsPending
  <2>3. CASE FocusLost
    BY <2>3 DEF FocusLost, TappedIsPending
  <2>4. CASE LatchKept
    BY <2>4 DEF LatchKept, TappedIsPending
  <2>5. QED  BY <2>1, <2>2, <2>3, <2>4, LatchStep
<1>3. TappedIsPending => TapsLatched
  BY DEF TappedIsPending, TapsLatched, FrameInput
<1>4. QED  BY <1>1, <1>2, <1>3, TypeCorrect, PTL DEF Spec

(* A frame is given what was pressed since the last one and not dropped by a *)
(* loss of focus, and nothing else.                                          *)
THEOREM FramesSeeThePresses == Spec => []FramesSeePresses
BY TapsReachTheFrame, NoGhosts, PTL DEF FramesSeePresses

(* The remote keys, their deadlines and their timers agree, but for keys      *)
(* whose newest press got a coarse timer.                                     *)
THEOREM KeysAreWatched == Spec => []KeysWatched
BY TypeCorrect, HeldKeysAreWatched, PTL DEF KeysWatched
=============================================================================
