------------------------------- MODULE Inputs -------------------------------
(***************************************************************************)
(* Every writer of AppController's InputState and its one reader, the      *)
(* frame: touch buttons, D-pad, keyboard and gamepad, and the keys a       *)
(* protocol host presses for a time and that release by themselves.        *)
(*                                                                         *)
(* Each handler runs to completion on the Qt event loop, so it is one      *)
(* action.  The code compares deadlines with remoteKeyClock_ by differences *)
(* only, so what is kept of both is the time left.  QTimer::singleShot is  *)
(* external: it delivers once, FireFrom(hold) after its start or at any    *)
(* time later.                                                             *)
(***************************************************************************)
EXTENDS InputState, Integers

LOCAL INSTANCE Functions

CONSTANTS
  Direction,        (* prg32qt::input::DirectionMask                             *)
  MaximumKeyHoldMs, (* the longest hold IoProtocolServer takes from a host       *)
  CoarseFrom,       (* singleShot() uses a Qt::CoarseTimer from this interval on *)
  CoarseSlack,      (* how much before its interval a coarse timer may fire      *)
  MaxTimers         (* bound of the model: timers outstanding at a time          *)

ASSUME InputsAssumption ==
  /\ "Remote" \in Source
  /\ Direction \subseteq Button
  /\ MaximumKeyHoldMs \in Nat
  /\ CoarseFrom \in Nat
  /\ CoarseSlack \in 0 .. CoarseFrom
  /\ MaxTimers \in Nat

VARIABLES
  deadlines, (* remoteKeyDeadlines_: the time left to each, 0 when reached  *)
  timers,    (* singleShots outstanding, by the time left before they may fire *)
  coarse,    (* history: the keys whose newest press got a coarse timer     *)
  tapped,    (* history: the buttons pressed since the last frame           *)
  cleared    (* history: those a loss of focus dropped, not pressed again    *)

inputVars == <<masks, pendingPresses>>
keyVars == <<deadlines, timers, coarse>>
vars == <<masks, pendingPresses, deadlines, timers, coarse, tapped, cleared>>

Hold == 1 .. MaximumKeyHoldMs
TimeLeft == 0 .. MaximumKeyHoldMs

TypeOK ==
  /\ InputTypeOK
  /\ deadlines \in [Button -> TimeLeft]
  /\ timers \in [TimeLeft -> Nat]
  /\ coarse \subseteq Button
  /\ tapped \subseteq Button
  /\ cleared \subseteq Button

Init ==
  /\ NoInput
  /\ deadlines = [b \in Button |-> 0]
  /\ timers = [t \in TimeLeft |-> 0]
  /\ coarse = {}
  /\ tapped = {}
  /\ cleared = {}

(* The press edges a handler of source s makes. *)
RecordEdges(s) ==
  /\ tapped' = tapped \cup (masks'[s] \ masks[s])
  /\ cleared' = cleared \ (masks'[s] \ masks[s])
-----------------------------------------------------------------------------
(* Local sources: setButton, setDirectional, setKeyboardButton, clearKeyboard *)
(* and the gamepad backend's inputChanged.                                    *)

SetButton(mask, down) ==
  /\ IF down THEN SetDown("Ui", mask) ELSE SetUp("Ui", mask)
  /\ RecordEdges("Ui")
  /\ UNCHANGED keyVars

SetDirectional(mask) ==
  /\ Replace("Ui", (masks["Ui"] \ Direction) \cup (mask \cap Direction))
  /\ RecordEdges("Ui")
  /\ UNCHANGED keyVars

SetKeyboardButton(mask, down) ==
  /\ IF down THEN SetDown("Keyboard", mask) ELSE SetUp("Keyboard", mask)
  /\ RecordEdges("Keyboard")
  /\ UNCHANGED keyVars

ClearKeyboard ==
  /\ Clear("Keyboard")
  /\ cleared' = cleared \cup masks["Keyboard"]
  /\ UNCHANGED <<deadlines, timers, coarse, tapped>>

GamepadChanged(mask) ==
  /\ Replace("Controller0", mask)
  /\ RecordEdges("Controller0")
  /\ UNCHANGED keyVars

Local ==
  \/ /\ "Ui" \in Source
     /\ \E mask \in (SUBSET Button) \ {{}} :
          \/ \E down \in BOOLEAN : SetButton(mask, down)
          \/ SetDirectional(mask)
  \/ /\ "Keyboard" \in Source
     /\ \/ \E b \in Button, down \in BOOLEAN : SetKeyboardButton({b}, down)
        \/ ClearKeyboard
  \/ /\ "Controller0" \in Source
     /\ \E mask \in SUBSET Button : GamepadChanged(mask)
-----------------------------------------------------------------------------
(* Keys a protocol host presses. *)

(* How long after its start singleShot(hold) may fire at the earliest. *)
FireFrom(hold) == IF hold < CoarseFrom THEN hold ELSE hold - CoarseSlack

Outstanding == FoldFunction(LAMBDA n, sum : n + sum, 0, timers)

(* Each of the keys in mask is given the time hold; the others keep theirs. *)
SetDeadlines(mask, hold) ==
  deadlines' = [b \in Button |-> IF b \in mask THEN hold ELSE deadlines[b]]

RecordTimer(mask, hold) ==
  coarse' = IF hold < CoarseFrom THEN coarse \ mask ELSE coarse \cup mask

(* Mutant: one timer at a time, not one for each press. *)
PressRemoteKeysOneTimer(mask, hold) ==
  /\ SetDown("Remote", mask)
  /\ RecordEdges("Remote")
  /\ SetDeadlines(mask, hold)
  /\ timers' = IF Outstanding = 0 THEN [timers EXCEPT ![FireFrom(hold)] = 1] ELSE timers
  /\ RecordTimer(mask, hold)

PressRemoteKeys(mask, hold) ==
  /\ Outstanding < MaxTimers                                     \* bound
  /\ SetDown("Remote", mask)
  /\ RecordEdges("Remote")
  /\ SetDeadlines(mask, hold)
  /\ timers' = [timers EXCEPT ![FireFrom(hold)] = @ + 1]
  /\ RecordTimer(mask, hold)

ReleaseRemoteKeys(mask) ==
  /\ SetUp("Remote", mask)
  /\ UNCHANGED <<deadlines, timers, coarse, tapped, cleared>>

Expired == { b \in Button : deadlines[b] = 0 }

(* Mutants: the first expired key ends the loop; every key is released. *)
ReleaseFirstExpired ==
  SetUp("Remote", IF Expired = {} THEN {} ELSE { CHOOSE b \in Expired : TRUE })
ReleaseAllRemoteKeys == SetUp("Remote", Button)

ReleaseExpiredRemoteKeys == SetUp("Remote", Expired)

TimerFires ==
  /\ timers[0] > 0
  /\ timers' = [timers EXCEPT ![0] = @ - 1]
  /\ ReleaseExpiredRemoteKeys
  /\ UNCHANGED <<deadlines, coarse, tapped, cleared>>

(* A tick brings every deadline and timer nearer.  A timer that may fire can  *)
(* still be served any number of ticks later.                                *)
TimePasses ==
  /\ deadlines' = [b \in Button |-> IF deadlines[b] = 0 THEN 0 ELSE deadlines[b] - 1]
  /\ timers' = [t \in TimeLeft |->
                  (IF t < MaximumKeyHoldMs THEN timers[t + 1] ELSE 0)
                    + (IF t = 0 THEN timers[0] ELSE 0)]
  /\ UNCHANGED <<masks, pendingPresses, coarse, tapped, cleared>>

Remote ==
  \/ \E mask \in (SUBSET Button) \ {{}}, hold \in Hold : PressRemoteKeys(mask, hold)
  \/ \E mask \in (SUBSET Button) \ {{}} : ReleaseRemoteKeys(mask)
-----------------------------------------------------------------------------
(* A frame takes the input; pause() and stop() start it over. *)

Frame ==
  /\ TakeMerged
  /\ tapped' = {}
  /\ cleared' = {}
  /\ UNCHANGED keyVars

PauseOrStop ==
  /\ ResetInput
  /\ tapped' = {}
  /\ cleared' = {}
  /\ UNCHANGED keyVars

Next ==
  \/ Local
  \/ Remote
  \/ TimerFires
  \/ TimePasses
  \/ Frame
  \/ PauseOrStop

Spec == Init /\ [][Next]_vars

(* The event loop keeps running: time passes and an expired timer is served. *)
Fairness == WF_vars(TimePasses) /\ WF_vars(TimerFires)

FairSpec == Spec /\ Fairness
-----------------------------------------------------------------------------
(* A press edge that no frame has taken is still in the next frame's input, *)
(* however short the tap was and whoever else releases the same button      *)
(* ("Latched input press edges until the next emulated frame so short       *)
(* touch/controller taps reliably start games").  The one thing that drops  *)
(* a tap is the focus lost while the keyboard holds that very button.       *)
TapsLatched ==
  \A b \in tapped : b \in FrameInput \/ b \in cleared

(* The latch never shows a frame a button nobody pressed since the last one: *)
(* what is neither held nor tapped is not in the frame's input.              *)
NoGhostPress == pendingPresses \subseteq tapped

(* A timer armed by an earlier press never cuts a later, longer press of the *)
(* same key short: what a timer releases has reached its newest deadline.    *)
(* (Of the steps that change timers only a timer's own can release a key.)   *)
TimerKeepsLaterPress ==
  [][timers' # timers =>
       \A b \in masks["Remote"] \ masks'["Remote"] : deadlines[b] = 0]_vars

(* Every remote key still down is watched by a timer that will find its      *)
(* deadline passed, whatever presses, releases and timers came in between,   *)
(* unless its newest press got a coarse timer, which may be early.           *)
HeldKeyHasTimer ==
  \A b \in masks["Remote"] \ coarse :
    \E t \in TimeLeft : deadlines[b] <= t /\ timers[t] > 0

(* A host presses key b (again). *)
Presses(b) ==
  \E mask \in SUBSET Button, hold \in Hold : b \in mask /\ PressRemoteKeys(mask, hold)

(* "Every press ends by itself, so a host that disappears cannot leave a key *)
(* stuck" (AppController::pressRemoteKeys), under the two conditions it has:  *)
(* a remote key comes up with no help of a host, again and again, if hosts do *)
(* not press it for ever and its newest press did not get a coarse timer.     *)
EveryPressEnds ==
  \A b \in Button :
    \/ []<>(b \notin masks["Remote"] \/ b \in coarse)
    \/ []<><<Presses(b)>>_vars

(* A frame is given every tap made since the last one that no focus loss     *)
(* dropped, and nothing else.                                                *)
FramesSeePresses == TapsLatched /\ NoGhostPress

(* The keys a host holds down, their deadlines and the timers that are to    *)
(* find them passed agree after any overlap of presses.                      *)
KeysWatched == TypeOK /\ HeldKeyHasTimer
=============================================================================
