----------------------------- MODULE InputState -----------------------------
(***************************************************************************)
(* The button latch of the Qt host (src/src/qt/InputState.h): one mask per *)
(* input source, OR-combined, and a latch of press edges that keeps a tap  *)
(* shorter than a frame visible to the next frame.                         *)
(*                                                                         *)
(* A button mask is the set of its buttons.  Every operator below is one   *)
(* member function of the class; the modules that own an InputState use    *)
(* them in their handlers.                                                 *)
(***************************************************************************)

CONSTANTS
  Source,  (* InputState::Source: who holds buttons ("Ui", "Keyboard", ...) *)
  Button   (* the buttons of the PRG32 mask                                 *)

VARIABLES
  masks,          (* masks_: the buttons each source holds down        *)
  pendingPresses  (* pendingPresses_: press edges no frame has seen yet *)

InputTypeOK ==
  /\ masks \in [Source -> SUBSET Button]
  /\ pendingPresses \in SUBSET Button

Merged == UNION { masks[s] : s \in Source }

(* What takeMerged() returns: held by any source, or tapped since the last one. *)
FrameInput == Merged \cup pendingPresses

TakeMerged ==
  /\ pendingPresses' = {}
  /\ UNCHANGED masks

(* Mutant: only what is still held counts, as before press edges were latched. *)
SetDownUnlatched(s, mask) ==
  /\ masks' = [masks EXCEPT ![s] = @ \cup mask]
  /\ UNCHANGED pendingPresses

SetDown(s, mask) ==
  /\ pendingPresses' = pendingPresses \cup (mask \ masks[s])
  /\ masks' = [masks EXCEPT ![s] = @ \cup mask]

SetUp(s, mask) ==
  /\ masks' = [masks EXCEPT ![s] = @ \ mask]
  /\ UNCHANGED pendingPresses

Replace(s, mask) ==
  /\ pendingPresses' = pendingPresses \cup (mask \ masks[s])
  /\ masks' = [masks EXCEPT ![s] = mask]

Clear(s) ==
  /\ pendingPresses' = pendingPresses \ masks[s]
  /\ masks' = [masks EXCEPT ![s] = {}]

(* input_ = InputState{}: the controller starts from nothing held. *)
NoInput ==
  /\ masks = [s \in Source |-> {}]
  /\ pendingPresses = {}

ResetInput ==
  /\ masks' = [s \in Source |-> {}]
  /\ pendingPresses' = {}
=============================================================================
