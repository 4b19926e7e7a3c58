--------------------------- MODULE CartridgeSlots ---------------------------
(***************************************************************************)
(* What AppController's slots promise, whatever the hosts, the browser and  *)
(* the user do through them: a slot holds one whole valid cartridge or      *)
(* nothing, it changes in one step, and the player runs a cartridge that a  *)
(* slot holds when it is started, or nothing.                               *)
(***************************************************************************)
CONSTANTS Slot, Valid, NoImage

VARIABLES
  stored,    (* the cartridge of each slot, NoImage when it is empty         *)
  playing    (* the cartridge that was started from a slot, or NoImage       *)

vars == <<stored, playing>>

Init ==
  /\ stored \in [Slot -> Valid \cup {NoImage}]
  /\ playing = NoImage

(* uploadSlot() *)
Store(s, i) == stored' = [stored EXCEPT ![s] = i]

(* selectSlot(), of what the slot holds after this step: a cartridge that does *)
(* not load leaves nothing playing.                                            *)
Play(s) == stored'[s] # NoImage /\ playing' \in {stored'[s], NoImage}

Next ==
  \/ \E s \in Slot, i \in Valid : Store(s, i) /\ (UNCHANGED playing \/ Play(s))
  \/ UNCHANGED stored /\ \E s \in Slot : Play(s)
  \/ UNCHANGED stored /\ playing' = NoImage

Spec == Init /\ [][Next]_vars
=============================================================================
