--------------------------- MODULE AudioPipeline ----------------------------
(***************************************************************************)
(* The sound of the Qt host: FirmwareAudio gives the firmware engine 33 ms *)
(* per guest frame, the engine mixes whole 20 ms buffers, AppController     *)
(* pushes them into QtAudioEngine's queue, and the output device pulls and  *)
(* resamples them on its own thread.  Every QtAudioEngine operation below   *)
(* holds mutex_ throughout.                                                 *)
(*                                                                         *)
(* Samples are not modelled: a queue is the number of stereo frames in it,  *)
(* with counters of where every frame went.  The engine itself is the PRG32  *)
(* firmware's, external to this repository.                                 *)
(***************************************************************************)
EXTENDS Integers

CONSTANTS
  FrameMs,      (* FramePeriodNanoseconds, in ms (33)                        *)
  StepMs,       (* PRG32_KIT_AUDIO_STEP_MS (20)                              *)
  StepFrames,   (* PRG32_KIT_AUDIO_STEP_FRAMES (441)                         *)
  KitLimit,     (* PRG32_KIT_AUDIO_QUEUE_FRAMES (4 s)                        *)
  Waits,        (* waits between two notes of prg32_audio_notes, in ms       *)
  HalfSecond,   (* stereo frames in half a second (11025)                    *)
  EngineRate,   (* 22050                                                     *)
  DeviceRate,   (* format_.sampleRate()                                      *)
  MaxFrames,    (* bound on the guest frames of one cartridge                *)
  MaxDelay      (* bound on the time its notes wait                          *)

ASSUME AudioAssumption ==
  /\ FrameMs \in Nat \ {0} /\ StepMs \in Nat \ {0} /\ StepFrames \in Nat \ {0}
  /\ HalfSecond \in Nat \ {0} /\ EngineRate \in Nat \ {0} /\ DeviceRate \in Nat \ {0}
  /\ KitLimit \in Nat /\ Waits \subseteq Nat /\ MaxFrames \in Nat /\ MaxDelay \in Nat

VARIABLES
  player,        (* what AppController's running_, paused_ and timer amount to *)
  resting,       (* what a load that fails leaves of it                       *)
  guestFrames,   (* frames the guest has completed since init                 *)
  audioFrames,   (* FirmwareAudio::frames_                                    *)
  audioMs,       (* audioNanoseconds_: the time the engine was brought to     *)
  engineOn,      (* g_prg32_audio.initialized                                 *)
  pendingMs,     (* pending_ms_: engine time not mixed yet                    *)
  kitQueued,     (* stereo frames in the kit's queue_                         *)
  queued,        (* stereo frames in firmwarePcm_                             *)
  position,      (* firmwarePosition_, in units of 1/DeviceRate frame         *)
  streaming,     (* firmwareStreaming_                                        *)
  \* where the frames of this cartridge went, and what was mixed (history)
  kitDropped, pushed, played, dropped, cleared,
  steps, delayed, alwaysOn

guestVars == <<player, resting, guestFrames>>
kitVars == <<kitQueued, kitDropped>>
engineVars == <<audioFrames, audioMs, engineOn, pendingMs, steps, delayed, alwaysOn>>
queueVars == <<queued, position, streaming, pushed, played, dropped, cleared>>
vars == <<guestVars, engineVars, kitVars, queueVars>>

Players == {"none", "loading", "playing", "halted", "paused", "stopped", "failed"}

TypeOK ==
  /\ player \in Players /\ resting \in Players \ {"loading"}
  /\ guestFrames \in Nat /\ audioFrames \in Nat /\ audioMs \in Nat
  /\ engineOn \in BOOLEAN /\ alwaysOn \in BOOLEAN
  /\ pendingMs \in 0 .. StepMs - 1 /\ steps \in Nat /\ delayed \in Nat
  /\ kitQueued \in 0 .. KitLimit /\ kitDropped \in Nat
  /\ queued \in Nat /\ position \in Nat /\ streaming \in BOOLEAN
  /\ pushed \in Nat /\ played \in Nat /\ dropped \in Nat /\ cleared \in Nat

Init ==
  /\ player = "none" /\ resting = "none" /\ guestFrames = 0
  /\ audioFrames = 0 /\ audioMs = 0 /\ engineOn = FALSE /\ pendingMs = 0
  /\ steps = 0 /\ delayed = 0 /\ alwaysOn = FALSE
  /\ kitQueued = 0 /\ kitDropped = 0
  /\ queued = 0 /\ position = 0 /\ streaming = FALSE
  /\ pushed = 0 /\ played = 0 /\ dropped = 0 /\ cleared = 0
-----------------------------------------------------------------------------
(* QtAudioEngine's queue. *)

(* clearFirmwarePcm(): the device keeps running and finds nothing to play. *)
ClearQueue ==
  /\ queued' = 0 /\ position' = 0 /\ streaming' = FALSE
  /\ cleared' = cleared + queued
  /\ UNCHANGED <<pushed, played, dropped>>

(* The limit is a count of values, two per stereo frame; half a second of them. *)
Limit == 2 * HalfSecond

(* Mutant: the excess is counted in values, two per frame. *)
PushCountsValues(n) ==
  IF n = 0
    THEN UNCHANGED queueVars
    ELSE LET all == queued + n
             excess == IF 2 * all > Limit * 2 THEN 2 * all - Limit * 2 ELSE 0
         IN  /\ queued' = all - excess \div 2
             /\ dropped' = dropped + excess
             /\ pushed' = pushed + n
             /\ streaming' = TRUE
             /\ UNCHANGED <<position, played, cleared>>

(* pushFirmwarePcm(): the oldest frames beyond the limit are dropped. *)
Push(n) ==
  IF n = 0
    THEN UNCHANGED queueVars
    ELSE LET all == queued + n
             excess == IF 2 * all > Limit * 2 THEN 2 * all - Limit * 2 ELSE 0
         IN  /\ queued' = all - excess \div 2
             /\ dropped' = dropped + excess \div 2
             /\ pushed' = pushed + n
             /\ streaming' = TRUE
             /\ UNCHANGED <<position, played, cleared>>

(* Mutant: the position moves on by whole frames only after the next read. *)
MixFrameOnePop ==
  /\ IF queued >= 2
       THEN LET moved == position + EngineRate
                taken == IF moved > DeviceRate THEN 1 ELSE 0
            IN  /\ position' = moved - taken * DeviceRate
                /\ queued' = queued - taken
                /\ played' = played + taken
       ELSE UNCHANGED <<queued, position, played>>
  /\ UNCHANGED <<guestVars, engineVars, kitVars, streaming, pushed, dropped, cleared>>

(* mixFirmwarePcm() for one device frame (a read of n frames is n of these):  *)
(* it needs two queued frames to interpolate between, and pops the whole      *)
(* frames it has passed but the last one.                                     *)
MixFrame ==
  /\ IF queued >= 2
       THEN LET moved == position + EngineRate
                taken == IF moved \div DeviceRate <= queued - 1
                           THEN moved \div DeviceRate ELSE queued - 1
            IN  /\ position' = moved - taken * DeviceRate
                /\ queued' = queued - taken
                /\ played' = played + taken
       ELSE UNCHANGED <<queued, position, played>>
  /\ UNCHANGED <<guestVars, engineVars, kitVars, streaming, pushed, dropped, cleared>>
-----------------------------------------------------------------------------
(* The engine's clock. *)

(* prg32_kit_audio_advance_ms: a shut-down engine loses the time. *)
Advance(ms) ==
  IF engineOn
    THEN /\ pendingMs' = (pendingMs + ms) % StepMs
         /\ steps' = steps + (pendingMs + ms) \div StepMs
    ELSE UNCHANGED <<pendingMs, steps>>

(* frameDone() and its catchUp(). *)
FrameDone ==
  /\ audioFrames' = audioFrames + 1
  /\ IF audioFrames' * FrameMs > audioMs
       THEN audioMs' = audioFrames' * FrameMs /\ Advance(audioFrames' * FrameMs - audioMs)
       ELSE UNCHANGED <<audioMs, pendingMs, steps>>
  /\ UNCHANGED <<engineOn, delayed, alwaysOn>>

(* push(): the kit's queue drops the oldest of the n frames it should hold. *)
KitExcess(n) == IF n > KitLimit THEN n - KitLimit ELSE 0
Waiting == kitQueued + (steps' - steps) * StepFrames

(* attach(): prg32_kit_audio_start, then the cartridge's audio block. *)
Attach ==
  /\ audioFrames' = 0 /\ audioMs' = 0 /\ engineOn' = TRUE /\ pendingMs' = 0
  /\ steps' = 0 /\ delayed' = 0 /\ alwaysOn' = TRUE
  /\ kitQueued' = 0 /\ kitDropped' = 0

(* The guest runs: in its init function, in a frame, in a single step. *)
GuestRuns == player \in {"loading", "playing", "paused"}

(* ABI #9 and #10 start and shut down the engine. *)
GuestAudioInit ==
  /\ GuestRuns /\ engineOn' = TRUE
  /\ UNCHANGED <<guestVars, audioFrames, audioMs, pendingMs, steps, delayed, alwaysOn,
                 kitVars, queueVars>>

GuestAudioShutdown ==
  /\ GuestRuns /\ engineOn' = FALSE /\ alwaysOn' = FALSE
  /\ UNCHANGED <<guestVars, audioFrames, audioMs, pendingMs, steps, delayed, kitVars, queueVars>>

(* ABI #19: prg32_audio_notes waits between its notes, and the wait is rendered *)
(* at once, on top of the frames' time (prg32_kit_audio_delay_ms).              *)
GuestAudioNotes(ms) ==
  /\ GuestRuns /\ delayed + ms <= MaxDelay
  /\ Advance(ms)
  /\ delayed' = IF engineOn THEN delayed + ms ELSE delayed
  /\ kitQueued' = Waiting - KitExcess(Waiting)
  /\ kitDropped' = kitDropped + KitExcess(Waiting)
  /\ UNCHANGED <<guestVars, audioFrames, audioMs, engineOn, alwaysOn, queueVars>>
-----------------------------------------------------------------------------
(* AppController. *)

Busy == player = "loading"

(* loadBytes(): the queue is cleared and the engine attached before the Runtime *)
(* accepts the cartridge; its init function runs in this handler.  The counters *)
(* start over with the cartridge.                                               *)
LoadBegins ==
  /\ ~Busy /\ player' = "loading"
  /\ resting' = IF player = "playing" THEN "halted" ELSE player
  /\ queued' = 0 /\ position' = 0 /\ streaming' = FALSE
  /\ pushed' = 0 /\ played' = 0 /\ dropped' = 0 /\ cleared' = 0
  /\ Attach
  /\ UNCHANGED guestFrames

Load ==
  /\ Busy /\ player' = "playing" /\ guestFrames' = 0
  /\ UNCHANGED <<resting, engineVars, kitVars, queueVars>>

(* The engine, Runtime::load or the init function fails: the timer stays        *)
(* stopped, and a session that was running still counts as running.            *)
LoadFails ==
  /\ Busy /\ player' = resting /\ guestFrames' \in {guestFrames, 0}
  /\ UNCHANGED <<resting, engineVars, kitVars, queueVars>>

(* The frame timer completes a frame, whole or by its last slice, and pushes    *)
(* all the kit has mixed until its end ...                                      *)
TimerFrame ==
  /\ player = "playing" /\ guestFrames < MaxFrames
  /\ guestFrames' = guestFrames + 1
  /\ FrameDone
  /\ kitQueued' = 0 /\ kitDropped' = kitDropped + KitExcess(Waiting)
  /\ Push(Waiting - KitExcess(Waiting))
  /\ UNCHANGED <<player, resting>>

(* ... or the guest traps in it, which ends the session and leaves the queue. *)
FrameFails ==
  /\ player = "playing" /\ player' = "failed"
  /\ UNCHANGED <<resting, guestFrames, engineVars, kitVars, queueVars>>

(* Mutant: pausing leaves the queue playing. *)
PauseKeepsQueue ==
  /\ player \in {"playing", "halted"} /\ player' = "paused"
  /\ UNCHANGED <<resting, guestFrames, engineVars, kitVars, queueVars>>

Pause ==
  /\ player \in {"playing", "halted"} /\ player' = "paused"
  /\ ClearQueue
  /\ UNCHANGED <<resting, guestFrames, engineVars, kitVars>>

Resume ==
  /\ player = "paused" /\ player' = "playing"
  /\ UNCHANGED <<resting, guestFrames, engineVars, kitVars, queueVars>>

Stop ==
  /\ ~Busy /\ player' = IF player = "none" THEN "none" ELSE "stopped"
  /\ ClearQueue
  /\ UNCHANGED <<resting, guestFrames, engineVars, kitVars>>

(* debugStep() retires the last instruction of a frame: it pauses first, and   *)
(* tells FirmwareAudio nothing.                                                *)
StepEndsFrame ==
  /\ player \in {"playing", "halted", "paused"} /\ guestFrames < MaxFrames
  /\ guestFrames' = guestFrames + 1 /\ player' = "paused"
  /\ IF player # "paused" THEN ClearQueue ELSE UNCHANGED queueVars
  /\ UNCHANGED <<resting, engineVars, kitVars>>

Next ==
  \/ LoadBegins \/ Load \/ LoadFails
  \/ TimerFrame \/ FrameFails \/ Pause \/ Resume \/ Stop \/ StepEndsFrame
  \/ GuestAudioInit \/ GuestAudioShutdown
  \/ \E ms \in Waits : GuestAudioNotes(ms)
  \/ MixFrame

Spec == Init /\ [][Next]_vars
-----------------------------------------------------------------------------
(* Every frame pushed is playing, played, dropped as too old or cleared: the  *)
(* device thread and the pushing thread lose and repeat none.                 *)
FramesAccounted == pushed = queued + played + dropped + cleared

(* So is every frame mixed: it is in the kit's queue, was dropped there or     *)
(* was pushed, once, whichever handler took it.                                *)
BuffersAccounted == steps * StepFrames = kitQueued + kitDropped + pushed

(* The 33 ms frames and the 20 ms buffers never drift apart, through pauses    *)
(* and reloads: the engine has mixed every whole buffer of its time, which is  *)
(* the frames' and the notes' waits.                                           *)
EngineKeepsTime ==
  alwaysOn => steps * StepMs + pendingMs = audioFrames * FrameMs + delayed

(* "Stopping or pausing clears the queue", and nothing refills it until the   *)
(* player goes on.                                                            *)
SilentWhenPaused == player \in {"paused", "stopped"} => queued = 0

(* "Linear between samples": two frames are interpolated between, never       *)
(* beyond.                                                                    *)
Interpolates == queued >= 2 => position < DeviceRate

(* From the engine's clock to the device's ring every sample frame is where  *)
(* the time that has passed puts it, or was dropped or cleared.              *)
SoundAccounted == FramesAccounted /\ BuffersAccounted /\ EngineKeepsTime

(* Stopped, paused and reloaded players leave no sound behind.               *)
PlayerSilenced == TypeOK /\ SilentWhenPaused
=============================================================================
