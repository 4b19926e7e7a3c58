----------------------------- MODULE AudioProofs ----------------------------
(***************************************************************************)
(* What the sound pipeline keeps for every frame period, buffer length,    *)
(* queue limit and pair of sample rates.                                   *)
(***************************************************************************)
EXTENDS AudioPipeline, TLAPS

(* Dividing and taking the remainder lose nothing. *)
LEMMA DivMod ==
  ASSUME NEW n \in Nat, NEW d \in Nat \ {0}
  PROVE  /\ n \div d \in Nat /\ n % d \in 0 .. d - 1
         /\ n = d * (n \div d) + (n % d)
<1>1. n = d * (n \div d) + (n % d)
  BY Z3
<1>2. n \div d \in Nat /\ n % d \in 0 .. d - 1
  OBVIOUS
<1>3. QED  BY <1>1, <1>2

(* A quotient below two is zero or one. *)
LEMMA SmallQuotient ==
  ASSUME NEW d \in Nat \ {0}, NEW n \in Nat, n < 2 * d
  PROVE  \/ n < d /\ n \div d = 0
         \/ n >= d /\ n \div d = 1
<1>1. n \div d \in Nat /\ n % d \in 0 .. d - 1 /\ n = d * (n \div d) + (n % d)
  BY DivMod
<1>2. CASE n \div d = 0
  BY <1>1, <1>2
<1>3. CASE n \div d = 1
  BY <1>1, <1>3
<1>4. CASE n \div d >= 2
  <2>1. d * (n \div d) >= d * 2
    BY <1>1, <1>4, Z3
  <2>2. QED  BY <1>1, <2>1
<1>5. QED  BY <1>1, <1>2, <1>3, <1>4

(* The engine's clock is a whole number of frames, and its buffers and its    *)
(* unmixed time add up to it.                                                 *)
ClockInv ==
  /\ audioFrames \in Nat /\ audioMs = audioFrames * FrameMs
  /\ pendingMs \in 0 .. StepMs - 1 /\ steps \in Nat /\ delayed \in Nat
  /\ alwaysOn => engineOn
  /\ EngineKeepsTime

(* Advancing a running engine adds the time to its buffers and its unmixed time. *)
LEMMA AdvanceClock ==
  ASSUME pendingMs \in 0 .. StepMs - 1, steps \in Nat, NEW ms \in Nat, Advance(ms)
  PROVE  /\ pendingMs' \in 0 .. StepMs - 1 /\ steps' \in Nat /\ steps' - steps \in Nat
         /\ engineOn => steps' * StepMs + pendingMs' = (steps * StepMs + pendingMs) + ms
<1> USE AudioAssumption
<1> DEFINE n == pendingMs + ms
<1>1. n \in Nat
  OBVIOUS
<1>2. /\ n \div StepMs \in Nat /\ n % StepMs \in 0 .. StepMs - 1
      /\ n = StepMs * (n \div StepMs) + (n % StepMs)
  BY <1>1, DivMod
<1>3. CASE engineOn
  <2>1. pendingMs' = n % StepMs /\ steps' = steps + n \div StepMs
    BY <1>3 DEF Advance
  <2>2. steps' * StepMs = steps * StepMs + StepMs * (n \div StepMs)
    BY <1>2, <2>1
  <2> HIDE DEF n
  <2>3. steps' \in Nat /\ steps' - steps \in Nat /\ pendingMs' \in 0 .. StepMs - 1
    BY <1>2, <2>1
  <2>4. n = pendingMs + ms
    BY DEF n
  <2>5. steps * StepMs \in Nat /\ StepMs * (n \div StepMs) \in Nat
    BY <1>2
  <2>6. steps' * StepMs + pendingMs'
          = (steps * StepMs + StepMs * (n \div StepMs)) + (n % StepMs)
    BY <2>1, <2>2
  <2>7. steps' * StepMs + pendingMs' = steps * StepMs + n
    BY <1>1, <1>2, <2>5, <2>6
  <2>8. steps * StepMs + n = (steps * StepMs + pendingMs) + ms
    BY <2>4, <2>5
  <2>9. QED  BY <2>3, <2>7, <2>8
<1>4. CASE ~engineOn
  BY <1>4 DEF Advance
<1>5. QED  BY <1>3, <1>4

(* A finished frame brings the engine one frame period further. *)
LEMMA FrameDoneClock ==
  ASSUME engineOn \in BOOLEAN, alwaysOn \in BOOLEAN, ClockInv, FrameDone
  PROVE  /\ ClockInv'
         /\ UNCHANGED <<engineOn, alwaysOn>>
         /\ steps' - steps \in Nat
<1> USE AudioAssumption DEF ClockInv, EngineKeepsTime
<1>1. audioFrames' = audioFrames + 1 /\ audioFrames' \in Nat
  BY DEF FrameDone
<1>2. audioFrames' * FrameMs = audioFrames * FrameMs + FrameMs
  BY <1>1
<1>3. audioFrames * FrameMs \in Nat /\ audioFrames' * FrameMs > audioMs
  BY <1>1, <1>2
<1>4. audioMs' = audioFrames' * FrameMs /\ Advance(FrameMs)
  BY <1>1, <1>2, <1>3 DEF FrameDone
<1>5. UNCHANGED <<engineOn, delayed, alwaysOn>>
  BY DEF FrameDone
<1>6. /\ pendingMs' \in 0 .. StepMs - 1 /\ steps' \in Nat /\ steps' - steps \in Nat
      /\ engineOn => steps' * StepMs + pendingMs' = (steps * StepMs + pendingMs) + FrameMs
  BY <1>4, AdvanceClock
<1>7. EngineKeepsTime'
  <2> SUFFICES ASSUME alwaysOn'
               PROVE  steps' * StepMs + pendingMs' = audioFrames' * FrameMs + delayed'
    BY DEF EngineKeepsTime
  <2>1. engineOn /\ steps * StepMs + pendingMs = audioFrames * FrameMs + delayed
    BY <1>5
  <2>2. steps' * StepMs + pendingMs' = (audioFrames * FrameMs + delayed) + FrameMs
    BY <1>6, <2>1
  <2>3. delayed' = delayed /\ delayed \in Nat
    BY <1>5
  <2>4. (audioFrames * FrameMs + delayed) + FrameMs = (audioFrames * FrameMs + FrameMs) + delayed
    BY <1>3, <2>3
  <2>5. QED  BY <1>2, <2>2, <2>3, <2>4
<1>8. QED  BY <1>1, <1>4, <1>5, <1>6, <1>7

(* Neither queue holds or loses a frame that is not accounted for: the kit's    *)
(* keeps to its limit, and the engine's buffers are in it, dropped or pushed.  *)
KitInv ==
  /\ kitQueued \in 0 .. KitLimit /\ kitDropped \in Nat
  /\ BuffersAccounted

(* The kit's queue keeps at most its limit of what is waiting. *)
LEMMA KitKeeps ==
  ASSUME NEW n \in Nat
  PROVE  KitExcess(n) \in Nat /\ n - KitExcess(n) \in 0 .. KitLimit
BY AudioAssumption DEF KitExcess

(* Mixing more buffers makes as many more frames wait. *)
LEMMA WaitingFrames ==
  ASSUME KitInv, ClockInv, steps' - steps \in Nat, steps' \in Nat,
         pushed \in Nat
  PROVE  /\ Waiting \in Nat
         /\ steps' * StepFrames = (Waiting + kitDropped) + pushed
<1>1. steps \in Nat
  BY DEF ClockInv
<1>2. \A a, b \in Nat : b - a \in Nat => \E d \in Nat : d = b - a /\ b = a + d
  OBVIOUS
<1>3. PICK d \in Nat : d = steps' - steps /\ steps' = steps + d
  BY <1>1, <1>2
<1>4. d * StepFrames \in Nat /\ steps * StepFrames \in Nat
  BY <1>1, AudioAssumption
<1>5. steps' * StepFrames = steps * StepFrames + d * StepFrames
  BY <1>1, <1>3, AudioAssumption
<1>6. Waiting = kitQueued + d * StepFrames
  BY <1>3 DEF Waiting
<1>7. steps * StepFrames = kitQueued + kitDropped + pushed
  BY DEF KitInv, BuffersAccounted
<1>8. kitQueued \in Nat /\ kitDropped \in Nat
  BY AudioAssumption DEF KitInv
<1>9. QED  BY <1>4, <1>5, <1>6, <1>7, <1>8

(* The queue's frames are accounted for, a device at least as fast as the     *)
(* engine never passes more than one of them at a time, and a player that is  *)
(* paused or stopped has none.                                                *)
QueueInv ==
  /\ queued \in Nat /\ position \in Nat /\ streaming \in BOOLEAN
  /\ EngineRate <= DeviceRate => position < DeviceRate
  /\ pushed \in Nat /\ played \in Nat /\ dropped \in Nat /\ cleared \in Nat
  /\ FramesAccounted

(* Pushing n frames keeps the account. *)
LEMMA PushQueue ==
  ASSUME QueueInv, NEW n \in Nat, Push(n)
  PROVE  QueueInv' /\ pushed' = pushed + n
<1> USE AudioAssumption DEF QueueInv, FramesAccounted
<1>1. CASE n = 0
  BY <1>1 DEF Push, queueVars
<1>2. CASE n # 0
  <2> DEFINE all == queued + n
             excess == IF 2 * all > Limit * 2 THEN 2 * all - Limit * 2 ELSE 0
  <2>1. \E h \in Nat : excess = 2 * h /\ h <= all
    <3>1. CASE all > Limit
      <4>1. excess = 2 * (all - Limit)
        BY <3>1 DEF Limit
      <4>2. all - Limit \in Nat /\ all - Limit <= all
        BY <3>1 DEF Limit
      <4>3. QED  BY <4>1, <4>2, Zenon
    <3>2. CASE ~(all > Limit)
      BY <3>2 DEF Limit
    <3>3. QED  BY <3>1, <3>2
  <2>2. PICK h \in Nat : excess = 2 * h /\ h <= all
    BY <2>1
  <2>3. excess \div 2 = h
    BY <2>2
  <2>4. queued' = all - h /\ dropped' = dropped + h /\ pushed' = pushed + n
        /\ streaming' = TRUE /\ UNCHANGED <<position, played, cleared>>
    BY <1>2, <2>3 DEF Push
  <2>5. QED  BY <2>2, <2>4
<1>3. QED  BY <1>1, <1>2

(* Clearing the queue keeps the account and leaves it empty. *)
LEMMA ClearQueueInv ==
  ASSUME QueueInv, ClearQueue
  PROVE  QueueInv' /\ queued' = 0 /\ pushed' = pushed
<1>1. /\ queued' = 0 /\ position' = 0 /\ streaming' = FALSE
      /\ cleared' = cleared + queued
      /\ UNCHANGED <<pushed, played, dropped>>
  BY DEF ClearQueue
<1>2. FramesAccounted'
  BY <1>1 DEF QueueInv, FramesAccounted
<1>3. queued' \in Nat /\ position' \in Nat /\ cleared' \in Nat
      /\ pushed' \in Nat /\ played' \in Nat /\ dropped' \in Nat
  BY <1>1, AudioAssumption DEF QueueInv
<1>4. streaming' \in BOOLEAN
  BY <1>1
<1>5. EngineRate <= DeviceRate => position' < DeviceRate
  BY <1>1, AudioAssumption
<1>6. QED  BY <1>1, <1>2, <1>3, <1>4, <1>5, Zenon DEF QueueInv

(* One device frame pops no more frames than the position has passed, and at  *)
(* most one when the device is at least as fast as the engine.                *)
LEMMA MixQueue ==
  ASSUME QueueInv, MixFrame
  PROVE  QueueInv'
<1> USE AudioAssumption DEF QueueInv, FramesAccounted
<1>1. CASE queued >= 2
  <2> DEFINE moved == position + EngineRate
             taken == IF moved \div DeviceRate <= queued - 1
                        THEN moved \div DeviceRate ELSE queued - 1
  <2>1. /\ position' = moved - taken * DeviceRate
        /\ queued' = queued - taken /\ played' = played + taken
        /\ UNCHANGED <<streaming, pushed, dropped, cleared>>
    BY <1>1 DEF MixFrame
  <2>2. moved \in Nat
    OBVIOUS
  <2>3. moved \div DeviceRate \in Nat /\ DeviceRate * (moved \div DeviceRate) <= moved
    <3>1. \A m \in Nat : m \div DeviceRate \in Nat /\ DeviceRate * (m \div DeviceRate) <= m
      <4> SUFFICES ASSUME NEW m \in Nat
                   PROVE  m \div DeviceRate \in Nat /\ DeviceRate * (m \div DeviceRate) <= m
        OBVIOUS
      <4>1. /\ m \div DeviceRate \in Nat /\ m % DeviceRate \in Nat
            /\ m = DeviceRate * (m \div DeviceRate) + (m % DeviceRate)
        BY DivMod
      <4>2. DeviceRate * (m \div DeviceRate) \in Nat
        BY <4>1
      <4>3. QED  BY <4>1, <4>2
    <3>2. QED  BY <2>2, <3>1
  <2>4. taken \in Nat /\ taken <= queued - 1 /\ taken <= moved \div DeviceRate
    BY <1>1, <2>3
  <2>5. taken * DeviceRate \in Nat /\ taken * DeviceRate <= moved
    <3>1. \A q, t \in Nat : t <= q => t * DeviceRate <= DeviceRate * q
      BY Z3
    <3>2. taken * DeviceRate <= DeviceRate * (moved \div DeviceRate)
      BY <2>3, <2>4, <3>1
    <3>3. taken * DeviceRate \in Nat
      BY <2>4
    <3>4. DeviceRate * (moved \div DeviceRate) \in Nat
      BY <2>3
    <3> HIDE DEF taken, moved
    <3>5. QED  BY <2>2, <2>3, <3>2, <3>3, <3>4
  <2>6. queued' \in Nat /\ played' \in Nat /\ position' \in Nat
    <3> HIDE DEF taken, moved
    <3>1. QED  BY <2>1, <2>2, <2>4, <2>5
  <2>7. FramesAccounted'
    <3> HIDE DEF taken, moved
    <3>1. QED  BY <2>1, <2>4
  <2>8. EngineRate <= DeviceRate => position' < DeviceRate
    <3> SUFFICES ASSUME EngineRate <= DeviceRate
                 PROVE  position' < DeviceRate
      OBVIOUS
    <3>1. moved < 2 * DeviceRate
      OBVIOUS
    <3>2. \A m \in Nat : m < 2 * DeviceRate =>
             \/ m < DeviceRate /\ m \div DeviceRate = 0
             \/ m >= DeviceRate /\ m \div DeviceRate = 1
      BY SmallQuotient
    <3>3. \/ moved < DeviceRate /\ moved \div DeviceRate = 0
          \/ moved >= DeviceRate /\ moved \div DeviceRate = 1
      BY <2>2, <3>1, <3>2
    <3>4. CASE moved < DeviceRate
      BY <1>1, <2>1, <2>2, <3>3, <3>4
    <3>5. CASE moved >= DeviceRate
      BY <1>1, <2>1, <2>2, <3>1, <3>3, <3>5
    <3>6. QED  BY <3>3, <3>4, <3>5
  <2>9. QED  BY <2>1, <2>6, <2>7, <2>8
<1>2. CASE ~(queued >= 2)
  BY <1>2 DEF MixFrame
<1>3. QED  BY <1>1, <1>2

(* The parts of the invariant that the guest and the transport add. *)
PlayerInv ==
  /\ player \in Players /\ resting \in Players \ {"loading"} /\ guestFrames \in Nat
  /\ engineOn \in BOOLEAN /\ alwaysOn \in BOOLEAN
  /\ SilentWhenPaused
  /\ player = "loading" => queued = 0

IInv == PlayerInv /\ ClockInv /\ KitInv /\ QueueInv

(* The inductive invariant holds in every reachable state. *)
THEOREM Inductive == Spec => []IInv
<1> USE AudioAssumption
<1>1. Init => IInv
  <2> SUFFICES ASSUME Init
               PROVE  IInv
    OBVIOUS
  <2>1. PlayerInv
    BY DEF Init, PlayerInv, Players, SilentWhenPaused
  <2>2. ClockInv
    BY DEF Init, ClockInv, EngineKeepsTime
  <2>3. QueueInv
    <3>1. queued \in Nat /\ position = 0
          /\ pushed \in Nat /\ played \in Nat /\ dropped \in Nat /\ cleared \in Nat
          /\ FramesAccounted
      BY DEF Init, FramesAccounted
    <3>2. streaming \in BOOLEAN
      BY DEF Init
    <3>3. QED  BY <3>1, <3>2 DEF QueueInv
  <2>4. KitInv
    BY DEF Init, KitInv, BuffersAccounted
  <2>5. QED  BY <2>1, <2>2, <2>3, <2>4 DEF IInv
<1>2. Attach => ClockInv' /\ engineOn' \in BOOLEAN /\ alwaysOn' \in BOOLEAN
  BY DEF Attach, ClockInv, EngineKeepsTime
<1>3. LoadBegins => QueueInv' /\ queued' = 0 /\ KitInv'
  <2> SUFFICES ASSUME LoadBegins
               PROVE  QueueInv' /\ queued' = 0 /\ KitInv'
    OBVIOUS
  <2>1. FramesAccounted'
    BY DEF LoadBegins, FramesAccounted
  <2>2. /\ queued' = 0 /\ position' = 0
        /\ pushed' = 0 /\ played' \in Nat /\ dropped' \in Nat /\ cleared' \in Nat
    BY DEF LoadBegins
  <2>3. streaming' \in BOOLEAN
    BY DEF LoadBegins
  <2>4. KitInv'
    BY <2>2 DEF LoadBegins, Attach, KitInv, BuffersAccounted
  <2>5. QED  BY <2>1, <2>2, <2>3, <2>4 DEF QueueInv
<1>4. ClockInv /\ UNCHANGED engineVars => ClockInv'
  BY DEF ClockInv, EngineKeepsTime, engineVars
<1>5. QueueInv /\ UNCHANGED queueVars => QueueInv'
  BY DEF QueueInv, FramesAccounted, queueVars
<1>6. KitInv /\ UNCHANGED <<kitVars, steps, pushed>> => KitInv'
  BY DEF KitInv, BuffersAccounted, kitVars
<1>7. IInv /\ [Next]_vars => IInv'
  <2> SUFFICES ASSUME IInv, [Next]_vars
               PROVE  IInv'
    OBVIOUS
  <2> USE DEF IInv
  <2>1. CASE LoadBegins
    <3>1. player' = "loading" /\ resting' \in Players \ {"loading"}
      BY <2>1 DEF LoadBegins, Busy, PlayerInv, Players
    <3>2. guestFrames' = guestFrames
      BY <2>1 DEF LoadBegins
    <3>3. ClockInv' /\ engineOn' \in BOOLEAN /\ alwaysOn' \in BOOLEAN
      BY <2>1, <1>2 DEF LoadBegins
    <3>4. PlayerInv'
      BY <2>1, <1>3, <3>1, <3>2, <3>3 DEF PlayerInv, Players, SilentWhenPaused
    <3>5. QED  BY <2>1, <1>3, <3>3, <3>4
  <2>2. CASE Load
    <3>1. PlayerInv'
      BY <2>2 DEF Load, PlayerInv, Players, SilentWhenPaused, engineVars, queueVars
    <3>2. QED  BY <2>2, <1>4, <1>5, <1>6, <3>1 DEF Load, engineVars, queueVars
  <2>3. CASE LoadFails
    <3>1. PlayerInv'
      <4>1. queued = 0
        BY <2>3 DEF LoadFails, Busy, PlayerInv
      <4>2. QED
        BY <2>3, <4>1 DEF LoadFails, PlayerInv, Players, SilentWhenPaused, engineVars, queueVars
    <3>2. QED  BY <2>3, <1>4, <1>5, <1>6, <3>1 DEF LoadFails, engineVars, queueVars
  <2>4. CASE TimerFrame
    <3>1. ClockInv' /\ UNCHANGED <<engineOn, alwaysOn>> /\ steps' - steps \in Nat
      BY <2>4, FrameDoneClock DEF TimerFrame, PlayerInv
    <3>2. Waiting \in Nat /\ steps' * StepFrames = (Waiting + kitDropped) + pushed
      BY <3>1, WaitingFrames DEF ClockInv, QueueInv
    <3>3. KitExcess(Waiting) \in Nat /\ Waiting - KitExcess(Waiting) \in 0 .. KitLimit
      BY <3>2, KitKeeps
    <3>4. QueueInv' /\ pushed' = pushed + (Waiting - KitExcess(Waiting))
      BY <2>4, <3>3, PushQueue DEF TimerFrame
    <3>5. KitInv'
      <4>1. kitQueued' = 0 /\ kitDropped' = kitDropped + KitExcess(Waiting)
        BY <2>4 DEF TimerFrame
      <4>2. kitDropped \in Nat /\ pushed \in Nat
        BY DEF KitInv, QueueInv
      <4>3. kitQueued' \in 0 .. KitLimit /\ kitDropped' \in Nat
        BY <3>3, <4>1, <4>2
      <4>4. steps' * StepFrames = kitQueued' + kitDropped' + pushed'
        BY <3>2, <3>3, <3>4, <4>1, <4>2
      <4>5. QED  BY <4>3, <4>4 DEF KitInv, BuffersAccounted
    <3>6. PlayerInv'
      BY <2>4, <3>1 DEF TimerFrame, PlayerInv, Players, SilentWhenPaused
    <3>7. QED  BY <3>1, <3>4, <3>5, <3>6
  <2>5. CASE FrameFails
    <3>1. PlayerInv'
      BY <2>5 DEF FrameFails, PlayerInv, Players, SilentWhenPaused, engineVars, queueVars
    <3>2. QED  BY <2>5, <1>4, <1>5, <1>6, <3>1 DEF FrameFails, engineVars, queueVars
  <2>6. CASE Pause
    <3>1. QueueInv' /\ queued' = 0 /\ pushed' = pushed
      BY <2>6, ClearQueueInv DEF Pause
    <3>2. PlayerInv'
      BY <2>6, <3>1 DEF Pause, PlayerInv, Players, SilentWhenPaused, engineVars
    <3>3. QED  BY <2>6, <1>4, <1>6, <3>1, <3>2 DEF Pause, engineVars
  <2>7. CASE Resume
    <3>1. PlayerInv'
      BY <2>7 DEF Resume, PlayerInv, Players, SilentWhenPaused, engineVars, queueVars
    <3>2. QED  BY <2>7, <1>4, <1>5, <1>6, <3>1 DEF Resume, engineVars, queueVars
  <2>8. CASE Stop
    <3>1. QueueInv' /\ queued' = 0 /\ pushed' = pushed
      BY <2>8, ClearQueueInv DEF Stop
    <3>2. PlayerInv'
      BY <2>8, <3>1 DEF Stop, PlayerInv, Players, SilentWhenPaused, engineVars
    <3>3. QED  BY <2>8, <1>4, <1>6, <3>1, <3>2 DEF Stop, engineVars
  <2>9. CASE StepEndsFrame
    <3>1. QueueInv' /\ queued' = 0 /\ pushed' = pushed
      <4>1. CASE player = "paused"
        BY <2>9, <4>1, <1>5 DEF StepEndsFrame, PlayerInv, SilentWhenPaused, queueVars
      <4>2. CASE player # "paused"
        BY <2>9, <4>2, ClearQueueInv DEF StepEndsFrame
      <4>3. QED  BY <4>1, <4>2
    <3>2. PlayerInv'
      BY <2>9, <3>1 DEF StepEndsFrame, PlayerInv, Players, SilentWhenPaused, engineVars
    <3>3. QED  BY <2>9, <1>4, <1>6, <3>1, <3>2 DEF StepEndsFrame, engineVars
  <2>10. CASE GuestAudioInit
    <3>1. ClockInv'
      BY <2>10 DEF GuestAudioInit, ClockInv, EngineKeepsTime
    <3>2. PlayerInv'
      BY <2>10 DEF GuestAudioInit, PlayerInv, Players, SilentWhenPaused, guestVars, queueVars
    <3>3. QED  BY <2>10, <1>5, <1>6, <3>1, <3>2 DEF GuestAudioInit, queueVars
  <2>11. CASE GuestAudioShutdown
    <3>1. ClockInv'
      BY <2>11 DEF GuestAudioShutdown, ClockInv, EngineKeepsTime
    <3>2. PlayerInv'
      BY <2>11 DEF GuestAudioShutdown, PlayerInv, Players, SilentWhenPaused, guestVars, queueVars
    <3>3. QED  BY <2>11, <1>5, <1>6, <3>1, <3>2 DEF GuestAudioShutdown, queueVars
  <2>12. CASE \E ms \in Waits : GuestAudioNotes(ms)
    <3>1. PICK ms \in Waits : GuestAudioNotes(ms)
      BY <2>12
    <3>2. ms \in Nat
      OBVIOUS
    <3>3. /\ pendingMs' \in 0 .. StepMs - 1 /\ steps' \in Nat /\ steps' - steps \in Nat
          /\ engineOn => steps' * StepMs + pendingMs' = (steps * StepMs + pendingMs) + ms
      BY <3>1, <3>2, AdvanceClock DEF GuestAudioNotes, ClockInv
    <3>4. /\ UNCHANGED <<guestVars, audioFrames, audioMs, engineOn, alwaysOn, queueVars>>
          /\ delayed' = IF engineOn THEN delayed + ms ELSE delayed
      BY <3>1 DEF GuestAudioNotes
    <3>5. ClockInv'
      <4>1. EngineKeepsTime'
        <5> SUFFICES ASSUME alwaysOn'
                     PROVE  steps' * StepMs + pendingMs' = audioFrames' * FrameMs + delayed'
          BY DEF EngineKeepsTime
        <5>1. engineOn /\ steps * StepMs + pendingMs = audioFrames * FrameMs + delayed
          BY <3>4 DEF ClockInv, EngineKeepsTime
        <5>2. audioFrames * FrameMs \in Nat
          BY DEF ClockInv
        <5>3. steps' * StepMs + pendingMs' = (audioFrames * FrameMs + delayed) + ms
          BY <3>3, <5>1
        <5>4. delayed' = delayed + ms /\ audioFrames' = audioFrames /\ delayed \in Nat
          BY <3>4, <5>1 DEF ClockInv
        <5>5. (audioFrames * FrameMs + delayed) + ms = audioFrames * FrameMs + (delayed + ms)
          BY <3>2, <5>2, <5>4
        <5>6. QED  BY <5>3, <5>4, <5>5
      <4>2. QED  BY <3>2, <3>3, <3>4, <4>1 DEF ClockInv
    <3>6. Waiting \in Nat /\ steps' * StepFrames = (Waiting + kitDropped) + pushed
      BY <3>3, WaitingFrames DEF ClockInv, QueueInv
    <3>7. KitExcess(Waiting) \in Nat /\ Waiting - KitExcess(Waiting) \in 0 .. KitLimit
      BY <3>6, KitKeeps
    <3>8. KitInv'
      <4>1. /\ kitQueued' = Waiting - KitExcess(Waiting)
            /\ kitDropped' = kitDropped + KitExcess(Waiting) /\ pushed' = pushed
        BY <3>1, <3>4 DEF GuestAudioNotes, queueVars
      <4>2. kitDropped \in Nat /\ pushed \in Nat
        BY DEF KitInv, QueueInv
      <4>3. QED  BY <3>6, <3>7, <4>1, <4>2 DEF KitInv, BuffersAccounted
    <3>9. PlayerInv'
      BY <3>4 DEF PlayerInv, Players, SilentWhenPaused, guestVars, queueVars
    <3>10. QED  BY <1>5, <3>4, <3>5, <3>8, <3>9
  <2>13. CASE MixFrame
    <3>1. QueueInv'
      BY <2>13, MixQueue
    <3>2. /\ UNCHANGED <<guestVars, engineVars, kitVars, pushed>>
          /\ queued < 2 => queued' = queued
      BY <2>13 DEF MixFrame, QueueInv
    <3>3. PlayerInv'
      BY <3>2 DEF PlayerInv, Players, SilentWhenPaused, guestVars, engineVars
    <3>4. KitInv'
      BY <1>6, <3>2 DEF engineVars
    <3>5. QED  BY <1>4, <3>1, <3>2, <3>3, <3>4
  <2>14. CASE UNCHANGED vars
    <3>1. PlayerInv'
      BY <2>14 DEF vars, PlayerInv, Players, SilentWhenPaused, guestVars, engineVars, queueVars
    <3>2. QED  BY <2>14, <1>4, <1>5, <1>6, <3>1 DEF vars, engineVars, queueVars
  <2>15. QED
    BY <2>1, <2>2, <2>3, <2>4, <2>5, <2>6, <2>7, <2>8, <2>9, <2>10, <2>11, <2>12, <2>13, <2>14
       DEF Next
<1>8. QED  BY <1>1, <1>7, PTL DEF Spec

(* Every frame pushed into the queue is played, dropped, cleared or still     *)
(* there, for every queue limit.                                              *)
THEOREM NoFrameLost == Spec => []FramesAccounted
<1>1. IInv => FramesAccounted
  BY DEF IInv, QueueInv
<1>2. QED  BY <1>1, Inductive, PTL

(* The type invariant follows from the inductive one. *)
THEOREM TypeCorrect == Spec => []TypeOK
<1>1. IInv => TypeOK
  <2>1. ClockInv => audioMs \in Nat
    BY AudioAssumption DEF ClockInv
  <2>2. QED  BY <2>1 DEF IInv, PlayerInv, ClockInv, KitInv, QueueInv, TypeOK
<1>2. QED  BY <1>1, Inductive, PTL

(* Every frame the engine mixed is in the kit's queue, dropped there or       *)
(* pushed once, for every buffer length and every limit of the kit's queue.   *)
THEOREM NoBufferLost == Spec => []BuffersAccounted
<1>1. IInv => BuffersAccounted
  BY DEF IInv, KitInv
<1>2. QED  BY <1>1, Inductive, PTL

(* A player that is paused or stopped has nothing left to play. *)
THEOREM SilentSafe == Spec => []SilentWhenPaused
<1>1. IInv => SilentWhenPaused
  BY DEF IInv, PlayerInv
<1>2. QED  BY <1>1, Inductive, PTL

(* A device that runs at the engine's rate or faster only ever hears samples  *)
(* between two neighbours of the queue.                                       *)
THEOREM InterpolationSafe == EngineRate <= DeviceRate => (Spec => []Interpolates)
<1> SUFFICES ASSUME EngineRate <= DeviceRate
             PROVE  Spec => []Interpolates
  OBVIOUS
<1>1. IInv => Interpolates
  BY DEF IInv, QueueInv, Interpolates
<1>2. QED  BY <1>1, Inductive, PTL

(* The engine's buffers and the guest's frames stay in step for every frame   *)
(* period and every buffer length.                                            *)
THEOREM EngineTimeKept == Spec => []EngineKeepsTime
<1>1. IInv => EngineKeepsTime
  BY DEF IInv, ClockInv
<1>2. QED  BY <1>1, Inductive, PTL

(* No sample frame is lost or repeated unaccounted for on its way from the   *)
(* engine to the device.                                                     *)
THEOREM SoundIsAccounted == Spec => []SoundAccounted
BY NoFrameLost, NoBufferLost, EngineTimeKept, PTL DEF SoundAccounted

(* A player at rest is silent. *)
THEOREM PlayerIsSilenced == Spec => []PlayerSilenced
BY TypeCorrect, SilentSafe, PTL DEF PlayerSilenced
=============================================================================
