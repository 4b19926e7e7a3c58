---------------------------- MODULE PlayerProofs ----------------------------
(***************************************************************************)
(* The session invariants of Player for every guest program, every set of  *)
(* cartridges and every slice length.                                      *)
(***************************************************************************)
EXTENDS Player, TLAPS

(* What the transport and the slices keep together.  The timer needs a       *)
(* running, unpaused session; a session needs a loaded cartridge; a handler  *)
(* that is in the middle of a slice belongs to a live timer.                 *)
SessionInv ==
  /\ timerActive => running /\ ~paused
  /\ running => cart # NoCart
  /\ handler # "none" => timerActive

(* A frame in progress has a guest call in progress. *)
CallInv == phase # "idle" => pc # Sentinel

(* A resume from a breakpoint carries its permission until the guest moves. *)
PermissionInv == ~moved /\ resumedAt # NoAddr => ignoreBreakpointOnce

IInv ==
  TypeOK /\ SessionInv /\ CallInv /\ FrameInputKept /\ OnePassPerResume /\ PermissionInv

(* What every way to run the guest leaves in Runtime. *)
GuestOK ==
  /\ rtInput' \in SUBSET Button
  /\ pc' \in Addr \cup {Sentinel}
  /\ phase' \in {"idle", "update", "draw"}
  /\ cart' = cart
  /\ CallInv'

(* A successful instruction leaves the guest in a phase and at an address. *)
LEMMA StepToType ==
  ASSUME TypeOK, CallInv, NEW input \in SUBSET Button, NEW next, StepTo(input, next)
  PROVE  GuestOK
<1> USE PlayerAssumption DEF Addr
<1>1. StepPc \in Addr
  BY DEF StepPc, TypeOK, DataOK, CallInv
<1>2. StepPhase \in {"update", "draw"}
  BY DEF StepPhase, TypeOK, DataOK
<1>3. next \in Addr \cup {Sentinel}
  BY <1>1 DEF StepTo
<1>4. CASE next # Sentinel
  BY <1>2, <1>3, <1>4 DEF StepTo, CallInv, GuestOK
<1>5. CASE next = Sentinel
  BY <1>2, <1>5 DEF StepTo, CallInv, GuestOK
<1>6. QED  BY <1>4, <1>5

(* A trapping instruction leaves the call it belongs to in progress. *)
LEMMA StepTrapsType ==
  ASSUME TypeOK, CallInv, NEW input \in SUBSET Button, StepTraps(input)
  PROVE  GuestOK
BY PlayerAssumption DEF GuestOK, StepTraps, StepPc, StepPhase, TypeOK, DataOK, CallInv, Addr

(* What a frame is given is a set of buttons. *)
LEMMA FrameInputType == ASSUME TypeOK PROVE FrameInput \in SUBSET Button
BY DEF TypeOK, DataOK, InputTypeOK, FrameInput, Merged

(* Every reachable state satisfies the inductive invariant. *)
THEOREM Inductive == Spec => []IInv
<1> USE PlayerAssumption
    DEF TypeOK, InputTypeOK, SessionInv, CallInv, FrameInputKept, OnePassPerResume,
        PermissionInv, Addr, NoAddr, inputVars, playVars, modeVars, bpVars, guestVars, tickVars,
        traceVars
<1>1. Init => IInv
  <2> SUFFICES ASSUME Init
               PROVE  IInv
    OBVIOUS
  <2>1. FlagsOK /\ SessionInv /\ PermissionInv
    BY DEF Init, FlagsOK
  <2>2. DataOK /\ CallInv /\ FrameInputKept /\ OnePassPerResume
    BY DEF Init, NoInput, DataOK
  <2>3. QED  BY <2>1, <2>2, Zenon DEF IInv
<1>2. IInv /\ [Next]_vars => IInv'
  <2> SUFFICES ASSUME IInv, [Next]_vars
               PROVE  IInv'
    OBVIOUS
  <2>1. CASE Pause
    <3>1. FlagsOK' /\ SessionInv' /\ PermissionInv'
      BY <2>1 DEF IInv, FlagsOK, Pause, PauseEffect, ResetInput, Idle
    <3>2. DataOK' /\ CallInv' /\ FrameInputKept' /\ OnePassPerResume'
      BY <2>1 DEF IInv, FlagsOK, DataOK, Pause, PauseEffect, ResetInput, Idle
    <3>3. QED  BY <3>1, <3>2, Zenon DEF IInv
  <2>2. CASE Resume
    <3>1. FlagsOK' /\ SessionInv' /\ PermissionInv'
      <4>1. CASE ExecutionAddress \in debugBreakpoints
        BY <2>2, <4>1 DEF IInv, FlagsOK, Resume, Idle
      <4>2. CASE ExecutionAddress \notin debugBreakpoints
        BY <2>2, <4>2 DEF IInv, FlagsOK, Resume, Idle
      <4>3. QED  BY <4>1, <4>2
    <3>2. DataOK' /\ CallInv' /\ FrameInputKept' /\ OnePassPerResume'
      BY <2>2 DEF IInv, FlagsOK, DataOK, Resume, ExecutionAddress, Idle
    <3>3. QED  BY <3>1, <3>2, Zenon DEF IInv
  <2>3. CASE Stop
    <3>1. FlagsOK' /\ SessionInv' /\ PermissionInv'
      BY <2>3 DEF IInv, FlagsOK, Stop, ResetInput, Idle
    <3>2. DataOK' /\ CallInv' /\ FrameInputKept' /\ OnePassPerResume'
      BY <2>3 DEF IInv, FlagsOK, DataOK, Stop, ResetInput, Idle
    <3>3. QED  BY <3>1, <3>2, Zenon DEF IInv
  <2>4. CASE DebugStep
    <3> DEFINE input == IF paused THEN FrameInput ELSE {}
    <3>1. GuestOK
      <4>1. input \in SUBSET Button
        BY FrameInputType DEF IInv
      <4>2. PICK next \in Succ[StepPc] \cup {Sentinel} : StepTo(input, next) \/ StepTraps(input)
        BY <2>4 DEF DebugStep
      <4>3. QED  BY <4>1, <4>2, StepToType, StepTrapsType DEF IInv, GuestOK
    <3>2. InputTypeOK' /\ frameTaken' \in {{}, frameTaken}
      BY <2>4 DEF IInv, DataOK, DebugStep, PauseEffect, ResetInput, TakeMerged
    <3>3. FlagsOK' /\ SessionInv' /\ PermissionInv'
      BY <2>4, <3>1 DEF IInv, FlagsOK, DebugStep, PauseEffect, Idle, GuestOK
    <3>4. DataOK' /\ CallInv' /\ FrameInputKept' /\ OnePassPerResume'
      <4>1. DataOK'
        BY <2>4, <3>1, <3>2 DEF IInv, DataOK, DebugStep, GuestOK
      <4>2. FrameInputKept'
        BY <2>4, <3>2 DEF IInv, DebugStep
      <4>3. OnePassPerResume'
        BY <2>4 DEF IInv, DebugStep
      <4>4. QED  BY <3>1, <4>1, <4>2, <4>3, Zenon DEF GuestOK
    <3>5. QED  BY <3>3, <3>4, Zenon DEF IInv
  <2>5. CASE SetDebugEnabled \/ SetDebugInstrumentation
    <3>1. FlagsOK' /\ SessionInv' /\ PermissionInv'
      <4>1. FlagsOK'
        BY <2>5, Zenon DEF IInv, FlagsOK, SetDebugEnabled, SetDebugInstrumentation
      <4>2. SessionInv' /\ PermissionInv'
        BY <2>5 DEF IInv, SetDebugEnabled, SetDebugInstrumentation
      <4>3. QED  BY <4>1, <4>2
    <3>2. DataOK' /\ CallInv' /\ FrameInputKept' /\ OnePassPerResume'
      BY <2>5 DEF IInv, FlagsOK, DataOK, SetDebugEnabled, SetDebugInstrumentation
    <3>3. QED  BY <3>1, <3>2, Zenon DEF IInv
  <2>6. ASSUME NEW a \in Addr, ToggleBreakpoint(a)
        PROVE  IInv'
    <3>1. FlagsOK' /\ SessionInv' /\ PermissionInv'
      BY <2>6 DEF IInv, FlagsOK, ToggleBreakpoint
    <3>2. DataOK' /\ CallInv' /\ FrameInputKept' /\ OnePassPerResume'
      BY <2>6 DEF IInv, FlagsOK, DataOK, ToggleBreakpoint
    <3>3. QED  BY <3>1, <3>2, Zenon DEF IInv
  <2>7. ASSUME NEW b \in Button, NEW down \in BOOLEAN, SetButton(b, down)
        PROVE  IInv'
    <3>1. FlagsOK' /\ SessionInv' /\ PermissionInv'
      BY <2>7 DEF IInv, FlagsOK, SetButton
    <3>2. InputTypeOK'
      BY <2>7 DEF IInv, DataOK, SetButton, SetDown, SetUp
    <3>3. DataOK' /\ CallInv' /\ FrameInputKept' /\ OnePassPerResume'
      BY <2>7, <3>2 DEF IInv, DataOK, SetButton
    <3>4. QED  BY <3>1, <3>3, Zenon DEF IInv
  <2>8. ASSUME NEW c \in Cart, LoadSucceeds(c)
        PROVE  IInv'
    <3>1. FlagsOK' /\ SessionInv' /\ PermissionInv'
      BY <2>8 DEF IInv, FlagsOK, LoadSucceeds
    <3>2. DataOK' /\ CallInv' /\ FrameInputKept' /\ OnePassPerResume'
      BY <2>8 DEF IInv, FlagsOK, DataOK, LoadSucceeds
    <3>3. QED  BY <3>1, <3>2, Zenon DEF IInv
  <2>9. ASSUME NEW c \in Trapping, LoadInitFails(c)
        PROVE  IInv'
    <3>1. FlagsOK' /\ SessionInv' /\ PermissionInv'
      BY <2>9 DEF IInv, FlagsOK, LoadInitFails, Idle
    <3>2. DataOK' /\ CallInv' /\ FrameInputKept' /\ OnePassPerResume'
      BY <2>9 DEF IInv, FlagsOK, DataOK, LoadInitFails, Idle
    <3>3. QED  BY <3>1, <3>2, Zenon DEF IInv
  <2>10. CASE LoadRefused
    <3>1. FlagsOK' /\ SessionInv' /\ PermissionInv'
      BY <2>10 DEF IInv, FlagsOK, LoadRefused, Idle
    <3>2. DataOK' /\ CallInv' /\ FrameInputKept' /\ OnePassPerResume'
      BY <2>10 DEF IInv, FlagsOK, DataOK, LoadRefused, Idle
    <3>3. QED  BY <3>1, <3>2, Zenon DEF IInv
  <2>11. CASE TickFrame
    <3>1. GuestOK
      BY <2>11, FrameInputType DEF IInv, DataOK, TickFrame, FrameCompletes, FrameFails, GuestOK
    <3>2. frameTaken' \in {{}, frameTaken}
      BY <2>11 DEF TickFrame
    <3>3. FlagsOK' /\ SessionInv' /\ PermissionInv'
      <4>1. moved' = TRUE /\ handler' = "none" /\ cart' = cart /\ paused' = paused
            /\ UNCHANGED <<debugEnabled, debugInstrumentation, ignoreBreakpointOnce>>
        BY <2>11, <3>1 DEF TickFrame, Idle, GuestOK
      <4>2. \/ UNCHANGED <<running, timerActive>>
            \/ running' = FALSE /\ timerActive' = FALSE
        BY <2>11 DEF TickFrame
      <4>3. FlagsOK' /\ PermissionInv'
        BY <4>1, <4>2 DEF IInv, FlagsOK
      <4>4. SessionInv'
        BY <4>1, <4>2 DEF IInv
      <4>5. QED  BY <4>3, <4>4
    <3>4. DataOK' /\ CallInv' /\ FrameInputKept' /\ OnePassPerResume'
      BY <2>11, <3>1, <3>2 DEF IInv, DataOK, TickFrame, TakeMerged, GuestOK
    <3>5. QED  BY <3>3, <3>4, Zenon DEF IInv
  <2>12. CASE TickSlice
    <3>1. FlagsOK' /\ SessionInv' /\ PermissionInv'
      BY <2>12 DEF IInv, FlagsOK, TickSlice, TakeMerged
    <3>2. DataOK' /\ CallInv' /\ FrameInputKept' /\ OnePassPerResume'
      BY FrameInputType, <2>12 DEF IInv, FlagsOK, DataOK, TickSlice, TakeMerged
    <3>3. QED  BY <3>1, <3>2, Zenon DEF IInv
  <2>13. CASE SliceStopsAtBreakpoint
    <3>1. FlagsOK' /\ SessionInv' /\ PermissionInv'
      BY <2>13 DEF IInv, FlagsOK, SliceStopsAtBreakpoint, PauseEffect, ResetInput
    <3>2. DataOK' /\ CallInv' /\ FrameInputKept' /\ OnePassPerResume'
      BY <2>13 DEF IInv, FlagsOK, DataOK, SliceStopsAtBreakpoint, PauseEffect, ResetInput
    <3>3. QED  BY <3>1, <3>2, Zenon DEF IInv
  <2>14. ASSUME NEW next \in Addr \cup {Sentinel}, SliceInstruction(next)
         PROVE  IInv'
    <3>1. GuestOK
      BY <2>14, StepToType DEF IInv, DataOK, SliceInstruction, GuestOK
    <3>2. /\ handler' \in {"none", "slice", "drain"} /\ budget' \in 0 .. MaxSlice
          /\ handler # "none"
      <4>1. CASE phase' = "idle"
        BY <2>14, <4>1 DEF SliceInstruction
      <4>2. CASE phase' # "idle"
        BY <2>14, <3>1, <4>2 DEF IInv, DataOK, SliceInstruction, GuestOK
      <4>3. QED  BY <4>1, <4>2
    <3>3. frameTaken' \subseteq debugFrameInput' /\ debugFrameInput' \subseteq Button
      BY <2>14 DEF IInv, DataOK, SliceInstruction
    <3>4. FlagsOK' /\ SessionInv' /\ PermissionInv'
      BY <2>14, <3>1, <3>2 DEF IInv, FlagsOK, SliceInstruction, PassBreakpoint, GuestOK
    <3>5. DataOK' /\ CallInv' /\ FrameInputKept' /\ OnePassPerResume'
      BY <2>14, <3>1, <3>2, <3>3
      DEF IInv, FlagsOK, DataOK, SliceInstruction, PassBreakpoint, GuestOK
    <3>6. QED  BY <3>4, <3>5, Zenon DEF IInv
  <2>15. CASE SliceTraps
    <3>1. GuestOK
      BY <2>15, StepTrapsType DEF IInv, DataOK, SliceTraps, GuestOK
    <3>2. FlagsOK' /\ SessionInv' /\ PermissionInv'
      BY <2>15, <3>1 DEF IInv, FlagsOK, SliceTraps, PassBreakpoint, GuestOK
    <3>3. DataOK' /\ CallInv' /\ FrameInputKept' /\ OnePassPerResume'
      BY <2>15, <3>1 DEF IInv, FlagsOK, DataOK, SliceTraps, PassBreakpoint, GuestOK
    <3>4. QED  BY <3>2, <3>3, Zenon DEF IInv
  <2>16. CASE UNCHANGED vars
    <3>1. FlagsOK' /\ SessionInv' /\ PermissionInv'
      BY <2>16 DEF IInv, FlagsOK, vars
    <3>2. DataOK' /\ CallInv' /\ FrameInputKept' /\ OnePassPerResume'
      BY <2>16 DEF IInv, FlagsOK, DataOK, vars
    <3>3. QED  BY <3>1, <3>2, Zenon DEF IInv
  <2>17. QED
    BY <2>1, <2>2, <2>3, <2>4, <2>5, <2>6, <2>7, <2>8, <2>9, <2>10, <2>11, <2>12, <2>13,
       <2>14, <2>15, <2>16 DEF Next
<1>3. QED  BY <1>1, <1>2, PTL DEF Spec

(* Every variable keeps to its type. *)
THEOREM TypeCorrect == Spec => []TypeOK
<1>1. IInv => TypeOK
  BY DEF IInv
<1>2. QED  BY <1>1, Inductive, PTL

(* The frame timer runs only a loaded cartridge that is running and not      *)
(* paused, whatever the guest program does.                                  *)
THEOREM TimerSafe == Spec => []TimerOnlyWhilePlaying
<1>1. IInv => TimerOnlyWhilePlaying
  BY DEF IInv, SessionInv, TimerOnlyWhilePlaying
<1>2. QED  BY <1>1, Inductive, PTL

(* No button that a slice took is missing from the later instructions of the *)
(* same frame, for every slice length.                                       *)
THEOREM FrameInputSafe == Spec => []FrameInputKept
<1>1. IInv => FrameInputKept
  BY DEF IInv
<1>2. QED  BY <1>1, Inductive, PTL

(* A resume passes at most one breakpoint, for every guest program and every *)
(* set of breakpoints.                                                       *)
THEOREM PassesBounded == Spec => []OnePassPerResume
<1>1. IInv => OnePassPerResume
  BY DEF IInv
<1>2. QED  BY <1>1, Inductive, PTL

(* A player resumed from a breakpoint is not stopped there before the guest  *)
(* has moved.                                                                *)
THEOREM ResumeProgress == Spec => ResumeMovesOn
<1>1. IInv /\ [Next]_vars
        => [SliceStopsAtBreakpoint => moved \/ ExecutionAddress # resumedAt]_vars
  <2> SUFFICES ASSUME IInv, SliceStopsAtBreakpoint, ~moved
               PROVE  ExecutionAddress # resumedAt
    BY Zenon
  <2>1. ExecutionAddress # Sentinel
    BY PlayerAssumption DEF ExecutionAddress
  <2>2. resumedAt = NoAddr
    BY DEF SliceStopsAtBreakpoint, IInv, PermissionInv
  <2>3. QED  BY <2>1, <2>2 DEF NoAddr
<1>2. QED  BY <1>1, Inductive, PTL DEF Spec, ResumeMovesOn

(* The player's session stays consistent for every guest program.            *)
THEOREM SessionSafe == Spec => []SessionConsistent
BY TypeCorrect, TimerSafe, PassesBounded, PTL DEF SessionConsistent
=============================================================================
