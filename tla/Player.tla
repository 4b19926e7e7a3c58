------------------------------- MODULE Player -------------------------------
(***************************************************************************)
(* The player and debugger session: AppController (frame timer, pause,     *)
(* resume, stop, cartridge load, breakpoints, instruction slices) driving  *)
(* Runtime's two ways to run a frame: whole (frame) and one instruction at *)
(* a time (debugStep).                                                     *)
(*                                                                         *)
(* The guest is a control-flow graph: an instruction moves pc to one of    *)
(* its successors, returns, or traps.  Everything happens on the Qt event  *)
(* loop.  A debug slice is the one handler modelled instruction by         *)
(* instruction: while `handler` is not "none" no other action is enabled.  *)
(***************************************************************************)
EXTENDS InputState, Integers

CONSTANTS
  Cart,        (* cartridges that can be loaded                             *)
  Trapping,    (* those whose init function can trap                        *)
  NoCart,
  Code,        (* guest instruction addresses                               *)
  Host,        (* host-call addresses: executable, not in guest memory      *)
  Sentinel,    (* ReturnSentinel: the pc of a call that has returned        *)
  UpdateEntry, DrawEntry,
  Succ,        (* Succ[a]: where the instruction at a can continue          *)
  MaxSlice     (* bound on debugInstructionsPerFrame_ / DebugSlicesPerFrame *)

ASSUME PlayerAssumption ==
  /\ "Ui" \in Source
  /\ Trapping \subseteq Cart /\ NoCart \notin Cart
  /\ Code \cap Host = {} /\ Sentinel \notin Code \cup Host
  /\ UpdateEntry \in Code /\ DrawEntry \in Code
  /\ Succ \in [Code \cup Host -> SUBSET (Code \cup Host \cup {Sentinel})]
  /\ MaxSlice \in Nat \ {0}

VARIABLES
  running, paused, timerActive,
  debugEnabled, debugInstrumentation,
  debugBreakpoints, ignoreBreakpointOnce,
  debugFrameInput,   (* buttons the slices of the current frame have taken    *)
  cart,              (* Runtime::cart_, or NoCart before loaded_              *)
  phase, pc,         (* Runtime::debugPhase_ and Rv32Cpu::pc_                 *)
  rtInput,           (* Runtime::input_: what the guest reads                 *)
  handler, budget,   (* where the timer handler is, and its instructions left *)
  \* history
  frameTaken,        (* buttons taken for the current frame by its slices     *)
  resumedAt,         (* the breakpoint the last resume started from           *)
  moved,             (* the guest has executed since that resume              *)
  passes             (* breakpoints passed without a stop since that resume   *)

inputVars == <<masks, pendingPresses>>
playVars == <<running, paused, timerActive>>
modeVars == <<debugEnabled, debugInstrumentation>>
bpVars == <<debugBreakpoints, ignoreBreakpointOnce>>
guestVars == <<cart, phase, pc, rtInput>>
tickVars == <<handler, budget>>
traceVars == <<resumedAt, moved, passes>>
vars == <<inputVars, playVars, modeVars, bpVars, guestVars, tickVars, traceVars,
          debugFrameInput, frameTaken>>

Addr == Code \cup Host
NoAddr == Sentinel

FlagsOK ==
  /\ running \in BOOLEAN /\ paused \in BOOLEAN /\ timerActive \in BOOLEAN
  /\ debugEnabled \in BOOLEAN /\ debugInstrumentation \in BOOLEAN
  /\ ignoreBreakpointOnce \in BOOLEAN /\ moved \in BOOLEAN

DataOK ==
  /\ InputTypeOK
  /\ debugBreakpoints \subseteq Code
  /\ debugFrameInput \subseteq Button /\ frameTaken \subseteq Button /\ rtInput \subseteq Button
  /\ cart \in Cart \cup {NoCart}
  /\ phase \in {"idle", "update", "draw"}
  /\ pc \in Addr \cup {Sentinel}
  /\ handler \in {"none", "slice", "drain"} /\ budget \in 0 .. MaxSlice
  /\ resumedAt \in Addr \cup {NoAddr} /\ passes \in Nat

TypeOK == FlagsOK /\ DataOK

Init ==
  /\ NoInput
  /\ running = FALSE /\ paused = FALSE /\ timerActive = FALSE
  /\ debugEnabled \in BOOLEAN /\ debugInstrumentation = TRUE
  /\ debugBreakpoints = {} /\ ignoreBreakpointOnce = FALSE
  /\ debugFrameInput = {} /\ frameTaken = {}
  /\ cart = NoCart /\ phase = "idle" /\ pc = Sentinel /\ rtInput = {}
  /\ handler = "none" /\ budget = 0
  /\ resumedAt = NoAddr /\ moved = FALSE /\ passes = 0

(* debugExecutionAddress(): the next instruction, or the entry of the next frame. *)
ExecutionAddress == IF pc # Sentinel THEN pc ELSE UpdateEntry
-----------------------------------------------------------------------------
(* Runtime::debugStep.  A step from idle first begins the update call; a      *)
(* returning update begins draw, a returning draw ends the frame.             *)

StepPc == IF phase = "idle" THEN UpdateEntry ELSE pc
StepPhase == IF phase = "idle" THEN "update" ELSE phase

StepTo(input, next) ==
  /\ next \in Succ[StepPc]
  /\ rtInput' = input
  /\ CASE next # Sentinel -> pc' = next /\ phase' = StepPhase
       [] next = Sentinel /\ StepPhase = "update" -> pc' = DrawEntry /\ phase' = "draw"
       [] next = Sentinel /\ StepPhase = "draw" -> pc' = Sentinel /\ phase' = "idle"
  /\ UNCHANGED cart

StepTraps(input) ==
  /\ StepPc \in Code
  /\ rtInput' = input /\ pc' = StepPc /\ phase' = StepPhase
  /\ UNCHANGED cart

(* Runtime::frame.  It finishes a frame the debugger has begun instead of     *)
(* starting one; a trap or an exhausted budget leaves the call where it is.   *)
FrameCompletes(input) ==
  /\ rtInput' = input /\ phase' = "idle" /\ pc' = Sentinel
  /\ UNCHANGED cart

FrameFails(input) ==
  /\ rtInput' = input
  /\ pc' \in Addr
  /\ phase' \in CASE phase = "idle" -> {"idle"}
                  [] phase = "update" -> {"update", "draw"}
                  [] phase = "draw" -> {"draw"}
  /\ UNCHANGED cart
-----------------------------------------------------------------------------
(* The transport. *)

Idle == handler = "none"

PauseEffect ==
  /\ timerActive' = FALSE /\ paused' = TRUE
  /\ ResetInput
  /\ UNCHANGED running

Pause ==
  /\ Idle /\ running /\ ~paused
  /\ PauseEffect
  /\ UNCHANGED <<modeVars, bpVars, guestVars, tickVars, traceVars, debugFrameInput, frameTaken>>

(* Mutant: resuming does not step over the breakpoint it is at. *)
ResumeOntoBreakpoint ==
  /\ Idle /\ running /\ paused
  /\ resumedAt' = IF ExecutionAddress \in debugBreakpoints THEN ExecutionAddress ELSE NoAddr
  /\ moved' = FALSE /\ passes' = 0
  /\ paused' = FALSE /\ timerActive' = TRUE
  /\ UNCHANGED <<inputVars, running, modeVars, bpVars, guestVars, tickVars,
                 debugFrameInput, frameTaken>>

Resume ==
  /\ Idle /\ running /\ paused
  /\ IF ExecutionAddress \in debugBreakpoints
       THEN ignoreBreakpointOnce' = TRUE /\ resumedAt' = ExecutionAddress
       ELSE ignoreBreakpointOnce' = FALSE /\ resumedAt' = NoAddr
  /\ moved' = FALSE /\ passes' = 0
  /\ paused' = FALSE /\ timerActive' = TRUE
  /\ UNCHANGED <<inputVars, running, modeVars, debugBreakpoints, guestVars, tickVars,
                 debugFrameInput, frameTaken>>

Stop ==
  /\ Idle
  /\ timerActive' = FALSE /\ paused' = FALSE /\ running' = FALSE
  /\ ResetInput
  /\ UNCHANGED <<modeVars, bpVars, guestVars, tickVars, traceVars, debugFrameInput, frameTaken>>

(* debugStep(): pauses first, then runs exactly one instruction on the input  *)
(* that is left; nothing of debugFrameInput_ takes part.                      *)
DebugStep ==
  /\ Idle /\ debugEnabled /\ running
  /\ IF paused THEN TakeMerged /\ UNCHANGED playVars ELSE PauseEffect
  /\ LET input == IF paused THEN FrameInput ELSE {}
     IN  \/ \E next \in Succ[StepPc] : StepTo(input, next)
         \/ StepTraps(input)
  /\ frameTaken' = IF phase' = "idle" THEN {} ELSE frameTaken
  /\ moved' = TRUE
  /\ UNCHANGED <<modeVars, bpVars, tickVars, resumedAt, passes, debugFrameInput>>

SetDebugEnabled ==
  /\ Idle /\ debugEnabled' = ~debugEnabled
  /\ UNCHANGED <<inputVars, playVars, debugInstrumentation, bpVars, guestVars, tickVars, traceVars,
                 debugFrameInput, frameTaken>>

SetDebugInstrumentation ==
  /\ Idle /\ debugInstrumentation' = ~debugInstrumentation
  /\ UNCHANGED <<inputVars, playVars, debugEnabled, bpVars, guestVars, tickVars, traceVars,
                 debugFrameInput, frameTaken>>

(* A breakpoint address must be readable guest memory, which NoCart has none of. *)
ToggleBreakpoint(a) ==
  /\ Idle
  /\ cart # NoCart /\ a \in Code
  /\ IF a \in debugBreakpoints
       THEN debugBreakpoints' = debugBreakpoints \ {a}
       ELSE debugBreakpoints' = debugBreakpoints \cup {a}
  /\ UNCHANGED <<inputVars, playVars, modeVars, ignoreBreakpointOnce, guestVars, tickVars, traceVars,
                 debugFrameInput, frameTaken>>

SetButton(b, down) ==
  /\ Idle
  /\ IF down THEN SetDown("Ui", {b}) ELSE SetUp("Ui", {b})
  /\ UNCHANGED <<playVars, modeVars, bpVars, guestVars, tickVars, traceVars,
                 debugFrameInput, frameTaken>>
-----------------------------------------------------------------------------
(* loadBytes: the running cartridge is stopped before the new one is known to *)
(* be usable.  (A cartridge that does not parse changes nothing.)             *)

LoadSucceeds(c) ==
  /\ Idle
  /\ cart' = c /\ phase' = "idle" /\ pc' = Sentinel
  /\ debugFrameInput' = {} /\ frameTaken' = {}
  /\ debugBreakpoints' = {} /\ ignoreBreakpointOnce' = FALSE
  /\ resumedAt' = NoAddr /\ moved' = FALSE /\ passes' = 0
  /\ timerActive' = TRUE /\ running' = TRUE /\ paused' = FALSE
  /\ UNCHANGED <<inputVars, modeVars, rtInput, tickVars>>

(* Runtime::load or the audio engine refuses it: the old guest memory stays. *)
LoadRefused ==
  /\ Idle
  /\ timerActive' = FALSE
  /\ UNCHANGED <<inputVars, running, paused, modeVars, bpVars, guestVars, tickVars, traceVars,
                 debugFrameInput, frameTaken>>

(* Runtime::load installed it and its init function trapped. *)
LoadInitFails(c) ==
  /\ Idle
  /\ timerActive' = FALSE
  /\ cart' = c /\ phase' = "idle" /\ pc' \in Code
  /\ frameTaken' = {} /\ moved' = TRUE
  /\ UNCHANGED <<inputVars, running, paused, modeVars, bpVars, rtInput, tickVars, resumedAt, passes,
                 debugFrameInput>>
-----------------------------------------------------------------------------
(* The frame timer's handler. *)

(* Whole-frame path: one Runtime::frame with the merged input. *)
TickFrame ==
  /\ Idle /\ timerActive /\ ~(debugEnabled /\ debugInstrumentation)
  /\ TakeMerged
  /\ \/ FrameCompletes(FrameInput) /\ UNCHANGED playVars
     \/ FrameFails(FrameInput) /\ timerActive' = FALSE /\ running' = FALSE /\ UNCHANGED paused
  /\ frameTaken' = IF phase' = "idle" THEN {} ELSE frameTaken
  /\ moved' = TRUE
  /\ UNCHANGED <<modeVars, bpVars, tickVars, resumedAt, passes, debugFrameInput>>

(* Mutant: the slice's input replaces what earlier slices took. *)
TickSliceReplacesInput ==
  /\ Idle /\ timerActive /\ debugEnabled /\ debugInstrumentation
  /\ debugFrameInput' = FrameInput
  /\ frameTaken' = frameTaken \cup FrameInput
  /\ TakeMerged
  /\ handler' = "slice" /\ budget' \in 1 .. MaxSlice
  /\ UNCHANGED <<playVars, modeVars, bpVars, guestVars, traceVars>>

(* Debug path: a slice of at most `budget` instructions ... *)
TickSlice ==
  /\ Idle /\ timerActive /\ debugEnabled /\ debugInstrumentation
  /\ debugFrameInput' = debugFrameInput \cup FrameInput
  /\ frameTaken' = frameTaken \cup FrameInput
  /\ TakeMerged
  /\ handler' = "slice" /\ budget' \in 1 .. MaxSlice
  /\ UNCHANGED <<playVars, modeVars, bpVars, guestVars, traceVars>>

AtBreakpoint == ExecutionAddress \in debugBreakpoints

(* ... that pauses the player before an instruction with a breakpoint ... *)
SliceStopsAtBreakpoint ==
  /\ handler # "none"
  /\ AtBreakpoint /\ ~ignoreBreakpointOnce
  /\ IF running /\ ~paused THEN PauseEffect ELSE UNCHANGED <<playVars, inputVars>>
  /\ handler' = "none" /\ budget' = 0
  /\ UNCHANGED <<modeVars, bpVars, guestVars, traceVars, debugFrameInput, frameTaken>>

(* pauseAtBreakpoint() returning false: the flag is spent on a breakpoint only. *)
PassBreakpoint ==
  /\ AtBreakpoint => ignoreBreakpointOnce
  /\ ignoreBreakpointOnce' = (ignoreBreakpointOnce /\ ~AtBreakpoint)
  /\ passes' = IF AtBreakpoint THEN passes + 1 ELSE passes
  /\ moved' = TRUE
  /\ UNCHANGED <<debugBreakpoints, resumedAt>>

(* ... or retires one instruction, going on after the budget only until pc is *)
(* back in guest memory ...                                                   *)
SliceInstruction(next) ==
  /\ handler # "none"
  /\ PassBreakpoint
  /\ StepTo(debugFrameInput, next)
  /\ LET left == IF budget = 0 THEN 0 ELSE budget - 1
     IN  IF phase' = "idle"
           THEN handler' = "none" /\ budget' = 0 /\ debugFrameInput' = {} /\ frameTaken' = {}
           ELSE /\ budget' = left
                /\ handler' = CASE left > 0 -> "slice"
                                [] left = 0 /\ pc' \in Code -> "none"
                                [] left = 0 /\ pc' \notin Code -> "drain"
                /\ UNCHANGED <<debugFrameInput, frameTaken>>
  /\ UNCHANGED <<inputVars, playVars, modeVars>>

(* Mutant: the trap ends the session but not its timer. *)
SliceTrapsTimerOn ==
  /\ handler # "none"
  /\ PassBreakpoint
  /\ StepTraps(debugFrameInput)
  /\ running' = FALSE
  /\ handler' = "none" /\ budget' = 0
  /\ UNCHANGED <<inputVars, paused, timerActive, modeVars, debugFrameInput, frameTaken>>

(* ... or stops the player when the guest traps. *)
SliceTraps ==
  /\ handler # "none"
  /\ PassBreakpoint
  /\ StepTraps(debugFrameInput)
  /\ timerActive' = FALSE /\ running' = FALSE
  /\ handler' = "none" /\ budget' = 0
  /\ UNCHANGED <<inputVars, paused, modeVars, debugFrameInput, frameTaken>>
-----------------------------------------------------------------------------
Next ==
  \/ Pause \/ Resume \/ Stop \/ DebugStep
  \/ SetDebugEnabled \/ SetDebugInstrumentation
  \/ \E a \in Addr : ToggleBreakpoint(a)
  \/ \E b \in Button, down \in BOOLEAN : SetButton(b, down)
  \/ \E c \in Cart : LoadSucceeds(c)
  \/ \E c \in Trapping : LoadInitFails(c)
  \/ LoadRefused
  \/ TickFrame \/ TickSlice
  \/ SliceStopsAtBreakpoint
  \/ \E next \in Addr \cup {Sentinel} : SliceInstruction(next)
  \/ SliceTraps

Spec == Init /\ [][Next]_vars
-----------------------------------------------------------------------------
(* The frame timer runs only a loaded cartridge that is running and not      *)
(* paused, after any mix of transport commands, breakpoint stops, traps and  *)
(* failed loads.                                                             *)
TimerOnlyWhilePlaying == timerActive => running /\ ~paused /\ cart # NoCart

(* Every instruction a slice runs sees all buttons that any slice of the     *)
(* same frame took, so a tap is not lost to the slices after it, not even    *)
(* across a pause in the middle of the frame.                                *)
FrameInputKept == frameTaken \subseteq debugFrameInput

(* One resume passes at most one breakpoint, and the permission to pass does *)
(* not outlive its use.                                                      *)
OnePassPerResume == passes <= 1 /\ (ignoreBreakpointOnce => passes = 0)

(* "Resuming ignores that address once to permit forward progress": a player *)
(* resumed from a breakpoint is not stopped by that same breakpoint before   *)
(* the guest has moved.                                                      *)
ResumeMovesOn == [][SliceStopsAtBreakpoint => moved \/ ExecutionAddress # resumedAt]_vars

(* Timer, transport, cartridge and debugger agree whatever commands, slices, *)
(* traps and failed loads come in whatever order.                            *)
SessionConsistent == TypeOK /\ TimerOnlyWhilePlaying /\ OnePassPerResume
=============================================================================
