----------------------------- MODULE GuestClock -----------------------------
(***************************************************************************)
(* The time a cartridge sees and what runs by it (Runtime.cpp): the        *)
(* virtual clock of accurate mode and the wall clock of the other modes,   *)
(* whole frames and debug-stepped frames with their deadlines, and the     *)
(* sequencer of the cartridge's audio tracks.                              *)
(*                                                                         *)
(* Times are in units of nowUs; a unit is CyclesPerUnit virtual cycles.    *)
(* Notes, volumes and samples an event plays are left out: an event is     *)
(* its delta and what it does to the sequence.                             *)
(***************************************************************************)
EXTENDS Integers, Sequences

CONSTANTS
    Carts,          \* cartridges
    Tracks,         \* [Carts -> sequences of tracks]; a track is a sequence of events
    Tempos,         \* tempos 30..300
    DefaultTempo,   \* tempo_ of a new runtime (120)
    TickLength,     \* [Tempos -> time of a tick] (60000 / (4 * tempo) ms)
    MaxAdvance,     \* time one frame may advance a track (1000 ms)
    MaxSteps,       \* ticks one frame may process (1000)
    MaxEvents,      \* events processed at one tick (256)
    Period,         \* VirtualClock::FramePeriodCycles
    CyclesPerUnit,  \* virtual cycles per unit of time
    Costs,          \* cycles the guest runs for between two calls
    MaxCycles,      \* [Carts -> bound on the virtual clock]
    MaxWall,        \* [Carts -> bound on the wall clock]
    MaxRequests     \* bound on loads and mode changes

NoTrack == [id |-> 0, index |-> 0, ticks |-> 0]

ASSUME ClockAssumption ==
    /\ "none" \notin Carts
    /\ \A c \in Carts : DOMAIN Tracks[c] \subseteq Nat /\ \A t \in DOMAIN Tracks[c] :
          /\ DOMAIN Tracks[c][t] \subseteq Nat \ {0}
          /\ \A e \in DOMAIN Tracks[c][t] :
                /\ Tracks[c][t][e].delta \in Nat
                /\ Tracks[c][t][e].command = "tempo" => Tracks[c][t][e].arg \in Tempos
    /\ DefaultTempo \in Tempos /\ MaxAdvance \in Nat
    /\ \A t \in Tempos : TickLength[t] \in 1 .. MaxAdvance
    /\ MaxSteps \in Nat /\ \A t, u \in Tempos : TickLength[t] * MaxSteps >= MaxAdvance + TickLength[u]
    /\ MaxEvents \in Nat \ {0} /\ Period \in Nat \ {0} /\ CyclesPerUnit \in Nat \ {0}
    /\ Costs \subseteq Nat /\ MaxRequests \in Nat
    /\ \A c \in Carts : MaxCycles[c] \in Nat /\ MaxWall[c] \in Nat

VARIABLES
    cart,        \* the loaded cartridge, or "none"
    phase,       \* the guest call in progress: "idle", "init", "frame", "debug"
    mode,        \* performanceMode_: "accurate" or "optimal" (unlimited is timed alike)
    cycles,      \* the virtual clock
    wall,        \* steady_clock time since started_
    deadline,    \* nextFrameCycles_
    late,        \* lateFrames_
    lastAudio,   \* lastAudioUs_; 0 is "unset"
    track,       \* track_: which track, next event and ticks until it; NoTrack for none
    tempo,       \* tempo_
    elapsed,     \* trackElapsedMs_
    requests,    \* loads and mode changes so far
    paced,       \* history: deadline when pacing began and frames completed since
    heard        \* history of the track: see StartHistory

clockVars == <<cart, phase, mode, cycles, wall, deadline, late, lastAudio, track, tempo, elapsed,
               requests, paced, heard>>
trackVars == <<track, tempo, elapsed, heard>>

\* nowUs: virtual time in accurate mode, time since load in the others.
NowIn(md, c, w) == IF md = "accurate" THEN c \div CyclesPerUnit ELSE w
Now == NowIn(mode, cycles, wall)

Events(t) == Tracks[cart][t.id]

----------------------------------------------------------------------------
(* The sequencer, on a state s of track, tempo, elapsed time and history   *)

\* What the history of a track starts from: its start time, ticks and events processed, the time
\* of those ticks, and whether a pause, a jump of the clock or the limit of one frame lost time.
StartHistory(at) ==
    [at |-> at, id |-> 0, ticks |-> 0, events |-> 0, time |-> 0, skipped |-> at = 0,
     jumped |-> FALSE, spun |-> FALSE, ended |-> FALSE]

Ended(s) == [s EXCEPT !.track = NoTrack, !.heard.ended = TRUE]

\* Mutant: a jump leaves the index behind its own event.
PlayEventJumpLost(s) ==
    LET e == Events(s.track)[s.track.index]
        next == [s EXCEPT !.track.index = @ + 1, !.track.ticks = e.delta, !.heard.events = @ + 1]
    IN  CASE e.command = "tempo" -> [next EXCEPT !.tempo = e.arg]
          [] e.command = "end" -> Ended(next)
          [] OTHER -> next

\* One event: it is passed, its delta is waited, and its command is done.
PlayEvent(s) ==
    LET e == Events(s.track)[s.track.index]
        next == [s EXCEPT !.track.index = @ + 1, !.track.ticks = e.delta, !.heard.events = @ + 1]
    IN  CASE e.command = "tempo" -> [next EXCEPT !.tempo = e.arg]
          [] e.command = "jump" -> IF e.arg \in DOMAIN Events(s.track)
                                   THEN [next EXCEPT !.track.index = e.arg] ELSE Ended(next)
          [] e.command = "end" -> Ended(next)
          [] OTHER -> next

\* processTrack: one turn of its loop, and the events that are due, at most MaxEvents of them.
DueEvent(s) ==
    IF s.track = NoTrack \/ s.track.ticks # 0 THEN s
    ELSE IF s.track.index \notin DOMAIN Events(s.track) THEN Ended(s)
    ELSE PlayEvent(s)
ProcessTrack(s) ==
    LET after[n \in 0 .. MaxEvents] == IF n = 0 THEN s ELSE DueEvent(after[n - 1])
        r == after[MaxEvents]
    IN  IF r.track # NoTrack /\ r.track.ticks = 0 THEN [r EXCEPT !.heard.spun = TRUE] ELSE r

Tick(s) ==
    ProcessTrack([s EXCEPT !.elapsed = @ - TickLength[s.tempo],
                           !.track.ticks = IF @ > 0 THEN @ - 1 ELSE 0,
                           !.heard.ticks = @ + 1, !.heard.time = @ + TickLength[s.tempo]])

\* The time gone by is credited to the track, at most MaxAdvance of it.
Credited(s, time) ==
    [s EXCEPT !.elapsed = @ + IF time < MaxAdvance THEN time ELSE MaxAdvance,
              !.heard.skipped = @ \/ time > MaxAdvance]

\* Mutant: the length of a tick is taken once, before the first.
AdvanceAudioOneTempo(s, time) ==
    LET after[n \in 0 .. MaxSteps] ==
            IF n = 0 THEN Credited(s, time)
            ELSE LET t == after[n - 1]
                 IN  IF t.track = NoTrack \/ t.elapsed < TickLength[s.tempo] THEN t ELSE Tick(t)
    IN  IF s.track = NoTrack THEN s ELSE after[MaxSteps]

\* advanceAudio: the ticks that fit in the time gone by, each at the tempo the last one left.
DueTick(s) == IF s.track = NoTrack \/ s.elapsed < TickLength[s.tempo] THEN s ELSE Tick(s)
AdvanceAudio(s, time) ==
    LET after[n \in 0 .. MaxSteps] == IF n = 0 THEN Credited(s, time) ELSE DueTick(after[n - 1])
    IN  IF s.track = NoTrack THEN s ELSE after[MaxSteps]

\* The time since the last frame: an unsigned difference, which a clock that went back makes huge.
SinceLastAudio == IF Now >= lastAudio THEN Now - lastAudio ELSE MaxAdvance + 1

Sequencer == [track |-> track, tempo |-> tempo, elapsed |-> elapsed, heard |-> heard]
SetSequencer(s) == /\ track' = s.track /\ tempo' = s.tempo
                   /\ elapsed' = s.elapsed /\ heard' = s.heard

----------------------------------------------------------------------------
(* Cartridges, frames and calls *)

ClockInit ==
    /\ cart = "none" /\ phase = "idle" /\ mode \in {"accurate", "optimal"}
    /\ cycles = 0 /\ wall = 0 /\ deadline = Period /\ late = 0 /\ lastAudio = 0
    /\ track = NoTrack /\ tempo = DefaultTempo /\ elapsed = 0 /\ requests = 0
    /\ paced = [from |-> Period, frames |-> 0] /\ heard = StartHistory(0)

\* AppController::loadBytes: Runtime::stop, load, and the guest's init begins.
Load(c) ==
    /\ phase \in {"idle", "debug"} /\ requests < MaxRequests
    /\ cart' = c /\ phase' = "init" /\ requests' = requests + 1
    /\ cycles' = 0 /\ wall' = 0 /\ deadline' = Period /\ late' = 0
    /\ track' = NoTrack /\ heard' = StartHistory(0)
    /\ paced' = [from |-> Period, frames |-> 0]
    /\ UNCHANGED <<mode, lastAudio, tempo, elapsed>>

\* AppController::stop, and a load that Runtime::load refuses: the track ends.
Stop ==
    /\ phase \in {"idle", "debug"} /\ track # NoTrack
    /\ track' = NoTrack /\ heard' = StartHistory(0)
    /\ UNCHANGED <<cart, phase, mode, cycles, wall, deadline, late, lastAudio, tempo, elapsed,
                   requests, paced>>

\* Runtime::pause.
Pause ==
    /\ phase \in {"idle", "debug"} /\ cart # "none" /\ lastAudio # 0
    /\ lastAudio' = 0 /\ heard' = [heard EXCEPT !.skipped = TRUE]
    /\ UNCHANGED <<cart, phase, mode, cycles, wall, deadline, late, track, tempo, elapsed, requests,
                   paced>>

\* setPerformanceMode: the clock becomes the other one and pacing starts anew.
SetPerformanceMode(md) ==
    /\ phase \in {"idle", "debug"} /\ md # mode /\ requests < MaxRequests
    /\ requests' = requests + 1
    /\ mode' = md /\ deadline' = cycles + Period
    /\ paced' = [from |-> cycles + Period, frames |-> 0]
    /\ heard' = [heard EXCEPT !.jumped = TRUE]
    /\ UNCHANGED <<cart, phase, cycles, wall, late, lastAudio, track, tempo, elapsed>>

\* The guest runs: cycles of the profile in accurate mode, retired instructions otherwise.
Execute(n) ==
    /\ phase # "idle" /\ cycles + n <= MaxCycles[cart]
    /\ cycles' = cycles + n
    /\ UNCHANGED <<cart, phase, mode, wall, deadline, late, lastAudio, trackVars, requests, paced>>

WallPasses ==
    /\ cart # "none" /\ wall < MaxWall[cart]
    /\ wall' = wall + 1
    /\ UNCHANGED <<cart, phase, mode, cycles, deadline, late, lastAudio, trackVars, requests, paced>>

CallReturns ==
    /\ phase' = "idle"
    /\ UNCHANGED <<cart, mode, wall, lastAudio, trackVars, requests>>
\* init returns, or a whole frame traps: the call ends without reaching the frame's deadline.
InitReturns == phase = "init" /\ CallReturns /\ UNCHANGED <<cycles, deadline, late, paced>>
FrameTraps == phase = "frame" /\ CallReturns /\ UNCHANGED <<cycles, deadline, late, paced>>

\* frame: the track is brought up to now and the guest's update begins.
FrameBegins ==
    /\ phase = "idle" /\ cart # "none" /\ phase' = "frame"
    /\ SetSequencer(IF lastAudio = 0 THEN Sequencer ELSE AdvanceAudio(Sequencer, SinceLastAudio))
    /\ lastAudio' = Now
    /\ UNCHANGED <<cart, mode, cycles, wall, deadline, late, requests, paced>>

\* debugStep in the idle phase begins update without bringing the track up to now.
DebugFrameBegins ==
    /\ phase = "idle" /\ cart # "none" /\ phase' = "debug"
    /\ UNCHANGED <<cart, mode, cycles, wall, deadline, late, lastAudio, trackVars, requests, paced>>

AdvanceTo(c, target) == IF c < target THEN target ELSE c

\* The end of a frame in accurate mode: a late frame is counted, an early one waits.
PaceFrame ==
    /\ late' = IF cycles > deadline THEN late + 1 ELSE late
    /\ cycles' = AdvanceTo(cycles, deadline)
    /\ deadline' = deadline + Period
    /\ paced' = [paced EXCEPT !.frames = @ + 1]

\* Mutant: the frame that was debug-stepped is not paced.
FrameEndsUnpaced ==
    /\ phase \in {"frame", "debug"}
    /\ IF mode = "accurate" /\ phase = "frame"
       THEN deadline <= MaxCycles[cart] /\ PaceFrame
       ELSE /\ UNCHANGED <<cycles, deadline, late>>
            /\ paced' = [paced EXCEPT !.frames = @ + IF mode = "accurate" THEN 1 ELSE 0]
    /\ CallReturns

\* draw returns, on either path: frame, or the debugStep (or the frame) that ends a stepped one.
FrameEnds ==
    /\ phase \in {"frame", "debug"}
    /\ IF mode = "accurate" THEN deadline <= MaxCycles[cart] /\ PaceFrame
       ELSE UNCHANGED <<cycles, deadline, late, paced>>
    /\ CallReturns

----------------------------------------------------------------------------
(* Host calls *)

\* playTrack: the first events are processed at once.
PlayTrack(id) ==
    /\ phase # "idle" /\ id \in DOMAIN Tracks[cart]
    /\ SetSequencer(ProcessTrack([track |-> [id |-> id, index |-> 1, ticks |-> 0], tempo |-> tempo,
                                  elapsed |-> 0, heard |-> [StartHistory(Now) EXCEPT !.id = id]]))
    /\ lastAudio' = Now
    /\ UNCHANGED <<cart, phase, mode, cycles, wall, deadline, late, requests, paced>>

StopTrack ==
    /\ phase # "idle" /\ track # NoTrack
    /\ track' = NoTrack /\ heard' = StartHistory(0)
    /\ UNCHANGED <<cart, phase, mode, cycles, wall, deadline, late, lastAudio, tempo, elapsed,
                   requests, paced>>

SetTempo(t) ==
    /\ phase # "idle" /\ t # tempo
    /\ tempo' = t
    /\ UNCHANGED <<cart, phase, mode, cycles, wall, deadline, late, lastAudio, track, elapsed,
                   heard, requests, paced>>

ClockStep ==
    \/ \E c \in Carts : Load(c)
    \/ Stop
    \/ Pause
    \/ \E md \in {"accurate", "optimal"} : SetPerformanceMode(md)
    \/ \E n \in Costs : Execute(n)
    \/ WallPasses
    \/ InitReturns
    \/ FrameTraps
    \/ FrameBegins
    \/ DebugFrameBegins
    \/ FrameEnds

TrackCall ==
    \/ \E id \in DOMAIN Tracks[cart] : PlayTrack(id)
    \/ StopTrack
    \/ \E t \in Tempos : SetTempo(t)

----------------------------------------------------------------------------
(* Properties *)

ClockTypeOK ==
    /\ cart \in Carts \cup {"none"} /\ phase \in {"idle", "init", "frame", "debug"}
    /\ (cart = "none" => phase = "idle") /\ mode \in {"accurate", "optimal"}
    /\ cycles \in Nat /\ wall \in Nat /\ deadline \in Nat /\ late \in Nat
    /\ lastAudio \in Nat /\ tempo \in Tempos /\ elapsed \in Nat
    /\ \/ track = NoTrack
       \/ track.id \in DOMAIN Tracks[cart] /\ track.index \in Nat /\ track.ticks \in Nat
    /\ requests \in 0 .. MaxRequests

\* The composed schedule of a track: when event n is due, and which one it is; 0 after the end.
DueAfter(events, d) ==
    LET e == events[d.index]
    IN  IF d.index \notin DOMAIN events \/ e.command = "end" THEN [at |-> d.at, index |-> 0]
        ELSE [at |-> d.at + e.delta,
              index |-> IF e.command # "jump" THEN d.index + 1
                        ELSE IF e.arg \in DOMAIN events THEN e.arg ELSE 0]
Schedule(events, n) ==
    LET due[k \in 0 .. n] ==
            IF k = 0 THEN [at |-> 0, index |-> 1] ELSE DueAfter(events, due[k - 1])
    IN  due[n]

\* A track keeps its place: through frames of any length, tempo changes, jumps and pauses the next
\* event is the one of its schedule, at its tick, and the track ends only where the schedule does.
TrackOnSchedule ==
    /\ (track # NoTrack /\ ~heard.spun) =>
          LET d == Schedule(Events(track), heard.events)
          IN  d.index = track.index /\ d.at = heard.ticks + track.ticks /\ track.ticks > 0
    /\ (track = NoTrack /\ heard.ended) =>
          Schedule(Tracks[cart][heard.id], heard.events).index \notin DOMAIN Tracks[cart][heard.id]

\* A track runs by the guest's clock: it is never ahead of it, and unless a pause, a single frame
\* beyond MaxAdvance or the unset value 0 lost time, it is where the last frame's clock was.
TrackTime ==
    (track # NoTrack /\ ~heard.jumped) =>
        /\ heard.time + elapsed <= Now - heard.at
        /\ ~heard.skipped => heard.time + elapsed = lastAudio - heard.at

\* A track that plays is at its place in its events and at its place in time, and the clock and
\* the sequencer keep their types.
TracksKept == ClockTypeOK /\ TrackOnSchedule /\ TrackTime

\* Frames are paced by the deadlines since the load or the mode change: completed frames have taken
\* at least their periods, whole or stepped, and the deadline is always that of the next frame.
FramesPaced ==
    mode = "accurate" =>
        /\ deadline = paced.from + paced.frames * Period
        /\ cycles + Period >= deadline

\* The guest's time never goes back until a cartridge is loaded, while the performance mode stays
\* what it is - a switch exchanges the wall clock for the virtual one, which may be behind - and a
\* frame leaves none of the time it was given to its track as a tick undone.
LoadsCartridge == phase # "init" /\ phase' = "init"
TimeUsedUp ==
    [][/\ ~LoadsCartridge /\ mode' = mode => Now' >= Now
       /\ FrameBegins /\ lastAudio # 0 /\ track' # NoTrack => elapsed' < TickLength[tempo']]_clockVars
=============================================================================
