# PRG32-QT in TLA+

PRG32-QT runs PRG32 cartridges (RV32IMAC programs for an ESP32-C6 console) on
desktops and phones: an interpreter with a synthetic host-call table, and around
it a Qt application that feeds it buttons, plays its sound, takes cartridges
over the network and debugs it. This directory holds TLA+ models of that
program: of the parts whose correctness depends on order - of events on the Qt
event loop, of messages of several hosts, of timers against answers, of the
audio device's thread against the frame timer, of a cartridge's calls - and of
the algorithms a cartridge runs on: the processor, the clocks, the track
sequencer, tiles, actors. They are checked by TLC on small instances, and every
safety property that a passing run checks is proved by TLAPS for all instances.

Paths below are relative to the repository; `AC` is `src/qt/AppController.cpp`,
`RT` is `src/core/Runtime.cpp`, `IO` is `src/qt/IoProtocolServer.cpp`, `QA` is
`src/qt/QtAudioEngine.cpp`, `MP` is `src/qt/QtMultiplayerService.cpp`, `CPU` is
`src/core/Rv32Cpu.cpp`, `SC` is `src/qt/StoreClient.cpp`.

Contents: [the system](#the-system), [the modules](#the-modules), [the
runs](#the-runs), [the proofs](#the-proofs),
[disagreements](#where-code-and-documents-disagree), [what is not
modelled](#what-is-not-modelled), [the plan](#the-plan), [running
it](#running-it).

## The system

### How the parts interact

Everything of the Qt host except the audio device runs on one event loop, so a
slot or a lambda runs to completion and two of them never interleave. What
interleaves is handlers: the frame timer (33 ms, or a slice of a frame while
debugging), touch, keyboard, gamepad, single-shot timers, sockets, HTTP
requests. `AppController` is the hub: the frame timer's handler (AC 69-156)
takes the merged buttons from `InputState`, gives them to `Runtime`, hands the
frame's sound from `FirmwareAudio` to `QtAudioEngine` and stops the session when
the guest traps. `IoProtocolServer` and `WebApiServer` both store and start
cartridges through the controller (`uploadSlot`, `selectSlot`), the first also
presses keys, the second also drives the debugger (`debugCommand`); neither
knows of the other. `QtMultiplayerService` is
called by the guest through `Runtime` and reacts to its WebSocket and three
timers. A cartridge runs inside the frame timer's handler: `Runtime` calls its
init, update and draw through `Rv32Cpu::call`, and the cartridge calls back into
`Runtime` through synthetic addresses (tiles, actors, tracks, measurements),
which is stamped with the virtual or the wall clock and charged to it.
`StoreClient` is a browser of its own that hands what it downloads to
`loadBytes`. The one thing shared between threads is `QtAudioEngine`'s state, under
its mutex.

### The components

For each component: its state, its operations, what is hard about it, and what
makes it correct. "Module" is where it is modelled; a dash where it is not (see
[what is not modelled](#what-is-not-modelled) and [the plan](#the-plan)).

| Component | State and operations | What is hard | What makes it correct | Module |
|---|---|---|---|---|
| Input latch (`InputState.h`) | a mask per source, a latch of press edges; `setDown`, `setUp`, `replace`, `clear`, `takeMerged` | one latch shared by four sources | no tap lost, none invented | InputState |
| Input sources and remote keys (AC 158-217) | deadlines and timers of remote keys; touch, D-pad, keyboard, gamepad handlers | overlapping timed presses, timers that fire early or late, focus loss between press and frame | a press ends by itself, no earlier than asked | Inputs |
| Player and debugger (AC 69-156, 261-506) | running, paused, timer, breakpoints, the buttons of a sliced frame; load, pause, resume, stop, step, toggles | a guest frame spread over many slices, with commands between them; loads that fail half way | timer only while playing; breakpoints stop; input of a frame kept | Player |
| Runtime frame and debug step (RT 186-243) | call phase, pc, input, virtual deadlines | two ways to run a frame, which can be mixed | a begun frame is finished once and paced once | Player (control flow), GuestClock (time) |
| prg32-io upload session (`IO`) | the one active upload, idle timer, upload screen | any connection's chunks reach the one upload; takeover, disconnection, resends | slots hold whole images; refusals end | IoUpload, CartridgeSlots |
| prg32-io framing (IO 131-164) | byte buffer per connection | frames split and joined anywhere, garbage, limits | same frames as a one-shot parse; the buffer stays small | IoFraming |
| Cartridge slots (AC 330-341, 807-852) | one file per slot | in-place rewrite against atomic replacement, crashes | a slot is whole or empty | CartridgeSlots (without crashes) |
| Firmware audio (`FirmwareAudio.cpp`, `audio_port.c`) | frames, engine time, unmixed ms, the kit's queue | 33 ms frames against 20 ms buffers, waits that render seconds at once | time never drifts, no buffer lost unaccounted | AudioPipeline |
| Qt audio engine (`QA`) | PCM queue, resampler position, voices | device thread against frame thread; resampling at queue ends | frames accounted for; interpolation in range; silence when paused | AudioPipeline (queue) |
| Multiplayer service (`MP`) | membership, admission, socket, timers, peers | state of one socket surviving into the next; refusals crossing retries; late snapshots; wraparound | admission is the server's; a member is never stranded; newest snapshot held; pacing | Multiplayer |
| Web API (`WebApiServer.cpp`) | none of its own | acts during a prg32-io upload | same promises to the slots | IoUpload (its two writers) |
| CPU (`Rv32Cpu`) | registers, pc, memory, LR/SC reservation, counters, trace ring; call, step | reservations across stores of every kind, traps half way, compressed forms against their expansions, edges of the arithmetic | reservations and traps are exact, compressed code means what it stands for, every call ends | Rv32Cpu |
| Instruction timing (`PerformanceTiming`) | cycles, virtual nanoseconds | two modes, late frames | the counters and clocks agree | Rv32Cpu, GuestClock |
| Runtime host calls (`RT`): tracks, clock | track, tempo, elapsed time, deadlines | events of delta 0, jumps, tempo changes, pauses, mode switches, late frames | a track keeps its place and its time | GuestClock |
| Runtime host calls: performance broker | suite, cases, open case | calls in any order | the report is of what was measured | PerfBroker, Guest |
| Runtime host calls: tiles, playfield, actors, camera | tiles, dirty cells, layers, flags, actor | negative origins, stale cells, boxes larger than a tile | screen shows the tiles; actors collide; camera follows | Playfield |
| Runtime host calls: text, primitives, sprites, scores, notes, Wi-Fi | pixels, a score table | none of order | pixel and unit tests | - |
| Cartridge and audio block parsers | none | bounds of nested sections | accepts only what fits | - (planned) |
| Store client (`StoreClient.cpp`) | catalogue, icons, loading flag | replies of a store that was left | data of the current store; the page explains itself; loading ends | StoreClient |
| mDNS advertiser | socket, announced records | interfaces that come and go | answers match the interfaces | - |
| Framebuffer (all but `rect`), disassembler, headless runner, items, gamepad and safe-area backends, QML | pixels, text, wiring | none of order | pixel and unit tests | - |

The hazards of each, with their source line, are the `hazards` of
`PROJECT.json`; the properties below are aimed at them.

## The modules

    InputState <- Inputs <- InputsProofs
    InputState <- Player <- PlayerProofs          Player  <- MCPlayer
    CartridgeSlots <= IoUpload                    IoUpload <- MCIoUpload
    IoUpload, IoFraming <- IoProofs               IoFraming <- MCIoFraming
    AudioPipeline <- AudioProofs
    Multiplayer, StoreClient <- NetworkProofs
    GuestClock, PerfBroker <- Guest <- MCGuest, GuestProofs
    Rv32Cpu <- MCRv32Cpu, CpuProofs     Playfield <- MCPlayfield, PlayfieldProofs

`<-` is EXTENDS, `<=` an implementation through INSTANCE. Every module has one
action per handler. A definition whose comment begins with "Mutant" is a
plausible bug in the definition after it and is used by no specification; it
serves to show that a property can fail. Variables marked "history" record
something for a property and guard nothing. Some properties are conjunctions of
named parts (`SessionConsistent`, `KeysWatched`, ...); the parts are defined just
before them with what each one says.

### InputState: the latch

`masks` is `masks_`, `pendingPresses` is `pendingPresses_`, a mask is the set of
its buttons, each operator one member function. The modules that own an
`InputState` use these operators in their handlers; it has no specification of
its own.

### Inputs: every writer of the latch and its reader

Actions: `SetButton`, `SetDirectional`, `SetKeyboardButton`, `ClearKeyboard`,
`GamepadChanged`; `PressRemoteKeys` and `ReleaseRemoteKeys` (called by
`IoProtocolServer`), `TimerFires` (the lambda of
`QTimer::singleShot`, AC 203), `Frame` (`takeMerged` in the frame timer) and
`PauseOrStop`. The code compares `remoteKeyDeadlines_` and its timers with
`remoteKeyClock_` by differences only, so the model keeps what is left of each: a
press sets `deadlines[b]` to its hold, `TimePasses` brings every deadline and
every timer one tick nearer, 0 is reached. `timers[t]` is the number of single
shots with `t` ticks to go before they may fire: their interval, or `CoarseSlack`
less when the interval is long enough for a `Qt::CoarseTimer` (`FireFrom`). A timer
may be served any time after that; only this lower bound is assumed of Qt. A hold
is any value `handleKey` accepts (IO 372-377).

### Player: the session and the debugger

Two levels meet here. The transport (`Pause`, `Resume`, `Stop`, `DebugStep`, the
toggles, loads) and the whole-frame handler `TickFrame` are single actions. The
debug path of the frame timer is the one handler modelled instruction by
instruction, because breakpoints are looked at between instructions: `TickSlice`
begins it, `SliceInstruction`, `SliceStopsAtBreakpoint` and `SliceTraps` are its
loop, and `handler` keeps every other action out until it returns. `budget`
counts `debugInstructionsPerFrame_ / DebugSlicesPerFrame`; at its end the loop
goes on ("drain") until pc is back in guest memory (AC 78-124).

The guest is a control-flow graph `Succ` over guest addresses `Code` and
host-call addresses `Host`; any instruction in guest memory may trap.
`Runtime::debugStep` is `StepTo`/`StepTraps` (phase, `beginCall`, return
sentinel), `Runtime::frame` is `FrameCompletes`/`FrameFails`, which finish a
frame the debugger has begun.

`loadBytes` is three actions, by how far it gets: `LoadRefused` (the timer is
stopped, guest memory is still the old cartridge's), `LoadInitFails` (the new
cartridge is installed, its init trapped), `LoadSucceeds`. A cartridge that does
not parse changes nothing and is no action.

History: `frameTaken` (buttons the slices of the frame took), `resumedAt`,
`moved` and `passes` (the breakpoint the last resume started from, whether the
guest has executed since, the breakpoints it ran past since).

### IoUpload: the upload session

One upload at a time (`uploadSlot`, `announced`, `command`, `uploadSocket`,
`upload`), fed by any connection. Actions are the frames a connection can send
(`UploadBegin`, `UploadData`, `UploadEnd`, `Run`, `Key`, and `OtherFrame` for
everything that changes nothing but the idle timer), `Connect`, `Disconnect`,
`IdleTimeout`, the single shot `HideScreen`, and the other users of the slots:
`WebUpload`, `WebSelect`, `KeysExpire`. `hideTimers` counts the 1800 ms single
shots outstanding; nothing cancels them. History: `mixed` (a chunk of another
image reached the upload), `owner` (who began it), `silence` (how long its host
has sent nothing).

An image is a sequence of chunks; chunk `<<i, k>>` is the k-th of image i.
Length and CRC-32 of an upload match the announced ones exactly when the data is
the announced image, that is, CRC collisions are left out. Frames arrive whole:
splitting the stream is IoFraming's subject. `UploadEnd` includes the failures
of a mismatch, a refused image and a failed write; `QSaveFile` makes the write
one step. Initially a slot is empty or holds a valid image: the two ways a slot
is written both parse first. The third, `saveCartridge` (AC 330-341), which can
be cut short by a crash, is left to the planned SlotStore.

### CartridgeSlots: what the slots promise

The abstract specification: `stored` is a whole valid cartridge or nothing per
slot, `playing` is the one that was started. A step stores a whole cartridge,
starts one that a slot holds, or stops the player. IoUpload implements it under
`stored <- ImageOf(slots[s])`, `playing <- ImageOf(playing)`, where `ImageOf`
sends a chunk sequence to the image it is the content of and anything else to
"corrupt", which the abstract specification can never hold.

### AudioPipeline: from the guest's frame to the device

Samples are not modelled; a queue is the number of stereo frames in it. The
chain: a guest frame ends (`TimerFrame`), `FirmwareAudio::frameDone` gives the
engine the time up to the next frame's start (`FrameDone`), `advance_ms` mixes
whole 20 ms buffers and keeps the rest (`Advance`), the kit's queue takes them
and drops its oldest (`KitExcess`), `pushFirmwarePcm` queues them and drops its
oldest (`Push`). On its own thread the device reads frame by frame (`MixFrame`,
`mixFirmwarePcm` for one device frame; a read of n frames holds the mutex
throughout, but what it leaves is what n single reads leave). The resampler's
fractional position is an integer in units of 1/`DeviceRate`.

`LoadBegins` attaches the engine and clears the queue, `Load` and `LoadFails`
end the handler; between them only the cartridge's init function (and the device
thread) acts. `GuestAudioNotes` is the call that waits between notes and renders
the wait at once. `resting` remembers what a failed load leaves of the session.
History: `kitDropped`, `pushed`, `played`, `dropped`, `cleared`, `steps`,
`delayed` count where frames and time went; `alwaysOn` is true while the
cartridge has not shut its engine down.

### Multiplayer: the session of a room

Actions of the guest and the settings (`Join`, `Leave`, `Tick`, `ReadPeers`), of
the timers (`ReconnectFires`, `JoinRetryFires`), of the socket (`Connected`,
`Disconnected`) and of the messages (`Welcome`, `RoomFull`, `RateLimited`,
`DeviceBlocked`, `PeerSnapshot`, `PeerLeft`). The server is external and
modelled from how the code reads its messages: it answers joins in order, gives
a socket one place and keeps it, relays snapshots once it has given one, may
relay a player's own snapshots, and may close a socket at any time. `reconnect`
is the delay the reconnection timer was started with, so that a property can
speak of it. Time matters in one place, the pace of snapshots: `since` is the
time since the last send as far as `tick()` tells it apart (two periods),
`burst` the debt of a token bucket that drains with time.

A snapshot's frame number is counted without wraparound in the model; the code's
comparison `int32_t(n - held) < 0` sees it modulo `FrameSpace`, and a relay is
less than half of `FrameSpace` early or late.

### Rv32Cpu: the guest's processor

`m` holds registers, pc, memory and the reservation; `count` the retired
instructions and cycles; `ring` is `instructionTrace_` with its next slot and
count. `BeginCall`, `Returns`, `Exhausts` and `Step` are the loop of `call`
(CPU 66-84), `HostStep` a step at a host address: the host function may store to
guest memory and set a0. `Exec32` and `Exec16` are the two decoders, instruction
by instruction, over decoded records: the bit layout of the encodings is the one
thing left out. A step fetches any instruction of the constant `Program`, so
that what is checked is checked of every program over those instructions. Words
have four bytes of `ByteSize` values; loads check each byte's address, stores
the whole range at once, as in the code. Shifts by more than the word (a
reserved encoding the decoder does not refuse) are undefined in C++ and give any
word. A store by any path clears the reservation (`Store` stands for the
store8/16/32 family, which host functions use too).

### GuestClock, PerfBroker and Guest: time and what is measured by it

GuestClock: `cycles` is the virtual clock, `wall` the steady clock since load,
`Now` is `nowUs` in the mode of the moment. `FrameBegins`, `Execute`,
`FrameEnds` (or `FrameTraps`) are `Runtime::frame`; `DebugFrameBegins` is the
`debugStep` that begins a frame and brings no track up to date; `FrameEnds` also
ends a debug-stepped frame. `PaceFrame` counts a late frame, or advances the
clock to the deadline of an early one, and moves the deadline by one period (RT
210-215, 236-241). `AdvanceAudio` and `ProcessTrack` are the sequencer: the ticks
that fit in the time gone by, at most `MaxAdvance` (`Credited`), each at the tempo
the last event left (`DueTick`), at most `MaxEvents` events per tick (`DueEvent`).
`DueAfter` steps through the schedule of a track, from its events alone: the
property's reference. `SetPerformanceMode`, `Pause`,
`Stop`, `Load` are the controller's calls between frames. Times are whole units;
`elapsed` stands for `trackElapsedMs_`.

PerfBroker: ABI calls 125-132, one action per call that changes state, over
`perf_` and the open case. `Summary` is what call 132 reports. A sample is its
total time; nearest-rank percentiles are computed as in the code. `std::sort` is
any permutation that ascends (`SortedUp`); nothing else of it can be told.

Guest composes them: calls are made while the guest executes, the broker stamps
suites with `Now`, and loading a cartridge resets both. `calls` bounds the
calls; `steady` (history) says that the mode has not changed since the suite
began.

### Playfield: tiles, layers, actors, camera

ABI calls 80-103, each an action: `TileDefine`, `TilePut`, `TileClear`,
`TilePresent` over the tile screen and its dirty cells, `DrawRect` for
everything that draws over it, `PlayfieldPut`, `PlayfieldDraw` and the scroll,
camera and parallax settings, `ActorMove` and `ActorStep` with the tile flags,
`CameraFollow`. A move is repeated steps of one pixel along each axis (`StepX`,
`StepY`), as in the code. The framebuffer is modelled pixel by pixel, since dirty tracking
and wraparound are claims about pixels; a tile has `T * T` of them. C++ division
and remainder truncate (`CDiv`), which is the point of several definitions.
`Levels` are what a cartridge has set up when the calls of interest begin; `calls`
bounds them.

### StoreClient: the store browser

`net` is the bag of requests in flight, each with the address it was sent to; an
answer is that of any of them. `GamesAnswered`, `DiscoveryAnswered`,
`CatalogAnswered` and `NextEndpoint` are the chain of fallbacks (SC 125-185),
`IconAnswered` and `DownloadAnswered` the other two handlers; `Refresh`,
`ChangeStore`, `DownloadGame` the user's. `ChangeStore` includes the `refresh`
that the page calls after `setBaseUrl`. History: `mixed` (answers of another
store were on their way when the address changed).

### IoFraming: the byte stream of prg32-io

`ReadyRead(bytes)` appends any bytes and runs the loop of `process()` (IO
131-164) to its end: search the magic, keep what may be the beginning of one,
skip one byte after a header that is refused, wait for the payload, hand on the
frame with its checksum verdict. `FramesOf` says what the frames of a whole
stream are without a buffer. Both are recursive functions of the bytes. Header
fields are one byte each.

## The runs

| Run | Config | Distinct states | Depth | Result |
|---|---|---|---|---|
| `taps` | `Inputs.cfg` | 266,240 | 16 | passes |
| `player` | `MCPlayer.cfg` | 279,812 | 23 | passes |
| `upload` | `MCIoUpload.cfg` | 133,112 | 18 | passes |
| `audio` | `AudioPipeline.cfg` | 238,402 | 38 | passes |
| `multiplayer` | `MCMultiplayer.cfg` | 271,392 | 20 | passes |
| `cpu` | `MCRv32Cpu.cfg` | 73,028 | | passes |
| `guest` | `MCGuest.cfg` | 2,835,062 | | passes |
| `playfield` | `MCPlayfield.cfg` | 1,179,501 | | passes |
| `store` | `StoreClient.cfg` | 640,884 | | passes |
| `framing` | `MCIoFraming.cfg` | 797,161 | | passes |
| `silent` | `MCIoUpload_silent.cfg` | | | violated, see [below](#where-code-and-documents-disagree) |
| `compressed` | `MCRv32Cpu_compressed.cfg` | | 2 | violated, see [below](#where-code-and-documents-disagree) |

The runs of the host components check for deadlock. Those of `cpu`, `guest`,
`playfield`, `store`, `framing` and `compressed` do not: their actions are what a
cartridge, a user or a connection does, of which a bounded number is allowed,
and nobody has to go on.

### taps

`FramesSeePresses`: no tap is lost before a frame sees it (`TapsLatched`) and no
frame sees a button nobody pressed (`NoGhostPress`); only the focus lost while the
keyboard holds the same button drops a tap, see below. `KeysWatched`: every remote
key that is down has a timer that will find its deadline passed
(`HeldKeyHasTimer`). `TimerKeepsLaterPress`: no timer cuts a later press short.
`EveryPressEnds`: a key that is down comes up without its host. The comment in the
code says so without conditions (AC 194); the property states the two it has.
Hosts do not press the key for ever (`[]<><<Presses(b)>>_vars` is the alternative),
and the key's newest press did not get a coarse timer: those keys are in `coarse`,
which `HeldKeyHasTimer` excepts too. Both conditions are met in the run and both
are needed: without either disjunct TLC finds a key that stays down, by a host
that presses again before every release, or by a coarse timer that finds the
deadline not reached. Four sources (touch, keyboard, one gamepad, remote) and two
buttons, one of them a direction, so that the D-pad replaces one button and leaves
the other. `tapped` and `cleared` are history: what was pressed since the last
frame, and what of it a loss of the keyboard's focus has dropped since. Holds of
one to three ticks, of which three is coarse and may be served a tick early, are
enough for two presses of a key to overlap in every way (the second ending before,
with and after the first). At most `MaxTimers` = 2 timers are outstanding at a
time; a host that finds two waits until one is served, and goes on pressing then.
(With three, 660,992 states in five minutes, the run passes as well.) Fairness:
time passes, and a single shot that has expired is served. This is what a Qt event
loop that keeps running gives; nothing is assumed of hosts but the bound, or of
frames or fingers.

### player

`SessionConsistent` (the timer runs only a loaded, running, unpaused cartridge;
one resume passes one breakpoint), `FrameInputKept` (a slice sees every button
any slice of its frame took) and `ResumeMovesOn` (a resume does pass its
breakpoint). The program has a loop and a host call in
update and one instruction in draw: enough for a breakpoint to be met twice, for
a slice to end inside a host call, and for each phase to be interrupted. Slices
of one or two instructions end at every place of that program. Two cartridges,
one of which traps in init.

### upload

`UploadConsistent` (`StoredComplete`: a slot holds one whole image or nothing;
`OwnerConnected`: the host that began the upload is up; `NoKeysWhileUploading`),
`ReceivedPrefix`, `OthersUploadKept` (a disconnection ends no upload of another
host), the liveness property `UploadEnds` and the
implementation of CartridgeSlots, `ImplementsSlots`. Two hosts, one slot, two
images of two chunks, which can be mixed into a wrong image of the right length,
and an invalid one of one chunk; an idle time of two ticks; at most two hide
timers at once. One slot is enough because no step reads or writes two, and one
slot is where two writers meet.

`UploadEnds` says that the upload and its screen end, or the hosts never stop
sending. Fairness: the tick of the idle timer, its timeout and the hide timer,
all served by the event loop. No fairness of hosts, connections or
disconnections.

### audio

`SoundAccounted`: every frame pushed is queued, played, dropped or cleared
(`FramesAccounted`), every buffer mixed is in the kit's queue, dropped there or
pushed (`BuffersAccounted`), buffers and the unmixed rest add up to the frames'
and waits' time (`EngineKeepsTime`). `PlayerSilenced`, `Interpolates`. The 33 ms
and 20 ms are
the real ones, four frames (132 ms) pass through six remainders; a buffer is two
stereo frames, the kit's queue takes five, the Qt queue six, so both overflow;
one wait of 65 ms renders three or four buffers at once. The device runs at 3/2
of the engine's rate, so a read passes zero frames or one. `Interpolates` needs
the device to be no slower than the engine; see below for a slower one.

### multiplayer

`SessionOfSocket` (`AdmittedByServer`, `PeersOfSession`, `LeftForGood`),
`NeverStranded`, `NewestHeld`, `LimitsKept` (`SendsPaced`, `RateLimitRespected`),
and the liveness property `Admission`. Four players, room for two peers (so that
a newcomer finds the table full), frame numbers modulo four up to five (so that
they wrap around while held), delays of 1 to 3 (the backoff doubles once and is
capped), a send period of three with ticks of one or two, two unanswered joins.

Fairness for `Admission`: the timers are served and a closed socket is reported
(weak: the event loop), a connection tried again and again succeeds and a server
asked again and again gives a place (strong: both can fail any number of times
before). Without the last two nothing could be admitted; the property is that
the client does its part, through every order of failures.

### cpu

`MachineConsistent` (`ReservationIntact`: the reservation held is that of an
LR.W since which nobody stored; `CountersAgree`; `TraceIsRecent`: the debugger
is shown the last addresses in order), `ScNeedsReservation`, `TrapIsPrecise`,
`CompressedAgrees` (a compressed instruction does what its 32-bit expansion
does, but for two named cases), `ArithmeticExact` (products and quotients, over
all divisors and multipliers) and `CallsEnd`. A four-bit machine - bytes of one
bit, eight bytes of memory in an address space of sixteen - makes every address
edge reachable: below and above the memory, straddling its end, wrapping around
to 0. 26 instructions, at least one of each kind that touches memory, pc,
reservation or counters; a trace of two addresses, so that it wraps; calls of at
most three steps until two instructions have retired, which is the shortest
history with an LR.W, a store and an SC.W across a second call. Each property
that compares decoders or arithmetic quantifies over `Program` or over all words
in each state. Fairness: the loop of `call` goes on.

### guest

`TracksKept`: a playing track is at its place in its events
(`TrackOnSchedule`, against a recursive function over the events alone) and at
its place in time (`TrackTime`). `FramesPaced`: the deadline is that of the next
frame and completed frames have taken their periods. `TimeUsedUp`: the clock does
not go back while the mode stays what it is, and no whole tick is left undone.
`SuiteOrdered` and `SuiteMeasured`: the broker's cases are begun and ended one
at a time; their percentiles, extremes and sums and the summary are those of all
samples. One cartridge with three tunes (a loop that changes the tempo; a bad
jump; a loop of delta 0, which `MaxEvents` cuts) and one that measures two cases
of two frames; frames that take up to twice their period; a load and a mode
switch.

### playfield

`DirtyCellsSuffice`: after `tile_present` every cell that nothing else drew over
shows its tile as it is now. `PlayfieldRepeats`: a layer is its map repeated
without end, at origins on either side of 0. `ActorsCollide`: an actor never
enters a solid, however large the box and the move, is told of a wall only when
there is one, and is never carried through a platform. `CameraShowsActor`. Tiles
of 2 x 2 pixels, a screen of 2 x 2 and a map of 3 x 3 tiles; actors narrower and
wider than a tile, moves longer than a tile; up to six tile calls or three
playfield and actor calls after the level is set up.

### store

`PageExplained`: when nothing is in flight there is a catalogue or a reason.
`ShownOfAddress`: icons and catalogue are those of the address, unless answers
crossed its change. `LoadingEnds`. Two stores, two cartridges, two endpoints to
try, three uses. Fairness: answers keep coming, if only as failures. This is
asked of the network: the code sets no transfer timeout, so a server that
accepts a request and says nothing leaves the page loading.

### framing

`FramesOfStream`: the frames handled are those of the whole stream, wherever it
was cut. `BufferKept`: between deliveries the buffer holds less than one frame of
the largest payload. Every stream of up to 12 bytes over three byte values, in
chunks of one to three; a magic of two bytes, so that it can be cut and half
repeated, a frame of at most six bytes, so that a stream holds two.

## The proofs

Every safety property of every passing run is a theorem, for all values of the
constants that satisfy the named assumption of its module, as is the
implementation of CartridgeSlots. One has a further hypothesis, `InterpolationSafe`
(`EngineRate <= DeviceRate`); the disagreement on linear interpolation below is
what happens without it. A property that is a conjunction of parts is proved part
by part (`SessionSafe`, `UploadsConsistent`, `SoundIsAccounted`, ... join the
parts). The header of each module says what it is about; each lemma has a line
that says what it states.

**InputsProofs** (`InputsAssumption`). `TypeCorrect`. `LaterPressKept`:
`TimerKeepsLaterPress` is a property of one step, the timer's guard against the
deadline. `HeldKeysAreWatched`: `HeldKeyHasTimer` is inductive, for any hold times:
a press arms a timer that waits for its deadline at least, or is recorded as
coarse; time brings a key's deadline and its timer nearer together; and a timer
that is used up has released every key it watched. `NoGhosts` and
`TapsReachTheFrame`: every handler adds the same press edges to the latch and to
the history, starts both over, or (losing the focus) moves presses from the latch
to `cleared` (lemma `LatchStep`). A tapped button is therefore in the latch itself
or cleared (`TappedIsPending`), not merely still held, which is the inductive form
of `TapsLatched`.

**PlayerProofs** (`PlayerAssumption`: the entries are code, the graph stays in
the address space). The inductive invariant adds to the properties: a running
session has a cartridge, a slice in progress has an active timer, a begun phase
has a pc (`CallInv`), and a resume from a breakpoint carries its permission
until the guest moves (`PermissionInv`), which is what makes `ResumeMovesOn`
true. Theorems: `TypeCorrect`, `TimerSafe`, `FrameInputSafe`, `PassesBounded`,
`ResumeProgress`.

**IoProofs, the upload session** (`UploadAssumption`: every image has a chunk,
sentinels are not members). The invariant adds that an active upload has an
announced image and a running idle timer, and that `uploadSocket_` is the host
that began it. `ReceivedPrefix` is inductive because a chunk is appended only
where the data ends. `SlotsHoldWholeImages` needs no history of who sent what: the
comparison at UPLOAD_END decides. `Implementation` maps each action to a step of
CartridgeSlots: `UploadEnd` and `WebUpload` to `Store`, with or without `Play`;
`Run` and `WebSelect` to `Play` or a stutter; `UploadBegin`, which stops the
player, to its stop; all others to a stutter. It rests on the lemma that the
content of an image determines it.

**IoProofs, the framing** (`FramingAssumption`: the magic is not empty, its bytes
are bytes). `FramesOfStream` itself is not inductive: what the next delivery
completes depends on what the buffer keeps. The invariant (`FramingInv`) speaks
of all futures: for every x, the frames of the stream followed by x are those
handled followed by those of the buffer and x. The loop keeps it (`AllProcessed`,
by induction over the length of the buffer), in three cases: it stops with bytes
that hold no whole frame and less than one (`AwaitsProcessed`), a refused header
costs a byte and no frame (`RefusedProcessed`), a whole frame is the first of any
stream that goes on from here (`FrameProcessed`). That bytes before the first
acceptable header do not matter (`SkipTo`) is where a magic cut in two could be
lost, were less than `Len(Magic) - 1` bytes kept.

**AudioProofs** (`AudioAssumption`; no bound on frames, waits, queues or rates).
The invariant has a part per stage. `ClockInv`: the engine's time is a whole number
of frames, and buffers and unmixed time add up to it (division with remainder,
lemma `DivMod`). `KitInv` and `QueueInv`: each stage's books balance, and the
fractional position stays below `DeviceRate` except at the end of the queue.
`PlayerInv`: the queue is empty while loading, paused and stopped.

**NetworkProofs, the session of a room** (`MultiplayerAssumption`; delays, periods,
frame space and the number of players are arbitrary). `SocketInv` says what
belongs to a socket: an admission is the place the server gave, a socket that is
not connected has no joins, place or retry timer, a socket that is there has no
reconnection pending. With `PeersInv` (what is held is the newest), `PaceInv`
(what was sent too early is still to be waited for: `burst + since <= 2 *
SendPeriod`) and `LimitInv` it is inductive together with `NeverStranded`.
Theorems: `TypeCorrect`, `AdmissionSafe`, `LeaveSafe`, `MemberNotStranded`,
`PeersSafe`, `SnapshotsInOrder` (the wraparound comparison agrees with the order
of frames less than half the space apart), `PaceSafe`, `RateLimitSafe`.

**NetworkProofs, the store** (`StoreAssumption`). `PageIsExplained`: without a
catalogue there is nothing to download, and either a chain of requests is in
flight or it has ended with an error (`PageInv`). `AddressIsShown`: unless answers
crossed a change of the address, all that is in flight is asked of it, and a chain
that has ended without an error has left its catalogue (`ShownInv`). What is in
flight is a bag, so an answered request may leave a copy of itself behind; the
lemmas say no more than what an answer surely removes (`AnswerSends`).

**GuestProofs, the clock** (`ClockAssumption`). `FramesArePaced` is inductive with
the types of the virtual clock. `TracksAreKept`: in every state between steps the
track waits at the event its schedule says, which is not due yet (`Waits`), and the
time it has played and the time it has left add up to the time given to it since
it began (`TrackTimed`), unless a jump, a pause or `MaxAdvance` has taken some
away. One tick keeps this (`TickStep`), and so does one turn of the loop over the
events due (`DueEventStep`); `AdvanceAudioStep` counts that the ticks of a frame
use its time up, since each takes at least the shortest tick. The last is also
`TimeIsUsedUp`.

**GuestProofs, the broker** (`BrokerAssumption`). `CasesAreOrdered` needs only the
shape of a case. `SuitesAreTimed`: a running suite has begun at a time that is past
(`SuiteTimed`), because no step but a load or a mode switch moves the guest's time
back (`ClocksGrow`); the first forgets the suite, the second is what `steady`
excludes. `SuitesAreOrdered` joins the two. `SuitesAreMeasured` keeps books
(`Books`): the cases' totals, frames and missed frames, with the samples of the
open case, add up to those of everything reported. The samples of the open case
are the end of what was reported, those of an ended one the slice its place says,
and its statistics are theirs (`EndedCase`, `InCase`); an aborted suite keeps a case
that is neither. That a percentile by nearest rank is the least sample that enough
samples do not exceed is `PercentileIs`, over any list that ascends; that every
list can be put in order at all is `AllHaveOrder`, by induction on its length with
the greatest put last.

**PlayfieldProofs** (`PlayfieldAssumption`). `DirtyCellsAreEnough`:
`CleanCellsShowTheirTile` is inductive, call by call, once every pixel is known
to lie in a cell (`CellOfPixel`). `LayersRepeat`: the columns and rows that the
drawing loop starts from are division and remainder of the origin, rounded down on
either side of 0 (`StartIsFloor`). `ActorsAreStopped`: the tiles sampled along an
edge find every tile that the actor's pixels lie on (`OverlappingIsBox`: samples are
at most a tile apart), one pixel's step goes only where the actor fits
(`OnePixelX`, `OnePixelY`), and a whole move is induction over its pixels, the
first axis before the second. Entering the top row of a platform is found by
comparing two divisions (`CrossesTop`). `CameraFollows` is one axis twice
(`FollowedShowsActor`).

**CpuProofs** (`CpuAssumption`; any word size, memory, program and host
functions). Each instruction, 32-bit or compressed, keeps memory and reservation,
stores, or does what LR.W and SC.W do (`Effect`); with what host functions store
this makes `ReservationIntact` inductive and gives `ScIsConditional`.
`MachineIsConsistent` adds that words stay words (`Fine32`, `Fine16`; bits put
together are a word by induction over them, `FromBitsWord`), counters grow
together, and the trace ring read from its oldest slot is the list of the last
addresses (`TraceInv`). `TrapsArePrecise`: a trapping instruction changes nothing,
but for a compressed load's destination. For an AMO this needs that an access which
loads also stores, that is, that no byte after the last address is mapped
(`LoadOkStoreOk`). `CompressedAreExpansions` goes through the compressed
instructions; the arithmetic of each is that wrapping an operand first changes
nothing (`WrapAdd`). `ArithmeticIsExact`: the two halves of a product, signed,
unsigned or mixed, join to the product since its size is bounded (`ProductBounds`,
`HighHalf`); DIV truncates towards zero (`Truncates`).

### What the proofs assume of the constants

The assumptions are evaluated by TLC in every run. Most say that a number is one
and that a sentinel is no member. Those that rest on the code:

- `Base # 0`: a cartridge without a load address is loaded at 0x40800000 (RT 146),
  so no guest memory begins at 0. Memory may still end at the last address.
- A shift of a compressed instruction is not negative, other immediates are any
  integers, and registers are those of the register file: what decoding a field of
  bits gives.
- An actor has at least one pixel each way (`ActorType`): `actor_init` makes it so
  (RT 1251-1252). Levels, scrolls and steps have their types.
- The schedule of a track has deltas that are not negative and tempos that are
  tempos (an unsigned field; what sets a tempo clamps it, RT 439, 928). `MaxSteps` ticks use up
  `MaxAdvance`, a relation between two bounds of the model.
- "none" is no cartridge.

### How data is reasoned about

The models compute with recursive functions over numbers, never with RECURSIVE
operators, and the proofs do induction in three ways. Over numbers: a set of
naturals that contains 0 and each successor of a member is all of them (`NatInd`,
`IndTo`, `FromZero`), since one that is not in it would have a least one (`WFMin`
of the library). Over a repeated step: the sequence of its states exists for every
length and stays in a set the step stays in (`Repeated`). Over a recursion whose
body asks for smaller arguments: it has a solution (`Recursion`), and therefore the
function defined by CHOOSE satisfies its equation (`FramesOfIs`, `ProcessIs`,
`SumIs`, `Pow2Unfold`).

### Only model-checked

The liveness properties `EveryPressEnds`, `UploadEnds`, `Admission`, `CallsEnd` and
`LoadingEnds`: the prover handles neither fairness nor ENABLED.

## Where code and documents disagree

Two runs check a sentence of the repository's documents that the code does not
keep. TLC's trace is the explanation; the lines are in `PROJECT.json` under
`findings`.

- **silent** (`IO`:156). "An upload is abandoned when its host disconnects or
  sends nothing for 10 s" (`CHANGELOG.md`:15). Any connection's frame restarts
  the idle timer.
- **compressed** (CPU 630). The class "interprets the RV32I base ISA and the M,
  A, and C extensions" (`Rv32Cpu.h`:11). C.JALR through x1 writes the return
  address before it reads its target and so jumps to the instruction after
  itself; the 32-bit JALR reads first.

Seen while modelling, without a run of their own:

- Coarse timers (AC 203). "Every press ends by itself" (AC 194), but from 2000 ms
  on `QTimer::singleShot` is coarse and may be 5 % early. The lambda then finds
  the deadline not reached, releases nothing, and no timer is left: a host that
  presses for 2 s or longer and disappears can leave its key down. (`coarse` in
  `HeldKeyHasTimer` and `EveryPressEnds` is this exception; `taps` violates both
  without it.)
- Focus (`InputState.h`:44). "Latched input press edges until the next emulated
  frame" (`CHANGELOG.md`:142), but losing the keyboard focus takes the buttons
  the keyboard holds out of the latch that all sources share, a touch tap
  included. (`cleared` in `TapsLatched` is this exception; `taps` violates
  `FramesSeePresses` without it.)
- Breakpoints (AC 416). "resuming ignores that address once"
  (`docs/ARCHITECTURE.md`:93), but the permission is a flag without an address:
  if the breakpoint it was for is removed before the guest moves, the next one
  met is run past.
- The queue's limit (`QA`:283). "The queue holds at most half a second"
  (`QtAudioEngine.h`:44). `limit` is already in values and the comparison doubles
  it again: the queue holds a second.
- `device_blocked` (`MP`:261) "ends the session until a new join"
  (`docs/ARCHITECTURE.md`:41), but the retry timer of an earlier `room_full` goes
  on sending joins.
- The guest's clock is "monotonic milliseconds since this runtime was loaded" (RT
  834); a switch of the performance mode in mid-session (AC 162-177) exchanges
  the virtual clock for the wall clock and may take time back. `TimeUsedUp` and
  `SuiteOrdered` except it.
- `recentInstructionAddresses` says "in retirement order" (`Rv32Cpu.h`:59), but an
  address is recorded before its instruction is fetched (CPU 107): one that traps
  and never retires is in it, too.
- C.LW and C.LWSP write their register before they find that the load traps
  (CPU 524, 612); LW does not. `TrapIsPrecise` and `CompressedAgrees` except it.
- `random_range_inclusive(0, 0xffffffff)` divides by zero (RT 1411).
- Above the map the division by the tile size truncates towards row 0, so that a
  platform flag on tile 0 holds an actor at any height; `LandsOnPlatforms`
  excepts it.
- The message that a store address is invalid is taken away at once by the
  `refresh` that follows it in the page (`qml/Main.qml`:158). A refresh that
  failed leaves the old catalogue under the new address, and a download that
  succeeds then takes its error text away. Replies of the store that was left
  fill the new one's icons and catalogue. `ShownOfAddress` excepts all three.
- A frame finished by single steps leaves the buttons of its slices for the next
  frame, since only the slice loop resets `debugFrameInput_`.
- `docs/ARCHITECTURE.md`:102 says single-step is active only on the
  instruction-level path; `debugStep` (AC 487-502) does not ask for it.
- `docs/DEBUGGING.md`:49 says breakpoints are cleared when another cartridge is
  loaded; a cartridge whose init traps is loaded and keeps the old ones.
- The single shot that hides the screen of one upload hides the next one's too
  if it begins within 1800 ms, until its next chunk.
- `FirmwareAudio.h`:32-34 counts frames from init; a frame finished by a single
  step is not counted, and the engine is behind by its 33 ms from then on.
- "linear between samples" (`QA`:290): for a device slower than 22050 Hz the
  position can end a read beyond its two frames, and the next read extrapolates.

## What is not modelled

- The bit layout of instructions, pixels beyond tiles and `rect`, the
  disassembler, formatting of JSON, HTTP and mDNS: data without order, served by
  unit tests.
- `prg32-io` replies; crashes while a slot is written; the parsers of cartridges
  and audio blocks; host calls for text, primitives, sprites, scores, notes and
  Wi-Fi.
- Of Multiplayer: signatures, flags, requested player IDs, the contents of
  snapshots, the choice of the server's address, message syntax.
- Of the Qt audio engine: the synthesizer's voices, device start and errors,
  sample formats, the meter's copies.
- Of Player: the telemetry; Unlimited and slowed-down timers, which change only
  how often the timer's handler runs.
- Gamepad backends and safe areas: their one effect on the modelled state is
  `GamepadChanged`.
- mDNS: stateless answers and a periodic announcement.

## The plan

Done, in this order: Inputs (with InputState), Player, IoUpload (with
CartridgeSlots), AudioPipeline, Multiplayer, Rv32Cpu, GuestClock and PerfBroker
(composed by Guest), Playfield, StoreClient and IoFraming, each with the proofs of
its safety properties. To come, each with proofs of its own:

1. **SlotStore**: `saveCartridge` (truncate and rewrite) and `uploadSlot`
   (`QSaveFile`) on a file system with crashes, checked against CartridgeSlots.
2. **CartridgeParse**: the header's bounds as one predicate against the sequence
   of checks.
3. A composition of Player and AudioPipeline on the session's state.

## Running it

    tlc -config MCPlayer.cfg MCPlayer        # any row of the table of runs
    tlapm PlayerProofs.tla                   # any module of proofs

The longest runs (`guest`, `store`, `taps`) take about a minute and a half on two
workers, the proofs together about ten.
