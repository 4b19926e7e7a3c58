------------------------------ MODULE IoUpload ------------------------------
(***************************************************************************)
(* The prg32-io upload session of IoProtocolServer: one upload at a time,  *)
(* fed by any number of TCP connections, ended by UPLOAD_END, by the        *)
(* disconnection of its host or by the idle timer; the upload screen and    *)
(* the cartridge slots of AppController it drives, which the Web API and    *)
(* the user drive too.                                                      *)
(*                                                                         *)
(* A cartridge image is its sequence of chunks; a length and CRC-32 that    *)
(* match are the image itself.  Frames arrive whole and in order; their     *)
(* parsing is not modelled here.  Timers fire when they are due.            *)
(***************************************************************************)
EXTENDS Integers, Sequences

CONSTANTS
  Conn,       (* TCP connections                                             *)
  Slot,       (* cartridge slots                                             *)
  Image,      (* cartridge images                                            *)
  Chunks,     (* Chunks[i]: how many UPLOAD_DATA chunks image i takes        *)
  Invalid,    (* images that Cartridge::parse refuses                        *)
  NoSlot, NoConn, NoImage,
  IdleTicks,  (* UploadIdleMs, in ticks                                      *)
  MaxHide     (* bound on hide timers outstanding at once                    *)

ASSUME UploadAssumption ==
  /\ NoSlot \notin Slot /\ NoConn \notin Conn /\ NoImage \notin Image
  /\ Chunks \in [Image -> Nat \ {0}] /\ Invalid \subseteq Image
  /\ IdleTicks \in Nat \ {0} /\ MaxHide \in Nat \ {0}

VARIABLES
  open,           (* connections that are up                                 *)
  uploadSlot,     (* uploadSlot_, NoSlot when no upload is active            *)
  announced,      (* uploadSize_ and uploadCrc_: the image of UPLOAD_BEGIN   *)
  command,        (* uploadCommand_                                          *)
  uploadSocket,   (* uploadSocket_                                           *)
  upload,         (* upload_: the chunks received                            *)
  idle,           (* ticks left on uploadIdle_, 0 when due, -1 when stopped  *)
  screen,         (* AppController::uploadActive_                            *)
  hideTimers,     (* outstanding 1800 ms single shots that hide the screen   *)
  slots,          (* the slot files: a sequence of chunks, <<>> when empty   *)
  playing,        (* the cartridge the player runs                           *)
  remoteKeys,     (* some remote key is down                                 *)
  \* history
  mixed,          (* a chunk of another image reached the active upload      *)
  owner,          (* the connection that sent the last UPLOAD_BEGIN          *)
  silence         (* ticks since uploadSocket last sent a frame              *)

sessionVars == <<uploadSlot, announced, command, uploadSocket, upload>>
screenVars == <<screen, hideTimers>>
vars == <<open, sessionVars, idle, screenVars, slots, playing, remoteKeys, mixed, owner, silence>>

Chunk == Image \X (Nat \ {0})
Content(i) == [k \in 1 .. Chunks[i] |-> <<i, k>>]
Uploading == uploadSlot # NoSlot
Stopped == -1

SessionOK ==
  /\ open \subseteq Conn
  /\ uploadSlot \in Slot \cup {NoSlot} /\ uploadSocket \in Conn \cup {NoConn}
  /\ announced \in Image \cup {NoImage} /\ command \in {"store", "run"}
  /\ owner \in Conn \cup {NoConn}
  /\ idle \in {Stopped} \cup 0 .. IdleTicks /\ silence \in 0 .. IdleTicks + 1
  /\ hideTimers \in 0 .. MaxHide

ChunksOK == upload \in Seq(Chunk) /\ slots \in [Slot -> Seq(Chunk)] /\ playing \in Seq(Chunk)

FlagsOK == screen \in BOOLEAN /\ remoteKeys \in BOOLEAN /\ mixed \in BOOLEAN

TypeOK == SessionOK /\ ChunksOK /\ FlagsOK

Init ==
  /\ open = {}
  /\ uploadSlot = NoSlot /\ uploadSocket = NoConn /\ announced = NoImage
  /\ command = "store" /\ upload = <<>>
  /\ idle = Stopped /\ silence = 0 /\ mixed = FALSE /\ owner = NoConn
  /\ screen = FALSE /\ hideTimers = 0
  /\ slots \in [Slot -> {<<>>} \cup { Content(i) : i \in Image \ Invalid }]
  /\ playing = <<>> /\ remoteKeys = FALSE
-----------------------------------------------------------------------------
(* process(): every complete frame of any connection restarts a running      *)
(* upload's idle timer before it is looked at.                               *)

Frame(c) ==
  /\ c \in open
  /\ silence' = IF c = uploadSocket THEN 0 ELSE silence

RestartIdle == idle' = IF Uploading THEN IdleTicks ELSE idle

(* A frame that changes nothing else: a bad checksum, HELLO, PERFORMANCE_GET, *)
(* and every request that is refused.                                         *)
OtherFrame(c) ==
  /\ Frame(c) /\ RestartIdle
  /\ UNCHANGED <<open, sessionVars, screenVars, slots, playing, remoteKeys, mixed, owner>>

(* Mutant: the idle timer starts with the first chunk only. *)
UploadBeginNoIdle(c, i, s, cmd) ==
  /\ c \in open /\ silence' = 0
  /\ hideTimers < MaxHide
  /\ uploadSlot' = s /\ announced' = i /\ command' = cmd /\ uploadSocket' = c
  /\ upload' = <<>> /\ mixed' = FALSE /\ owner' = c
  /\ remoteKeys' = FALSE /\ playing' = <<>> /\ screen' = TRUE
  /\ UNCHANGED <<open, idle, hideTimers, slots>>

(* UPLOAD_BEGIN takes the place of any upload in progress, whoever began it. *)
UploadBegin(c, i, s, cmd) ==
  /\ c \in open /\ silence' = 0
  /\ hideTimers < MaxHide
  /\ uploadSlot' = s /\ announced' = i /\ command' = cmd /\ uploadSocket' = c
  /\ upload' = <<>> /\ mixed' = FALSE /\ owner' = c
  /\ idle' = IdleTicks
  /\ remoteKeys' = FALSE
  /\ playing' = <<>>
  /\ screen' = TRUE
  /\ UNCHANGED <<open, hideTimers, slots>>

(* Mutant: a chunk at or before the end of the data is appended. *)
UploadDataAppendsResent(c, i, k) ==
  /\ Frame(c) /\ RestartIdle
  /\ Uploading /\ k - 1 <= Len(upload) /\ Len(upload) < Chunks[announced]
  /\ upload' = Append(upload, <<i, k>>)
  /\ mixed' = IF i = announced THEN mixed ELSE TRUE
  /\ screen' = TRUE
  /\ UNCHANGED <<open, uploadSlot, announced, command, uploadSocket, hideTimers, slots,
                 playing, remoteKeys, owner>>

(* UPLOAD_DATA carries chunk k of image i, from any connection.  One that ends *)
(* where the data ends is a resend: acknowledged, not written.                 *)
UploadData(c, i, k) ==
  /\ Frame(c) /\ RestartIdle
  /\ Uploading
  /\ \/ /\ k = Len(upload)
        /\ UNCHANGED <<upload, mixed>>
     \/ /\ k = Len(upload) + 1 /\ Len(upload) < Chunks[announced]
        /\ upload' = Append(upload, <<i, k>>)
        /\ mixed' = IF i = announced THEN mixed ELSE TRUE
  /\ screen' = TRUE
  /\ UNCHANGED <<open, uploadSlot, announced, command, uploadSocket, hideTimers, slots,
                 playing, remoteKeys, owner>>

(* AppController::selectSlot on slot contents `files`: an empty slot changes    *)
(* nothing, a cartridge that does not load stops the one that was playing.      *)
SelectSlot(s, files) ==
  IF files[s] = <<>> THEN UNCHANGED playing ELSE playing' \in {files[s], <<>>}

(* uploadSlot parses the image first and replaces the file in one step.         *)
Storable == announced \notin Invalid

(* Mutant: the length is compared, the checksum is not. *)
UploadEndLengthOnly(c) ==
  /\ Frame(c)
  /\ Uploading
  /\ uploadSlot' = NoSlot /\ uploadSocket' = NoConn /\ idle' = Stopped
  /\ IF Len(upload) = Chunks[announced]
       THEN slots' = [slots EXCEPT ![uploadSlot] = upload]
       ELSE UNCHANGED slots
  /\ screen' = TRUE /\ hideTimers' = hideTimers + 1
  /\ UNCHANGED <<open, announced, command, upload, playing, remoteKeys, mixed, owner>>

(* Mutant: "run" plays what was received, whether it was stored or not. *)
UploadEndPlaysUpload(c) ==
  /\ Frame(c)
  /\ Uploading
  /\ uploadSlot' = NoSlot /\ uploadSocket' = NoConn /\ idle' = Stopped
  /\ IF upload = Content(announced) /\ Storable
       THEN slots' = [slots EXCEPT ![uploadSlot] = upload]
       ELSE UNCHANGED slots
  /\ playing' = IF command = "store" THEN playing ELSE upload
  /\ screen' = TRUE /\ hideTimers' = hideTimers + 1
  /\ UNCHANGED <<open, announced, command, upload, remoteKeys, mixed, owner>>

UploadEnd(c) ==
  /\ Frame(c)
  /\ Uploading
  /\ uploadSlot' = NoSlot /\ uploadSocket' = NoConn /\ idle' = Stopped
  /\ \/ /\ upload = Content(announced) /\ Storable
        /\ slots' = [slots EXCEPT ![uploadSlot] = upload]
        /\ IF command = "store" THEN UNCHANGED playing ELSE SelectSlot(uploadSlot, slots')
     \/ UNCHANGED <<slots, playing>>   \* a mismatch, a refused image, a failed write
  /\ screen' = TRUE /\ hideTimers' = hideTimers + 1
  /\ UNCHANGED <<open, announced, command, upload, remoteKeys, mixed, owner>>

(* RUN and DEBUG release the remote keys even when the slot cannot be run. *)
Run(c, s) ==
  /\ Frame(c)
  /\ ~Uploading
  /\ remoteKeys' = FALSE
  /\ SelectSlot(s, slots)
  /\ UNCHANGED <<open, sessionVars, idle, screenVars, slots, mixed, owner>>

Key(c, down) ==
  /\ Frame(c)
  /\ ~Uploading
  /\ remoteKeys' = down
  /\ UNCHANGED <<open, sessionVars, idle, screenVars, slots, playing, mixed, owner>>
-----------------------------------------------------------------------------
(* What ends an upload without UPLOAD_END. *)

(* abandonUpload() *)
AbandonUpload ==
  /\ idle' = Stopped /\ uploadSocket' = NoConn /\ upload' = <<>> /\ uploadSlot' = NoSlot
  /\ screen' = TRUE /\ hideTimers' = hideTimers + 1
  /\ UNCHANGED <<announced, command>>

(* Mutant: the end of any connection ends the upload. *)
DisconnectAny(c) ==
  /\ c \in open /\ open' = open \ {c}
  /\ IF Uploading THEN AbandonUpload ELSE UNCHANGED <<sessionVars, idle, screenVars>>
  /\ UNCHANGED <<slots, playing, remoteKeys, mixed, owner, silence>>

Disconnect(c) ==
  /\ c \in open /\ open' = open \ {c}
  /\ IF Uploading /\ uploadSocket = c
       THEN AbandonUpload
       ELSE UNCHANGED <<sessionVars, idle, screenVars>>
  /\ UNCHANGED <<slots, playing, remoteKeys, mixed, owner, silence>>

IdleTimeout ==
  /\ idle = 0
  /\ IF Uploading THEN AbandonUpload ELSE idle' = Stopped /\ UNCHANGED <<sessionVars, screenVars>>
  /\ UNCHANGED <<open, slots, playing, remoteKeys, mixed, owner, silence>>

(* The single shot that hides the screen of an upload that has ended. *)
HideScreen ==
  /\ hideTimers > 0 /\ hideTimers' = hideTimers - 1
  /\ screen' = FALSE
  /\ UNCHANGED <<open, sessionVars, idle, slots, playing, remoteKeys, mixed, owner, silence>>
-----------------------------------------------------------------------------
(* Everyone else. *)

Connect(c) ==
  /\ c \notin open /\ open' = open \cup {c}
  /\ UNCHANGED <<sessionVars, idle, screenVars, slots, playing, remoteKeys, mixed, owner, silence>>

(* POST /api/games, which an upload in progress does not hold up. *)
WebUpload(i, s) ==
  /\ i \notin Invalid
  /\ slots' = [slots EXCEPT ![s] = Content(i)]
  /\ UNCHANGED <<open, sessionVars, idle, screenVars, playing, remoteKeys, mixed, owner, silence>>

(* POST /api/games/select; nor does it hold up this. *)
WebSelect(s) ==
  /\ SelectSlot(s, slots)
  /\ UNCHANGED <<open, sessionVars, idle, screenVars, slots, remoteKeys, mixed, owner, silence>>

(* The hold time of the remote keys runs out. *)
KeysExpire ==
  /\ remoteKeys /\ remoteKeys' = FALSE
  /\ UNCHANGED <<open, sessionVars, idle, screenVars, slots, playing, mixed, owner, silence>>

Tick ==
  /\ Uploading /\ idle # 0
  /\ idle' = IF idle = Stopped THEN idle ELSE idle - 1
  /\ silence' = IF silence > IdleTicks THEN silence ELSE silence + 1
  /\ UNCHANGED <<open, sessionVars, screenVars, slots, playing, remoteKeys, mixed, owner>>

HostFrame ==
  \E c \in Conn :
    \/ OtherFrame(c)
    \/ \E i \in Image, s \in Slot, cmd \in {"store", "run"} : UploadBegin(c, i, s, cmd)
    \/ \E i \in Image : \E k \in 1 .. Chunks[i] : UploadData(c, i, k)
    \/ UploadEnd(c)
    \/ \E s \in Slot : Run(c, s)
    \/ \E down \in BOOLEAN : Key(c, down)

Next ==
  \/ HostFrame
  \/ \E c \in Conn : Connect(c) \/ Disconnect(c)
  \/ IdleTimeout \/ HideScreen \/ KeysExpire \/ Tick
  \/ \E i \in Image, s \in Slot : WebUpload(i, s)
  \/ \E s \in Slot : WebSelect(s)

Spec == Init /\ [][Next]_vars

(* The Qt event loop runs the timers that are due, and time goes on. *)
FairSpec == Spec /\ WF_vars(Tick) /\ WF_vars(IdleTimeout) /\ WF_vars(HideScreen)
-----------------------------------------------------------------------------
(* A slot never holds anything but one whole, valid image, whatever chunks   *)
(* of whatever hosts were mixed, resent or lost on the way.                  *)
StoredComplete ==
  \A s \in Slot : slots[s] = <<>> \/ \E i \in Image \ Invalid : slots[s] = Content(i)

(* An upload fed with chunks of its own image only has received a prefix of  *)
(* it, in any order and with any repetition of the chunks sent.              *)
ReceivedPrefix ==
  Uploading /\ ~mixed => \A k \in 1 .. Len(upload) : upload[k] = <<announced, k>>

(* "A host that goes away mid-upload must not leave KEY and RUN refused": the *)
(* connection that began the active upload is up.                             *)
OwnerConnected == Uploading => owner \in open

(* Nor may it end the upload that another host has begun over its own. *)
OthersUploadKept ==
  [][\A c \in open \ open' : Uploading /\ c # owner => UNCHANGED sessionVars]_vars

(* No remote key is down while the board takes an upload. *)
NoKeysWhileUploading == Uploading => ~remoteKeys

(* The images the slots and the player hold, as the abstract slots see them.   *)
ImageOf(content) ==
  IF content = <<>> THEN NoImage
  ELSE IF \E i \in Image : content = Content(i)
    THEN CHOOSE i \in Image : content = Content(i)
    ELSE "corrupt"

Slots == INSTANCE CartridgeSlots WITH
           Valid <- Image \ Invalid,
           stored <- [s \in Slot |-> ImageOf(slots[s])],
           playing <- ImageOf(playing)

(* Chunk by chunk and whoever interferes, the protocol does to the slots and   *)
(* to the player nothing but store and start whole cartridges.                 *)
ImplementsSlots == Slots!Spec

(* When the hosts fall silent, the upload ends and its screen goes away. *)
UploadEnds == []<>(~Uploading /\ ~screen) \/ []<><<HostFrame>>_vars

(* "An upload is abandoned when its host ... sends nothing for 10 s". *)
SilentHostAbandoned == Uploading => silence <= IdleTicks

(* What an upload leaves and what it needs while it lasts: whole images in   *)
(* the slots, its own host connected, no remote key down.                    *)
UploadConsistent == TypeOK /\ StoredComplete /\ OwnerConnected /\ NoKeysWhileUploading
=============================================================================
