----------------------------- MODULE Multiplayer -----------------------------
(***************************************************************************)
(* The multiplayer session of QtMultiplayerService: a cartridge asks to be  *)
(* in a room, the service keeps it there across lost sockets and full       *)
(* rooms, holds the newest snapshot of every peer and paces its own.        *)
(*                                                                         *)
(* The server is external: it answers joins, relays snapshots and closes    *)
(* sockets whenever it likes.  Signatures, flags, the requested player ID   *)
(* and the local snapshot are data no property tells apart and are left     *)
(* out.  A snapshot is its frame number, counted without wraparound; the    *)
(* code sees it modulo FrameSpace.                                          *)
(***************************************************************************)
EXTENDS Integers, FiniteSets

CONSTANTS
  Id, NoId,      (* player IDs and 0                                         *)
  MaximumPeers,
  FrameSpace,    (* 2^32: how many frame numbers there are                   *)
  InitialDelay,  (* ReconnectInitialDelayMs                                  *)
  MaximumDelay,  (* ReconnectMaximumDelayMs                                  *)
  SendPeriod,    (* SendPeriodMs                                             *)
  LongestFrame,  (* by how much the clock of tick() moves on at most         *)
  MaxFrame,      (* bound on the frames a peer sends                         *)
  MaxJoins       (* bound on joins the server has not answered               *)

ASSUME MultiplayerAssumption ==
  /\ NoId \notin Id
  /\ MaximumPeers \in Nat \ {0}
  /\ FrameSpace \in Nat \ {0} /\ FrameSpace % 2 = 0
  /\ InitialDelay \in Nat \ {0} /\ MaximumDelay \in Nat /\ InitialDelay <= MaximumDelay
  /\ SendPeriod \in Nat \ {0} /\ LongestFrame \in Nat \ {0}
  /\ MaxFrame \in Nat /\ MaxJoins \in Nat \ {0}

VARIABLES
  memberRequested, policyStopped,
  admitted,      (* admittedPlayerId_                                        *)
  socket,        (* socket_.state()                                          *)
  reconnect,     (* the delay reconnectTimer_ was started with, 0 if stopped *)
  delay,         (* reconnectDelayMs_                                        *)
  joinRetry,     (* joinRetryTimer_ is active                                *)
  peers,         (* peers_: the frame held of each peer                      *)
  silent,        (* the peers last seen more than PeerTimeoutMs ago          *)
  since,         (* time since lastSendMs_, as far as tick() tells it apart  *)
  \* the server
  joins,         (* joins sent on this socket that it has not answered       *)
  place,         (* the player ID it has given to this socket                *)
  closing,       (* it is closing this socket                                *)
  \* history
  newest,        (* the newest frame received of each peer held              *)
  limited,       (* rate_limited since the last join and welcome             *)
  burst          (* snapshots sent beyond one per SendPeriod, as time        *)

memberVars == <<memberRequested, policyStopped, admitted>>
timerVars == <<reconnect, delay, joinRetry>>
peerVars == <<peers, silent, newest>>
serverVars == <<joins, place, closing>>
sendVars == <<since, burst>>
vars == <<memberVars, socket, timerVars, peerVars, serverVars, sendVars, limited>>

SocketState == {"unconnected", "connecting", "connected", "closing"}
NoPeers == [id \in {} |-> 0]
Least(a, b) == IF a <= b THEN a ELSE b
Without(f, S) == [id \in DOMAIN f \ S |-> f[id]]
With(f, id, n) == [i \in DOMAIN f \cup {id} |-> IF i = id THEN n ELSE f[i]]

FlagsOK ==
  /\ memberRequested \in BOOLEAN /\ policyStopped \in BOOLEAN
  /\ joinRetry \in BOOLEAN /\ closing \in BOOLEAN /\ limited \in BOOLEAN

SessionOK ==
  /\ admitted \in Id \cup {NoId} /\ place \in Id \cup {NoId}
  /\ socket \in SocketState
  /\ delay \in InitialDelay .. MaximumDelay
  /\ reconnect \in 0 .. 2 * MaximumDelay
  /\ joins \in 0 .. MaxJoins
  /\ since \in 0 .. 2 * SendPeriod /\ burst \in Nat

PeersOK ==
  /\ DOMAIN peers \subseteq Id /\ Cardinality(DOMAIN peers) <= MaximumPeers
  /\ silent \subseteq DOMAIN peers
  /\ peers \in [DOMAIN peers -> 0 .. MaxFrame] /\ newest \in [DOMAIN peers -> 0 .. MaxFrame]

TypeOK == FlagsOK /\ SessionOK /\ PeersOK

Init ==
  /\ memberRequested = FALSE /\ policyStopped = FALSE /\ admitted = NoId
  /\ socket = "unconnected"
  /\ reconnect = 0 /\ delay = InitialDelay /\ joinRetry = FALSE
  /\ peers = NoPeers /\ silent = {} /\ newest = NoPeers
  /\ joins = 0 /\ place = NoId /\ closing = FALSE
  /\ since = 2 * SendPeriod /\ burst = 0 /\ limited = FALSE
-----------------------------------------------------------------------------
(* What several handlers do. *)

ForgetPeers == peers' = NoPeers /\ silent' = {} /\ newest' = NoPeers

NewSocket == joins' = 0 /\ place' = NoId /\ closing' = FALSE

(* sendJoin(): nothing is sent without a membership or a connection. *)
SendJoin ==
  IF memberRequested /\ socket' = "connected"
    THEN joins < MaxJoins /\ joins' = joins + 1
    ELSE UNCHANGED joins

(* scheduleReconnect() *)
ScheduleReconnect ==
  /\ \E jitter \in 0 .. delay \div 2 : reconnect' = delay + jitter
  /\ delay' = Least(delay * 2, MaximumDelay)

(* prune(): peers_ without those that have been silent for too long. *)
Prune ==
  /\ peers' = Without(peers, silent) /\ newest' = Without(newest, silent)
  /\ silent' = {}
-----------------------------------------------------------------------------
(* What the guest and the settings call. *)

(* join(): a member leaves first; open() drops whatever socket there was.     *)
(* A signature or an address that is refused changes nothing.                 *)
Join ==
  /\ memberRequested' = TRUE /\ policyStopped' = FALSE
  /\ IF memberRequested
       THEN admitted' = NoId /\ reconnect' = 0 /\ joinRetry' = FALSE
       ELSE UNCHANGED <<admitted, reconnect, joinRetry>>
  /\ delay' = InitialDelay
  /\ ForgetPeers
  /\ socket' = "connecting" /\ NewSocket
  /\ limited' = FALSE
  /\ UNCHANGED sendVars

(* leave(), by the guest, Runtime::stop or a new server address.  close() may *)
(* have finished when it returns, or finish later.                            *)
Leave ==
  /\ memberRequested' = FALSE /\ admitted' = NoId
  /\ reconnect' = 0 /\ joinRetry' = FALSE
  /\ ForgetPeers
  /\ socket' \in IF socket = "unconnected" THEN {socket} ELSE {"unconnected", "closing"}
  /\ NewSocket
  /\ limited' = FALSE
  /\ UNCHANGED <<policyStopped, delay, sendVars>>

(* Mutant: only a late send is recorded. *)
SendStateKeepsTime ==
  /\ since' = IF since < 2 * SendPeriod THEN since ELSE 0
  /\ burst' = burst + SendPeriod

(* The send of tick(): the period counts from when this send was due. *)
SendState ==
  /\ since' = IF since < 2 * SendPeriod THEN since - SendPeriod ELSE 0
  /\ burst' = burst + SendPeriod

Tick ==
  /\ Prune
  /\ IF admitted # NoId /\ since >= SendPeriod THEN SendState ELSE UNCHANGED sendVars
  /\ UNCHANGED <<memberVars, socket, timerVars, serverVars, limited>>

(* peerCount() and peer() *)
ReadPeers ==
  /\ silent # {} /\ Prune
  /\ UNCHANGED <<memberVars, socket, timerVars, serverVars, sendVars, limited>>

(* The clock tick() is given; the time since the last send matters up to two  *)
(* periods.                                                                   *)
FramePasses(dt) ==
  /\ since' = Least(since + dt, 2 * SendPeriod)
  /\ burst' = IF burst > dt THEN burst - dt ELSE 0
  /\ UNCHANGED <<memberVars, socket, timerVars, peerVars, serverVars, limited>>
-----------------------------------------------------------------------------
(* The timers. *)

ReconnectFires ==
  /\ reconnect > 0 /\ reconnect' = 0
  /\ IF memberRequested /\ socket = "unconnected"
       THEN socket' = "connecting" /\ NewSocket
       ELSE UNCHANGED <<socket, serverVars>>
  /\ UNCHANGED <<memberVars, delay, joinRetry, peerVars, sendVars, limited>>

JoinRetryFires ==
  /\ joinRetry
  /\ UNCHANGED socket /\ SendJoin
  /\ UNCHANGED <<memberVars, timerVars, peerVars, place, closing, sendVars, limited>>

(* A peer has not been heard of for more than PeerTimeoutMs. *)
FallsSilent(id) ==
  /\ id \in DOMAIN peers \ silent /\ silent' = silent \cup {id}
  /\ UNCHANGED <<memberVars, socket, timerVars, peers, newest, serverVars, sendVars, limited>>
-----------------------------------------------------------------------------
(* What the socket reports: a connection that is up, which sends the join. *)

(* Mutant: the session begins without a join. *)
ConnectedSilent ==
  /\ socket = "connecting" /\ socket' = "connected"
  /\ UNCHANGED <<memberVars, timerVars, peerVars, serverVars, sendVars, limited>>

Connected ==
  /\ socket = "connecting" /\ socket' = "connected"
  /\ SendJoin
  /\ UNCHANGED <<memberVars, timerVars, peerVars, place, closing, sendVars, limited>>

(* Mutant: the admission outlives the socket. *)
DisconnectedKeepsAdmission ==
  /\ socket # "unconnected" /\ socket' = "unconnected" /\ NewSocket
  /\ joinRetry' = FALSE
  /\ ForgetPeers
  /\ IF memberRequested /\ ~policyStopped
       THEN ScheduleReconnect
       ELSE UNCHANGED <<reconnect, delay>>
  /\ UNCHANGED <<memberVars, sendVars, limited>>

(* handleDisconnected(): a connection that failed, was lost or was closed. *)
Disconnected ==
  /\ socket # "unconnected" /\ socket' = "unconnected" /\ NewSocket
  /\ admitted' = NoId /\ joinRetry' = FALSE
  /\ ForgetPeers
  /\ IF memberRequested /\ ~policyStopped
       THEN ScheduleReconnect
       ELSE UNCHANGED <<reconnect, delay>>
  /\ UNCHANGED <<memberRequested, policyStopped, sendVars, limited>>
-----------------------------------------------------------------------------
(* handleMessage(): what the server sends.  Its answers come in the order of  *)
(* the joins; a socket keeps the place it was given; snapshots are relayed    *)
(* once it has one, possibly its own too.                                     *)

Served == socket = "connected" /\ ~closing
Answered == Served /\ joins > 0 /\ joins' = joins - 1

Welcome(id) ==
  /\ Answered
  /\ place \in {NoId, id} /\ place' = id
  /\ admitted' = id
  /\ delay' = InitialDelay /\ joinRetry' = FALSE
  /\ limited' = FALSE
  /\ UNCHANGED <<memberRequested, policyStopped, socket, reconnect, peerVars, closing, sendVars>>

(* Mutant: the join is not repeated. *)
RoomFullNoRetry ==
  /\ Answered /\ place = NoId
  /\ UNCHANGED <<memberVars, socket, timerVars, peerVars, place, closing, sendVars, limited>>

(* handleError("room_full") *)
RoomFull ==
  /\ Answered /\ place = NoId
  /\ joinRetry' = TRUE
  /\ UNCHANGED <<memberVars, socket, reconnect, delay, peerVars, place, closing, sendVars,
                 limited>>

(* handleError("rate_limited"), after which the server closes the socket *)
RateLimited ==
  /\ Served /\ closing' = TRUE
  /\ delay' = MaximumDelay
  /\ limited' = TRUE
  /\ UNCHANGED <<memberVars, socket, reconnect, joinRetry, peerVars, joins, place, sendVars>>

(* handleError("device_blocked"), after which the server may close the socket *)
DeviceBlocked ==
  /\ Served /\ closing' \in BOOLEAN
  /\ joins' = IF joins > 0 THEN joins - 1 ELSE 0
  /\ policyStopped' = TRUE
  /\ UNCHANGED <<memberRequested, admitted, socket, timerVars, peerVars, place, sendVars,
                 limited>>

(* Mutant: frame numbers are compared as they are. *)
OlderNoWrap(n, held) == n < held

(* int32_t(n - held) < 0 *)
Older(n, held) == (n - held) % FrameSpace >= FrameSpace \div 2

(* The snapshot of frame n of a player, relayed by less than half the frame   *)
(* numbers too early or too late.                                             *)
PeerSnapshot(id, n) ==
  /\ Served /\ place # NoId
  /\ id # admitted
  /\ IF id \in DOMAIN peers
       THEN /\ n - newest[id] \in -(FrameSpace \div 2 - 1) .. FrameSpace \div 2 - 1
            /\ newest' = [newest EXCEPT ![id] = IF n > @ THEN n ELSE @]
            /\ IF Older(n % FrameSpace, peers[id] % FrameSpace)
                 THEN UNCHANGED <<peers, silent>>
                 ELSE peers' = [peers EXCEPT ![id] = n] /\ silent' = silent \ {id}
       ELSE /\ Cardinality(DOMAIN peers) < MaximumPeers
            /\ peers' = With(peers, id, n) /\ newest' = With(newest, id, n)
            /\ UNCHANGED silent
  /\ UNCHANGED <<memberVars, socket, timerVars, serverVars, sendVars, limited>>

PeerLeft(id) ==
  /\ Served /\ id \in DOMAIN peers
  /\ peers' = Without(peers, {id}) /\ newest' = Without(newest, {id})
  /\ silent' = silent \ {id}
  /\ UNCHANGED <<memberVars, socket, timerVars, serverVars, sendVars, limited>>

Admits == \E id \in Id : Welcome(id)

Next ==
  \/ Join \/ Leave \/ Tick \/ ReadPeers
  \/ \E dt \in 1 .. LongestFrame : FramePasses(dt)
  \/ ReconnectFires \/ JoinRetryFires
  \/ Connected \/ Disconnected
  \/ Admits \/ RoomFull \/ RateLimited \/ DeviceBlocked
  \/ \E id \in Id : FallsSilent(id) \/ PeerLeft(id)
  \/ \E id \in Id, n \in 0 .. MaxFrame : PeerSnapshot(id, n)

Spec == Init /\ [][Next]_vars

(* The Qt event loop runs the timers that are due and reports a socket that   *)
(* the server closes; a connection that is tried again and again succeeds,    *)
(* and a server that is asked again and again has a place in the end.         *)
FairSpec ==
  /\ Spec
  /\ WF_vars(ReconnectFires) /\ WF_vars(JoinRetryFires)
  /\ WF_vars(closing /\ Disconnected)
  /\ SF_vars(Connected) /\ SF_vars(Admits)
-----------------------------------------------------------------------------
(* "The local ID is 0 until welcome" and "a lost socket is a new session":    *)
(* a player ID the guest sees is the one the server gave to this very socket. *)
AdmittedByServer ==
  admitted # NoId => memberRequested /\ socket = "connected" /\ place = admitted

(* Leaving ends everything: whatever was under way, nothing of the session    *)
(* is left to come back by itself.                                            *)
LeftForGood ==
  ~memberRequested =>
    /\ reconnect = 0 /\ ~joinRetry /\ DOMAIN peers = {}
    /\ socket \in {"unconnected", "closing"}

(* A member that is not in the room always has something under way that will  *)
(* ask again: the request for membership is never stranded.                   *)
NeverStranded ==
  memberRequested /\ ~policyStopped /\ admitted = NoId =>
    CASE socket = "unconnected" -> reconnect > 0
      [] socket = "connecting"  -> TRUE
      [] socket = "connected"   -> joins > 0 \/ joinRetry \/ closing
      [] socket = "closing"     -> FALSE

(* The peers are other players of this session, none of them the player. *)
PeersOfSession ==
  DOMAIN peers # {} => place # NoId /\ socket = "connected" /\ admitted \notin DOMAIN peers

(* "Snapshots older than the held frame are dropped", with 32-bit wraparound: *)
(* the frame held of a peer is the newest received since it appeared.         *)
NewestHeld == \A id \in DOMAIN peers : peers[id] = newest[id]

(* However unevenly the guest ticks, it sends at most one snapshot more than  *)
(* one per SendPeriod.                                                        *)
SendsPaced == burst <= 2 * SendPeriod

(* A client that was refused with rate_limited comes back after the maximum   *)
(* delay only.                                                                *)
RateLimitRespected == limited /\ reconnect > 0 => reconnect >= MaximumDelay

(* A member that is not blocked is admitted in the end. *)
Admission ==
  memberRequested /\ ~policyStopped ~> admitted # NoId \/ ~memberRequested \/ policyStopped

(* Whatever is left, lost, refused or rejoined: the admission, the peers and *)
(* the timers belong to the socket of the session that is under way.         *)
SessionOfSocket == TypeOK /\ AdmittedByServer /\ PeersOfSession /\ LeftForGood

(* The client keeps to the pace of its snapshots and to the server's limit.  *)
LimitsKept == SendsPaced /\ RateLimitRespected
=============================================================================
