---------------------------- MODULE NetworkProofs ----------------------------
(* Theorems about the two clients of a server.  Multiplayer: the session, its  *)
(* peers and its pace, for any number of players, any delays and periods.      *)
(* StoreClient: what the page shows, for any stores and cartridges.            *)
EXTENDS Multiplayer, StoreClient, FiniteSetTheorems, TLAPS

(* The socket, the timers and the server's view of them. *)
SocketInv ==
  /\ place = admitted
  /\ socket # "connected" => joins = 0 /\ place = NoId /\ ~closing /\ ~joinRetry
  /\ socket # "unconnected" => reconnect = 0
  /\ IF memberRequested
       THEN socket # "closing"
       ELSE socket \in {"unconnected", "closing"} /\ reconnect = 0

PeersInv ==
  /\ IsFiniteSet(DOMAIN peers)
  /\ newest = peers
  /\ PeersOfSession

(* What has been sent too early is paid for by the time still to wait. *)
PaceInv == burst + since <= 2 * SendPeriod

LimitInv == limited => delay = MaximumDelay /\ (reconnect = 0 \/ reconnect >= MaximumDelay)

IInv == TypeOK /\ SocketInv /\ NeverStranded /\ PeersInv /\ PaceInv /\ LimitInv

(* No peers. *)
LEMMA EmptyPeers ==
  /\ DOMAIN NoPeers = {} /\ IsFiniteSet(DOMAIN NoPeers) /\ Cardinality(DOMAIN NoPeers) = 0
  /\ NoPeers \in [DOMAIN NoPeers -> 0 .. MaxFrame]
<1>1. DOMAIN NoPeers = {}
  BY DEF NoPeers
<1>2. NoPeers \in [DOMAIN NoPeers -> 0 .. MaxFrame]
  BY DEF NoPeers
<1> QED
  BY <1>1, <1>2, FS_EmptySet

(* Nobody has joined at first. *)
LEMMA InitInv == Init => IInv
<1> SUFFICES ASSUME Init PROVE IInv
  OBVIOUS
<1> USE MultiplayerAssumption
<1>1. FlagsOK
  BY DEF Init, FlagsOK
<1>2. SessionOK
  BY DEF Init, SessionOK, SocketState
<1>3. PeersOK /\ PeersInv
  BY EmptyPeers DEF Init, PeersOK, PeersInv, PeersOfSession
<1>4. SocketInv /\ NeverStranded
  BY DEF Init, SocketInv, NeverStranded
<1>5. PaceInv /\ LimitInv
  BY DEF Init, PaceInv, LimitInv
<1> QED
  BY <1>1, <1>3, <1>4, <1>5, <1>2 DEF IInv, TypeOK
-----------------------------------------------------------------------------
(* Serial-number arithmetic: two frames less than half the frame numbers      *)
(* apart compare as their remainders do.                                      *)

(* The remainder of a number that is less than the divisor either way. *)
LEMMA Remainder ==
  ASSUME NEW w \in Nat \ {0}, NEW x \in Int, -w < x, x < w
  PROVE  x % w = IF x >= 0 THEN x ELSE x + w
<1> DEFINE q == x \div w
           r == x % w
<1>1. q \in Int /\ r \in Int /\ 0 <= r /\ r < w
  OBVIOUS
<1>2. x = w * q + r
  BY Z3
<1> HIDE DEF q, r
<1>3. q \in {-1, 0}
  <2>1. q < 1
    <3>1. SUFFICES ASSUME q >= 1 PROVE FALSE
      BY <1>1
    <3>2. w * q >= w
      BY <1>1, <3>1
    <3> QED
      BY <1>1, <1>2, <3>2
  <2>2. q > -2
    <3>1. SUFFICES ASSUME q <= -2 PROVE FALSE
      BY <1>1
    <3>2. w * q <= -(2 * w)
      BY <1>1, <3>1
    <3> QED
      BY <1>1, <1>2, <3>2
  <2> QED
    BY <1>1, <2>1, <2>2
<1>4. CASE q = 0
  BY <1>1, <1>2, <1>4 DEF r
<1>5. CASE q = -1
  BY <1>1, <1>2, <1>5 DEF r
<1> QED
  BY <1>3, <1>4, <1>5

(* Less than half the frame space apart, the code's comparison is that of the frames. *)
LEMMA OlderIsLess ==
  ASSUME NEW n \in Nat, NEW held \in Nat,
         n - held \in -(FrameSpace \div 2 - 1) .. FrameSpace \div 2 - 1
  PROVE  Older(n % FrameSpace, held % FrameSpace) <=> n < held
<1> DEFINE w == FrameSpace
           h == FrameSpace \div 2
           a == n % w
           b == held % w
           p == n \div w
           q == held \div w
<1>1. w \in Nat \ {0} /\ h \in Nat /\ w = 2 * h
  BY MultiplayerAssumption
<1>2. a \in 0 .. w - 1 /\ b \in 0 .. w - 1 /\ p \in Int /\ q \in Int
  BY <1>1
<1>3. n = w * p + a
  BY <1>1, Z3
<1>4. held = w * q + b
  BY <1>1, Z3
<1>5. Older(a, b) <=> (a - b) % w >= h
  BY DEF Older
<1>6. n - held \in -(h - 1) .. h - 1
  OBVIOUS
<1> HIDE DEF w, h, a, b, p, q
<1>7. (a - b) % w = IF a - b >= 0 THEN a - b ELSE a - b + w
  <2>1. a - b \in Int /\ -w < a - b /\ a - b < w
    BY <1>1, <1>2
  <2> QED
    BY <1>1, <2>1, Remainder
<1>8. w * p - w * q = w * (p - q)
  BY <1>1, <1>2
<1>9. p - q \in {-1, 0, 1}
  <2>1. w * (p - q) \in -(2 * w) + 1 .. 2 * w - 1
    BY <1>1, <1>2, <1>3, <1>4, <1>6, <1>8
  <2>2. p - q < 2
    <3>1. SUFFICES ASSUME p - q >= 2 PROVE FALSE
      BY <1>2
    <3>2. w * (p - q) >= 2 * w
      BY <1>1, <1>2, <3>1
    <3> QED
      BY <1>1, <1>2, <2>1, <3>2
  <2>3. p - q > -2
    <3>1. SUFFICES ASSUME p - q <= -2 PROVE FALSE
      BY <1>2
    <3>2. w * (p - q) <= -(2 * w)
      BY <1>1, <1>2, <3>1
    <3> QED
      BY <1>1, <1>2, <2>1, <3>2
  <2> QED
    BY <1>2, <2>2, <2>3
<1>10. Older(a, b) <=> n < held
  <2>1. CASE p - q = 0
    <3>1. w * (p - q) = 0
      BY <1>1, <2>1
    <3> QED
      BY <1>1, <1>2, <1>3, <1>4, <1>5, <1>6, <1>7, <1>8, <3>1
  <2>2. CASE p - q = 1
    <3>1. w * (p - q) = w
      BY <1>1, <2>2
    <3> QED
      BY <1>1, <1>2, <1>3, <1>4, <1>5, <1>6, <1>7, <1>8, <3>1
  <2>3. CASE p - q = -1
    <3>1. w * (p - q) = -w
      BY <1>1, <2>3
    <3> QED
      BY <1>1, <1>2, <1>3, <1>4, <1>5, <1>6, <1>7, <1>8, <3>1
  <2> QED
    BY <1>9, <2>1, <2>2, <2>3
<1> QED
  BY <1>10 DEF a, b, w
-----------------------------------------------------------------------------
(* Every step keeps each part of the invariant. *)

USE DEF memberVars, timerVars, peerVars, serverVars, sendVars, vars, Served, Answered,
        ForgetPeers, NewSocket

(* The flags keep their types, *)
LEMMA FlagsStep ==
  ASSUME FlagsOK, [Next]_vars
  PROVE  FlagsOK'
<1>1. CASE Join \/ Leave
  BY <1>1 DEF FlagsOK, Join, Leave
<1>2. CASE Tick \/ ReadPeers \/ \E dt \in 1 .. LongestFrame : FramePasses(dt)
  BY <1>2 DEF FlagsOK, Tick, ReadPeers, FramePasses
<1>3. CASE ReconnectFires \/ JoinRetryFires \/ Connected
  BY <1>3 DEF FlagsOK, ReconnectFires, JoinRetryFires, Connected
<1>4. CASE Disconnected
  BY <1>4 DEF FlagsOK, Disconnected
<1>5. CASE Admits \/ RoomFull
  BY <1>5 DEF FlagsOK, Admits, Welcome, RoomFull
<1>6. CASE RateLimited \/ DeviceBlocked
  BY <1>6 DEF FlagsOK, RateLimited, DeviceBlocked
<1>7. CASE \E id \in Id : FallsSilent(id) \/ PeerLeft(id)
  BY <1>7 DEF FlagsOK, FallsSilent, PeerLeft
<1>8. CASE \E id \in Id, n \in 0 .. MaxFrame : PeerSnapshot(id, n)
  BY <1>8 DEF FlagsOK, PeerSnapshot
<1>9. CASE UNCHANGED vars
  BY <1>9 DEF FlagsOK
<1> QED
  BY <1>1, <1>2, <1>3, <1>4, <1>5, <1>6, <1>7, <1>8, <1>9 DEF Next

(* and so do the session's numbers. *)
LEMMA SessionStep ==
  ASSUME SessionOK, [Next]_vars
  PROVE  SessionOK'
<1> USE MultiplayerAssumption
<1>1. CASE Join \/ Leave
  BY <1>1 DEF SessionOK, SocketState, Join, Leave
<1>2. CASE Tick
  BY <1>2 DEF SessionOK, Tick, SendState
<1>3. CASE ReadPeers \/ \E dt \in 1 .. LongestFrame : FramePasses(dt)
  BY <1>3 DEF SessionOK, ReadPeers, FramePasses, Least
<1>4. CASE ReconnectFires \/ JoinRetryFires \/ Connected
  BY <1>4 DEF SessionOK, SocketState, ReconnectFires, JoinRetryFires, Connected, SendJoin
<1>5. CASE Disconnected
  <2>1. ASSUME ScheduleReconnect
        PROVE  reconnect' \in 0 .. 2 * MaximumDelay /\ delay' \in InitialDelay .. MaximumDelay
    BY <2>1 DEF SessionOK, ScheduleReconnect, Least
  <2> QED
    BY <1>5, <2>1 DEF SessionOK, SocketState, Disconnected
<1>6. CASE Admits \/ RoomFull \/ RateLimited \/ DeviceBlocked
  BY <1>6 DEF SessionOK, Admits, Welcome, RoomFull, RateLimited, DeviceBlocked
<1>7. CASE \E id \in Id : FallsSilent(id) \/ PeerLeft(id)
  BY <1>7 DEF SessionOK, FallsSilent, PeerLeft
<1>8. CASE \E id \in Id, n \in 0 .. MaxFrame : PeerSnapshot(id, n)
  BY <1>8 DEF SessionOK, PeerSnapshot
<1>9. CASE UNCHANGED vars
  BY <1>9 DEF SessionOK
<1> QED
  BY <1>1, <1>2, <1>3, <1>4, <1>5, <1>6, <1>7, <1>8, <1>9 DEF Next

(* Every step keeps what belongs to the socket, and nobody is stranded. *)
LEMMA SocketStep ==
  ASSUME FlagsOK, SessionOK, SocketInv, NeverStranded, [Next]_vars
  PROVE  SocketInv' /\ NeverStranded'
<1> USE MultiplayerAssumption DEF SocketInv, NeverStranded
<1>1. CASE Join
  BY <1>1 DEF Join
<1>2. CASE Leave
  BY <1>2 DEF Leave
<1>3. CASE Tick \/ ReadPeers \/ \E dt \in 1 .. LongestFrame : FramePasses(dt)
  <2>1. UNCHANGED <<memberVars, socket, timerVars, serverVars>>
    BY <1>3 DEF Tick, ReadPeers, FramePasses
  <2> QED
    BY <2>1
<1>4. CASE ReconnectFires
  <2>1. reconnect > 0 /\ socket = "unconnected" /\ memberRequested
    BY <1>4 DEF SessionOK, ReconnectFires
  <2>2. socket' = "connecting" /\ joins' = 0 /\ place' = NoId /\ closing' = FALSE /\ reconnect' = 0
    BY <1>4, <2>1 DEF ReconnectFires
  <2>3. UNCHANGED <<memberRequested, policyStopped, admitted, joinRetry>>
    BY <1>4 DEF ReconnectFires
  <2> QED
    BY <2>1, <2>2, <2>3
<1>5. CASE JoinRetryFires
  BY <1>5 DEF SessionOK, JoinRetryFires, SendJoin
<1>6. CASE Connected
  BY <1>6 DEF SessionOK, Connected, SendJoin
<1>7. CASE Disconnected
  <2>1. ASSUME ScheduleReconnect
        PROVE  reconnect' > 0
    BY <2>1 DEF SessionOK, ScheduleReconnect
  <2> QED
    BY <1>7, <2>1 DEF SessionOK, SocketState, Disconnected
<1>8. CASE Admits
  BY <1>8 DEF Admits, Welcome
<1>9. CASE RoomFull
  BY <1>9 DEF RoomFull
<1>10. CASE RateLimited
  BY <1>10 DEF RateLimited
<1>11. CASE DeviceBlocked
  <2>1. NeverStranded'
    BY <1>11 DEF DeviceBlocked
  <2>2. SocketInv'
    BY <1>11 DEF DeviceBlocked
  <2> QED
    BY <2>1, <2>2
<1>12. CASE \E id \in Id : FallsSilent(id) \/ PeerLeft(id)
  <2>1. UNCHANGED <<memberVars, socket, timerVars, serverVars>>
    BY <1>12 DEF FallsSilent, PeerLeft
  <2> QED
    BY <2>1
<1>13. CASE \E id \in Id, n \in 0 .. MaxFrame : PeerSnapshot(id, n)
  BY <1>13 DEF PeerSnapshot
<1>14. CASE UNCHANGED vars
  BY <1>14
<1> QED
  BY <1>1, <1>2, <1>3, <1>4, <1>5, <1>6, <1>7, <1>8, <1>9, <1>10, <1>12, <1>13, <1>14, <1>11 DEF Next

(* Peers that leave take what is held of them along. *)
LEMMA SomePeersGone ==
  ASSUME PeersOK, PeersInv, NEW S,
         peers' = Without(peers, S), newest' = Without(newest, S),
         silent' = silent \ S, UNCHANGED <<admitted, place, socket>>
  PROVE  PeersOK' /\ PeersInv'
<1> USE MultiplayerAssumption
<1>1. DOMAIN peers' = DOMAIN peers \ S
  BY DEF Without
<1>2. IsFiniteSet(DOMAIN peers') /\ Cardinality(DOMAIN peers') <= Cardinality(DOMAIN peers)
  BY <1>1, FS_Subset DEF PeersInv
<1>3. Cardinality(DOMAIN peers) \in Nat /\ Cardinality(DOMAIN peers') \in Nat
  BY <1>2, FS_CardinalityType DEF PeersInv
<1>4. newest' = peers'
  BY DEF PeersInv
<1>5. peers' \in [DOMAIN peers' -> 0 .. MaxFrame]
  BY DEF PeersOK, Without
<1>6. PeersOK'
  BY <1>1, <1>2, <1>3, <1>4, <1>5 DEF PeersOK
<1>7. PeersInv'
  BY <1>1, <1>2, <1>4 DEF PeersInv, PeersOfSession
<1> QED
  BY <1>6, <1>7

(* A peer that is new takes a place. *)
LEMMA NewPeer ==
  ASSUME PeersOK, PeersInv, NEW id \in Id \ DOMAIN peers, NEW n \in 0 .. MaxFrame,
         id # admitted, Cardinality(DOMAIN peers) < MaximumPeers,
         place # NoId, socket = "connected",
         peers' = With(peers, id, n), newest' = With(newest, id, n),
         UNCHANGED <<silent, admitted, place, socket>>
  PROVE  PeersOK' /\ PeersInv'
<1> USE MultiplayerAssumption
<1>1. DOMAIN peers' = DOMAIN peers \cup {id}
  BY DEF With
<1>2. /\ IsFiniteSet(DOMAIN peers')
      /\ Cardinality(DOMAIN peers') = Cardinality(DOMAIN peers) + 1
  BY <1>1, FS_AddElement DEF PeersInv
<1>3. Cardinality(DOMAIN peers) \in Nat
  BY FS_CardinalityType DEF PeersInv
<1>4. newest' = peers'
  BY DEF PeersInv
<1>5. peers' \in [DOMAIN peers' -> 0 .. MaxFrame]
  BY DEF PeersOK, With
<1>6. PeersOK'
  BY <1>1, <1>2, <1>3, <1>4, <1>5 DEF PeersOK
<1>7. PeersInv'
  BY <1>1, <1>2, <1>4 DEF PeersInv, PeersOfSession
<1> QED
  BY <1>6, <1>7

(* A peer that is known keeps the newest. *)
LEMMA KnownPeer ==
  ASSUME PeersOK, PeersInv, NEW id \in DOMAIN peers, NEW n \in 0 .. MaxFrame,
         PeerSnapshot(id, n)
  PROVE  PeersOK' /\ PeersInv'
<1> USE MultiplayerAssumption
<1>1. peers[id] \in 0 .. MaxFrame /\ newest[id] = peers[id]
  BY DEF PeersOK, PeersInv
<1>2. Older(n % FrameSpace, peers[id] % FrameSpace) <=> n < peers[id]
  BY <1>1, OlderIsLess DEF PeerSnapshot
<1>3. newest' = [newest EXCEPT ![id] = IF n > newest[id] THEN n ELSE newest[id]]
  BY DEF PeerSnapshot
<1>4. CASE n < peers[id]
  <2>1. peers' = peers /\ silent' = silent
    BY <1>2, <1>4 DEF PeerSnapshot
  <2>2. newest' = peers
    BY <1>1, <1>3, <1>4 DEF PeersOK, PeersInv
  <2> QED
    BY <2>1, <2>2 DEF PeersOK, PeersInv, PeersOfSession, PeerSnapshot
<1>5. CASE n >= peers[id]
  <2>1. peers' = [peers EXCEPT ![id] = n] /\ silent' = silent \ {id}
    BY <1>1, <1>2, <1>5 DEF PeerSnapshot
  <2>2. (IF n > newest[id] THEN n ELSE newest[id]) = n
    BY <1>1, <1>5
  <2>3. newest' = peers'
    BY <1>3, <2>1, <2>2 DEF PeersInv
  <2>4. DOMAIN peers' = DOMAIN peers /\ peers' \in [DOMAIN peers -> 0 .. MaxFrame]
    BY <2>1 DEF PeersOK
  <2> QED
    BY <2>1, <2>3, <2>4 DEF PeersOK, PeersInv, PeersOfSession, PeerSnapshot
<1> QED
  BY <1>1, <1>4, <1>5

(* Forgetting them all. *)
LEMMA NoPeersLeft ==
  ASSUME ForgetPeers
  PROVE  PeersOK' /\ PeersInv'
<1>1. peers' = NoPeers /\ newest' = NoPeers /\ silent' = {}
  OBVIOUS
<1>2. PeersOK'
  BY <1>1, EmptyPeers, MultiplayerAssumption DEF PeersOK
<1> QED
  BY <1>1, <1>2, EmptyPeers DEF PeersInv, PeersOfSession

(* Every step keeps the newest frames. *)
LEMMA PeersStep ==
  ASSUME SessionOK, PeersOK, SocketInv, PeersInv, [Next]_vars
  PROVE  PeersOK' /\ PeersInv'
<1>1. CASE Join \/ Leave \/ Disconnected
  BY <1>1, NoPeersLeft DEF Join, Leave, Disconnected
<1>2. CASE Tick \/ ReadPeers
  <2>1. Prune /\ UNCHANGED <<admitted, place, socket>>
    BY <1>2 DEF Tick, ReadPeers
  <2>2. silent' = silent \ silent
    BY <2>1 DEF Prune
  <2> QED
    BY <2>1, <2>2, SomePeersGone DEF Prune
<1>3. CASE \E dt \in 1 .. LongestFrame : FramePasses(dt)
  BY <1>3 DEF FramePasses, PeersOK, PeersInv, PeersOfSession
<1>4. CASE ReconnectFires
  <2>1. DOMAIN peers = {} \/ UNCHANGED <<place, socket>>
    BY <1>4 DEF ReconnectFires, PeersInv, PeersOfSession
  <2> QED
    BY <1>4, <2>1 DEF ReconnectFires, PeersOK, PeersInv, PeersOfSession
<1>5. CASE JoinRetryFires
  BY <1>5 DEF JoinRetryFires, PeersOK, PeersInv, PeersOfSession
<1>6. CASE Connected
  BY <1>6 DEF Connected, PeersOK, PeersInv, PeersOfSession
<1>7. ASSUME NEW id \in Id, Welcome(id)
      PROVE  PeersOK' /\ PeersInv'
  <2>1. DOMAIN peers = {} \/ admitted = id
    BY <1>7 DEF Welcome, SocketInv, PeersInv, PeersOfSession
  <2>2. UNCHANGED <<peers, silent, newest, socket>> /\ place' = id /\ admitted' = id
    BY <1>7 DEF Welcome
  <2> QED
    BY <2>1, <2>2, MultiplayerAssumption DEF PeersOK, PeersInv, PeersOfSession
<1>8. CASE RoomFull \/ RateLimited \/ DeviceBlocked
  <2>1. UNCHANGED <<peers, silent, newest, admitted, place, socket>>
    BY <1>8 DEF RoomFull, RateLimited, DeviceBlocked
  <2> QED
    BY <2>1 DEF PeersOK, PeersInv, PeersOfSession
<1>9. ASSUME NEW id \in Id, FallsSilent(id)
      PROVE  PeersOK' /\ PeersInv'
  BY <1>9 DEF FallsSilent, PeersOK, PeersInv, PeersOfSession
<1>10. ASSUME NEW id \in Id, PeerLeft(id)
       PROVE  PeersOK' /\ PeersInv'
  BY <1>10, SomePeersGone DEF PeerLeft
<1>11. ASSUME NEW id \in Id, NEW n \in 0 .. MaxFrame, PeerSnapshot(id, n)
       PROVE  PeersOK' /\ PeersInv'
  <2>1. CASE id \in DOMAIN peers
    BY <1>11, <2>1, KnownPeer
  <2>2. CASE id \notin DOMAIN peers
    BY <1>11, <2>2, NewPeer DEF PeerSnapshot
  <2> QED
    BY <2>1, <2>2
<1>12. CASE UNCHANGED vars
  BY <1>12 DEF PeersOK, PeersInv, PeersOfSession
<1> QED
  BY <1>1, <1>2, <1>3, <1>4, <1>5, <1>6, <1>7, <1>8, <1>9, <1>10, <1>11, <1>12
     DEF Next, Admits

(* Every step keeps the pace. *)
LEMMA PaceStep ==
  ASSUME SessionOK, PaceInv, [Next]_vars
  PROVE  PaceInv'
<1> USE MultiplayerAssumption
<1>1. SUFFICES ASSUME ~UNCHANGED sendVars PROVE PaceInv'
  BY DEF PaceInv
<1>2. CASE Tick
  BY <1>1, <1>2 DEF Tick, SendState, SessionOK, PaceInv
<1>3. ASSUME NEW dt \in 1 .. LongestFrame, FramePasses(dt)
      PROVE  PaceInv'
  BY <1>3 DEF FramePasses, Least, SessionOK, PaceInv
<1> QED
  BY <1>1, <1>2, <1>3 DEF Next, Join, Leave, ReadPeers, ReconnectFires, JoinRetryFires,
     Connected, Disconnected, Admits, Welcome, RoomFull, RateLimited, DeviceBlocked,
     FallsSilent, PeerLeft, PeerSnapshot

(* Every step keeps the limit. *)
LEMMA LimitStep ==
  ASSUME SessionOK, SocketInv, LimitInv, [Next]_vars
  PROVE  LimitInv'
<1> USE MultiplayerAssumption
<1>1. CASE Join \/ Leave \/ Admits
  BY <1>1 DEF Join, Leave, Admits, Welcome, LimitInv
<1>2. CASE RateLimited
  BY <1>2 DEF RateLimited, SocketInv, LimitInv
<1>3. CASE Disconnected
  <2>1. ASSUME ScheduleReconnect, limited
        PROVE  delay' = MaximumDelay /\ reconnect' >= MaximumDelay
    BY <2>1 DEF ScheduleReconnect, Least, SessionOK, LimitInv
  <2>2. limited' = limited
    BY <1>3 DEF Disconnected
  <2> QED
    BY <1>3, <2>1, <2>2 DEF Disconnected, LimitInv
<1>4. CASE ReconnectFires
  BY <1>4 DEF ReconnectFires, LimitInv
<1>5. CASE UNCHANGED <<reconnect, delay, limited>>
  BY <1>5 DEF LimitInv
<1> QED
  BY <1>1, <1>2, <1>3, <1>4, <1>5 DEF Next, Tick, ReadPeers, FramePasses, JoinRetryFires,
     Connected, RoomFull, DeviceBlocked, FallsSilent, PeerLeft, PeerSnapshot

(* The invariant holds of every reachable state. *)
THEOREM Inductive == Spec => []IInv
<1>1. Init => IInv
  BY InitInv
<1>2. IInv /\ [Next]_vars => IInv'
  BY FlagsStep, SessionStep, SocketStep, PeersStep, PaceStep, LimitStep DEF IInv, TypeOK
<1> QED
  BY <1>1, <1>2, PTL DEF Spec
-----------------------------------------------------------------------------
(* The variables of the session have their types, the table of peers its limit. *)
THEOREM TypeCorrect == Spec => []TypeOK
<1>1. IInv => TypeOK
  BY DEF IInv
<1> QED
  BY <1>1, Inductive, PTL

(* A player ID the guest sees is the one the server gave to this very socket. *)
THEOREM AdmissionSafe == Spec => []AdmittedByServer
<1>1. IInv => AdmittedByServer
  BY MultiplayerAssumption DEF IInv, SocketInv, AdmittedByServer
<1> QED
  BY <1>1, Inductive, PTL

(* Nothing of a session is left after leave() to come back by itself. *)
THEOREM LeaveSafe == Spec => []LeftForGood
<1>1. IInv => LeftForGood
  BY DEF IInv, SocketInv, PeersInv, PeersOfSession, LeftForGood
<1> QED
  BY <1>1, Inductive, PTL

(* A member outside the room always has something under way that asks again. *)
THEOREM MemberNotStranded == Spec => []NeverStranded
<1>1. IInv => NeverStranded
  BY DEF IInv
<1> QED
  BY <1>1, Inductive, PTL

(* The peers are other players of the socket's own session. *)
THEOREM PeersSafe == Spec => []PeersOfSession
<1>1. IInv => PeersOfSession
  BY DEF IInv, PeersInv
<1> QED
  BY <1>1, Inductive, PTL

(* Whatever the order of its snapshots and wherever its frame numbers wrap    *)
(* around, the newest frame of a peer is held.                                *)
THEOREM SnapshotsInOrder == Spec => []NewestHeld
<1>1. IInv => NewestHeld
  BY DEF IInv, PeersInv, NewestHeld
<1> QED
  BY <1>1, Inductive, PTL

(* Never more than one snapshot beyond one per period. *)
THEOREM PaceSafe == Spec => []SendsPaced
<1>1. IInv => SendsPaced
  BY MultiplayerAssumption DEF IInv, TypeOK, SessionOK, PaceInv, SendsPaced
<1> QED
  BY <1>1, Inductive, PTL

(* rate_limited keeps the client away for the maximum delay. *)
THEOREM RateLimitSafe == Spec => []RateLimitRespected
<1>1. IInv => RateLimitRespected
  BY MultiplayerAssumption DEF IInv, TypeOK, SessionOK, LimitInv, RateLimitRespected
<1> QED
  BY <1>1, Inductive, PTL

(* Admission, peers and timers are those of the session of the socket.       *)
THEOREM SessionIsOfSocket == Spec => []SessionOfSocket
BY TypeCorrect, AdmissionSafe, PeersSafe, LeaveSafe, PTL DEF SessionOfSocket

(* The client's pace and the server's limit are kept. *)
THEOREM LimitsAreKept == Spec => []LimitsKept
BY PaceSafe, RateLimitSafe, PTL DEF LimitsKept
-----------------------------------------------------------------------------
(* The bag of requests: what sending and answering make of it. *)
LEMMA Sent ==
  ASSUME NEW b, IsABag(b), NEW S
  PROVE  IsABag(Send(b, S)) /\ BagToSet(Send(b, S)) = BagToSet(b) \cup S
<1> DEFINE s == Send(b, S)
<1>1. s = [e \in DOMAIN b \cup S |->
             (IF e \in DOMAIN b THEN b[e] ELSE 0) + (IF e \in S THEN 1 ELSE 0)]
  BY DEF Send, (+), SetToBag
<1>2. \A e \in DOMAIN b : b[e] \in Nat /\ b[e] > 0
  BY DEF IsABag
<1>3. \A e \in DOMAIN b \cup S : s[e] \in { n \in Nat : n > 0 }
  BY <1>1, <1>2
<1>4. s \in [DOMAIN s -> { n \in Nat : n > 0 }] /\ DOMAIN s = DOMAIN b \cup S
  BY <1>1, <1>3
<1>5. QED  BY <1>4 DEF IsABag, BagToSet

(* An answered request is taken from the bag once. *)
LEMMA Taken ==
  ASSUME IsABag(net), NEW r
  PROVE  /\ IsABag(Remaining(r))
         /\ BagToSet(Remaining(r)) \subseteq InFlight
         /\ InFlight \ {r} \subseteq BagToSet(Remaining(r))
<1> DEFINE b == [e \in DOMAIN net |-> IF e \in {r} THEN net[e] - 1 ELSE net[e]]
           s == Remaining(r)
<1>1. s = [e \in { d \in DOMAIN b : b[d] > 0 } |-> b[e]]
  BY DEF Remaining, (-), SetToBag
<1>2. \A e \in DOMAIN net : net[e] \in Nat /\ net[e] > 0
  BY DEF IsABag
<1>3. DOMAIN b = DOMAIN net /\ \A e \in DOMAIN net : b[e] \in Nat /\ (e # r => b[e] > 0)
  BY <1>2
<1> HIDE DEF b
<1>4. DOMAIN s = { d \in DOMAIN b : b[d] > 0 } /\ \A e \in DOMAIN s : s[e] = b[e]
  BY <1>1
<1>5. s \in [DOMAIN s -> { n \in Nat : n > 0 }]
  BY <1>1, <1>3, <1>4
<1>6. DOMAIN s \subseteq DOMAIN net /\ (DOMAIN net) \ {r} \subseteq DOMAIN s
  BY <1>3, <1>4
<1>7. QED  BY <1>5, <1>6 DEF IsABag, BagToSet, InFlight

(* What a request is: its store, and what its kind says of it. *)
LEMMA Requests ==
  /\ \A s \in Store : Games(s) \in Request /\ Discovery(s) \in Request
  /\ \A s \in Store, n \in 0 .. Endpoints : Catalog(s, n) \in Request
  /\ \A s \in Store, id \in Game : Icon(s, id) \in Request /\ Download(s, id) \in Request
BY DEF Games, Discovery, Catalog, Icon, Download, Request

(* The fields of a request. *)
LEMMA RequestFields ==
  ASSUME NEW r \in Request
  PROVE  /\ r.store \in Store
         /\ r.kind = "catalog" => r.left \in 0 .. Endpoints
         /\ r.kind = "icon" => r.id \in Game
BY DEF Request
(* The store client.  The chain of requests that ends with a catalogue or an  *)
(* error.                                                                     *)
Chain == { r \in InFlight : r.kind \in {"games", "discovery", "catalog"} }

(* Without a catalogue there is nothing to download, and either a chain goes  *)
(* on or it has ended with an error.                                          *)
PageInv ==
  carts.store = None =>
    /\ carts.ids = {}
    /\ \A r \in InFlight : r.kind # "download"
    /\ error \/ Chain # {}

(* Unless answers of another store crossed the change of address, all that is  *)
(* asked is asked of the address, and a chain that ended without an error      *)
(* has left the catalogue of the address.                                      *)
ShownInv ==
  ~mixed =>
    /\ \A r \in InFlight : r.store = base
    /\ \A id \in Game : icons[id] \in {None, base}
    /\ Chain = {} /\ ~error /\ started = None => carts.store = base

StoreInv == StoreTypeOK /\ PageInv /\ ShownInv

(* A new request is in flight beside those there were. *)
LEMMA SendsMore ==
  ASSUME IsABag(net), NEW S, net' = Send(net, S)
  PROVE  IsABag(net') /\ InFlight' = InFlight \cup S
BY Sent DEF InFlight

(* An answered request leaves, but for copies of it, and others may join. *)
LEMMA AnswerSends ==
  ASSUME IsABag(net), NEW r, NEW S, net' = Send(Remaining(r), S)
  PROVE  /\ IsABag(net')
         /\ InFlight' \subseteq InFlight \cup S
         /\ S \subseteq InFlight'
         /\ InFlight \ {r} \subseteq InFlight'
<1>1. IsABag(Remaining(r)) /\ BagToSet(Remaining(r)) \subseteq InFlight
      /\ InFlight \ {r} \subseteq BagToSet(Remaining(r))
  BY Taken
<1>2. IsABag(net') /\ InFlight' = BagToSet(Remaining(r)) \cup S
  BY <1>1, Sent DEF InFlight
<1>3. QED  BY <1>1, <1>2

(* An answer to which nothing is asked. *)
LEMMA AnswerLeaves ==
  ASSUME IsABag(net), NEW r, net' = Remaining(r)
  PROVE  /\ IsABag(net')
         /\ InFlight' \subseteq InFlight
         /\ InFlight \ {r} \subseteq InFlight'
BY Taken DEF InFlight

(* What the user does keeps the invariant: a refresh begins a chain, and a     *)
(* change of address leaves nothing of the old one unless it was on its way.   *)
LEMMA RefreshKeeps ==
  ASSUME StoreInv, Refresh
  PROVE  StoreInv'
<1> USE StoreAssumption DEF StoreInv, StoreTypeOK
<1>1. base' = base /\ base \in Store /\ UNCHANGED <<carts, icons, started, mixed>>
      /\ error' = FALSE /\ loading' = TRUE
  BY DEF Refresh, RefreshFrom
<1>2. IsABag(net') /\ InFlight' = InFlight \cup {Games(base)}
  BY SendsMore DEF Refresh, RefreshFrom
<1>3. Games(base) \in Request /\ Games(base).kind = "games" /\ Games(base).store = base
  BY <1>1, Requests DEF Games
<1>4. uses' \in 0 .. MaxUses
  BY DEF Refresh, Use
<1>5. InFlight' \subseteq Request
  BY <1>2, <1>3
<1>6. StoreTypeOK'
  BY <1>1, <1>2, <1>4, <1>5
<1>7. Chain' # {}
  BY <1>2, <1>3 DEF Chain
<1>8. PageInv'
  BY <1>1, <1>2, <1>3, <1>7 DEF PageInv
<1>9. ShownInv'
  BY <1>1, <1>2, <1>3, <1>7 DEF ShownInv
<1>10. QED  BY <1>6, <1>8, <1>9

(* A change of the address, and the refresh after it. *)
LEMMA ChangeKeeps ==
  ASSUME StoreInv, NEW u \in Store, ChangeStore(u)
  PROVE  StoreInv'
<1> USE StoreAssumption DEF StoreInv, StoreTypeOK
<1>1. base' = u /\ UNCHANGED <<carts, started>> /\ error' = FALSE /\ loading' = TRUE
  BY DEF ChangeStore, RefreshFrom
<1>2. IsABag(net') /\ InFlight' = InFlight \cup {Games(u)}
  BY SendsMore DEF ChangeStore, RefreshFrom
<1>3. Games(u) \in Request /\ Games(u).kind = "games" /\ Games(u).store = u
  BY Requests DEF Games
<1>4. icons' = IF u = base THEN icons ELSE [id \in Game |-> None]
  BY DEF ChangeStore
<1>5. mixed' = IF u = base THEN mixed ELSE InFlight # {}
  BY DEF ChangeStore
<1>6. mixed' \in BOOLEAN
  BY <1>5, Zenon
<1>7. uses' \in 0 .. MaxUses
  BY DEF ChangeStore, Use
<1>8. InFlight' \subseteq Request /\ icons' \in [Game -> Store \cup {None}]
  BY <1>2, <1>3, <1>4
<1>9. StoreTypeOK'
  BY <1>1, <1>2, <1>6, <1>7, <1>8
<1>10. Chain' # {}
  BY <1>2, <1>3 DEF Chain
<1>11. PageInv'
  BY <1>1, <1>2, <1>3, <1>10 DEF PageInv
<1>12. ShownInv'
  <2>1. CASE u = base
    BY <1>1, <1>2, <1>3, <1>4, <1>10, <1>5, <2>1 DEF ShownInv
  <2>2. CASE u # base
    BY <1>1, <1>2, <1>3, <1>4, <1>10, <1>5, <2>2 DEF ShownInv
  <2>3. QED  BY <2>1, <2>2
<1>13. QED  BY <1>9, <1>11, <1>12

(* A download that is asked for. *)
LEMMA DownloadKeeps ==
  ASSUME StoreInv, NEW id \in Game \cup {NoGame}, DownloadGame(id)
  PROVE  StoreInv'
<1> USE StoreAssumption DEF StoreInv, StoreTypeOK
<1>1. id \in carts.ids /\ UNCHANGED <<base, carts, icons, started, mixed>>
  BY DEF DownloadGame
<1>2. CASE id = NoGame
  <2>1. error' = TRUE /\ UNCHANGED <<loading, net>>
    BY <1>2 DEF DownloadGame
  <2>2. StoreTypeOK'
    BY <1>1, <2>1 DEF DownloadGame, Use, InFlight
  <2>3. PageInv' /\ ShownInv'
    BY <1>1, <2>1 DEF PageInv, ShownInv, InFlight, Chain
  <2>4. QED  BY <2>2, <2>3
<1>3. CASE id # NoGame
  <2> DEFINE d == Download(base, id)
  <2>1. loading' = TRUE /\ error' = error /\ net' = Send(net, {d})
    BY <1>3 DEF DownloadGame
  <2>2. IsABag(net') /\ InFlight' = InFlight \cup {d}
    BY <2>1, SendsMore
  <2>3. d \in Request /\ d.kind = "download" /\ d.store = base
    BY <1>3, Requests DEF Download
  <2> HIDE DEF d
  <2>4. StoreTypeOK'
    BY <1>1, <2>1, <2>2, <2>3 DEF DownloadGame, Use
  <2>5. Chain' = Chain
    BY <2>2, <2>3 DEF Chain
  <2>6. PageInv'
    BY <1>1 DEF PageInv
  <2>7. ShownInv'
    BY <1>1, <2>1, <2>2, <2>3, <2>5 DEF ShownInv
  <2>8. QED  BY <2>4, <2>6, <2>7
<1>4. QED  BY <1>2, <1>3

(* The answers.  A catalogue that is listed comes from the store asked; a chain *)
(* ends with an error or asks on.                                               *)
LEMMA ListedKeeps ==
  ASSUME StoreInv, NEW r \in InFlight, NEW ids \in SUBSET (Game \cup {NoGame}), Listed(r, ids),
         UNCHANGED <<base, icons, started, mixed, uses>>
  PROVE  StoreInv'
<1> USE StoreAssumption DEF StoreInv, StoreTypeOK
<1> DEFINE wanted == { Icon(base, id) : id \in { i \in ids \ {NoGame} : icons[i] = None } }
<1>1. carts' = [store |-> r.store, ids |-> ids] /\ loading' = FALSE /\ error' = FALSE
      /\ net' = Send(Remaining(r), wanted)
  BY DEF Listed
<1>2. \A q \in wanted : q \in Request /\ q.kind = "icon" /\ q.store = base
  BY Requests DEF Icon
<1> HIDE DEF wanted
<1>3. IsABag(net') /\ InFlight' \subseteq InFlight \cup wanted
  BY <1>1, AnswerSends
<1>4. r \in Request /\ r.store \in Store
  BY RequestFields
<1>5. StoreTypeOK'
  BY <1>1, <1>2, <1>3, <1>4
<1>6. PageInv'
  BY <1>1, <1>4 DEF PageInv
<1>7. ShownInv'
  BY <1>1, <1>2, <1>3 DEF ShownInv
<1>8. QED  BY <1>5, <1>6, <1>7

(* A chain that fails for good ends with an error. *)
LEMMA FailedKeeps ==
  ASSUME StoreInv, NEW r \in InFlight, r.kind # "download", Failed(r),
         UNCHANGED <<base, icons, started, mixed, uses>>
  PROVE  StoreInv'
<1> USE StoreAssumption DEF StoreInv, StoreTypeOK
<1>1. carts' = carts /\ loading' = FALSE /\ error' = TRUE
  BY DEF Failed
<1>2. IsABag(net') /\ InFlight' \subseteq InFlight
  BY AnswerLeaves DEF Failed
<1>3. StoreTypeOK'
  BY <1>1, <1>2
<1>4. PageInv'
  BY <1>1, <1>2 DEF PageInv
<1>5. ShownInv'
  BY <1>1, <1>2 DEF ShownInv
<1>6. QED  BY <1>3, <1>4, <1>5

(* A chain that asks on. *)
LEMMA AsksKeeps ==
  ASSUME StoreInv, NEW r \in InFlight, NEW q \in Request, Asks(r, q),
         q.kind \in {"discovery", "catalog"}, q.store \in {r.store, base},
         UNCHANGED <<base, icons, started, mixed, uses>>
  PROVE  StoreInv'
<1> USE StoreAssumption DEF StoreInv, StoreTypeOK
<1>1. UNCHANGED <<carts, loading, error>>
  BY DEF Asks
<1>2. IsABag(net') /\ InFlight' \subseteq InFlight \cup {q} /\ q \in InFlight'
  BY AnswerSends DEF Asks
<1>3. StoreTypeOK'
  BY <1>1, <1>2
<1>4. Chain' # {}
  BY <1>2 DEF Chain
<1>5. PageInv'
  BY <1>1, <1>2, <1>4 DEF PageInv
<1>6. ShownInv'
  BY <1>1, <1>2, <1>4 DEF ShownInv
<1>7. QED  BY <1>3, <1>5, <1>6

(* An icon that arrives. *)
LEMMA IconKeeps ==
  ASSUME StoreInv, NEW r \in InFlight, r.kind = "icon", IconAnswered(r),
         UNCHANGED <<base, started, mixed, uses>>
  PROVE  StoreInv'
<1> USE StoreAssumption DEF StoreInv, StoreTypeOK
<1>1. UNCHANGED <<carts, loading, error>>
  BY DEF IconAnswered
<1>2. IsABag(net') /\ InFlight' \subseteq InFlight /\ InFlight \ {r} \subseteq InFlight'
  BY AnswerLeaves DEF IconAnswered
<1>3. icons' = [icons EXCEPT ![r.id] = r.store] \/ icons' = icons
  BY DEF IconAnswered
<1>4. r.store \in Store /\ r.id \in Game
  BY RequestFields
<1>5. StoreTypeOK'
  BY <1>1, <1>2, <1>3, <1>4
<1>6. Chain' = Chain
  BY <1>2 DEF Chain
<1>7. PageInv'
  BY <1>1, <1>2, <1>6 DEF PageInv
<1>8. ~mixed => \A id \in Game : icons'[id] \in {None, base}
  BY <1>3, <1>4 DEF ShownInv
<1>9. ShownInv'
  BY <1>1, <1>2, <1>6, <1>8 DEF ShownInv
<1>10. QED  BY <1>5, <1>7, <1>9

(* A download that arrives. *)
LEMMA DownloadedKeeps ==
  ASSUME StoreInv, NEW r \in InFlight, r.kind = "download", DownloadAnswered(r),
         UNCHANGED <<base, icons, mixed, uses>>
  PROVE  StoreInv'
<1> USE StoreAssumption DEF StoreInv, StoreTypeOK
<1>1. /\ carts' = carts /\ loading' = FALSE
      /\ \/ error' = FALSE /\ started' = r.store
         \/ error' = TRUE /\ started' = started
  BY DEF DownloadAnswered
<1>2. carts.store # None
  BY DEF PageInv
<1>3. IsABag(net') /\ InFlight' \subseteq InFlight
  BY AnswerLeaves DEF DownloadAnswered
<1>4. r.store \in Store
  BY RequestFields
<1>5. error' \in BOOLEAN /\ started' \in Store \cup {None}
  BY <1>1, <1>4
<1>6. StoreTypeOK'
  BY <1>1, <1>3, <1>5
<1>7. PageInv'
  BY <1>1, <1>2 DEF PageInv
<1>8. ShownInv'
  BY <1>1, <1>3, <1>4 DEF ShownInv
<1>9. QED  BY <1>6, <1>7, <1>8

(* Every answer is one of those. *)
LEMMA AnswerKeeps ==
  ASSUME StoreInv, Answer
  PROVE  StoreInv'
<1> PICK r \in InFlight :
      /\ \/ r.kind = "games" /\ GamesAnswered(r) /\ UNCHANGED <<icons, started>>
         \/ r.kind = "discovery" /\ DiscoveryAnswered(r) /\ UNCHANGED <<icons, started>>
         \/ r.kind = "catalog" /\ CatalogAnswered(r) /\ UNCHANGED <<icons, started>>
         \/ r.kind = "icon" /\ IconAnswered(r) /\ UNCHANGED started
         \/ r.kind = "download" /\ DownloadAnswered(r) /\ UNCHANGED icons
      /\ UNCHANGED <<base, mixed, uses>>
  BY DEF Answer
<1>1. /\ r \in Request /\ r.store \in Store /\ base \in Store
      /\ r.kind = "catalog" => r.left \in 0 .. Endpoints
  BY RequestFields DEF StoreInv, StoreTypeOK
<1>2. ASSUME NEW s \in {r.store, base}, NEW n \in 0 .. Endpoints
      PROVE  /\ Catalog(s, n) \in Request /\ Catalog(s, n).kind = "catalog" /\ Catalog(s, n).store = s
             /\ Discovery(s) \in Request /\ Discovery(s).kind = "discovery" /\ Discovery(s).store = s
  <2>1. s \in Store
    BY <1>1
  <2>2. QED  BY <2>1, Requests DEF Catalog, Discovery
<1>3. 0 \in 0 .. Endpoints /\ Endpoints \in 0 .. Endpoints /\ Endpoints - 1 \in 0 .. Endpoints
  BY StoreAssumption
<1>4. CASE r.kind = "games" /\ GamesAnswered(r) /\ UNCHANGED <<icons, started>>
  BY <1>2, <1>3, <1>4, ListedKeeps, AsksKeeps DEF GamesAnswered
<1>5. CASE r.kind = "discovery" /\ DiscoveryAnswered(r) /\ UNCHANGED <<icons, started>>
  BY <1>2, <1>3, <1>5, FailedKeeps, AsksKeeps DEF DiscoveryAnswered
<1>6. CASE r.kind = "catalog" /\ CatalogAnswered(r) /\ UNCHANGED <<icons, started>>
  <2>1. CASE \E ids \in SUBSET (Game \cup {NoGame}) : Listed(r, ids)
    BY <1>6, <2>1, ListedKeeps
  <2>2. CASE r.left = 0 /\ Failed(r)
    BY <1>6, <2>2, FailedKeeps
  <2>3. CASE r.left # 0 /\ Asks(r, Catalog(base, r.left - 1))
    <3>1. r.left - 1 \in 0 .. Endpoints
      BY <1>1, <1>6, <2>3, StoreAssumption
    <3>2. QED  BY <1>2, <1>6, <2>3, <3>1, AsksKeeps
  <2>4. QED  BY <1>6, <2>1, <2>2, <2>3 DEF CatalogAnswered, NextEndpoint
<1>7. CASE r.kind = "icon" /\ IconAnswered(r) /\ UNCHANGED started
  BY <1>7, IconKeeps
<1>8. CASE r.kind = "download" /\ DownloadAnswered(r) /\ UNCHANGED icons
  BY <1>8, DownloadedKeeps
<1>9. QED  BY <1>4, <1>5, <1>6, <1>7, <1>8

(* Every step keeps all three. *)
LEMMA StoreInductive == StoreSpec => []StoreInv
<1>1. StoreInit => StoreInv
  <2> SUFFICES ASSUME StoreInit PROVE StoreInv
    OBVIOUS
  <2> DEFINE g == Games(Default)
  <2> USE StoreAssumption
  <2>1. IsABag(net) /\ InFlight = {g}
    <3>1. net = [e \in {g} |-> 1]
      BY DEF StoreInit, SetToBag
    <3> HIDE DEF g
    <3>2. QED  BY <3>1 DEF IsABag, InFlight, BagToSet
  <2>2. g \in Request /\ g.kind = "games" /\ g.store = Default
    BY Requests DEF Games
  <2> HIDE DEF g
  <2>3. InFlight \subseteq Request /\ icons \in [Game -> Store \cup {None}]
    BY <2>1, <2>2 DEF StoreInit
  <2>4. base \in Store /\ started \in Store \cup {None} /\ uses \in 0 .. MaxUses
    BY DEF StoreInit
  <2>5. loading \in BOOLEAN /\ error \in BOOLEAN /\ mixed \in BOOLEAN
    BY DEF StoreInit
  <2>6. carts \in [store : Store \cup {None}, ids : SUBSET (Game \cup {NoGame})]
    BY DEF StoreInit
  <2>7. StoreTypeOK
    BY <2>1, <2>3, <2>4, <2>5, <2>6 DEF StoreTypeOK
  <2>8. Chain # {}
    BY <2>1, <2>2 DEF Chain
  <2>9. PageInv /\ ShownInv
    BY <2>1, <2>2, <2>8 DEF StoreInit, PageInv, ShownInv
  <2>10. QED  BY <2>7, <2>9 DEF StoreInv
<1>2. StoreInv /\ [StoreNext]_storeVars => StoreInv'
  <2> SUFFICES ASSUME StoreInv, [StoreNext]_storeVars PROVE StoreInv'
    OBVIOUS
  <2>1. CASE StoreNext
    BY <2>1, RefreshKeeps, ChangeKeeps, DownloadKeeps, AnswerKeeps DEF StoreNext
  <2>2. CASE UNCHANGED storeVars
    BY <2>2 DEF storeVars, StoreInv, StoreTypeOK, PageInv, ShownInv, Chain, InFlight
  <2>3. QED  BY <2>1, <2>2
<1>3. QED  BY <1>1, <1>2, PTL DEF StoreSpec

(* A page with nothing on its way shows a catalogue or says why not. *)
THEOREM PageIsExplained == StoreSpec => []PageExplained
<1>1. StoreInv => PageExplained
  BY DEF StoreInv, PageInv, PageExplained, NeverBlank, Chain
<1>2. QED  BY <1>1, StoreInductive, PTL

(* Icons and catalogue are those of the address, but for the answers that      *)
(* crossed its change.                                                         *)
THEOREM AddressIsShown == StoreSpec => []ShownOfAddress
<1>1. StoreInv => ShownOfAddress
  BY DEF StoreInv, ShownInv, ShownOfAddress, IconsOfAddress, CatalogueOfAddress, Chain
<1>2. QED  BY <1>1, StoreInductive, PTL
=============================================================================
