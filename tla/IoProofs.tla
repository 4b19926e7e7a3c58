------------------------------ MODULE IoProofs ------------------------------
(***************************************************************************)
(* IoProtocolServer.  The upload session's invariants for any number of     *)
(* hosts, any images and any idle time; the framing of a connection for any *)
(* bytes, cut anywhere.                                                     *)
(***************************************************************************)
EXTENDS IoUpload, IoFraming, SequenceTheorems, WellFoundedInduction, TLAPS

(* An active upload belongs to the connection that began it, which is up, has *)
(* an announced image and a running idle timer, and its end has a hide timer   *)
(* to spare.                                                                   *)
SessionInv ==
  /\ SessionOK
  /\ Uploading => uploadSocket = owner /\ announced \in Image /\ idle # Stopped /\ hideTimers < MaxHide
  /\ OwnerConnected

ChunksInv == ChunksOK /\ StoredComplete /\ ReceivedPrefix

FlagsInv == FlagsOK /\ NoKeysWhileUploading

IInv == SessionInv /\ ChunksInv /\ FlagsInv

(* The content of an image is a sequence of chunks. *)
LEMMA ContentType == ASSUME NEW i \in Image PROVE Content(i) \in Seq(Chunk)
BY UploadAssumption DEF Content, Chunk

(* Nothing received is a sequence of chunks. *)
LEMMA EmptyType == <<>> \in Seq(Chunk)
OBVIOUS

(* What a selected slot leaves playing is a sequence of chunks. *)
LEMMA SelectType ==
  ASSUME playing \in Seq(Chunk), NEW files \in [Slot -> Seq(Chunk)], NEW s \in Slot,
         SelectSlot(s, files)
  PROVE  playing' \in Seq(Chunk)
BY EmptyType DEF SelectSlot

(* The inductive invariant holds in every reachable state. *)
THEOREM Inductive == Spec => []IInv
<1> USE UploadAssumption DEF Uploading, Stopped
<1>1. Init => IInv
  <2> SUFFICES ASSUME Init
               PROVE  IInv
    OBVIOUS
  <2> USE DEF Init
  <2>1. SessionInv
    BY DEF SessionInv, SessionOK, OwnerConnected
  <2>2. ChunksInv
    <3>1. upload \in Seq(Chunk) /\ playing \in Seq(Chunk)
      BY EmptyType, Zenon
    <3>2. ChunksOK
      <4>1. {<<>>} \cup { Content(i) : i \in Image \ Invalid } \subseteq Seq(Chunk)
        BY ContentType, EmptyType, Zenon
      <4>2. QED  BY <3>1, <4>1 DEF ChunksOK
    <3>3. StoredComplete /\ ReceivedPrefix
      BY DEF StoredComplete, ReceivedPrefix
    <3>4. QED  BY <3>2, <3>3 DEF ChunksInv
  <2>3. FlagsInv
    BY DEF FlagsInv, FlagsOK, NoKeysWhileUploading
  <2>4. QED  BY <2>1, <2>2, <2>3 DEF IInv
<1>2. IInv /\ [Next]_vars => IInv'
  <2> SUFFICES ASSUME IInv, [Next]_vars
               PROVE  IInv'
    OBVIOUS
  <2> USE DEF IInv, Frame, RestartIdle, AbandonUpload, sessionVars, screenVars
  <2>1. ASSUME NEW c \in Conn, OtherFrame(c)
        PROVE  IInv'
    <3>1. SessionInv'
      BY <2>1 DEF SessionInv, SessionOK, OwnerConnected, OtherFrame
    <3>2. ChunksInv'
      BY <2>1 DEF ChunksInv, ChunksOK, StoredComplete, ReceivedPrefix, OtherFrame
    <3>3. FlagsInv'
      BY <2>1 DEF FlagsInv, FlagsOK, NoKeysWhileUploading, OtherFrame
    <3>4. QED  BY <3>1, <3>2, <3>3
  <2>2. ASSUME NEW c \in Conn, NEW i \in Image, NEW s \in Slot, NEW cmd \in {"store", "run"},
               UploadBegin(c, i, s, cmd)
        PROVE  IInv'
    <3>1. SessionInv'
      BY <2>2 DEF SessionInv, SessionOK, OwnerConnected, UploadBegin
    <3>2. ChunksInv'
      BY <2>2 DEF ChunksInv, ChunksOK, StoredComplete, ReceivedPrefix, UploadBegin
    <3>3. FlagsInv'
      BY <2>2 DEF FlagsInv, FlagsOK, NoKeysWhileUploading, UploadBegin
    <3>4. QED  BY <3>1, <3>2, <3>3
  <2>3. ASSUME NEW c \in Conn, NEW i \in Image, NEW k \in 1 .. Chunks[i], UploadData(c, i, k)
        PROVE  IInv'
    <3>1. SessionInv'
      BY <2>3 DEF SessionInv, SessionOK, OwnerConnected, UploadData
    <3>2. ChunksInv'
      <4>1. CASE UNCHANGED <<upload, mixed>>
        BY <2>3, <4>1 DEF ChunksInv, ChunksOK, StoredComplete, ReceivedPrefix, UploadData
      <4>2. CASE /\ k = Len(upload) + 1 /\ upload' = Append(upload, <<i, k>>)
                 /\ mixed' = IF i = announced THEN mixed ELSE TRUE
        <5>1. upload' \in Seq(Chunk)
          BY <4>2 DEF ChunksInv, ChunksOK, Chunk
        <5>2. ReceivedPrefix'
          <6> SUFFICES ASSUME ~mixed', NEW j \in 1 .. Len(upload')
                       PROVE  upload'[j] = <<announced, j>>
            BY <2>3 DEF ReceivedPrefix, UploadData
          <6>1. i = announced /\ ~mixed
            BY <4>2
          <6>2. \A m \in 1 .. Len(upload) : upload[m] = <<announced, m>>
            BY <2>3, <6>1 DEF ChunksInv, ReceivedPrefix, UploadData
          <6>3. CASE j = Len(upload) + 1
            BY <4>2, <6>1, <6>3 DEF ChunksInv, ChunksOK
          <6>4. CASE j # Len(upload) + 1
            BY <4>2, <6>2, <6>4 DEF ChunksInv, ChunksOK
          <6>5. QED  BY <6>3, <6>4
        <5>3. QED  BY <2>3, <5>1, <5>2 DEF ChunksInv, ChunksOK, StoredComplete, UploadData
      <4>3. QED  BY <2>3, <4>1, <4>2 DEF UploadData
    <3>3. FlagsInv'
      BY <2>3 DEF FlagsInv, FlagsOK, NoKeysWhileUploading, UploadData
    <3>4. QED  BY <3>1, <3>2, <3>3
  <2>4. ASSUME NEW c \in Conn, UploadEnd(c)
        PROVE  IInv'
    <3>1. SessionInv'
      BY <2>4 DEF SessionInv, SessionOK, OwnerConnected, UploadEnd
    <3>2. ChunksInv'
      <4>1. slots' \in [Slot -> Seq(Chunk)] /\ StoredComplete'
        BY <2>4 DEF SessionInv, SessionOK, ChunksInv, ChunksOK, StoredComplete, UploadEnd, Storable
      <4>2. playing' \in Seq(Chunk)
        BY <2>4, <4>1, SelectType DEF SessionInv, SessionOK, ChunksInv, ChunksOK, UploadEnd
      <4>3. QED  BY <2>4, <4>1, <4>2 DEF ChunksInv, ChunksOK, ReceivedPrefix, UploadEnd
    <3>3. FlagsInv'
      BY <2>4 DEF FlagsInv, FlagsOK, NoKeysWhileUploading, UploadEnd
    <3>4. QED  BY <3>1, <3>2, <3>3
  <2>5. ASSUME NEW c \in Conn, NEW s \in Slot, Run(c, s)
        PROVE  IInv'
    <3>1. SessionInv'
      BY <2>5 DEF SessionInv, SessionOK, OwnerConnected, Run
    <3>2. ChunksInv'
      BY <2>5, SelectType DEF ChunksInv, ChunksOK, StoredComplete, ReceivedPrefix, Run
    <3>3. FlagsInv'
      BY <2>5 DEF FlagsInv, FlagsOK, NoKeysWhileUploading, Run
    <3>4. QED  BY <3>1, <3>2, <3>3
  <2>6. ASSUME NEW c \in Conn, NEW down \in BOOLEAN, Key(c, down)
        PROVE  IInv'
    <3>1. SessionInv'
      BY <2>6 DEF SessionInv, SessionOK, OwnerConnected, Key
    <3>2. ChunksInv'
      BY <2>6 DEF ChunksInv, ChunksOK, StoredComplete, ReceivedPrefix, Key
    <3>3. FlagsInv'
      BY <2>6 DEF FlagsInv, FlagsOK, NoKeysWhileUploading, Key
    <3>4. QED  BY <3>1, <3>2, <3>3
  <2>7. ASSUME NEW c \in Conn, Connect(c)
        PROVE  IInv'
    <3>1. SessionInv'
      BY <2>7 DEF SessionInv, SessionOK, OwnerConnected, Connect
    <3>2. ChunksInv'
      BY <2>7 DEF ChunksInv, ChunksOK, StoredComplete, ReceivedPrefix, Connect
    <3>3. FlagsInv'
      BY <2>7 DEF FlagsInv, FlagsOK, NoKeysWhileUploading, Connect
    <3>4. QED  BY <3>1, <3>2, <3>3
  <2>8. ASSUME NEW c \in Conn, Disconnect(c)
        PROVE  IInv'
    <3>1. SessionInv'
      BY <2>8 DEF SessionInv, SessionOK, OwnerConnected, Disconnect
    <3>2. ChunksInv'
      <4>1. upload' \in Seq(Chunk)
        <5>1. upload' = upload \/ upload' = <<>>
          BY <2>8 DEF Disconnect
        <5>2. QED  BY <5>1, EmptyType, Zenon DEF ChunksInv, ChunksOK
      <4>2. ReceivedPrefix'
        BY <2>8 DEF ChunksInv, ReceivedPrefix, Disconnect
      <4>3. QED  BY <2>8, <4>1, <4>2 DEF ChunksInv, ChunksOK, StoredComplete, Disconnect
    <3>3. FlagsInv'
      BY <2>8 DEF SessionInv, FlagsInv, FlagsOK, NoKeysWhileUploading, Disconnect
    <3>4. QED  BY <3>1, <3>2, <3>3
  <2>9. CASE IdleTimeout
    <3>1. SessionInv'
      BY <2>9 DEF SessionInv, SessionOK, OwnerConnected, IdleTimeout
    <3>2. ChunksInv'
      <4>1. upload' \in Seq(Chunk)
        <5>1. upload' = upload \/ upload' = <<>>
          BY <2>9 DEF IdleTimeout
        <5>2. QED  BY <5>1, EmptyType, Zenon DEF ChunksInv, ChunksOK
      <4>2. ReceivedPrefix'
        BY <2>9 DEF ChunksInv, ReceivedPrefix, IdleTimeout
      <4>3. QED  BY <2>9, <4>1, <4>2 DEF ChunksInv, ChunksOK, StoredComplete, IdleTimeout
    <3>3. FlagsInv'
      BY <2>9 DEF FlagsInv, FlagsOK, NoKeysWhileUploading, IdleTimeout
    <3>4. QED  BY <3>1, <3>2, <3>3
  <2>10. CASE HideScreen
    <3>1. SessionInv'
      BY <2>10 DEF SessionInv, SessionOK, OwnerConnected, HideScreen
    <3>2. ChunksInv'
      BY <2>10 DEF ChunksInv, ChunksOK, StoredComplete, ReceivedPrefix, HideScreen
    <3>3. FlagsInv'
      BY <2>10 DEF FlagsInv, FlagsOK, NoKeysWhileUploading, HideScreen
    <3>4. QED  BY <3>1, <3>2, <3>3
  <2>11. CASE KeysExpire
    <3>1. SessionInv'
      BY <2>11 DEF SessionInv, SessionOK, OwnerConnected, KeysExpire
    <3>2. ChunksInv'
      BY <2>11 DEF ChunksInv, ChunksOK, StoredComplete, ReceivedPrefix, KeysExpire
    <3>3. FlagsInv'
      BY <2>11 DEF FlagsInv, FlagsOK, NoKeysWhileUploading, KeysExpire
    <3>4. QED  BY <3>1, <3>2, <3>3
  <2>12. CASE Tick
    <3>1. SessionInv'
      BY <2>12 DEF SessionInv, SessionOK, OwnerConnected, Tick
    <3>2. ChunksInv'
      BY <2>12 DEF ChunksInv, ChunksOK, StoredComplete, ReceivedPrefix, Tick
    <3>3. FlagsInv'
      BY <2>12 DEF FlagsInv, FlagsOK, NoKeysWhileUploading, Tick
    <3>4. QED  BY <3>1, <3>2, <3>3
  <2>13. ASSUME NEW i \in Image, NEW s \in Slot, WebUpload(i, s)
         PROVE  IInv'
    <3>1. SessionInv'
      BY <2>13 DEF SessionInv, SessionOK, OwnerConnected, WebUpload
    <3>2. ChunksInv'
      BY <2>13, ContentType DEF ChunksInv, ChunksOK, StoredComplete, ReceivedPrefix, WebUpload
    <3>3. FlagsInv'
      BY <2>13 DEF FlagsInv, FlagsOK, NoKeysWhileUploading, WebUpload
    <3>4. QED  BY <3>1, <3>2, <3>3
  <2>14. ASSUME NEW s \in Slot, WebSelect(s)
         PROVE  IInv'
    <3>1. SessionInv'
      BY <2>14 DEF SessionInv, SessionOK, OwnerConnected, WebSelect
    <3>2. ChunksInv'
      BY <2>14, SelectType DEF ChunksInv, ChunksOK, StoredComplete, ReceivedPrefix, WebSelect
    <3>3. FlagsInv'
      BY <2>14 DEF FlagsInv, FlagsOK, NoKeysWhileUploading, WebSelect
    <3>4. QED  BY <3>1, <3>2, <3>3
  <2>15. CASE UNCHANGED vars
    <3>1. SessionInv'
      BY <2>15 DEF SessionInv, SessionOK, OwnerConnected, vars
    <3>2. ChunksInv'
      BY <2>15 DEF ChunksInv, ChunksOK, StoredComplete, ReceivedPrefix, vars
    <3>3. FlagsInv'
      BY <2>15 DEF FlagsInv, FlagsOK, NoKeysWhileUploading, vars
    <3>4. QED  BY <3>1, <3>2, <3>3
  <2>16. QED
    BY <2>1, <2>2, <2>3, <2>4, <2>5, <2>6, <2>7, <2>8, <2>9, <2>10, <2>11, <2>12, <2>13,
       <2>14, <2>15 DEF Next, HostFrame
<1>3. QED  BY <1>1, <1>2, PTL DEF Spec

(* Every variable keeps to its type. *)
THEOREM TypeCorrect == Spec => []TypeOK
<1>1. IInv => TypeOK
  BY DEF IInv, SessionInv, ChunksInv, FlagsInv, TypeOK
<1>2. QED  BY <1>1, Inductive, PTL

(* Whatever any number of hosts mix, resend or leave out, a slot holds one   *)
(* whole valid image or nothing.                                             *)
THEOREM SlotsHoldWholeImages == Spec => []StoredComplete
<1>1. IInv => StoredComplete
  BY DEF IInv, ChunksInv
<1>2. QED  BY <1>1, Inductive, PTL

(* An upload that got chunks of its own image only holds a prefix of it, for *)
(* images of any length.                                                     *)
THEOREM PrefixReceived == Spec => []ReceivedPrefix
<1>1. IInv => ReceivedPrefix
  BY DEF IInv, ChunksInv
<1>2. QED  BY <1>1, Inductive, PTL

(* KEY and RUN are refused only while the connection that began the upload   *)
(* is up, however many hosts begin uploads over each other.                  *)
THEOREM OwnerStaysConnected == Spec => []OwnerConnected
<1>1. IInv => OwnerConnected
  BY DEF IInv, SessionInv
<1>2. QED  BY <1>1, Inductive, PTL

(* A host that goes away leaves the upload alone that another one has begun.  *)
THEOREM OthersUploadSafe == Spec => OthersUploadKept
<1>1. IInv /\ [Next]_vars
        => [\A c \in open \ open' : Uploading /\ c # owner => UNCHANGED sessionVars]_vars
  <2> SUFFICES ASSUME IInv, Next, NEW c \in open \ open', Uploading, c # owner
               PROVE  UNCHANGED sessionVars
    OBVIOUS
  <2>1. uploadSocket = owner
    BY DEF IInv, SessionInv
  <2>2. ASSUME NEW d \in Conn, Disconnect(d)
        PROVE  UNCHANGED sessionVars
    <3>1. d = c
      BY <2>2 DEF Disconnect
    <3>2. QED  BY <2>1, <2>2, <3>1 DEF Disconnect
  <2>3. ASSUME NEW d \in Conn, Connect(d)
        PROVE  FALSE
    BY <2>3 DEF Connect
  <2>4. CASE HostFrame
    BY <2>4 DEF HostFrame, OtherFrame, UploadBegin, UploadData, UploadEnd, Run, Key
  <2>5. CASE IdleTimeout \/ HideScreen \/ KeysExpire \/ Tick
    BY <2>5 DEF IdleTimeout, HideScreen, KeysExpire, Tick
  <2>6. CASE \E s \in Slot : WebSelect(s) \/ \E i \in Image : WebUpload(i, s)
    BY <2>6 DEF WebSelect, WebUpload
  <2>7. QED  BY <2>2, <2>3, <2>4, <2>5, <2>6 DEF Next
<1>2. QED  BY <1>1, Inductive, PTL DEF Spec, OthersUploadKept

(* No remote key stays down through an upload. *)
THEOREM KeysReleased == Spec => []NoKeysWhileUploading
<1>1. IInv => NoKeysWhileUploading
  BY DEF IInv, FlagsInv
<1>2. QED  BY <1>1, Inductive, PTL
-----------------------------------------------------------------------------
(* The implementation of the abstract slots. *)

(* Every image has at least one chunk: no content is empty. *)
LEMMA ContentNonEmpty == ASSUME NEW i \in Image PROVE Content(i) # <<>>
<1>1. 1 \in 1 .. Chunks[i]
  BY UploadAssumption
<1>2. DOMAIN Content(i) = 1 .. Chunks[i]
  BY DEF Content
<1>3. DOMAIN <<>> = {}
  OBVIOUS
<1>4. QED  BY <1>1, <1>2, <1>3, Zenon

(* A content tells its image: each chunk carries the image it is of. *)
LEMMA ContentInjective ==
  ASSUME NEW i \in Image, NEW j \in Image, Content(i) = Content(j)
  PROVE  i = j
<1>1. 1 \in 1 .. Chunks[i] /\ 1 \in 1 .. Chunks[j]
  BY UploadAssumption
<1>2. Content(i)[1] = <<i, 1>> /\ Content(j)[1] = <<j, 1>>
  BY <1>1 DEF Content
<1>3. QED  BY <1>2

(* What the abstract slots see of a whole image, and of nothing. *)
LEMMA ImageOfContent == ASSUME NEW i \in Image PROVE ImageOf(Content(i)) = i
BY ContentNonEmpty, ContentInjective, Zenon DEF ImageOf

(* An empty slot is no image. *)
LEMMA ImageOfEmpty == ImageOf(<<>>) = NoImage
BY DEF ImageOf

(* Selecting a slot that holds a whole image, or nothing, is the abstract     *)
(* Play, or leaves the player alone.                                          *)
LEMMA SelectPlays ==
  ASSUME NEW s \in Slot, NEW content, SelectSlot(s, [slots EXCEPT ![s] = content]),
         slots \in [Slot -> Seq(Chunk)], content # <<>> => \E i \in Image : content = Content(i)
  PROVE  \/ UNCHANGED playing
         \/ ImageOf(content) # NoImage /\ ImageOf(playing') \in {ImageOf(content), NoImage}
<1>1. CASE content = <<>>
  BY <1>1 DEF SelectSlot
<1>2. CASE content # <<>>
  <2>1. ImageOf(content) # NoImage
    BY <1>2, ImageOfContent, UploadAssumption
  <2>2. playing' \in {content, <<>>}
    BY <1>2 DEF SelectSlot
  <2>3. QED  BY <2>1, <2>2, ImageOfEmpty
<1>3. QED  BY <1>1, <1>2

(* Every step of the protocol, the browser and the user stores a whole valid   *)
(* cartridge, starts one that a slot holds, stops the player, or leaves both    *)
(* alone.                                                                       *)
THEOREM Implementation == Spec => ImplementsSlots
<1> USE UploadAssumption
<1>1. Init => Slots!Init
  <2> SUFFICES ASSUME Init
               PROVE  Slots!Init
    OBVIOUS
  <2>1. \A s \in Slot : ImageOf(slots[s]) \in (Image \ Invalid) \cup {NoImage}
    BY ImageOfContent, ImageOfEmpty DEF Init
  <2>2. ImageOf(playing) = NoImage
    BY ImageOfEmpty DEF Init
  <2>3. QED  BY <2>1, <2>2 DEF Slots!Init
<1>2. IInv /\ [Next]_vars => [Slots!Next]_(Slots!vars)
  <2> SUFFICES ASSUME IInv, [Next]_vars
               PROVE  Slots!Next \/ UNCHANGED Slots!vars
    OBVIOUS
  <2> DEFINE held == [s \in Slot |-> ImageOf(slots[s])]
  <2>1. /\ slots \in [Slot -> Seq(Chunk)]
        /\ \A s \in Slot : slots[s] # <<>> => \E i \in Image : slots[s] = Content(i)
    BY DEF IInv, ChunksInv, ChunksOK, StoredComplete
  <2>2. ASSUME UNCHANGED <<slots, playing>>
        PROVE  UNCHANGED Slots!vars
    BY <2>2 DEF Slots!vars
  <2>3. ASSUME UNCHANGED slots, playing' = <<>>
        PROVE  Slots!Next
    BY <2>3, ImageOfEmpty DEF Slots!Next
  <2>4. ASSUME NEW s \in Slot, UNCHANGED slots, SelectSlot(s, slots)
        PROVE  Slots!Next \/ UNCHANGED Slots!vars
    <3>1. slots = [slots EXCEPT ![s] = slots[s]]
      BY <2>1
    <3>2. SelectSlot(s, [slots EXCEPT ![s] = slots[s]])
      BY <2>4, <3>1
    <3>3. UNCHANGED playing \/ (ImageOf(slots[s]) # NoImage
                                /\ ImageOf(playing') \in {ImageOf(slots[s]), NoImage})
      BY <2>1, <3>2, SelectPlays, Zenon
    <3>4. CASE UNCHANGED playing
      BY <2>2, <2>4, <3>4
    <3>5. CASE ImageOf(slots[s]) # NoImage /\ ImageOf(playing') \in {ImageOf(slots[s]), NoImage}
      BY <2>4, <3>5 DEF Slots!Next, Slots!Play
    <3>6. QED  BY <3>3, <3>4, <3>5
  <2>5. ASSUME NEW s \in Slot, NEW i \in Image \ Invalid, slots' = [slots EXCEPT ![s] = Content(i)],
               UNCHANGED playing \/ SelectSlot(s, slots')
        PROVE  Slots!Next
    <3>1. [r \in Slot |-> ImageOf(slots'[r])] = [held EXCEPT ![s] = i]
      BY <2>1, <2>5, ImageOfContent
    <3>2. Slots!Store(s, i)
      BY <3>1 DEF Slots!Store
    <3>3. CASE UNCHANGED playing
      BY <3>2, <3>3 DEF Slots!Next
    <3>4. CASE SelectSlot(s, slots')
      <4>1. UNCHANGED playing \/ (ImageOf(Content(i)) # NoImage
                                  /\ ImageOf(playing') \in {ImageOf(Content(i)), NoImage})
        BY <2>1, <2>5, <3>4, SelectPlays, Zenon
      <4>2. slots'[s] = Content(i)
        BY <2>1, <2>5
      <4>3. UNCHANGED playing \/ Slots!Play(s)
        BY <4>1, <4>2 DEF Slots!Play
      <4>4. CASE UNCHANGED playing
        BY <3>2, <4>4 DEF Slots!Next
      <4>5. CASE Slots!Play(s)
        BY <3>2, <4>5 DEF Slots!Next
      <4>6. QED  BY <4>3, <4>4, <4>5
    <3>5. QED  BY <2>5, <3>3, <3>4
  <2>6. ASSUME NEW c \in Conn, UploadEnd(c)
        PROVE  Slots!Next \/ UNCHANGED Slots!vars
    <3>1. CASE UNCHANGED <<slots, playing>>
      BY <2>2, <3>1
    <3>2. CASE /\ upload = Content(announced) /\ Storable
               /\ slots' = [slots EXCEPT ![uploadSlot] = upload]
               /\ IF command = "store" THEN UNCHANGED playing ELSE SelectSlot(uploadSlot, slots')
      <4>1. announced \in Image \ Invalid /\ uploadSlot \in Slot
        BY <2>6, <3>2 DEF IInv, SessionInv, SessionOK, UploadEnd, Uploading, Storable
      <4>2. QED  BY <2>5, <3>2, <4>1
    <3>3. QED  BY <2>6, <3>1, <3>2 DEF UploadEnd
  <2>7. ASSUME NEW c \in Conn, NEW s \in Slot, Run(c, s)
        PROVE  Slots!Next \/ UNCHANGED Slots!vars
    BY <2>4, <2>7 DEF Run
  <2>8. ASSUME NEW s \in Slot, WebSelect(s)
        PROVE  Slots!Next \/ UNCHANGED Slots!vars
    BY <2>4, <2>8 DEF WebSelect
  <2>9. ASSUME NEW i \in Image, NEW s \in Slot, WebUpload(i, s)
        PROVE  Slots!Next
    BY <2>5, <2>9 DEF WebUpload
  <2>10. ASSUME NEW c \in Conn, NEW i \in Image, NEW s \in Slot, NEW cmd \in {"store", "run"},
                UploadBegin(c, i, s, cmd)
         PROVE  Slots!Next
    BY <2>3, <2>10 DEF UploadBegin
  <2>11. ASSUME \/ \E c \in Conn : OtherFrame(c)
                \/ \E c \in Conn, i \in Image : \E k \in 1 .. Chunks[i] : UploadData(c, i, k)
                \/ \E c \in Conn, down \in BOOLEAN : Key(c, down)
                \/ \E c \in Conn : Connect(c) \/ Disconnect(c)
                \/ IdleTimeout \/ HideScreen \/ KeysExpire \/ Tick \/ UNCHANGED vars
         PROVE  UNCHANGED Slots!vars
    <3>1. UNCHANGED <<slots, playing>>
      BY <2>11 DEF OtherFrame, UploadData, Key, Connect, Disconnect, IdleTimeout, HideScreen,
                   KeysExpire, Tick, vars
    <3>2. QED  BY <2>2, <3>1
  <2>12. QED
    BY <2>6, <2>7, <2>8, <2>9, <2>10, <2>11 DEF Next, HostFrame
<1>3. QED  BY <1>1, <1>2, Inductive, PTL DEF Spec, ImplementsSlots, Slots!Spec

(* Uploads stay consistent for any number of hosts, slots and images.        *)
THEOREM UploadsConsistent == Spec => []UploadConsistent
BY TypeCorrect, SlotsHoldWholeImages, OwnerStaysConnected, KeysReleased, PTL
   DEF UploadConsistent
-----------------------------------------------------------------------------
(* The framing.  Induction over the natural numbers, for sets. *)
LEMMA FromZero ==
  ASSUME NEW S, 0 \in S, \A n \in Nat : n \in S => n + 1 \in S
  PROVE  Nat \subseteq S
<1> DEFINE Out == Nat \ S
           R == OpToRel(<, Nat)
<1>1. SUFFICES ASSUME Out # {} PROVE FALSE
  OBVIOUS
<1>2. IsWellFoundedOn(R, Nat)
  BY NatLessThanWellFounded
<1>3. \A y, z \in Nat : y < z => <<y, z>> \in R
  BY DEF OpToRel
<1>4. Out \subseteq Nat
  OBVIOUS
<1> HIDE DEF R
<1>5. \E z \in Out : \A y \in Out : ~(<<y, z>> \in R)
  <2> HIDE DEF Out
  <2>1. QED  BY <1>1, <1>2, <1>4, WFMin
<1>6. PICK z \in Out : \A y \in Out : ~(<<y, z>> \in R)
  BY <1>5
<1>7. z - 1 \in Nat /\ z - 1 < z /\ (z - 1) + 1 = z
  OBVIOUS
<1>8. z - 1 \in S
  BY <1>3, <1>6, <1>7
<1>9. QED  BY <1>7, <1>8

(* A recursion over a measure that only looks at what measures less has a     *)
(* solution: the functions that solve it below n agree, for every n.          *)
IsRecursion(B, D, T, size) ==
  /\ T # {} /\ size \in [D -> Nat] /\ B \in [D \X [D -> T] -> T]
  /\ \A d \in D : \A f, g \in [D -> T] :
       (\A e \in D : size[e] < size[d] => f[e] = g[e]) => B[<<d, f>>] = B[<<d, g>>]

(* A recursion whose body asks for smaller arguments only has a solution. *)
LEMMA Recursion ==
  ASSUME NEW B, NEW D, NEW T, NEW size, IsRecursion(B, D, T, size)
  PROVE  \E f \in [D -> T] : \A d \in D : f[d] = B[<<d, f>>]
<1> PICK t0 \in T : TRUE
  BY DEF IsRecursion
<1> USE DEF IsRecursion
<1> DEFINE Solves(f, n) == \A d \in D : size[d] < n => f[d] = B[<<d, f>>]
           Solvable == { n \in Nat : \E f \in [D -> T] : Solves(f, n) }
<1>1. Nat \subseteq Solvable
  <2>1. 0 \in Solvable
    <3>1. [d \in D |-> t0] \in [D -> T]
      OBVIOUS
    <3>2. Solves([d \in D |-> t0], 0)
      OBVIOUS
    <3>3. QED  BY <3>1, <3>2
  <2>2. ASSUME NEW n \in Nat, n \in Solvable
        PROVE  n + 1 \in Solvable
    <3>1. PICK f \in [D -> T] : Solves(f, n)
      BY <2>2
    <3> DEFINE g == [d \in D |-> B[<<d, f>>]]
    <3>2. g \in [D -> T]
      OBVIOUS
    <3>3. ASSUME NEW d \in D, size[d] < n + 1
          PROVE  g[d] = B[<<d, g>>]
      <4>1. \A e \in D : size[e] < size[d] => f[e] = g[e]
        BY <3>1, <3>3
      <4>2. g[d] = B[<<d, f>>]
        OBVIOUS
      <4> HIDE DEF g
      <4>3. QED  BY <3>2, <4>1, <4>2
    <3>4. Solves(g, n + 1)
      BY <3>3
    <3> HIDE DEF g
    <3>5. QED  BY <3>2, <3>4
  <2> HIDE DEF Solvable
  <2>3. QED  BY <2>1, <2>2, FromZero
<1>2. ASSUME NEW f \in [D -> T], NEW g \in [D -> T], NEW k \in Nat, Solves(f, k), Solves(g, k)
      PROVE  \A d \in D : size[d] < k => f[d] = g[d]
  <2> DEFINE Same == { n \in Nat : \A d \in D : size[d] < n /\ size[d] < k => f[d] = g[d] }
  <2>1. 0 \in Same
    OBVIOUS
  <2>2. ASSUME NEW n \in Nat, n \in Same
        PROVE  n + 1 \in Same
    <3>1. ASSUME NEW d \in D, size[d] < n + 1, size[d] < k
          PROVE  f[d] = g[d]
      <4>1. \A e \in D : size[e] < size[d] => f[e] = g[e]
        BY <2>2, <3>1
      <4>2. B[<<d, f>>] = B[<<d, g>>]
        BY <4>1
      <4>3. QED  BY <1>2, <3>1, <4>2
    <3>2. QED  BY <3>1
  <2>3. k \in Same
    <3> HIDE DEF Same
    <3>1. QED  BY <2>1, <2>2, FromZero
  <2>4. QED  BY <2>3
<1>3. \A n \in Nat : \E f \in [D -> T] : Solves(f, n)
  BY <1>1
<1> DEFINE Sol(n) == CHOOSE f \in [D -> T] : Solves(f, n)
           h == [d \in D |-> Sol(size[d] + 1)[d]]
<1>4. \A n \in Nat : Sol(n) \in [D -> T] /\ Solves(Sol(n), n)
  BY <1>3
<1> HIDE DEF Sol
<1>5. h \in [D -> T]
  BY <1>4
<1>6. ASSUME NEW d \in D
      PROVE  h[d] = B[<<d, h>>]
  <2> DEFINE f == Sol(size[d] + 1)
  <2>1. size[d] + 1 \in Nat
    OBVIOUS
  <2>2. f \in [D -> T] /\ Solves(f, size[d] + 1)
    BY <1>4, <2>1, Zenon
  <2>3. ASSUME NEW e \in D, size[e] < size[d]
        PROVE  f[e] = h[e]
    <3> DEFINE g == Sol(size[e] + 1)
    <3>1. size[e] + 1 \in Nat
      OBVIOUS
    <3>2. g \in [D -> T] /\ Solves(g, size[e] + 1)
      BY <1>4, <3>1, Zenon
    <3>3. h[e] = g[e]
      OBVIOUS
    <3> HIDE DEF f, g, h
    <3>4. Solves(f, size[e] + 1)
      BY <2>2, <2>3
    <3>5. size[e] + 1 \in Nat /\ size[e] < size[e] + 1
      OBVIOUS
    <3>6. f[e] = g[e]
      BY <1>2, <2>2, <3>2, <3>4, <3>5
    <3>7. QED  BY <3>3, <3>6
  <2>4. h[d] = f[d]
    OBVIOUS
  <2> HIDE DEF f, h
  <2>5. f[d] = B[<<d, f>>]
    BY <2>2
  <2>6. B[<<d, f>>] = B[<<d, h>>]
    BY <1>5, <2>2, <2>3
  <2>7. QED  BY <2>4, <2>5, <2>6
<1> HIDE DEF h
<1>7. QED  BY <1>5, <1>6
-----------------------------------------------------------------------------
(* What is read at a place of a sequence of bytes. *)
LEMMA Header ==
  /\ Len(Magic) \in Nat \ {0} /\ HeaderSize \in Nat /\ HeaderSize = Len(Magic) + 3
  /\ \A k \in 1 .. Len(Magic) : Magic[k] \in Byte
  /\ Byte \subseteq Nat /\ MaximumPayload \in Nat
<1>1. Magic \in Seq(Byte) /\ Magic # <<>>
  BY FramingAssumption
<1>2. Len(Magic) \in Nat \ {0} /\ \A k \in 1 .. Len(Magic) : Magic[k] \in Byte
  BY <1>1, EmptySeq, ElementOfSeq, LenProperties
<1>3. QED  BY <1>2, FramingAssumption DEF HeaderSize

(* The members of a sequence of bytes are bytes. *)
LEMMA Bytes ==
  ASSUME NEW b \in Seq(Byte)
  PROVE  Len(b) \in Nat /\ \A k \in 1 .. Len(b) : b[k] \in Byte /\ b[k] \in Nat
BY LenProperties, ElementOfSeq, FramingAssumption

(* The bytes from a place on. *)
LEMMA FromIs ==
  ASSUME NEW b \in Seq(Byte), NEW i \in 1 .. Len(b) + 1
  PROVE  /\ From(b, i) \in Seq(Byte)
         /\ Len(From(b, i)) = (Len(b) - i) + 1
         /\ \A k \in 1 .. (Len(b) - i) + 1 : From(b, i)[k] = b[(i + k) - 1]
<1>1. Len(b) \in Nat /\ \A k \in i .. Len(b) : b[k] \in Byte
  BY Bytes
<1>2. /\ SubSeq(b, i, Len(b)) \in Seq(Byte)
      /\ Len(SubSeq(b, i, Len(b))) = IF i <= Len(b) THEN Len(b) - i + 1 ELSE 0
      /\ \A k \in 1 .. Len(b) - i + 1 : SubSeq(b, i, Len(b))[k] = b[i + k - 1]
  <2>1. i \in Int /\ Len(b) \in Int
    BY <1>1
  <2>2. QED  BY <1>1, <2>1, SubSeqProperties
<1>3. QED  BY <1>1, <1>2 DEF From

(* The bytes of two sequences, one after the other. *)
LEMMA Joined ==
  ASSUME NEW b \in Seq(Byte), NEW x \in Seq(Byte)
  PROVE  /\ b \o x \in Seq(Byte)
         /\ Len(b \o x) = Len(b) + Len(x) /\ Len(b) \in Nat /\ Len(x) \in Nat
         /\ \A k \in 1 .. Len(b) : (b \o x)[k] = b[k]
         /\ \A k \in 1 .. Len(x) : (b \o x)[Len(b) + k] = x[k]
<1>1. Len(b) \in Nat /\ Len(x) \in Nat
  BY LenProperties
<1>2. /\ b \o x \in Seq(Byte) /\ Len(b \o x) = Len(b) + Len(x)
      /\ \A i \in 1 .. Len(b) + Len(x) : (b \o x)[i] = IF i <= Len(b) THEN b[i] ELSE x[i - Len(b)]
  BY ConcatProperties
<1>3. QED  BY <1>1, <1>2

(* The rest of a rest is a rest. *)
LEMMA FromFrom ==
  ASSUME NEW b \in Seq(Byte), NEW i \in 1 .. Len(b) + 1, NEW j \in 1 .. Len(From(b, i)) + 1
  PROVE  /\ (i + j) - 1 \in 1 .. Len(b) + 1
         /\ From(From(b, i), j) = From(b, (i + j) - 1)
<1> DEFINE c == From(b, i)
           n == (i + j) - 1
<1>1. /\ c \in Seq(Byte) /\ Len(c) = (Len(b) - i) + 1 /\ Len(b) \in Nat
      /\ \A k \in 1 .. (Len(b) - i) + 1 : c[k] = b[(i + k) - 1]
  BY FromIs, Bytes
<1> HIDE DEF c
<1>2. n \in 1 .. Len(b) + 1
  BY <1>1 DEF c
<1> SUFFICES From(c, j) = From(b, n)
  BY <1>2 DEF c
<1>3. /\ From(c, j) \in Seq(Byte) /\ Len(From(c, j)) = (Len(c) - j) + 1
      /\ \A k \in 1 .. (Len(c) - j) + 1 : From(c, j)[k] = c[(j + k) - 1]
  BY <1>1, FromIs DEF c
<1>4. /\ From(b, n) \in Seq(Byte) /\ Len(From(b, n)) = (Len(b) - n) + 1
      /\ \A k \in 1 .. (Len(b) - n) + 1 : From(b, n)[k] = b[(n + k) - 1]
  <2> HIDE DEF n
  <2>1. QED  BY <1>2, FromIs
<1>5. Len(From(c, j)) = Len(From(b, n))
  BY <1>1, <1>3, <1>4
<1>6. ASSUME NEW k \in 1 .. Len(From(c, j))
      PROVE  From(c, j)[k] = From(b, n)[k]
  <2>1. k \in 1 .. (Len(c) - j) + 1 /\ (j + k) - 1 \in 1 .. (Len(b) - i) + 1
        /\ k \in 1 .. (Len(b) - n) + 1
    BY <1>1, <1>3 DEF c
  <2>2. From(c, j)[k] = b[(i + ((j + k) - 1)) - 1]
    BY <1>1, <1>3, <2>1
  <2>3. (i + ((j + k) - 1)) - 1 = (n + k) - 1
    BY <2>1
  <2>4. QED  BY <1>4, <2>1, <2>2, <2>3
<1>7. QED  BY <1>3, <1>4, <1>5, <1>6, SeqEqual

(* What follows is at the end of every rest. *)
LEMMA FromJoined ==
  ASSUME NEW b \in Seq(Byte), NEW x \in Seq(Byte), NEW i \in 1 .. Len(b) + 1
  PROVE  From(b \o x, i) = From(b, i) \o x
<1> DEFINE c == From(b, i)
           d == b \o x
<1>1. /\ c \in Seq(Byte) /\ Len(c) = (Len(b) - i) + 1
      /\ \A k \in 1 .. (Len(b) - i) + 1 : c[k] = b[(i + k) - 1]
  BY FromIs
<1>2. /\ d \in Seq(Byte) /\ Len(d) = Len(b) + Len(x) /\ Len(b) \in Nat /\ Len(x) \in Nat
      /\ \A k \in 1 .. Len(b) : d[k] = b[k]
      /\ \A k \in 1 .. Len(x) : d[Len(b) + k] = x[k]
  BY Joined
<1>3. /\ c \o x \in Seq(Byte) /\ Len(c \o x) = Len(c) + Len(x)
      /\ \A k \in 1 .. Len(c) : (c \o x)[k] = c[k]
      /\ \A k \in 1 .. Len(x) : (c \o x)[Len(c) + k] = x[k]
  BY <1>1, Joined
<1> HIDE DEF c, d
<1>4. i \in 1 .. Len(d) + 1
  BY <1>2
<1>5. /\ From(d, i) \in Seq(Byte) /\ Len(From(d, i)) = (Len(d) - i) + 1
      /\ \A k \in 1 .. (Len(d) - i) + 1 : From(d, i)[k] = d[(i + k) - 1]
  BY <1>2, <1>4, FromIs
<1>6. Len(From(d, i)) = Len(c \o x)
  BY <1>1, <1>2, <1>3, <1>5
<1>7. ASSUME NEW k \in 1 .. Len(From(d, i))
      PROVE  From(d, i)[k] = (c \o x)[k]
  <2>1. k \in 1 .. (Len(d) - i) + 1 /\ From(d, i)[k] = d[(i + k) - 1]
    BY <1>5
  <2>2. CASE k <= Len(c)
    <3>1. (i + k) - 1 \in 1 .. Len(b) /\ k \in 1 .. Len(c)
      BY <1>1, <1>2, <2>1, <2>2
    <3>2. QED  BY <1>1, <1>2, <1>3, <2>1, <3>1
  <2>3. CASE k > Len(c)
    <3> DEFINE m == k - Len(c)
    <3>1. Len(c) = (Len(b) - i) + 1 /\ Len(d) = Len(b) + Len(x) /\ Len(b) \in Nat /\ Len(x) \in Nat
      BY <1>1, <1>2
    <3>2. m \in 1 .. Len(x) /\ Len(b) + m = (i + k) - 1 /\ Len(c) + m = k
      BY <2>1, <2>3, <3>1
    <3> HIDE DEF m
    <3>3. d[Len(b) + m] = x[m] /\ (c \o x)[Len(c) + m] = x[m]
      BY <1>2, <1>3, <3>2
    <3>4. QED  BY <2>1, <3>2, <3>3
  <2>4. QED  BY <1>1, <1>2, <2>1, <2>2, <2>3
<1>8. From(d, i) = c \o x
  BY <1>3, <1>5, <1>6, <1>7, SeqEqual
<1>9. QED  BY <1>8 DEF c, d

(* The magic, byte by byte. *)
LEMMA MagicIs ==
  ASSUME NEW b \in Seq(Byte), NEW i \in Nat \ {0}
  PROVE  MagicAt(b, i) <=>
           /\ (i + Len(Magic)) - 1 <= Len(b)
           /\ \A k \in 1 .. Len(Magic) : b[(i + k) - 1] = Magic[k]
<1> DEFINE n == (i + Len(Magic)) - 1
           s == SubSeq(b, i, n)
<1>1. Len(Magic) \in Nat \ {0} /\ Len(b) \in Nat /\ Magic \in Seq(Byte)
  BY Header, Bytes, FramingAssumption
<1>2. MagicAt(b, i) <=> n <= Len(b) /\ s = Magic
  BY DEF MagicAt
<1>3. CASE n <= Len(b)
  <2>1. n \in Int /\ i \in Int /\ \A k \in i .. n : b[k] \in Byte
    BY <1>1, <1>3, Bytes
  <2>2. n - i + 1 = Len(Magic) /\ i <= n
    BY <1>1
  <2> HIDE DEF n
  <2>3. /\ s \in Seq(Byte)
        /\ Len(s) = IF i <= n THEN n - i + 1 ELSE 0
        /\ \A k \in 1 .. n - i + 1 : s[k] = b[i + k - 1]
    BY <2>1, SubSeqProperties
  <2> HIDE DEF s
  <2>4. s \in Seq(Byte) /\ Len(s) = Len(Magic) /\ \A k \in 1 .. Len(Magic) : s[k] = b[(i + k) - 1]
    BY <2>2, <2>3
  <2>5. s = Magic <=> \A k \in 1 .. Len(Magic) : s[k] = Magic[k]
    BY <1>1, <2>4, SeqEqual
  <2>6. QED  BY <1>2, <1>3, <2>4, <2>5 DEF n
<1>4. CASE ~(n <= Len(b))
  BY <1>2, <1>4
<1>5. QED  BY <1>3, <1>4

(* Two places that hold the same bytes are read alike, as far as they do.     *)
SameBytes(b, i, c, j, n) ==
  /\ (i + n) - 1 <= Len(b) /\ (j + n) - 1 <= Len(c)
  /\ \A k \in 0 .. n - 1 : b[i + k] = c[j + k]

(* Bytes that agree as far agree less far. *)
LEMMA SameFewer ==
  ASSUME NEW b \in Seq(Byte), NEW c \in Seq(Byte), NEW i \in Nat, NEW j \in Nat,
         NEW m \in Nat, NEW n \in Nat, SameBytes(b, i, c, j, m + n)
  PROVE  SameBytes(b, i, c, j, m)
<1>1. Len(b) \in Nat /\ Len(c) \in Nat
  BY Bytes
<1>2. (i + m) - 1 <= Len(b) /\ (j + m) - 1 <= Len(c)
  BY <1>1 DEF SameBytes
<1>3. \A k \in 0 .. m - 1 : k \in 0 .. (m + n) - 1
  OBVIOUS
<1>4. QED  BY <1>2, <1>3 DEF SameBytes

(* Where the bytes agree there is a magic in both or in neither, *)
LEMMA SameMagic ==
  ASSUME NEW b \in Seq(Byte), NEW c \in Seq(Byte), NEW i \in Nat \ {0}, NEW j \in Nat \ {0},
         SameBytes(b, i, c, j, Len(Magic))
  PROVE  MagicAt(b, i) <=> MagicAt(c, j)
<1>1. Len(Magic) \in Nat \ {0} /\ Len(b) \in Nat /\ Len(c) \in Nat
  BY Header, Bytes
<1>2. \A k \in 1 .. Len(Magic) : b[(i + k) - 1] = c[(j + k) - 1]
  <2>1. ASSUME NEW k \in 1 .. Len(Magic)
        PROVE  b[(i + k) - 1] = c[(j + k) - 1]
    <3>1. k - 1 \in 0 .. Len(Magic) - 1 /\ i + (k - 1) = (i + k) - 1 /\ j + (k - 1) = (j + k) - 1
      BY <1>1
    <3>2. b[i + (k - 1)] = c[j + (k - 1)]
      BY <3>1 DEF SameBytes
    <3>3. QED  BY <3>1, <3>2
  <2>2. QED  BY <2>1
<1>3. QED  BY <1>2, MagicIs DEF SameBytes

(* the headers agree, *)
LEMMA SameHeader ==
  ASSUME NEW b \in Seq(Byte), NEW c \in Seq(Byte), NEW i \in Nat \ {0}, NEW j \in Nat \ {0},
         SameBytes(b, i, c, j, HeaderSize)
  PROVE  /\ VersionAt(b, i) = VersionAt(c, j) /\ SizeAt(b, i) = SizeAt(c, j)
         /\ ChecksumAt(b, i) = ChecksumAt(c, j)
         /\ HeaderOk(b, i) <=> HeaderOk(c, j)
         /\ MagicAt(b, i) <=> MagicAt(c, j)
         /\ SizeAt(b, i) \in Byte /\ SizeAt(b, i) \in Nat
<1>1. Len(Magic) \in Nat \ {0} /\ HeaderSize = Len(Magic) + 3 /\ Len(b) \in Nat /\ Len(c) \in Nat
  BY Header, Bytes
<1>2. \A k \in 0 .. Len(Magic) + 2 : b[i + k] = c[j + k]
  BY <1>1 DEF SameBytes
<1>3. VersionAt(b, i) = VersionAt(c, j) /\ SizeAt(b, i) = SizeAt(c, j) /\ ChecksumAt(b, i) = ChecksumAt(c, j)
  <2> DEFINE m == Len(Magic)
  <2>1. m \in 0 .. m + 2 /\ m + 1 \in 0 .. m + 2 /\ m + 2 \in 0 .. m + 2
    BY <1>1
  <2>2. \A a \in Nat : (a + m) + 1 = a + (m + 1) /\ (a + m) + 2 = a + (m + 2)
    BY <1>1
  <2>3. b[i + m] = c[j + m] /\ b[i + (m + 1)] = c[j + (m + 1)] /\ b[i + (m + 2)] = c[j + (m + 2)]
    BY <1>2, <2>1
  <2>4. b[(i + m) + 1] = c[(j + m) + 1] /\ b[(i + m) + 2] = c[(j + m) + 2]
    BY <2>2, <2>3
  <2>5. QED  BY <2>3, <2>4 DEF VersionAt, SizeAt, ChecksumAt
<1>4. SameBytes(b, i, c, j, Len(Magic))
  <2>1. Len(Magic) \in Nat /\ 3 \in Nat /\ SameBytes(b, i, c, j, Len(Magic) + 3)
    BY <1>1
  <2>2. QED  BY <2>1, SameFewer
<1>5. SizeAt(b, i) \in Byte /\ SizeAt(b, i) \in Nat
  <2>1. (i + Len(Magic)) + 1 \in 1 .. Len(b)
    BY <1>1 DEF SameBytes
  <2>2. QED  BY <2>1, Bytes DEF SizeAt
<1>6. QED  BY <1>3, <1>4, <1>5, SameMagic DEF HeaderOk

(* (whose size is a number) *)
LEMMA HeaderAt ==
  ASSUME NEW b \in Seq(Byte), NEW i \in Nat \ {0}, (i + HeaderSize) - 1 <= Len(b)
  PROVE  SizeAt(b, i) \in Byte /\ SizeAt(b, i) \in Nat
<1>1. SameBytes(b, i, b, i, HeaderSize)
  BY DEF SameBytes
<1>2. QED  BY <1>1, SameHeader

(* (whose payload is as long as it says) *)
LEMMA PayloadIs ==
  ASSUME NEW b \in Seq(Byte), NEW i \in Nat \ {0}, NEW n \in Nat, n = SizeAt(b, i),
         (i + (HeaderSize + n)) - 1 <= Len(b)
  PROVE  /\ PayloadAt(b, i) \in Seq(Byte) /\ Len(PayloadAt(b, i)) = n
         /\ \A k \in 1 .. n : PayloadAt(b, i)[k] = b[i + ((HeaderSize + k) - 1)]
<1> DEFINE lo == i + HeaderSize
           hi == i + HeaderSize + n - 1
<1>1. HeaderSize \in Nat /\ Len(b) \in Nat
  BY Header, Bytes
<1>2. lo \in Int /\ hi \in Int /\ hi - lo + 1 = n /\ (lo <= hi <=> n > 0) /\ \A k \in lo .. hi : k \in 1 .. Len(b)
  BY <1>1
<1>3. PayloadAt(b, i) = SubSeq(b, lo, hi)
  BY DEF PayloadAt
<1>4. \A k \in 1 .. n : lo + k - 1 = i + ((HeaderSize + k) - 1)
  BY <1>1
<1> HIDE DEF lo, hi
<1>5. \A k \in lo .. hi : b[k] \in Byte
  BY <1>2, Bytes
<1>6. /\ SubSeq(b, lo, hi) \in Seq(Byte)
      /\ Len(SubSeq(b, lo, hi)) = IF lo <= hi THEN hi - lo + 1 ELSE 0
      /\ \A k \in 1 .. hi - lo + 1 : SubSeq(b, lo, hi)[k] = b[lo + k - 1]
  BY <1>2, <1>5, SubSeqProperties
<1>7. QED  BY <1>2, <1>3, <1>4, <1>6

(* and so do the frames. *)
LEMMA SameFrame ==
  ASSUME NEW b \in Seq(Byte), NEW c \in Seq(Byte), NEW i \in Nat \ {0}, NEW j \in Nat \ {0},
         NEW n \in Nat, n = SizeAt(b, i), SameBytes(b, i, c, j, HeaderSize + n)
  PROVE  FrameAt(b, i) = FrameAt(c, j)
<1>1. HeaderSize \in Nat /\ Len(b) \in Nat /\ Len(c) \in Nat
  BY Header, Bytes
<1>2. SameBytes(b, i, c, j, HeaderSize)
  BY <1>1, SameFewer
<1>3. SizeAt(c, j) = n /\ ChecksumAt(b, i) = ChecksumAt(c, j)
  BY <1>2, SameHeader
<1> DEFINE p == PayloadAt(b, i)
           q == PayloadAt(c, j)
<1>4. p \in Seq(Byte) /\ Len(p) = n /\ \A k \in 1 .. n : p[k] = b[i + ((HeaderSize + k) - 1)]
  BY PayloadIs DEF SameBytes
<1>5. q \in Seq(Byte) /\ Len(q) = n /\ \A k \in 1 .. n : q[k] = c[j + ((HeaderSize + k) - 1)]
  BY <1>3, PayloadIs DEF SameBytes
<1> HIDE DEF p, q
<1>6. \A k \in 1 .. n : p[k] = q[k]
  <2>1. \A k \in 1 .. n : (HeaderSize + k) - 1 \in 0 .. (HeaderSize + n) - 1
    BY <1>1
  <2>2. QED  BY <1>4, <1>5, <2>1 DEF SameBytes
<1>7. p = q
  BY <1>4, <1>5, <1>6, SeqEqual
<1>8. QED  BY <1>3, <1>7 DEF FrameAt, p, q

(* A frame that is accepted has its type. *)
LEMMA FrameIs ==
  ASSUME NEW b \in Seq(Byte), NEW i \in Nat \ {0}, NEW n \in Nat, n = SizeAt(b, i),
         (i + (HeaderSize + n)) - 1 <= Len(b), HeaderOk(b, i)
  PROVE  FrameAt(b, i) \in FrameRecord
<1>1. PayloadAt(b, i) \in Seq(Byte) /\ Len(PayloadAt(b, i)) = n /\ n <= MaximumPayload
  BY PayloadIs DEF HeaderOk
<1>2. PayloadAt(b, i) \in [1 .. n -> Byte] /\ n \in 0 .. MaximumPayload
  BY <1>1, LenProperties, Header
<1>3. PayloadAt(b, i) \in BoundedSeq(Byte, MaximumPayload)
  BY <1>2 DEF BoundedSeq, SeqOf
<1>4. (Crc32(PayloadAt(b, i)) = ChecksumAt(b, i)) \in BOOLEAN
  BY Zenon
<1>5. QED  BY <1>3, <1>4 DEF FrameAt, FrameRecord
-----------------------------------------------------------------------------
(* The frames of a stream.  First what a first place is. *)
LEMMA Minimum ==
  ASSUME NEW S \in SUBSET Nat, S # {}
  PROVE  \E s \in S : \A j \in S : s <= j
<1> DEFINE R == OpToRel(<, Nat)
<1>1. IsWellFoundedOn(R, Nat)
  BY NatLessThanWellFounded
<1>2. \A y, z \in Nat : y < z => <<y, z>> \in R
  BY DEF OpToRel
<1> HIDE DEF R
<1>3. PICK s \in S : \A y \in S : ~(<<y, s>> \in R)
  BY <1>1, WFMin
<1>4. \A y \in S : ~(y < s) /\ y \in Nat /\ s \in Nat
  BY <1>2, <1>3
<1>5. QED  BY <1>3, <1>4

(* The first acceptable header is the least place of one. *)
LEMMA FirstHeadIs ==
  ASSUME NEW b \in Seq(Byte), HeadsOf(b) # {}
  PROVE  /\ FirstHead(b) \in HeadsOf(b)
         /\ \A j \in HeadsOf(b) : FirstHead(b) <= j
<1>1. HeadsOf(b) \in SUBSET Nat
  BY DEF HeadsOf
<1>2. \E s \in HeadsOf(b) : \A j \in HeadsOf(b) : s <= j
  BY <1>1, Minimum
<1> QED  BY <1>2 DEF FirstHead

(* An acceptable header is whole, and its frame ends after it. *)
LEMMA HeadIs ==
  ASSUME NEW b \in Seq(Byte), NEW s \in HeadsOf(b)
  PROVE  /\ s \in Nat \ {0} /\ (s + HeaderSize) - 1 <= Len(b)
         /\ MagicAt(b, s) /\ HeaderOk(b, s)
         /\ SizeAt(b, s) \in Nat
         /\ AfterFrame(b, s) \in Nat /\ AfterFrame(b, s) = s + (HeaderSize + SizeAt(b, s)) /\ AfterFrame(b, s) > s
<1>1. HeaderSize \in Nat \ {0} /\ Len(b) \in Nat
  BY Header, Bytes
<1>2. s \in 1 .. Len(b) - HeaderSize + 1 /\ MagicAt(b, s) /\ HeaderOk(b, s)
  BY DEF HeadsOf
<1>3. s \in Nat \ {0} /\ (s + HeaderSize) - 1 <= Len(b)
  BY <1>1, <1>2
<1>4. SizeAt(b, s) \in Nat
  BY <1>3, HeaderAt
<1>5. QED  BY <1>1, <1>2, <1>3, <1>4 DEF AfterFrame

FramesStep(b, f) ==
  IF HeadsOf(b) = {} \/ AfterFrame(b, FirstHead(b)) > Len(b) + 1 THEN <<>>
  ELSE <<FrameAt(b, FirstHead(b))>> \o f[From(b, AfterFrame(b, FirstHead(b)))]

(* The first frame has its type, and less is left after it. *)
LEMMA FramesStepIs ==
  ASSUME NEW b \in Seq(Byte), ~(HeadsOf(b) = {} \/ AfterFrame(b, FirstHead(b)) > Len(b) + 1)
  PROVE  /\ FrameAt(b, FirstHead(b)) \in FrameRecord
         /\ From(b, AfterFrame(b, FirstHead(b))) \in Seq(Byte)
         /\ Len(From(b, AfterFrame(b, FirstHead(b)))) < Len(b)
<1> DEFINE s == FirstHead(b)
           a == AfterFrame(b, s)
<1>1. s \in HeadsOf(b) /\ Len(b) \in Nat /\ HeaderSize \in Nat /\ a <= Len(b) + 1
  <2>1. s \in HeadsOf(b) /\ Len(b) \in Nat /\ HeaderSize \in Nat
    BY FirstHeadIs, Bytes, Header
  <2> HIDE DEF s
  <2>2. a \in Nat
    BY <2>1, HeadIs
  <2>3. ~(a > Len(b) + 1)
    BY DEF s
  <2> HIDE DEF a
  <2>4. QED  BY <2>1, <2>2, <2>3
<1> HIDE DEF s
<1>2. /\ s \in Nat \ {0} /\ HeaderOk(b, s) /\ SizeAt(b, s) \in Nat
      /\ a \in Nat /\ a = s + (HeaderSize + SizeAt(b, s)) /\ a > s
  BY <1>1, HeadIs
<1>3. FrameAt(b, s) \in FrameRecord
  <2>1. (s + (HeaderSize + SizeAt(b, s))) - 1 <= Len(b)
    BY <1>1, <1>2
  <2>2. QED  BY <1>2, <2>1, FrameIs
<1> HIDE DEF a
<1>4. a \in 1 .. Len(b) + 1 /\ a > 1
  BY <1>1, <1>2
<1>5. From(b, a) \in Seq(Byte) /\ Len(From(b, a)) = (Len(b) - a) + 1
  BY <1>4, FromIs
<1>6. Len(From(b, a)) < Len(b)
  BY <1>1, <1>4, <1>5
<1>7. QED  BY <1>3, <1>5, <1>6 DEF s, a

(* FramesOf satisfies its recursion. *)
LEMMA FramesOfIs ==
  \A b \in Seq(Byte) : FramesOf[b] \in Seq(FrameRecord) /\ FramesOf[b] = FramesStep(b, FramesOf)
<1> DEFINE D == Seq(Byte)
           T == Seq(FrameRecord)
           size == [b \in D |-> Len(b)]
           B == [p \in D \X [D -> T] |-> FramesStep(p[1], p[2])]
<1>1. size \in [D -> Nat]
  BY LenProperties
<1>2. ASSUME NEW b \in D, NEW f \in [D -> T]
      PROVE  FramesStep(b, f) \in T
  <2>1. CASE HeadsOf(b) = {} \/ AfterFrame(b, FirstHead(b)) > Len(b) + 1
    BY <2>1 DEF FramesStep
  <2>2. CASE ~(HeadsOf(b) = {} \/ AfterFrame(b, FirstHead(b)) > Len(b) + 1)
    <3> DEFINE x == FrameAt(b, FirstHead(b))
               r == From(b, AfterFrame(b, FirstHead(b)))
    <3>1. x \in FrameRecord /\ r \in D
      BY <2>2, FramesStepIs
    <3>2. FramesStep(b, f) = <<x>> \o f[r]
      BY <2>2 DEF FramesStep
    <3> HIDE DEF x, r, D
    <3>3. <<x>> \in T /\ f[r] \in T
      BY <3>1
    <3>4. QED  BY <3>2, <3>3, ConcatProperties
  <2>3. QED  BY <2>1, <2>2
<1>3. B \in [D \X [D -> T] -> T]
  BY <1>2
<1>4. \A b \in D : \A f \in [D -> T] : B[<<b, f>>] = FramesStep(b, f)
  OBVIOUS
<1>5. ASSUME NEW b \in D, NEW f \in [D -> T], NEW g \in [D -> T],
             \A e \in D : size[e] < size[b] => f[e] = g[e]
      PROVE  B[<<b, f>>] = B[<<b, g>>]
  <2>1. CASE HeadsOf(b) = {} \/ AfterFrame(b, FirstHead(b)) > Len(b) + 1
    BY <1>4, <2>1 DEF FramesStep
  <2>2. CASE ~(HeadsOf(b) = {} \/ AfterFrame(b, FirstHead(b)) > Len(b) + 1)
    <3> DEFINE r == From(b, AfterFrame(b, FirstHead(b)))
    <3>1. r \in D /\ Len(r) < Len(b)
      BY <2>2, FramesStepIs
    <3>2. FramesStep(b, f) = <<FrameAt(b, FirstHead(b))>> \o f[r] /\ FramesStep(b, g) = <<FrameAt(b, FirstHead(b))>> \o g[r]
      BY <2>2 DEF FramesStep
    <3> HIDE DEF r
    <3>3. f[r] = g[r]
      BY <1>5, <3>1
    <3> HIDE DEF B
    <3>4. QED  BY <1>4, <3>2, <3>3
  <2>3. QED  BY <2>1, <2>2
<1>6. <<>> \in T
  OBVIOUS
<1>7. IsRecursion(B, D, T, size)
  <2> HIDE DEF D, T, size, B
  <2>1. QED  BY <1>1, <1>3, <1>5, <1>6 DEF IsRecursion
<1>8. PICK h \in [D -> T] : \A b \in D : h[b] = B[<<b, h>>]
  <2> HIDE DEF D, T, size, B
  <2>1. QED  BY <1>7, Recursion
<1>9. h = [b \in D |-> FramesStep(b, h)]
  <2> HIDE DEF B
  <2>1. QED  BY <1>4, <1>8
<1> DEFINE F == CHOOSE f : f = [b \in Seq(Byte) |-> FramesStep(b, f)]
<1>10. FramesOf = F
  BY DEF FramesOf, FramesStep
<1>11. F = [b \in Seq(Byte) |-> FramesStep(b, F)]
  BY <1>9
<1>12. \A b \in Seq(Byte) : FramesOf[b] = FramesStep(b, FramesOf)
  <2> HIDE DEF F
  <2>1. FramesOf = [b \in Seq(Byte) |-> FramesStep(b, FramesOf)]
    BY <1>10, <1>11
  <2> QED  BY <2>1
<1> DEFINE Typed == { n \in Nat : \A b \in D : Len(b) < n => FramesOf[b] \in T }
<1>13. ASSUME NEW n \in Nat, n \in Typed, NEW b \in D, Len(b) < n + 1
       PROVE  FramesOf[b] \in T
  <2>1. CASE HeadsOf(b) = {} \/ AfterFrame(b, FirstHead(b)) > Len(b) + 1
    <3>1. FramesOf[b] = <<>>
      BY <1>12, <2>1 DEF FramesStep
    <3>2. QED  BY <1>6, <3>1
  <2>2. CASE ~(HeadsOf(b) = {} \/ AfterFrame(b, FirstHead(b)) > Len(b) + 1)
    <3> DEFINE x == FrameAt(b, FirstHead(b))
               r == From(b, AfterFrame(b, FirstHead(b)))
    <3>1. x \in FrameRecord /\ r \in D /\ Len(r) < Len(b)
      BY <2>2, FramesStepIs
    <3>2. FramesOf[b] = <<x>> \o FramesOf[r]
      BY <1>12, <2>2 DEF FramesStep
    <3> HIDE DEF x, r
    <3>3. Len(r) < n
      BY <1>13, <3>1, Bytes
    <3>4. <<x>> \in T /\ FramesOf[r] \in T
      BY <1>13, <3>1, <3>3
    <3>5. QED  BY <3>2, <3>4, ConcatProperties
  <2>3. QED  BY <2>1, <2>2
<1>14. Nat \subseteq Typed
  <2>1. 0 \in Typed
    BY Bytes
  <2>2. \A n \in Nat : n \in Typed => n + 1 \in Typed
    BY <1>13
  <2> HIDE DEF Typed
  <2>3. QED  BY <2>1, <2>2, FromZero
<1>15. \A b \in D : FramesOf[b] \in T
  <2>1. ASSUME NEW b \in D PROVE FramesOf[b] \in T
    <3>1. Len(b) + 1 \in Typed /\ Len(b) < Len(b) + 1
      <4> HIDE DEF Typed
      <4>1. QED  BY <1>14, Bytes
    <3>2. QED  BY <3>1
  <2>2. QED  BY <2>1
<1> QED  BY <1>12, <1>15

(* A stream read from a later place, or with more bytes to come, is read alike. *)
LEMMA ShiftSame ==
  ASSUME NEW c \in Seq(Byte), NEW p \in 1 .. Len(c) + 1, NEW s \in Nat \ {0}, NEW n \in Nat,
         (s + n) - 1 <= Len(From(c, p))
  PROVE  SameBytes(From(c, p), s, c, (p + s) - 1, n)
<1> DEFINE d == From(c, p)
<1>1. /\ Len(d) = (Len(c) - p) + 1 /\ Len(c) \in Nat
      /\ \A k \in 1 .. (Len(c) - p) + 1 : d[k] = c[(p + k) - 1]
  BY FromIs, Bytes
<1> HIDE DEF d
<1>2. ASSUME NEW k \in 0 .. n - 1
      PROVE  d[s + k] = c[((p + s) - 1) + k]
  <2>1. s + k \in 1 .. (Len(c) - p) + 1 /\ (p + (s + k)) - 1 = ((p + s) - 1) + k
    BY <1>1 DEF d
  <2>2. QED  BY <1>1, <2>1
<1>3. (((p + s) - 1) + n) - 1 <= Len(c) /\ (s + n) - 1 <= Len(d)
  BY <1>1 DEF d
<1>4. QED  BY <1>2, <1>3 DEF SameBytes, d

(* More bytes change none of those there are. *)
LEMMA ExtendSame ==
  ASSUME NEW b \in Seq(Byte), NEW x \in Seq(Byte), NEW i \in Nat \ {0}, NEW n \in Nat,
         (i + n) - 1 <= Len(b)
  PROVE  SameBytes(b \o x, i, b, i, n)
<1> DEFINE d == b \o x
<1>1. /\ Len(d) = Len(b) + Len(x) /\ Len(b) \in Nat /\ Len(x) \in Nat
      /\ \A k \in 1 .. Len(b) : d[k] = b[k]
  BY Joined
<1> HIDE DEF d
<1>2. \A k \in 0 .. n - 1 : i + k \in 1 .. Len(b)
  BY <1>1
<1>3. (i + n) - 1 <= Len(d)
  BY <1>1
<1>4. QED  BY <1>1, <1>2, <1>3 DEF SameBytes, d

(* Without an acceptable header there is no frame. *)
LEMMA NoHead ==
  ASSUME NEW c \in Seq(Byte), HeadsOf(c) = {}
  PROVE  FramesOf[c] = <<>>
BY FramesOfIs DEF FramesStep

(* A least place is the first. *)
LEMMA FirstIs ==
  ASSUME NEW c \in Seq(Byte), NEW s \in HeadsOf(c), \A j \in HeadsOf(c) : s <= j
  PROVE  FirstHead(c) = s
<1>1. FirstHead(c) \in HeadsOf(c) /\ FirstHead(c) <= s
  BY FirstHeadIs
<1>2. s <= FirstHead(c)
  BY <1>1
<1>3. FirstHead(c) \in Nat /\ s \in Nat
  BY <1>1, HeadIs
<1>4. QED  BY <1>1, <1>2, <1>3

(* Bytes before the first acceptable header do not matter. *)
LEMMA SkipTo ==
  ASSUME NEW c \in Seq(Byte), NEW p \in 1 .. Len(c) + 1, \A s \in HeadsOf(c) : s >= p
  PROVE  FramesOf[c] = FramesOf[From(c, p)]
<1> DEFINE d == From(c, p)
<1>1. HeaderSize \in Nat \ {0}
  BY Header
<1>2. d \in Seq(Byte) /\ Len(d) = (Len(c) - p) + 1 /\ Len(c) \in Nat /\ HeaderSize \in Nat \ {0}
  BY <1>1, FromIs, Bytes
<1>3. ASSUME NEW s \in Nat \ {0}, (s + HeaderSize) - 1 <= Len(d)
      PROVE  /\ s \in HeadsOf(d) <=> (p + s) - 1 \in HeadsOf(c)
             /\ SizeAt(d, s) = SizeAt(c, (p + s) - 1)
  <2>1. SameBytes(d, s, c, (p + s) - 1, HeaderSize)
    BY <1>2, <1>3, ShiftSame
  <2>2. (p + s) - 1 \in Nat \ {0}
    OBVIOUS
  <2>3. /\ SizeAt(d, s) = SizeAt(c, (p + s) - 1)
        /\ HeaderOk(d, s) <=> HeaderOk(c, (p + s) - 1)
        /\ MagicAt(d, s) <=> MagicAt(c, (p + s) - 1)
    <3> HIDE DEF d
    <3>1. QED  BY <1>2, <2>1, <2>2, SameHeader
  <2> HIDE DEF d
  <2>4. s \in 1 .. Len(d) - HeaderSize + 1 /\ (p + s) - 1 \in 1 .. Len(c) - HeaderSize + 1
    BY <1>2, <1>3
  <2>5. QED  BY <2>3, <2>4 DEF HeadsOf
<1> HIDE DEF d
<1>4. \A t \in HeadsOf(d) : (p + t) - 1 \in HeadsOf(c)
  BY <1>2, <1>3, HeadIs
<1>5. CASE HeadsOf(c) = {}
  <2>1. HeadsOf(d) = {}
    BY <1>4, <1>5
  <2>2. QED  BY <1>2, <1>5, <2>1, NoHead DEF d
<1>6. CASE HeadsOf(c) # {}
  <2> DEFINE s == FirstHead(c)
             t == (s - p) + 1
  <2>1. s \in HeadsOf(c) /\ \A j \in HeadsOf(c) : s <= j
    BY <1>6, FirstHeadIs
  <2> HIDE DEF s
  <2>2. /\ s \in Nat \ {0} /\ (s + HeaderSize) - 1 <= Len(c) /\ HeaderOk(c, s) /\ SizeAt(c, s) \in Nat
        /\ s >= p
    BY <2>1, HeadIs
  <2>3. t \in Nat \ {0} /\ (p + t) - 1 = s /\ (t + HeaderSize) - 1 <= Len(d)
    BY <1>2, <2>2
  <2> HIDE DEF t
  <2>4. t \in HeadsOf(d) /\ SizeAt(d, t) = SizeAt(c, s)
    BY <1>3, <2>1, <2>3
  <2>5. \A j \in HeadsOf(d) : t <= j
    <3>1. ASSUME NEW j \in HeadsOf(d) PROVE t <= j
      <4>1. j \in Nat /\ s <= (p + j) - 1
        BY <1>2, <1>4, <2>1, HeadIs
      <4>2. QED  BY <2>2, <2>3, <4>1
    <3>2. QED  BY <3>1
  <2>6. FirstHead(d) = t
    BY <1>2, <2>4, <2>5, FirstIs
  <2> DEFINE n == HeaderSize + SizeAt(c, s)
  <2>7. n \in Nat /\ AfterFrame(c, s) = s + n /\ AfterFrame(d, t) = t + n
    BY <1>2, <2>1, <2>2, <2>4, HeadIs
  <2> HIDE DEF n
  <2>8. AfterFrame(c, s) > Len(c) + 1 <=> AfterFrame(d, t) > Len(d) + 1
    BY <1>2, <2>2, <2>3, <2>7
  <2>9. CASE AfterFrame(c, s) > Len(c) + 1
    <3>1. FramesOf[c] = <<>>
      BY <2>9, FramesOfIs DEF FramesStep, s
    <3>2. FramesOf[d] = <<>>
      BY <1>2, <2>6, <2>8, <2>9, FramesOfIs DEF FramesStep
    <3>3. QED  BY <3>1, <3>2 DEF d
  <2>10. CASE ~(AfterFrame(c, s) > Len(c) + 1)
    <3>1. FramesOf[c] = <<FrameAt(c, s)>> \o FramesOf[From(c, AfterFrame(c, s))]
      BY <1>6, <2>10, FramesOfIs DEF FramesStep, s
    <3>2. FramesOf[d] = <<FrameAt(d, t)>> \o FramesOf[From(d, AfterFrame(d, t))]
      BY <1>2, <2>4, <2>6, <2>8, <2>10, FramesOfIs DEF FramesStep
    <3>3. FrameAt(d, t) = FrameAt(c, s)
      <4>1. (t + n) - 1 <= Len(d)
        BY <1>2, <2>3, <2>7, <2>8, <2>10
      <4>2. SameBytes(d, t, c, s, n)
        BY <2>3, <2>7, <4>1, ShiftSame DEF d
      <4>3. SameBytes(d, t, c, s, HeaderSize + SizeAt(d, t))
        BY <2>4, <4>2 DEF n
      <4>4. QED  BY <1>2, <2>2, <2>3, <2>4, <4>3, SameFrame
    <3>4. From(d, AfterFrame(d, t)) = From(c, AfterFrame(c, s))
      <4>1. t + n \in 1 .. Len(d) + 1 /\ (p + (t + n)) - 1 = s + n
        BY <1>2, <2>2, <2>3, <2>7, <2>8, <2>10
      <4>2. From(d, t + n) = From(c, (p + (t + n)) - 1)
        BY <4>1, FromFrom DEF d
      <4>3. QED  BY <2>7, <4>1, <4>2
    <3>5. QED  BY <3>1, <3>2, <3>3, <3>4 DEF d
  <2>11. QED  BY <2>9, <2>10
<1>7. QED  BY <1>5, <1>6

(* A whole frame at the beginning is the first. *)
LEMMA TakeFrame ==
  ASSUME NEW c \in Seq(Byte), HeaderSize <= Len(c), MagicAt(c, 1), HeaderOk(c, 1),
         HeaderSize + SizeAt(c, 1) <= Len(c)
  PROVE  FramesOf[c] = <<FrameAt(c, 1)>> \o FramesOf[From(c, HeaderSize + SizeAt(c, 1) + 1)]
<1>1. Len(c) \in Nat /\ HeaderSize \in Nat
  BY Bytes, Header
<1>2. 1 \in HeadsOf(c)
  BY <1>1 DEF HeadsOf
<1>3. FirstHead(c) = 1
  <2>1. \A j \in HeadsOf(c) : 1 <= j
    BY DEF HeadsOf
  <2>2. QED  BY <1>2, <2>1, FirstIs
<1>4. SizeAt(c, 1) \in Nat /\ AfterFrame(c, 1) = 1 + (HeaderSize + SizeAt(c, 1))
  BY <1>2, HeadIs
<1>5. ~(AfterFrame(c, 1) > Len(c) + 1) /\ AfterFrame(c, 1) = HeaderSize + SizeAt(c, 1) + 1
  BY <1>1, <1>4
<1>6. QED  BY <1>2, <1>3, <1>5, FramesOfIs DEF FramesStep

(* Nothing is found until the first frame is whole. *)
LEMMA AwaitFrame ==
  ASSUME NEW c \in Seq(Byte), HeaderSize <= Len(c), MagicAt(c, 1), HeaderOk(c, 1),
         Len(c) < HeaderSize + SizeAt(c, 1)
  PROVE  FramesOf[c] = <<>>
<1>1. Len(c) \in Nat /\ HeaderSize \in Nat
  BY Bytes, Header
<1>2. 1 \in HeadsOf(c)
  BY <1>1 DEF HeadsOf
<1>3. FirstHead(c) = 1
  <2>1. \A j \in HeadsOf(c) : 1 <= j
    BY DEF HeadsOf
  <2>2. QED  BY <1>2, <2>1, FirstIs
<1>4. SizeAt(c, 1) \in Nat /\ AfterFrame(c, 1) = 1 + (HeaderSize + SizeAt(c, 1))
  BY <1>2, HeadIs
<1>5. AfterFrame(c, 1) > Len(c) + 1
  BY <1>1, <1>4
<1>6. QED  BY <1>3, <1>5, FramesOfIs DEF FramesStep
-----------------------------------------------------------------------------
(* The loop of process(). *)
Rest(b) == From(b, IndexOfMagic(b))

(* The loop ends: no magic, or a frame that is not whole. *)
Awaits(b) ==
  \/ IndexOfMagic(b) = 0
  \/ Len(Rest(b)) < HeaderSize
  \/ HeaderOk(Rest(b), 1) /\ Len(Rest(b)) < HeaderSize + SizeAt(Rest(b), 1)

(* What the loop goes on with. *)
Onward(b) ==
  IF HeaderOk(Rest(b), 1) THEN From(Rest(b), HeaderSize + SizeAt(Rest(b), 1) + 1)
  ELSE AfterBadHeader(Rest(b))

Outcome == [buffer : Seq(Byte), handled : Seq(FrameRecord)]

ProcessStep(b, f) ==
  IF Awaits(b)
    THEN [buffer |-> IF IndexOfMagic(b) = 0 THEN TailOf(b) ELSE Rest(b), handled |-> <<>>]
    ELSE IF ~HeaderOk(Rest(b), 1) THEN f[Onward(b)]
    ELSE [buffer |-> f[Onward(b)].buffer, handled |-> <<FrameAt(Rest(b), 1)>> \o f[Onward(b)].handled]

(* indexOf finds the first magic, if there is one. *)
LEMMA IndexIs ==
  ASSUME NEW b \in Seq(Byte)
  PROVE  \/ IndexOfMagic(b) = 0 /\ \A i \in 1 .. Len(b) : ~MagicAt(b, i)
         \/ /\ IndexOfMagic(b) \in 1 .. Len(b) /\ MagicAt(b, IndexOfMagic(b))
            /\ \A i \in 1 .. Len(b) : MagicAt(b, i) => IndexOfMagic(b) <= i
<1> DEFINE found == { i \in 1 .. Len(b) : MagicAt(b, i) }
<1>1. Len(b) \in Nat
  BY Bytes
<1>2. IndexOfMagic(b) = IF found = {} THEN 0 ELSE CHOOSE i \in found : \A j \in found : i <= j
  BY DEF IndexOfMagic
<1>3. found # {} => \E i \in found : \A j \in found : i <= j
  <2>1. found \in SUBSET Nat
    BY <1>1
  <2> HIDE DEF found
  <2>2. QED  BY <2>1, Minimum
<1>4. CASE found = {}
  BY <1>2, <1>4
<1>5. CASE found # {}
  <2>1. IndexOfMagic(b) \in found /\ \A j \in found : IndexOfMagic(b) <= j
    <3> HIDE DEF found
    <3>1. QED  BY <1>2, <1>3, <1>5
  <2>2. QED  BY <2>1
<1>6. QED  BY <1>4, <1>5

(* What begins with it. *)
LEMMA RestIs ==
  ASSUME NEW b \in Seq(Byte), IndexOfMagic(b) # 0
  PROVE  /\ Rest(b) \in Seq(Byte) /\ Len(Rest(b)) <= Len(b) /\ MagicAt(Rest(b), 1)
         /\ IndexOfMagic(b) \in 1 .. Len(b)
<1> DEFINE p == IndexOfMagic(b)
           r == Rest(b)
<1>1. p \in 1 .. Len(b) /\ MagicAt(b, p) /\ Len(b) \in Nat
  BY IndexIs, Bytes
<1>2. Len(Magic) \in Nat \ {0} /\ (p + Len(Magic)) - 1 <= Len(b)
  <2> HIDE DEF p
  <2>1. QED  BY <1>1, Header, MagicIs
<1> HIDE DEF p
<1>3. r = From(b, p) /\ p \in 1 .. Len(b) + 1
  BY <1>1 DEF Rest, p
<1>4. r \in Seq(Byte) /\ Len(r) = (Len(b) - p) + 1
  BY <1>3, FromIs
<1> HIDE DEF r
<1>5. (1 + Len(Magic)) - 1 <= Len(r)
  BY <1>1, <1>2, <1>4
<1>6. SameBytes(r, 1, b, (p + 1) - 1, Len(Magic)) /\ (p + 1) - 1 = p /\ p \in Nat \ {0}
  BY <1>1, <1>2, <1>3, <1>5, ShiftSame
<1>7. MagicAt(r, 1)
  BY <1>1, <1>4, <1>6, SameMagic
<1>8. QED  BY <1>1, <1>4, <1>7 DEF r, p

(* Where the loop goes on, it goes on with fewer bytes. *)
LEMMA OnwardIs ==
  ASSUME NEW b \in Seq(Byte), ~Awaits(b)
  PROVE  /\ Onward(b) \in Seq(Byte) /\ Len(Onward(b)) < Len(b)
         /\ Rest(b) \in Seq(Byte) /\ HeaderSize <= Len(Rest(b)) /\ MagicAt(Rest(b), 1)
         /\ HeaderOk(Rest(b), 1) =>
              /\ SizeAt(Rest(b), 1) \in Nat /\ HeaderSize + SizeAt(Rest(b), 1) <= Len(Rest(b))
              /\ FrameAt(Rest(b), 1) \in FrameRecord
<1> DEFINE r == Rest(b)
           n == HeaderSize + SizeAt(r, 1)
<1>1. r \in Seq(Byte) /\ Len(r) <= Len(b) /\ MagicAt(r, 1) /\ Len(r) \in Nat /\ Len(b) \in Nat
  BY RestIs, Bytes DEF Awaits
<1>2. HeaderSize \in Nat \ {0} /\ HeaderSize > 1
  BY Header
<1>3. HeaderSize <= Len(r) /\ ~(HeaderOk(r, 1) /\ Len(r) < n)
  BY <1>1, <1>2 DEF Awaits
<1>4. Onward(b) = IF HeaderOk(r, 1) THEN From(r, n + 1) ELSE From(r, 2)
  BY DEF Onward, AfterBadHeader
<1> HIDE DEF r
<1>5. SizeAt(r, 1) \in Nat
  <2>1. (1 + HeaderSize) - 1 <= Len(r)
    BY <1>2, <1>3
  <2>2. QED  BY <1>1, <2>1, HeaderAt
<1>6. CASE HeaderOk(r, 1)
  <2>1. n <= Len(r) /\ n \in Nat /\ n > 0
    BY <1>1, <1>2, <1>3, <1>5, <1>6
  <2>2. (1 + (HeaderSize + SizeAt(r, 1))) - 1 <= Len(r)
    BY <2>1
  <2>3. FrameAt(r, 1) \in FrameRecord
    BY <1>1, <1>5, <1>6, <2>2, FrameIs
  <2>4. HeaderSize + SizeAt(r, 1) <= Len(r)
    BY <2>1
  <2> HIDE DEF n
  <2>5. n + 1 \in 1 .. Len(r) + 1
    BY <1>1, <2>1
  <2>6. Onward(b) \in Seq(Byte) /\ Len(Onward(b)) = (Len(r) - (n + 1)) + 1
    BY <1>1, <1>4, <1>6, <2>5, FromIs
  <2>7. Len(Onward(b)) < Len(b)
    BY <1>1, <2>1, <2>6
  <2>8. QED  BY <1>1, <1>3, <1>5, <2>3, <2>4, <2>6, <2>7 DEF r
<1>7. CASE ~HeaderOk(r, 1)
  <2>1. 2 \in 1 .. Len(r) + 1
    BY <1>1, <1>2, <1>3
  <2>2. Onward(b) \in Seq(Byte) /\ Len(Onward(b)) = (Len(r) - 2) + 1
    BY <1>1, <1>4, <1>7, <2>1, FromIs
  <2>3. Len(Onward(b)) < Len(b)
    BY <1>1, <2>2
  <2>4. QED  BY <1>1, <1>3, <1>7, <2>2, <2>3 DEF r
<1>8. QED  BY <1>6, <1>7

(* What is kept of bytes without a magic is shorter than one. *)
LEMMA TailIs ==
  ASSUME NEW b \in Seq(Byte)
  PROVE  /\ TailOf(b) \in Seq(Byte) /\ Len(TailOf(b)) < Len(Magic)
         /\ \/ Len(b) < Len(Magic) /\ TailOf(b) = b
            \/ /\ Len(b) >= Len(Magic) /\ TailOf(b) = From(b, Len(b) - Len(Magic) + 2)
               /\ Len(b) - Len(Magic) + 2 \in 1 .. Len(b) + 1
<1> DEFINE p == Len(b) - Len(Magic) + 2
<1>1. Len(Magic) \in Nat \ {0} /\ Len(b) \in Nat
  BY Header, Bytes
<1>2. CASE Len(b) < Len(Magic)
  BY <1>2 DEF TailOf
<1>3. CASE ~(Len(b) < Len(Magic))
  <2>1. TailOf(b) = From(b, p) /\ p \in 1 .. Len(b) + 1 /\ (Len(b) - p) + 1 < Len(Magic)
    BY <1>1, <1>3 DEF TailOf
  <2>2. Len(b) >= Len(Magic)
    BY <1>1, <1>3
  <2> HIDE DEF p
  <2>3. From(b, p) \in Seq(Byte) /\ Len(From(b, p)) = (Len(b) - p) + 1
    BY <2>1, FromIs
  <2>4. QED  BY <2>1, <2>2, <2>3 DEF p
<1>4. QED  BY <1>2, <1>3

(* The loop's body is ProcessStep; so Process is what ProcessStep says it is. *)
ProcessBody(b, f) ==
  LET start == IndexOfMagic(b)
      rest == From(b, start)
  IN  IF start = 0 THEN [buffer |-> TailOf(b), handled |-> <<>>]
      ELSE IF Len(rest) < HeaderSize THEN [buffer |-> rest, handled |-> <<>>]
      ELSE IF ~HeaderOk(rest, 1) THEN f[AfterBadHeader(rest)]
      ELSE IF Len(rest) < HeaderSize + SizeAt(rest, 1) THEN [buffer |-> rest, handled |-> <<>>]
      ELSE LET next == f[From(rest, HeaderSize + SizeAt(rest, 1) + 1)]
           IN  [buffer |-> next.buffer, handled |-> <<FrameAt(rest, 1)>> \o next.handled]

(* The body of Process, said with the names above. *)
LEMMA BodyIsStep ==
  ASSUME NEW b, NEW f
  PROVE  ProcessBody(b, f) = ProcessStep(b, f)
<1> DEFINE r == Rest(b)
<1>1. CASE IndexOfMagic(b) = 0
  BY <1>1 DEF ProcessBody, ProcessStep, Awaits
<1>2. CASE IndexOfMagic(b) # 0 /\ Len(r) < HeaderSize
  BY <1>2 DEF ProcessBody, ProcessStep, Awaits, Rest
<1>3. CASE IndexOfMagic(b) # 0 /\ ~(Len(r) < HeaderSize) /\ ~HeaderOk(r, 1)
  BY <1>3 DEF ProcessBody, ProcessStep, Awaits, Rest, Onward
<1>4. CASE IndexOfMagic(b) # 0 /\ ~(Len(r) < HeaderSize) /\ HeaderOk(r, 1) /\ Len(r) < HeaderSize + SizeAt(r, 1)
  BY <1>4 DEF ProcessBody, ProcessStep, Awaits, Rest
<1>5. CASE IndexOfMagic(b) # 0 /\ ~(Len(r) < HeaderSize) /\ HeaderOk(r, 1) /\ ~(Len(r) < HeaderSize + SizeAt(r, 1))
  BY <1>5 DEF ProcessBody, ProcessStep, Awaits, Rest, Onward
<1>6. QED  BY <1>1, <1>2, <1>3, <1>4, <1>5

(* Process satisfies its recursion. *)
LEMMA ProcessIs ==
  \A b \in Seq(Byte) : Process[b] = ProcessStep(b, Process)
<1> DEFINE D == Seq(Byte)
           T == Outcome
           size == [b \in D |-> Len(b)]
           B == [p \in D \X [D -> T] |-> ProcessStep(p[1], p[2])]
<1>1. size \in [D -> Nat]
  BY LenProperties
<1>2. ASSUME NEW b \in D, NEW f \in [D -> T]
      PROVE  ProcessStep(b, f) \in T
  <2>1. CASE Awaits(b)
    <3> DEFINE kept == IF IndexOfMagic(b) = 0 THEN TailOf(b) ELSE Rest(b)
    <3>1. kept \in Seq(Byte)
      BY TailIs, RestIs
    <3>2. ProcessStep(b, f) = [buffer |-> kept, handled |-> <<>>]
      BY <2>1 DEF ProcessStep
    <3> HIDE DEF kept
    <3>3. QED  BY <3>1, <3>2 DEF Outcome
  <2>2. CASE ~Awaits(b)
    <3> DEFINE next == f[Onward(b)]
               x == FrameAt(Rest(b), 1)
    <3>1. next \in Outcome
      BY <2>2, OnwardIs
    <3>2. CASE ~HeaderOk(Rest(b), 1)
      BY <2>2, <3>1, <3>2 DEF ProcessStep
    <3>3. CASE HeaderOk(Rest(b), 1)
      <4>1. x \in FrameRecord
        BY <2>2, <3>3, OnwardIs
      <4>2. ProcessStep(b, f) = [buffer |-> next.buffer, handled |-> <<x>> \o next.handled]
        BY <2>2, <3>3 DEF ProcessStep
      <4> HIDE DEF next, x
      <4>3. <<x>> \in Seq(FrameRecord) /\ next.handled \in Seq(FrameRecord) /\ next.buffer \in Seq(Byte)
        BY <3>1, <4>1 DEF Outcome
      <4>4. <<x>> \o next.handled \in Seq(FrameRecord)
        BY <4>3, ConcatProperties
      <4>5. QED  BY <4>2, <4>3, <4>4 DEF Outcome
    <3>4. QED  BY <3>2, <3>3
  <2>3. QED  BY <2>1, <2>2
<1>3. B \in [D \X [D -> T] -> T]
  BY <1>2
<1>4. \A b \in D : \A f \in [D -> T] : B[<<b, f>>] = ProcessStep(b, f)
  OBVIOUS
<1>5. ASSUME NEW b \in D, NEW f \in [D -> T], NEW g \in [D -> T],
             \A e \in D : size[e] < size[b] => f[e] = g[e]
      PROVE  B[<<b, f>>] = B[<<b, g>>]
  <2>1. CASE Awaits(b)
    BY <1>4, <2>1 DEF ProcessStep
  <2>2. CASE ~Awaits(b)
    <3> DEFINE r == Onward(b)
    <3>1. r \in D /\ Len(r) < Len(b)
      BY <2>2, OnwardIs
    <3> HIDE DEF r
    <3>2. f[r] = g[r]
      BY <1>5, <3>1
    <3>3. ProcessStep(b, f) = ProcessStep(b, g)
      BY <2>2, <3>2 DEF ProcessStep, r
    <3> HIDE DEF B
    <3>4. QED  BY <1>4, <3>3
  <2>3. QED  BY <2>1, <2>2
<1>6. T # {}
  <2>1. [buffer |-> <<>>, handled |-> <<>>] \in Outcome
    BY DEF Outcome
  <2>2. QED  BY <2>1
<1>7. IsRecursion(B, D, T, size)
  <2> HIDE DEF D, T, size, B
  <2>1. QED  BY <1>1, <1>3, <1>5, <1>6 DEF IsRecursion
<1>8. PICK h \in [D -> T] : \A b \in D : h[b] = B[<<b, h>>]
  <2> HIDE DEF D, T, size, B
  <2>1. QED  BY <1>7, Recursion
<1>9. h = [b \in D |-> ProcessBody(b, h)]
  <2>1. \A b \in D : h[b] = ProcessBody(b, h)
    <3> HIDE DEF B
    <3>1. QED  BY <1>4, <1>8, BodyIsStep
  <2>2. QED  BY <2>1
<1> DEFINE F == CHOOSE f : f = [b \in Seq(Byte) |-> ProcessBody(b, f)]
<1>10. Process = F
  BY DEF Process, ProcessBody
<1>11. F = [b \in Seq(Byte) |-> ProcessBody(b, F)]
  BY <1>9
<1>12. QED
  <2> HIDE DEF F
  <2>1. Process = [b \in Seq(Byte) |-> ProcessBody(b, Process)]
    BY <1>10, <1>11
  <2>2. QED  BY <2>1, BodyIsStep

(* What the loop makes of a buffer, whatever bytes come after it: the frames  *)
(* it handles are the first of all, and none is left in what it keeps.        *)
Processed(b, r) ==
  /\ r \in Outcome
  /\ Len(r.buffer) < HeaderSize + MaximumPayload
  /\ FramesOf[r.buffer] = <<>>
  /\ \A x \in Seq(Byte) : FramesOf[b \o x] = r.handled \o FramesOf[r.buffer \o x]

(* The magic of a buffer is also the first of the buffer and what follows.    *)
LEMMA SkipGarbage ==
  ASSUME NEW b \in Seq(Byte), NEW x \in Seq(Byte), NEW p \in 1 .. Len(b) + 1,
         \A i \in 1 .. Len(b) : i < p => (i + Len(Magic)) - 1 <= Len(b) /\ ~MagicAt(b, i)
  PROVE  FramesOf[b \o x] = FramesOf[From(b, p) \o x]
<1> DEFINE d == b \o x
<1>1. d \in Seq(Byte) /\ Len(d) = Len(b) + Len(x) /\ Len(b) \in Nat /\ Len(x) \in Nat /\ Len(Magic) \in Nat
  BY Joined, Header
<1>2. ASSUME NEW s \in HeadsOf(d), s < p
      PROVE  FALSE
  <2>1. s \in Nat \ {0} /\ MagicAt(d, s)
    BY <1>1, <1>2, HeadIs
  <2>2. (s + Len(Magic)) - 1 <= Len(b) /\ ~MagicAt(b, s)
    BY <1>1, <1>2, <2>1
  <2>3. SameBytes(d, s, b, s, Len(Magic))
    BY <1>1, <2>1, <2>2, ExtendSame
  <2> HIDE DEF d
  <2>4. QED  BY <1>1, <2>1, <2>2, <2>3, SameMagic
<1>3. \A s \in HeadsOf(d) : s >= p
  <2>1. \A s \in HeadsOf(d) : s \in Nat
    BY <1>1, HeadIs
  <2> HIDE DEF d
  <2>2. QED  BY <1>1, <1>2, <2>1
<1>4. p \in 1 .. Len(d) + 1
  BY <1>1
<1>5. FramesOf[d] = FramesOf[From(d, p)]
  <2> HIDE DEF d
  <2>1. QED  BY <1>1, <1>3, <1>4, SkipTo
<1>6. From(d, p) = From(b, p) \o x
  BY FromJoined
<1>7. QED  BY <1>5, <1>6

(* What is before the first magic does not matter, whatever follows. *)
LEMMA SkipToRest ==
  ASSUME NEW b \in Seq(Byte), NEW x \in Seq(Byte), IndexOfMagic(b) # 0
  PROVE  FramesOf[b \o x] = FramesOf[Rest(b) \o x]
<1> DEFINE p == IndexOfMagic(b)
<1>1. /\ p \in 1 .. Len(b) /\ MagicAt(b, p) /\ Len(b) \in Nat /\ Len(Magic) \in Nat
      /\ \A i \in 1 .. Len(b) : MagicAt(b, i) => p <= i
  BY IndexIs, Bytes, Header
<1> HIDE DEF p
<1>2. (p + Len(Magic)) - 1 <= Len(b) /\ p \in 1 .. Len(b) + 1
  BY <1>1, MagicIs
<1>3. \A i \in 1 .. Len(b) : i < p => (i + Len(Magic)) - 1 <= Len(b) /\ ~MagicAt(b, i)
  <2>1. ASSUME NEW i \in 1 .. Len(b), i < p
        PROVE  (i + Len(Magic)) - 1 <= Len(b) /\ ~MagicAt(b, i)
    <3>1. (i + Len(Magic)) - 1 <= Len(b)
      BY <1>1, <1>2, <2>1
    <3>2. ~MagicAt(b, i)
      BY <1>1, <2>1
    <3>3. QED  BY <3>1, <3>2
  <2>2. QED  BY <2>1
<1>4. FramesOf[b \o x] = FramesOf[From(b, p) \o x]
  BY <1>2, <1>3, SkipGarbage
<1>5. QED  BY <1>4 DEF p, Rest

(* Joining sequences is associative. *)
LEMMA Associates ==
  /\ \A s, t, u \in Seq(FrameRecord) : s \o (t \o u) = (s \o t) \o u
  /\ \A s, t, u \in Seq(Byte) : s \o (t \o u) = (s \o t) \o u
<1>1. ASSUME NEW S, NEW s \in Seq(S), NEW t \in Seq(S), NEW u \in Seq(S)
      PROVE  s \o (t \o u) = (s \o t) \o u
  BY ConcatAssociative
<1>2. QED  BY <1>1

(* Nothing, joined, changes nothing. *)
LEMMA NothingBefore ==
  ASSUME NEW s \in Seq(FrameRecord) PROVE <<>> \o s = s
BY ConcatEmptySeq

(* The loop ends with what may yet become a frame. *)
LEMMA AwaitsProcessed ==
  ASSUME NEW b \in Seq(Byte), Awaits(b)
  PROVE  Processed(b, ProcessStep(b, Process))
<1> DEFINE kept == IF IndexOfMagic(b) = 0 THEN TailOf(b) ELSE Rest(b)
<1>1. ProcessStep(b, Process) = [buffer |-> kept, handled |-> <<>>]
  BY DEF ProcessStep
<1>2. HeaderSize \in Nat /\ Len(Magic) \in Nat \ {0} /\ Len(Magic) < HeaderSize /\ MaximumPayload \in Nat
  BY Header
<1>3. /\ kept \in Seq(Byte) /\ Len(kept) < HeaderSize + MaximumPayload
      /\ FramesOf[kept] = <<>>
      /\ \A x \in Seq(Byte) : FramesOf[b \o x] = FramesOf[kept \o x]
  <2>1. CASE IndexOfMagic(b) = 0
    <3>1. kept = TailOf(b) /\ kept \in Seq(Byte) /\ Len(kept) < Len(Magic) /\ Len(kept) \in Nat
      BY <2>1, TailIs, Bytes
    <3>2. HeadsOf(kept) = {}
      <4> HIDE DEF kept
      <4>1. ASSUME NEW s \in HeadsOf(kept) PROVE FALSE
        <5>1. s \in Nat \ {0} /\ (s + HeaderSize) - 1 <= Len(kept)
          BY <3>1, HeadIs
        <5>2. QED  BY <1>2, <3>1, <5>1
      <4>2. QED  BY <4>1
    <3>3. FramesOf[kept] = <<>>
      <4> HIDE DEF kept
      <4>1. QED  BY <3>1, <3>2, NoHead
    <3>4. ASSUME NEW x \in Seq(Byte)
          PROVE  FramesOf[b \o x] = FramesOf[kept \o x]
      <4> DEFINE p == Len(b) - Len(Magic) + 2
      <4>1. CASE Len(b) < Len(Magic) /\ TailOf(b) = b
        BY <3>1, <4>1
      <4>2. CASE Len(b) >= Len(Magic) /\ TailOf(b) = From(b, p) /\ p \in 1 .. Len(b) + 1
        <5>1. Len(b) \in Nat /\ \A i \in 1 .. Len(b) : ~MagicAt(b, i)
          BY <2>1, IndexIs, Bytes
        <5>2. \A i \in 1 .. Len(b) : i < p => (i + Len(Magic)) - 1 <= Len(b)
          BY <1>2, <5>1
        <5> HIDE DEF p
        <5>3. FramesOf[b \o x] = FramesOf[From(b, p) \o x]
          BY <4>2, <5>1, <5>2, SkipGarbage
        <5>4. QED  BY <3>1, <4>2, <5>3
      <4>3. QED  BY <4>1, <4>2, TailIs
    <3>5. Len(kept) < HeaderSize + MaximumPayload
      BY <1>2, <3>1
    <3>6. QED  BY <3>1, <3>3, <3>4, <3>5
  <2>2. CASE IndexOfMagic(b) # 0
    <3> DEFINE r == Rest(b)
    <3>1. kept = r /\ r \in Seq(Byte) /\ Len(r) \in Nat /\ MagicAt(r, 1)
      BY <2>2, RestIs, Bytes
    <3>2. \A x \in Seq(Byte) : FramesOf[b \o x] = FramesOf[r \o x]
      BY <2>2, SkipToRest
    <3>3. \/ Len(r) < HeaderSize
          \/ Len(r) >= HeaderSize /\ HeaderOk(r, 1) /\ Len(r) < HeaderSize + SizeAt(r, 1)
      BY <1>2, <2>2, <3>1 DEF Awaits
    <3> HIDE DEF r
    <3>4. CASE Len(r) < HeaderSize
      <4>1. HeadsOf(r) = {}
        <5>1. ASSUME NEW s \in HeadsOf(r) PROVE FALSE
          <6>1. s \in Nat \ {0} /\ (s + HeaderSize) - 1 <= Len(r)
            BY <3>1, HeadIs
          <6>2. QED  BY <1>2, <3>1, <3>4, <6>1
        <5>2. QED  BY <5>1
      <4>2. FramesOf[r] = <<>> /\ Len(r) < HeaderSize + MaximumPayload
        BY <1>2, <3>1, <3>4, <4>1, NoHead
      <4>3. QED  BY <3>1, <3>2, <4>2
    <3>5. CASE Len(r) >= HeaderSize /\ HeaderOk(r, 1) /\ Len(r) < HeaderSize + SizeAt(r, 1)
      <4>1. FramesOf[r] = <<>>
        BY <3>1, <3>5, AwaitFrame
      <4>2. SizeAt(r, 1) \in Nat /\ SizeAt(r, 1) <= MaximumPayload
        <5>1. (1 + HeaderSize) - 1 <= Len(r)
          BY <1>2, <3>5
        <5>2. QED  BY <3>1, <3>5, <5>1, HeaderAt DEF HeaderOk
      <4>3. Len(r) < HeaderSize + MaximumPayload
        BY <1>2, <3>1, <3>5, <4>2
      <4>4. QED  BY <3>1, <3>2, <4>1, <4>3
    <3>6. QED  BY <3>3, <3>4, <3>5
  <2>3. QED  BY <2>1, <2>2
<1> HIDE DEF kept
<1>4. \A x \in Seq(Byte) : FramesOf[b \o x] = <<>> \o FramesOf[kept \o x]
  <2>1. ASSUME NEW x \in Seq(Byte) PROVE FramesOf[b \o x] = <<>> \o FramesOf[kept \o x]
    <3>1. FramesOf[kept \o x] \in Seq(FrameRecord)
      BY <1>3, Joined, FramesOfIs
    <3>2. QED  BY <1>3, <3>1, NothingBefore
  <2>2. QED  BY <2>1
<1> DEFINE r == [buffer |-> kept, handled |-> <<>>]
<1>5. r.buffer = kept /\ r.handled = <<>> /\ r \in Outcome
  BY <1>3 DEF Outcome
<1> HIDE DEF r
<1>6. Processed(b, r)
  BY <1>3, <1>4, <1>5 DEF Processed
<1>7. QED  BY <1>1, <1>6 DEF r

(* A header that is refused costs one byte, and no frame. *)
LEMMA RefusedProcessed ==
  ASSUME NEW b \in Seq(Byte), ~Awaits(b), ~HeaderOk(Rest(b), 1), NEW o, Processed(Onward(b), o)
  PROVE  Processed(b, o)
<1> DEFINE r == Rest(b)
<1>1. r \in Seq(Byte) /\ HeaderSize <= Len(r) /\ MagicAt(r, 1) /\ ~HeaderOk(r, 1) /\ Len(r) \in Nat
      /\ HeaderSize \in Nat \ {0}
  BY OnwardIs, Bytes, Header
<1>2. Onward(b) = From(r, 2) /\ \A x \in Seq(Byte) : FramesOf[b \o x] = FramesOf[r \o x]
  <2>1. IndexOfMagic(b) # 0
    BY DEF Awaits
  <2>2. QED  BY <2>1, SkipToRest DEF Onward, AfterBadHeader
<1> HIDE DEF r
<1>3. HeaderSize > 1 /\ 2 \in 1 .. Len(r) + 1
  BY <1>1, Header
<1>4. ASSUME NEW x \in Seq(Byte)
      PROVE  FramesOf[r \o x] = FramesOf[From(r, 2) \o x]
  <2> DEFINE d == r \o x
  <2>1. d \in Seq(Byte) /\ Len(d) = Len(r) + Len(x) /\ Len(x) \in Nat
    BY <1>1, Joined
  <2>2. SameBytes(d, 1, r, 1, HeaderSize)
    <3>1. (1 + HeaderSize) - 1 <= Len(r)
      BY <1>1
    <3>2. QED  BY <1>1, <3>1, ExtendSame
  <2>3. From(d, 2) = From(r, 2) \o x
    BY <1>1, <1>3, FromJoined
  <2> HIDE DEF d
  <2>4. ~HeaderOk(d, 1)
    BY <1>1, <2>1, <2>2, SameHeader
  <2>5. \A s \in HeadsOf(d) : s >= 2
    <3>1. ASSUME NEW s \in HeadsOf(d) PROVE s >= 2
      <4>1. s \in Nat \ {0} /\ HeaderOk(d, s)
        BY <2>1, HeadIs
      <4>2. s # 1
        BY <2>4, <4>1
      <4>3. QED  BY <4>1, <4>2
    <3>2. QED  BY <3>1
  <2>6. FramesOf[d] = FramesOf[From(d, 2)]
    <3>1. 2 \in 1 .. Len(d) + 1
      BY <1>1, <1>3, <2>1
    <3>2. QED  BY <2>1, <2>5, <3>1, SkipTo
  <2>7. QED  BY <2>3, <2>6 DEF d
<1>5. QED  BY <1>2, <1>4 DEF Processed

(* A whole frame is handled, and the rest goes on after it. *)
LEMMA FrameProcessed ==
  ASSUME NEW b \in Seq(Byte), ~Awaits(b), HeaderOk(Rest(b), 1), NEW o, Processed(Onward(b), o)
  PROVE  Processed(b, [buffer |-> o.buffer, handled |-> <<FrameAt(Rest(b), 1)>> \o o.handled])
<1> DEFINE r == Rest(b)
           f == FrameAt(r, 1)
           n == HeaderSize + SizeAt(r, 1)
<1>1. /\ r \in Seq(Byte) /\ HeaderSize <= Len(r) /\ MagicAt(r, 1) /\ HeaderOk(r, 1) /\ Len(r) \in Nat
      /\ HeaderSize \in Nat \ {0} /\ SizeAt(r, 1) \in Nat /\ n <= Len(r) /\ f \in FrameRecord
  BY OnwardIs, Bytes, Header
<1>2. Onward(b) = From(r, n + 1) /\ \A x \in Seq(Byte) : FramesOf[b \o x] = FramesOf[r \o x]
  <2>1. IndexOfMagic(b) # 0
    BY DEF Awaits
  <2>2. QED  BY <2>1, SkipToRest DEF Onward
<1>3. o \in Outcome /\ o.buffer \in Seq(Byte) /\ o.handled \in Seq(FrameRecord)
  BY DEF Processed, Outcome
<1> HIDE DEF r
<1>4. ASSUME NEW x \in Seq(Byte)
      PROVE  FramesOf[r \o x] = (<<f>> \o o.handled) \o FramesOf[o.buffer \o x]
  <2> DEFINE d == r \o x
  <2>1. d \in Seq(Byte) /\ Len(d) = Len(r) + Len(x) /\ Len(x) \in Nat
    BY <1>1, Joined
  <2>2. n \in Nat /\ (1 + n) - 1 <= Len(r) /\ (1 + HeaderSize) - 1 <= Len(r)
    BY <1>1
  <2>3. SameBytes(d, 1, r, 1, n) /\ SameBytes(d, 1, r, 1, HeaderSize)
    <3> HIDE DEF n
    <3>1. QED  BY <1>1, <2>2, ExtendSame
  <2>4. From(d, n + 1) = From(r, n + 1) \o x
    <3>1. n + 1 \in 1 .. Len(r) + 1
      BY <1>1, <2>2
    <3> HIDE DEF n
    <3>2. QED  BY <1>1, <3>1, FromJoined
  <2> HIDE DEF d
  <2>5. HeaderOk(d, 1) /\ MagicAt(d, 1) /\ SizeAt(d, 1) = SizeAt(r, 1)
    BY <1>1, <2>1, <2>3, SameHeader
  <2>6. FrameAt(d, 1) = f
    <3>1. SameBytes(d, 1, r, 1, HeaderSize + SizeAt(d, 1))
      BY <2>3, <2>5
    <3>2. QED  BY <1>1, <2>1, <2>5, <3>1, SameFrame
  <2>7. HeaderSize <= Len(d) /\ HeaderSize + SizeAt(d, 1) <= Len(d)
    BY <1>1, <2>1, <2>5
  <2>8. FramesOf[d] = <<FrameAt(d, 1)>> \o FramesOf[From(d, HeaderSize + SizeAt(d, 1) + 1)]
    BY <2>1, <2>5, <2>7, TakeFrame
  <2>9. FramesOf[d] = <<f>> \o FramesOf[Onward(b) \o x]
    BY <1>2, <2>4, <2>5, <2>6, <2>8
  <2>10. FramesOf[Onward(b) \o x] = o.handled \o FramesOf[o.buffer \o x]
    BY DEF Processed
  <2>11. FramesOf[o.buffer \o x] \in Seq(FrameRecord) /\ <<f>> \in Seq(FrameRecord)
    <3>1. o.buffer \o x \in Seq(Byte)
      BY <1>3, Joined
    <3>2. <<f>> \in Seq(FrameRecord)
      <4> HIDE DEF f
      <4>1. QED  BY <1>1
    <3>3. QED  BY <3>1, <3>2, FramesOfIs
  <2> HIDE DEF f
  <2>12. <<f>> \o (o.handled \o FramesOf[o.buffer \o x]) = (<<f>> \o o.handled) \o FramesOf[o.buffer \o x]
    <3> DEFINE a == <<f>>
               c == FramesOf[o.buffer \o x]
    <3>1. a \in Seq(FrameRecord) /\ c \in Seq(FrameRecord)
      BY <2>11
    <3> HIDE DEF a, c
    <3>2. a \o (o.handled \o c) = (a \o o.handled) \o c
      BY <1>3, <3>1, Associates
    <3>3. QED  BY <3>2 DEF a, c
  <2>13. QED  BY <2>9, <2>10, <2>12 DEF d
<1> DEFINE p == [buffer |-> o.buffer, handled |-> <<f>> \o o.handled]
<1>5. <<f>> \o o.handled \in Seq(FrameRecord)
  <2> HIDE DEF f
  <2>1. <<f>> \in Seq(FrameRecord)
    BY <1>1
  <2>2. QED  BY <1>3, <2>1, ConcatProperties
<1>6. p \in Outcome /\ p.buffer = o.buffer /\ p.handled = <<f>> \o o.handled
  <2> HIDE DEF f
  <2>1. QED  BY <1>3, <1>5 DEF Outcome
<1> HIDE DEF p, f
<1>7. Processed(b, p)
  BY <1>2, <1>4, <1>6 DEF Processed
<1>8. QED  BY <1>7 DEF p, f, r

(* By induction over the length of the buffer. *)
LEMMA AllProcessed ==
  \A b \in Seq(Byte) : Processed(b, Process[b])
<1> DEFINE Good == { n \in Nat : \A b \in Seq(Byte) : Len(b) < n => Processed(b, Process[b]) }
<1>1. ASSUME NEW n \in Nat, n \in Good, NEW b \in Seq(Byte), Len(b) < n + 1
      PROVE  Processed(b, Process[b])
  <2>1. Process[b] = ProcessStep(b, Process)
    BY ProcessIs
  <2>2. CASE Awaits(b)
    BY <2>1, <2>2, AwaitsProcessed
  <2>3. CASE ~Awaits(b)
    <3> DEFINE c == Onward(b)
    <3>1. c \in Seq(Byte) /\ Len(c) < Len(b)
      BY <2>3, OnwardIs
    <3>2. Len(c) < n
      BY <1>1, <3>1, Bytes
    <3> HIDE DEF c
    <3>3. Processed(c, Process[c])
      BY <1>1, <3>1, <3>2
    <3>4. CASE ~HeaderOk(Rest(b), 1)
      <4>1. Process[b] = Process[c]
        BY <2>1, <2>3, <3>4 DEF ProcessStep, c
      <4>2. QED  BY <2>3, <3>3, <3>4, <4>1, RefusedProcessed DEF c
    <3>5. CASE HeaderOk(Rest(b), 1)
      <4>1. Process[b] = [buffer |-> Process[c].buffer, handled |-> <<FrameAt(Rest(b), 1)>> \o Process[c].handled]
        BY <2>1, <2>3, <3>5 DEF ProcessStep, c
      <4>2. QED  BY <2>3, <3>3, <3>5, <4>1, FrameProcessed DEF c
    <3>6. QED  BY <3>4, <3>5
  <2>4. QED  BY <2>2, <2>3
<1>2. Nat \subseteq Good
  <2>1. 0 \in Good
    BY Bytes
  <2>2. \A n \in Nat : n \in Good => n + 1 \in Good
    BY <1>1
  <2> HIDE DEF Good
  <2>3. QED  BY <2>1, <2>2, FromZero
<1>3. ASSUME NEW b \in Seq(Byte)
      PROVE  Processed(b, Process[b])
  <2>1. Len(b) + 1 \in Good /\ Len(b) < Len(b) + 1
    <3> HIDE DEF Good
    <3>1. QED  BY <1>2, Bytes
  <2>2. QED  BY <2>1
<1>4. QED  BY <1>3
-----------------------------------------------------------------------------
(* Whatever comes next, what has been handled is what the stream begins with,  *)
(* and what is left of it is found in the buffer.                              *)
FramingInv ==
  /\ FramingTypeOK /\ BufferBounded
  /\ FramesOf[buffer] = <<>>
  /\ \A x \in Seq(Byte) : FramesOf[stream \o x] = handled \o FramesOf[buffer \o x]

(* A delivery keeps it. *)
LEMMA FramingInductive == FramingSpec => []FramingInv
<1>1. FramingInit => FramingInv
  <2> SUFFICES ASSUME FramingInit PROVE FramingInv
    OBVIOUS
  <2>1. buffer = <<>> /\ handled = <<>> /\ stream = <<>> /\ <<>> \in Seq(Byte) /\ <<>> \in Seq(FrameRecord)
    BY DEF FramingInit
  <2>2. HeaderSize \in Nat \ {0} /\ MaximumPayload \in Nat /\ Len(<<>>) = 0
    BY Header
  <2>3. HeadsOf(<<>>) = {}
    <3>1. ASSUME NEW s \in HeadsOf(<<>>) PROVE FALSE
      <4>1. s \in Nat \ {0} /\ (s + HeaderSize) - 1 <= Len(<<>>)
        BY <2>1, HeadIs
      <4>2. (s + HeaderSize) - 1 <= 0
        BY <2>2, <4>1
      <4>3. QED  BY <2>2, <4>1, <4>2
    <3>2. QED  BY <3>1
  <2>4. FramesOf[buffer] = <<>>
    BY <2>1, <2>3, NoHead
  <2>5. \A x \in Seq(Byte) : FramesOf[stream \o x] = handled \o FramesOf[buffer \o x]
    <3>1. ASSUME NEW x \in Seq(Byte)
          PROVE  FramesOf[stream \o x] = handled \o FramesOf[buffer \o x]
      <4>1. <<>> \o x = x /\ FramesOf[x] \in Seq(FrameRecord)
        BY ConcatEmptySeq, FramesOfIs
      <4>2. QED  BY <2>1, <4>1, NothingBefore
    <3>2. QED  BY <3>1
  <2>6. BufferBounded /\ FramingTypeOK
    BY <2>1, <2>2 DEF BufferBounded, FramingTypeOK
  <2>7. QED  BY <2>4, <2>5, <2>6 DEF FramingInv
<1>2. FramingInv /\ [FramingNext]_framingVars => FramingInv'
  <2> SUFFICES ASSUME FramingInv, [FramingNext]_framingVars PROVE FramingInv'
    OBVIOUS
  <2>1. CASE UNCHANGED framingVars
    BY <2>1 DEF framingVars, FramingInv, FramingTypeOK, BufferBounded
  <2>2. CASE FramingNext
    <3>1. PICK bytes \in Delivery : ReadyRead(bytes)
      BY <2>2 DEF FramingNext
    <3>2. bytes \in Seq(Byte)
      <4>1. PICK n \in 1 .. MaxChunk : bytes \in [1 .. n -> Byte]
        BY DEF Delivery
      <4>2. n \in Nat
        BY FramingAssumption
      <4>3. QED  BY <4>1, <4>2
    <3> DEFINE b == buffer \o bytes
               o == Process[b]
    <3>3. buffer \in Seq(Byte) /\ stream \in Seq(Byte) /\ handled \in Seq(FrameRecord)
      BY DEF FramingInv, FramingTypeOK
    <3>4. buffer' = o.buffer /\ handled' = handled \o o.handled /\ stream' = stream \o bytes
      BY <3>1 DEF ReadyRead
    <3>5. b \in Seq(Byte)
      BY <3>2, <3>3, Joined
    <3>6. Processed(b, o)
      <4> HIDE DEF b
      <4>1. QED  BY <3>5, AllProcessed
    <3> HIDE DEF o
    <3>7. /\ o.buffer \in Seq(Byte) /\ o.handled \in Seq(FrameRecord)
          /\ Len(o.buffer) < HeaderSize + MaximumPayload /\ FramesOf[o.buffer] = <<>>
      BY <3>6 DEF Processed, Outcome
    <3>8. FramingTypeOK' /\ BufferBounded'
      <4>1. stream \o bytes \in Seq(Byte) /\ handled \o o.handled \in Seq(FrameRecord)
        BY <3>2, <3>3, <3>7, ConcatProperties
      <4>2. QED  BY <3>4, <3>7, <4>1 DEF FramingTypeOK, BufferBounded
    <3>9. ASSUME NEW x \in Seq(Byte)
          PROVE  FramesOf[stream' \o x] = handled' \o FramesOf[buffer' \o x]
      <4> DEFINE y == bytes \o x
                 f == FramesOf[o.buffer \o x]
      <4>1. y \in Seq(Byte) /\ stream' \o x = stream \o y /\ b \o x = buffer \o y
        BY <3>2, <3>3, <3>4, ConcatProperties, Associates
      <4>2. FramesOf[stream \o y] = handled \o FramesOf[buffer \o y]
        <5> HIDE DEF y
        <5>1. QED  BY <4>1 DEF FramingInv
      <4>3. FramesOf[b \o x] = o.handled \o f
        BY <3>6 DEF Processed
      <4>4. f \in Seq(FrameRecord)
        <5>1. o.buffer \o x \in Seq(Byte)
          BY <3>7, Joined
        <5>2. QED  BY <5>1, FramesOfIs
      <4> HIDE DEF f, y, b
      <4>5. handled \o (o.handled \o f) = (handled \o o.handled) \o f
        BY <3>3, <3>7, <4>4, Associates
      <4>6. QED  BY <3>4, <4>1, <4>2, <4>3, <4>5 DEF f
    <3>10. QED  BY <3>4, <3>7, <3>8, <3>9 DEF FramingInv
  <2>3. QED  BY <2>1, <2>2
<1>3. QED  BY <1>1, <1>2, PTL DEF FramingSpec

(* However TCP cuts the bytes, the frames handled are those of the stream read *)
(* as one.                                                                     *)
THEOREM FramesAreOfStream == FramingSpec => []FramesOfStream
<1>1. FramingInv => FramesOfStream
  <2> SUFFICES ASSUME FramingInv PROVE handled = FramesOf[stream]
    BY DEF FramesOfStream
  <2>1. buffer \in Seq(Byte) /\ stream \in Seq(Byte) /\ handled \in Seq(FrameRecord) /\ <<>> \in Seq(Byte)
    BY DEF FramingInv, FramingTypeOK
  <2>2. FramesOf[stream \o <<>>] = handled \o FramesOf[buffer \o <<>>] /\ FramesOf[buffer] = <<>>
    BY <2>1 DEF FramingInv
  <2>3. stream \o <<>> = stream /\ buffer \o <<>> = buffer /\ handled \o <<>> = handled
    BY <2>1, ConcatEmptySeq
  <2>4. QED  BY <2>2, <2>3
<1>2. QED  BY <1>1, FramingInductive, PTL

(* Nothing a host sends makes the connection's buffer grow beyond one frame. *)
THEOREM BufferIsKept == FramingSpec => []BufferKept
<1>1. FramingInv => BufferKept
  BY DEF FramingInv, BufferKept
<1>2. QED  BY <1>1, FramingInductive, PTL
=============================================================================
