------------------------------ MODULE IoFraming ------------------------------
(***************************************************************************)
(* IoProtocolServer::process(): the frames of a prg32-io connection found   *)
(* in what TCP delivers, cut anywhere, with garbage before, between and     *)
(* inside them.                                                             *)
(*                                                                         *)
(* A header is the magic, a version, a payload length and a checksum, one   *)
(* byte each after the magic; the type, the flags and the request id, which *)
(* no decision depends on, are left out.  A frame is its payload and        *)
(* whether its checksum matched: handle() or the "payload checksum          *)
(* mismatch" reply.                                                         *)
(***************************************************************************)
EXTENDS Integers, Sequences, SequencesExt

CONSTANTS
  Byte,           (* byte values, numbers                                    *)
  Magic,          (* the magic, a sequence of bytes                          *)
  Version,        (* the version that is understood                          *)
  MaximumPayload, (* bytes of payload allowed                                *)
  MaxStream,      (* bound on the bytes a connection delivers                *)
  MaxChunk        (* bound on the bytes of one readyRead()                   *)

ASSUME FramingAssumption ==
  /\ Byte \subseteq Nat /\ Magic \in Seq(Byte) /\ Magic # <<>>
  /\ Version \in Byte /\ MaximumPayload \in Nat
  /\ MaxStream \in Nat /\ MaxChunk \in Nat \ {0}

VARIABLES
  buffer,   (* the connection's buffer                                       *)
  handled,  (* the frames handled, in order                                  *)
  \* history
  stream    (* every byte received                                           *)

framingVars == <<buffer, handled, stream>>

HeaderSize == Len(Magic) + 3

FrameRecord == [payload : BoundedSeq(Byte, MaximumPayload), ok : BOOLEAN]

FramingTypeOK ==
  /\ buffer \in Seq(Byte) /\ stream \in Seq(Byte)
  /\ handled \in Seq(FrameRecord)

FramingInit == buffer = <<>> /\ handled = <<>> /\ stream = <<>>
-----------------------------------------------------------------------------
(* Reading bytes b from place i on (from 1). *)

VersionAt(b, i) == b[i + Len(Magic)]
SizeAt(b, i) == b[i + Len(Magic) + 1]
ChecksumAt(b, i) == b[i + Len(Magic) + 2]
PayloadAt(b, i) == SubSeq(b, i + HeaderSize, i + HeaderSize + SizeAt(b, i) - 1)

MagicAt(b, i) == i + Len(Magic) - 1 <= Len(b) /\ SubSeq(b, i, i + Len(Magic) - 1) = Magic

HeaderOk(b, i) == VersionAt(b, i) = Version /\ SizeAt(b, i) <= MaximumPayload

(* crc32(), of which only equality matters. *)
Crc32(payload) == FoldLeft(LAMBDA c, x : (c + x) % 3, 0, payload)

FrameAt(b, i) == [payload |-> PayloadAt(b, i), ok |-> Crc32(PayloadAt(b, i)) = ChecksumAt(b, i)]

From(b, i) == SubSeq(b, i, Len(b))

(* buffer.indexOf(magic), 0 when there is none. *)
IndexOfMagic(b) ==
  LET found == { i \in 1 .. Len(b) : MagicAt(b, i) }
  IN  IF found = {} THEN 0 ELSE CHOOSE i \in found : \A j \in found : i <= j

(* Mutant: the garbage is kept. *)
TailKept(b) == b

(* What is kept of bytes without a magic: they may end with a part of one. *)
TailOf(b) == IF Len(b) < Len(Magic) THEN b ELSE From(b, Len(b) - Len(Magic) + 2)

(* Mutant: a header that is refused is skipped whole. *)
AfterBadHeaderWhole(b) == From(b, HeaderSize + 1)

AfterBadHeader(b) == From(b, 2)

(* The loop of process(): what it leaves of buffer b and the frames it handles. *)
Process[b \in Seq(Byte)] ==
  LET start == IndexOfMagic(b)
      rest == From(b, start)
  IN  IF start = 0 THEN [buffer |-> TailOf(b), handled |-> <<>>]
      ELSE IF Len(rest) < HeaderSize THEN [buffer |-> rest, handled |-> <<>>]
      ELSE IF ~HeaderOk(rest, 1) THEN Process[AfterBadHeader(rest)]
      ELSE IF Len(rest) < HeaderSize + SizeAt(rest, 1) THEN [buffer |-> rest, handled |-> <<>>]
      ELSE LET next == Process[From(rest, HeaderSize + SizeAt(rest, 1) + 1)]
           IN  [buffer |-> next.buffer, handled |-> <<FrameAt(rest, 1)>> \o next.handled]

(* readyRead(): whatever has arrived is appended and processed. *)
ReadyRead(bytes) ==
  /\ Len(stream) + Len(bytes) <= MaxStream
  /\ stream' = stream \o bytes
  /\ LET done == Process[buffer \o bytes]
     IN  buffer' = done.buffer /\ handled' = handled \o done.handled

Delivery == UNION { [1 .. n -> Byte] : n \in 1 .. MaxChunk }

FramingNext == \E bytes \in Delivery : ReadyRead(bytes)

FramingSpec == FramingInit /\ [][FramingNext]_framingVars
-----------------------------------------------------------------------------
(* What the frames of a whole stream are, said without the buffer: the first   *)
(* whole header that is acceptable begins a frame, and the next is looked for   *)
(* after its payload.                                                           *)
HeadsOf(b) == { s \in 1 .. Len(b) - HeaderSize + 1 : MagicAt(b, s) /\ HeaderOk(b, s) }

FirstHead(b) == CHOOSE s \in HeadsOf(b) : \A j \in HeadsOf(b) : s <= j

AfterFrame(b, s) == s + HeaderSize + SizeAt(b, s)

FramesOf[b \in Seq(Byte)] ==
  IF HeadsOf(b) = {} \/ AfterFrame(b, FirstHead(b)) > Len(b) + 1 THEN <<>>
  ELSE <<FrameAt(b, FirstHead(b))>> \o FramesOf[From(b, AfterFrame(b, FirstHead(b)))]

(* However TCP cuts the bytes, the frames handled are those of the stream read *)
(* as one: none lost at a cut, none found twice, none out of order, and        *)
(* garbage or a refused header costs no frame that begins after it.            *)
FramesOfStream == handled = FramesOf[stream]

(* Between two deliveries the buffer holds less than one frame of the largest  *)
(* payload, however much garbage a host sends.                                 *)
BufferBounded == Len(buffer) < HeaderSize + MaximumPayload

(* Nothing a host sends makes the connection's buffer grow.                   *)
BufferKept == FramingTypeOK /\ BufferBounded
=============================================================================
