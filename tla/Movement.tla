------------------------------- MODULE Movement -------------------------------
(***************************************************************************)
(* The packets by which an avatar's movement is sent.                      *)
(*                                                                         *)
(* Whatever moves the avatar gives its position in parts (setMovement),    *)
(* which are collected in a buffer behind a header of bits, one for each   *)
(* part.  A timer sends the buffer, or the first 36 bytes of it, and       *)
(* clears it.  The receiver, and the regional movement server, which packs *)
(* the packets of several peers one behind the other, know a packet only   *)
(* by the bits of its header.                                              *)
(*                                                                         *)
(* A part is a name and a value; what its numbers are, and that they are   *)
(* rounded to 16 bits, is left out.  The channel may lose a packet.        *)
(***************************************************************************)
EXTENDS Integers, Sequences, FiniteSets, FiniteSetsExt

CONSTANTS
    Frames,     \* sets of parts that are given together
    Values,     \* of a part; Cleared is the value of a cleared part
    Cleared,
    RangeError, \* what is read behind the end of a packet
    MaxUpdates  \* bound on the frames given in one interval

\* PacketHeader.
Bit == [basePos |-> 1, baseRot |-> 2, headPos |-> 4, headRot |-> 8,
        leftHandPos |-> 16, leftHandRot |-> 32,
        rightHandPos |-> 64, rightHandRot |-> 128,
        gamePiecePos |-> 256, gamePieceRot |-> 512]

Names == DOMAIN Bit
SmallNames == {"basePos", "baseRot", "headPos", "headRot"}
Carriers == {"leftHandPos", "rightHandPos", "gamePiecePos"}

FullPacket == 1024

\* Nothing gives it; the receiver reads it.
Frequent == 2048

\* Each update that finds a hand adds FullPacket once more, and the 32nd makes
\* the header negative.
ASSUME MovementAssumption ==
    /\ Frames \subseteq (SUBSET Names) \ {{}}
    /\ Cleared \notin Values
    /\ RangeError \notin Values \cup {Cleared}
    /\ MaxUpdates \in 1..31

VARIABLES
    header,     \* inputHeader, and the header of the buffer
    buffer,     \* sendBuffer
    given,      \* (history) the frames given in this interval
    sending,    \* the timer is set
    channel     \* the last packet sent, unless it is received or lost

vars == <<header, buffer, given, sending, channel>>

\* The bits of the parts, and FullPacket for every update of one interval.
Headers == 0..(FullPacket - 1 + FullPacket * MaxUpdates)

Frame == [parts : Frames, value : Values]

\* The type of the state; the header has nothing of an earlier interval, and so
\* stays far from where its 16 bits become negative.
TypeOK ==
    /\ header \in Headers
    /\ buffer \in [Names -> Values \cup {Cleared}]
    /\ given \in Seq(Frame) /\ Len(given) <= MaxUpdates
    /\ sending \in BOOLEAN
    /\ channel \subseteq [word : Headers, size : {36, 78},
                          data : [Names -> Values \cup {Cleared}], of : Seq(Frame)]
    /\ Cardinality(channel) <= 1

\* Variants of the definitions that follow them, each with one mistake in it,
\* are marked "Mistake"; a run checks that its property notices it.

\* clearBuffer.
ClearedBuffer == [n \in Names |-> Cleared]

\* Mistake: the header is left as it was.
ClearedHeaderKept == header

\* The header is cleared with the buffer.
ClearedHeader == 0

Init ==
    /\ header = 0
    /\ buffer = ClearedBuffer
    /\ given = <<>>
    /\ sending = FALSE
    /\ channel = {}

-----------------------------------------------------------------------------
(* The sender.                                                             *)

HasBit(word, bit) == (word \div bit) % 2 = 1

Has(word, name) == HasBit(word, Bit[name])

Wrapped(n) == ((n + 32768) % 65536) - 32768

\* setInputHeaderBitIdempotently, for the parts of a frame.
WithBits(word, names) ==
    LET Add(n) == IF n \in names /\ ~ Has(word, n) THEN Bit[n] ELSE 0
    IN  word + Add("basePos") + Add("baseRot") + Add("headPos") + Add("headRot")
             + Add("leftHandPos") + Add("leftHandRot")
             + Add("rightHandPos") + Add("rightHandRot")
             + Add("gamePiecePos") + Add("gamePieceRot")

\* Mistake: a game piece does not count.
WithFullPacketHands(word) ==
    IF \E n \in Carriers \ {"gamePiecePos"} : Has(word, n)
    THEN Wrapped(word + FullPacket) ELSE word

\* The bit is added, not set.
WithFullPacket(word) ==
    IF \E n \in Carriers : Has(word, n)
    THEN Wrapped(word + FullPacket) ELSE word

\* Bound: a packet is gone before the next frame, which has nothing to do with
\* it: the data of a packet are copied when it is sent.
SetMovement(frame) ==
    /\ channel = {}
    /\ Len(given) < MaxUpdates
    /\ header' = WithFullPacket(WithBits(header, frame.parts))
    /\ buffer' = [n \in Names |-> IF n \in frame.parts THEN frame.value ELSE buffer[n]]
    /\ given' = Append(given, frame)
    /\ UNCHANGED <<sending, channel>>

\* Mistake: the bits of the limbs are looked at, not fullPacket.
SendsBigByLimb(word) ==
    Has(word, "basePos") /\ \E n \in Carriers : Has(word, n)

SendsBig(word) == Has(word, "basePos") /\ HasBit(word, FullPacket)

SendsSmall(word) == Has(word, "basePos") /\ word < 15

Packet(size) == [word |-> header, size |-> size, data |-> buffer, of |-> given]

\* The timer of startSendingMovement.
Timer ==
    /\ sending
    /\ channel' = IF SendsBig(header) THEN {Packet(78)}
                  ELSE IF SendsSmall(header) THEN {Packet(36)}
                  ELSE {}
    /\ header' = ClearedHeader
    /\ buffer' = ClearedBuffer
    /\ given' = <<>>
    /\ UNCHANGED sending

\* participate and leaveFrame.  The buffer fills between them as well.
StartSendingMovement ==
    /\ ~ sending
    /\ sending' = TRUE
    /\ UNCHANGED <<header, buffer, given, channel>>

StopSendingMovement ==
    /\ sending
    /\ sending' = FALSE
    /\ UNCHANGED <<header, buffer, given, channel>>

\* The packet is received, or lost, also because the channel is not open.
PacketGone ==
    /\ channel # {}
    /\ channel' = {}
    /\ UNCHANGED <<header, buffer, given, sending>>

Next ==
    \/ \E f \in Frame : SetMovement(f)
    \/ Timer
    \/ PacketGone
    \/ StartSendingMovement
    \/ StopSendingMovement

Spec == Init /\ [][Next]_vars

-----------------------------------------------------------------------------
(* The receivers.                                                          *)

\* movementToJSON: what a header says is there.
Reads(word) ==
         (IF Has(word, "basePos") THEN {"basePos", "baseRot", "headRot"} ELSE {})
    \cup (IF Has(word, "basePos") /\ Has(word, "gamePiecePos")
          THEN {"gamePiecePos", "gamePieceRot"} ELSE {})
    \cup (IF Has(word, "leftHandPos") THEN {"leftHandPos", "leftHandRot"} ELSE {})
    \cup (IF Has(word, "rightHandPos") THEN {"rightHandPos", "rightHandRot"} ELSE {})

MovementToJSON(p) ==
    [parts |-> [n \in Reads(p.word) |->
                   IF p.size = 36 /\ n \notin SmallNames THEN RangeError ELSE p.data[n]],
     frequent |-> Has(p.word, "basePos") /\ HasBit(p.word, Frequent)]

\* packedBinaryToMap: how many bytes of a batch belong to a packet.
PackedSize(p) == IF HasBit(p.word, FullPacket) THEN 78 ELSE 36

-----------------------------------------------------------------------------
(* Properties.                                                             *)

\* The value of a part after a sequence of frames.
LastGiven(frames, n) ==
    LET with == {i \in DOMAIN frames : n \in frames[i].parts}
    IN  IF with = {} THEN Cleared ELSE frames[Max(with)].value

GivenIn(frames) == UNION {frames[i].parts : i \in DOMAIN frames}

\* The updates that find a limb in the header: that which gives the first one
\* and all after it.
LimbUpdates(frames) ==
    {i \in DOMAIN frames : \E j \in 1..i : frames[j].parts \cap Carriers # {}}

\* Of a packet that arrives the receiver makes the parts that were given in its
\* interval and no others: every part is the last that was given, nothing of an
\* earlier interval, a limb is there when it was given and only then, and no
\* part is sought behind the end of the packet.  Besides it takes the peer for
\* one that moves frequently, which nobody said, of exactly those packets in
\* which the sum of FullPacket has come to the bit behind it.
PacketIsItsInterval ==
    \A p \in channel :
        LET seen == MovementToJSON(p)
        IN  /\ \A n \in DOMAIN seen.parts : seen.parts[n] = LastGiven(p.of, n)
            /\ DOMAIN seen.parts \cap (Carriers \cup {"basePos"}) =
                   GivenIn(p.of) \cap (Carriers \cup {"basePos"})
            /\ seen.frequent <=> Cardinality(LimbUpdates(p.of)) % 4 = 3

\* The packets of a batch are told apart where they end: the bit by which the
\* receiver takes 36 or 78 bytes is that by which the sender chose.
BatchIsToldApart == \A p \in channel : PackedSize(p) = p.size

\* An interval with one frame is sent when the frame gives the base and either a
\* limb, or some but not all of the parts that fit the small packet.
SentWhenDue ==
    LET parts == given[1].parts
    IN  Len(given) = 1 /\ given' = <<>> /\ "basePos" \in parts
            /\ (parts \cap Carriers # {} \/ parts \subseteq SmallNames)
            /\ parts # SmallNames
            => channel' # {}

SingleFrameIsSent == [][SentWhenDue]_vars
=============================================================================
