---------------------------- MODULE BlockedFrame ----------------------------
(***************************************************************************)
(* The gQUIC BLOCKED frame of                                              *)
(* src/vaipn/common/quic/gquic-go/internal/wire/blocked_frame_legacy.go:   *)
(* its parser over a bytes.Reader and its writer into a bytes.Buffer, as   *)
(* pure operators on sequences of byte values.  A reader is the sequence   *)
(* of unread bytes; a parse result is the frame, or an error, with the     *)
(* bytes left unread.                                                      *)
(***************************************************************************)
EXTENDS Naturals, Sequences

CONSTANTS
    StreamIDs,   \* stream ids to check, including 0 and the 32-bit edges
    Trailers     \* bytes that follow the frame in the packet

VARIABLES
    packet,      \* the bytes.Reader over a received packet
    sent,        \* the stream id and trailer the peer wrote
    parsed       \* what parseBlockedFrameLegacy returned, or NotParsed

frameVars == <<packet, sent, parsed>>

(* The frames a BLOCKED frame parses to.                                   *)
BlockedFrameV == [type |-> "BLOCKED"]
StreamBlockedFrame(id) == [type |-> "STREAM_BLOCKED", StreamID |-> id]
EOF == [type |-> "io.EOF"]

(***************************************************************************)
(* utils.BigEndian, outside this repository: four bytes, most significant  *)
(* first; a short read is io.EOF after consuming what was there.           *)
(***************************************************************************)
WriteUint32(b, i) ==
    b \o << (i \div 2^24) % 256, (i \div 2^16) % 256, (i \div 2^8) % 256, i % 256 >>

ReadUint32(r) ==
    IF Len(r) < 4 THEN [err |-> TRUE, rest |-> <<>>]
    ELSE [err |-> FALSE, rest |-> SubSeq(r, 5, Len(r)),
          val |-> ((r[1] * 256 + r[2]) * 256 + r[3]) * 256 + r[4]]

(* The parser with the connection-level case dropped: every frame is a     *)
(* STREAM_BLOCKED frame.                                                   *)
parseNoConnection(r) ==
    IF r = <<>> THEN [frame |-> EOF, rest |-> r]
    ELSE LET u == ReadUint32(Tail(r))
         IN  IF u.err THEN [frame |-> EOF, rest |-> u.rest]
             ELSE [frame |-> StreamBlockedFrame(u.val), rest |-> u.rest]

(* Lines 18-30: skip the type byte, read the 32-bit stream id; 0 means the *)
(* connection is blocked.                                                  *)
parseBlockedFrameLegacy(r) ==
    IF r = <<>> THEN [frame |-> EOF, rest |-> r]
    ELSE LET u == ReadUint32(Tail(r))
         IN  IF u.err THEN [frame |-> EOF, rest |-> u.rest]
             ELSE IF u.val = 0 THEN [frame |-> BlockedFrameV, rest |-> u.rest]
             ELSE [frame |-> StreamBlockedFrame(u.val), rest |-> u.rest]

(* Lines 33-37: type byte 0x05, then uint32(StreamID) big-endian.  TLC's   *)
(* integers are 32-bit signed, so stream ids are taken below 2^31, where   *)
(* the uint32 conversion changes nothing.                                  *)
Write(b, streamID) == WriteUint32(Append(b, 5), streamID)

(***************************************************************************)
(* Reference: what a BLOCKED frame for a stream id means.  Stream 0 is the *)
(* connection, the others are streams.                                     *)
(***************************************************************************)
Meaning(id) == IF id = 0 THEN BlockedFrameV ELSE StreamBlockedFrame(id)

NotParsed == [frame |-> [type |-> "none"], rest |-> <<>>]

BInit ==
    /\ packet = <<>>
    /\ sent = [id |-> 0, trailer |-> <<>>]
    /\ parsed = NotParsed

(* The peer writes a BLOCKED frame for a stream, then other frames.       *)
WriteFrame ==
    /\ packet = <<>> /\ parsed = NotParsed
    /\ \E id \in StreamIDs, t \in Trailers :
         /\ packet' = Write(<<>>, id) \o t
         /\ sent' = [id |-> id, trailer |-> t]
    /\ UNCHANGED parsed

(* The receiver sees the BLOCKED type byte and parses the frame.           *)
ParseFrame ==
    /\ packet # <<>>
    /\ parsed' = parseBlockedFrameLegacy(packet)
    /\ packet' = <<>>
    /\ UNCHANGED sent

BNext == WriteFrame \/ ParseFrame

(***************************************************************************)
(* A BLOCKED frame written by blockedFrameLegacy.Write and read back by    *)
(* parseBlockedFrameLegacy means the same stream (or the connection for    *)
(* id 0) and consumes exactly its five bytes, leaving the rest of the      *)
(* packet unread; and every truncation of it is an error, never a frame.   *)
(***************************************************************************)
BlockedRoundTrip ==
    /\ parsed # NotParsed =>
           parsed = [frame |-> Meaning(sent.id), rest |-> sent.trailer]
    /\ \A k \in 0..4 :
           parseBlockedFrameLegacy(SubSeq(Write(<<>>, sent.id), 1, k)).frame = EOF

=============================================================================
