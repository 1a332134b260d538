----------------------------- MODULE Connection -----------------------------
(***************************************************************************)
(* Connection::readyRead: the bytes of a TCP stream are cut into frames by *)
(* the length that bytes 4 and 5 of each frame announce.  The socket hands *)
(* over the stream in pieces of any size; a piece is one tcpReq, and the   *)
(* loop over its bytes is taken byte by byte.                              *)
(***************************************************************************)
EXTENDS Integers, Sequences

CONSTANT Streams   \* what a client may send

Byte == 0 .. 255

ASSUME StreamsAssumption == Streams \subseteq Seq(Byte)

VARIABLES
  stream,          \* what this client sends
  readable,        \* bytes that have been read from the socket
  appended,        \* of these, bytes the loop has gone through
  mData, mLength,
  frames,          \* history: ADUs, with the position of their first byte
  open             \* not Connection::disconnected yet

connectionVars == << stream, readable, appended, mData, mLength, frames, open >>

-----------------------------------------------------------------------------
(* toUInt16; the offset counts from 0.                                     *)
toUInt16Swapped(data, offset) == data[offset + 2] * 256 + data[offset + 1]
toUInt16(data, offset) == data[offset + 1] * 256 + data[offset + 2]

(* The length of the frame that begins with data, if it was length before. *)
LengthOf(data, length) ==
  IF Len(data) = 6 THEN toUInt16(data, 4) + 6 ELSE length

(* The ADU is passed on, and the next frame begins.                        *)
EmitKeepsLength(data, length) ==
  /\ frames' = Append(frames, [ first |-> appended - Len(mData) + 1, data |-> data ])
  /\ mData' = << >>
  /\ mLength' = length
Emit(data, length) ==
  /\ frames' = Append(frames, [ first |-> appended - Len(mData) + 1, data |-> data ])
  /\ mData' = << >>
  /\ mLength' = -1

(* The body of the loop.                                                   *)
AppendByteChecksFirst ==
  /\ appended < readable
  /\ appended' = appended + 1
  /\ LET data == Append(mData, stream[appended + 1])
     IN \/ Len(data) = mLength /\ Emit(data, mLength)
        \/ /\ Len(data) # mLength
           /\ mData' = data
           /\ mLength' = LengthOf(data, mLength)
           /\ UNCHANGED frames
  /\ UNCHANGED << stream, readable, open >>
AppendByte ==
  /\ appended < readable
  /\ appended' = appended + 1
  /\ LET data == Append(mData, stream[appended + 1])
         length == LengthOf(data, mLength)
     IN \/ Len(data) = length /\ Emit(data, length)
        \/ /\ Len(data) # length
           /\ mData' = data
           /\ mLength' = length
           /\ UNCHANGED frames
  /\ UNCHANGED << stream, readable, open >>

(* The socket has more bytes, readAll returns them.                        *)
ReadyRead ==
  /\ open /\ appended = readable
  /\ readable' \in readable + 1 .. Len(stream)
  /\ UNCHANGED << stream, appended, mData, mLength, frames, open >>

(* Connection::disconnected; the client sends no more bytes.               *)
Disconnected ==
  /\ open /\ appended = readable
  /\ open' = FALSE
  /\ UNCHANGED << stream, readable, appended, mData, mLength, frames >>

Init ==
  /\ stream \in Streams
  /\ readable = 0 /\ appended = 0
  /\ mData = << >> /\ mLength = -1
  /\ frames = << >>
  /\ open = TRUE

Next == AppendByte \/ ReadyRead \/ Disconnected

Spec == Init /\ [][Next]_connectionVars

-----------------------------------------------------------------------------
FrameType == [ first : Nat, data : Seq(Byte) ]

(* The variables have their types, and a length is known exactly when the  *)
(* header is complete.                                                     *)
TypeOK ==
  /\ stream \in Streams
  /\ readable \in 0 .. Len(stream) /\ appended \in 0 .. readable
  /\ mData \in Seq(Byte)
  /\ mLength \in Int
  /\ mLength = -1 <=> Len(mData) < 6
  /\ frames \in Seq(FrameType)
  /\ open \in BOOLEAN

(* The position after the frames before the one at n.                      *)
FrameEnd(n) ==
  IF n = 0 THEN 0 ELSE frames[n].first + Len(frames[n].data) - 1

(* However the stream is cut into pieces, every byte that was read is in   *)
(* one frame, in its place: each frame is as long as its header announces, *)
(* begins where the one before it ends, and consists of the bytes there;   *)
(* behind the last one is the frame that is still incomplete.              *)
FramesPartitionStream ==
  /\ \A n \in DOMAIN frames :
       LET data == frames[n].data IN
       /\ frames[n].first = FrameEnd(n - 1) + 1
       /\ Len(data) = 256 * data[5] + data[6] + 6
       /\ data = SubSeq(stream, frames[n].first, FrameEnd(n))
  /\ mData = SubSeq(stream, FrameEnd(Len(frames)) + 1, appended)

(* Every frame is passed on with its last byte, also one that announces no *)
(* bytes behind its header: what is kept is never a whole frame.           *)
NothingWithheld ==
  Len(mData) >= 6 => Len(mData) < 256 * mData[5] + mData[6] + 6
=============================================================================
