-------------------------- MODULE ConnectionProofs --------------------------
(***************************************************************************)
(* The frames Connection passes on are those of the stream, for every      *)
(* stream and every way it is cut into pieces.                             *)
(***************************************************************************)
EXTENDS Connection, SequenceTheorems, TLAPS

(* The last byte that belongs to a frame that was passed on.               *)
Position == FrameEnd(Len(frames))

(* What the bytes of the incomplete frame say of its length.               *)
LengthKnown ==
  mLength # -1 => /\ mLength = 256 * mData[5] + mData[6] + 6
                  /\ Len(mData) < mLength

IInv ==
  /\ TypeOK
  /\ FramesPartitionStream
  /\ Position \in 0 .. appended
  /\ Len(mData) = appended - Position
  /\ LengthKnown

-----------------------------------------------------------------------------
(* The next byte of a sequence extends a subsequence before it.            *)
LEMMA SubSeqAppend ==
  ASSUME NEW S, NEW s \in Seq(S),
         NEW n \in 0 .. Len(s) - 1, NEW i \in 0 .. n
  PROVE  Append(SubSeq(s, i + 1, n), s[n + 1]) = SubSeq(s, i + 1, n + 1)
<1> DEFINE t == SubSeq(s, i + 1, n)
           u == SubSeq(s, i + 1, n + 1)
<1>1. n \in Int /\ i \in Int /\ n + 1 \in 1 .. Len(s)
  OBVIOUS
<1>2. \A j \in i + 1 .. n + 1 : s[j] \in S
  BY <1>1
<1>3. /\ t \in Seq(S) /\ Len(t) = n - i
      /\ \A j \in 1 .. n - i : t[j] = s[i + j]
  <2>1. /\ t \in Seq(S)
        /\ Len(t) = IF i + 1 <= n THEN n - (i + 1) + 1 ELSE 0
        /\ \A j \in 1 .. n - (i + 1) + 1 : t[j] = s[(i + 1) + j - 1]
    BY <1>1, <1>2, SubSeqProperties
  <2> QED  BY <1>1, <2>1
<1>4. /\ u \in Seq(S) /\ Len(u) = n + 1 - i
      /\ \A j \in 1 .. n + 1 - i : u[j] = s[i + j]
  <2>1. /\ u \in Seq(S)
        /\ Len(u) = IF i + 1 <= n + 1 THEN (n + 1) - (i + 1) + 1 ELSE 0
        /\ \A j \in 1 .. (n + 1) - (i + 1) + 1 : u[j] = s[(i + 1) + j - 1]
    BY <1>1, <1>2, SubSeqProperties
  <2> QED  BY <1>1, <2>1
<1> HIDE DEF t, u
<1> DEFINE v == Append(t, s[n + 1])
<1>5. /\ v \in Seq(S) /\ Len(v) = n - i + 1
      /\ \A j \in 1 .. n - i : v[j] = t[j]
      /\ v[n - i + 1] = s[n + 1]
  BY <1>2, <1>3, AppendProperties
<1> HIDE DEF v
<1>6. ASSUME NEW j \in 1 .. Len(v)
      PROVE  v[j] = u[j]
  <2>1. CASE j = n - i + 1
    <3>1. i + j = n + 1 /\ j \in 1 .. n + 1 - i
      BY <1>1, <2>1
    <3> QED  BY <1>4, <1>5, <2>1, <3>1
  <2>2. CASE j # n - i + 1
    <3>1. j \in 1 .. n - i /\ j \in 1 .. n + 1 - i
      BY <1>1, <1>5, <2>2
    <3> QED  BY <1>3, <1>4, <1>5, <3>1
  <2> QED  BY <2>1, <2>2
<1>7. Len(v) = Len(u)
  BY <1>1, <1>4, <1>5
<1>8. v = u
  BY <1>4, <1>5, <1>6, <1>7, SeqEqual
<1> QED  BY <1>8 DEF t, u, v

(* What arrives on the wire are numbers.                                   *)
LEMMA BytesAreNumbers == Byte \subseteq Nat
BY DEF Byte

(* The data the loop's body looks at, and the length it goes by.           *)
NextData == Append(mData, stream[appended + 1])
NextLength == LengthOf(NextData, mLength)

(* They are the next bytes of the stream, and the length these announce.   *)
LEMMA DataAndLength ==
  ASSUME IInv, appended < readable
  PROVE  /\ NextData \in Seq(Byte) /\ Len(NextData) = Len(mData) + 1
         /\ NextData = SubSeq(stream, Position + 1, appended + 1)
         /\ Len(NextData) < 6 => NextLength = -1
         /\ Len(NextData) >= 6 => /\ NextLength = 256 * NextData[5] + NextData[6] + 6
                                  /\ NextLength \in Int /\ NextLength >= 6
                                  /\ Len(NextData) <= NextLength
<1>1. /\ stream \in Seq(Byte) /\ mData \in Seq(Byte)
      /\ appended \in 0 .. Len(stream) - 1 /\ Len(mData) \in Nat
      /\ mLength \in Int /\ (mLength = -1 <=> Len(mData) < 6)
  <2>1. stream \in Seq(Byte) /\ mData \in Seq(Byte)
    BY StreamsAssumption DEF IInv, TypeOK
  <2>2. /\ readable \in 0 .. Len(stream) /\ appended \in 0 .. readable
        /\ mLength \in Int /\ (mLength = -1 <=> Len(mData) < 6)
    BY DEF IInv, TypeOK
  <2> QED  BY <2>1, <2>2
<1>2. stream[appended + 1] \in Byte
  BY <1>1
<1>3. /\ NextData \in Seq(Byte) /\ Len(NextData) = Len(mData) + 1
      /\ \A i \in 1 .. Len(mData) : NextData[i] = mData[i]
  BY <1>1, <1>2, AppendProperties DEF NextData
<1>4. NextData = SubSeq(stream, Position + 1, appended + 1)
  <2>1. mData = SubSeq(stream, Position + 1, appended) /\ Position \in 0 .. appended
    BY DEF IInv, FramesPartitionStream, Position
  <2> QED  BY <1>1, <2>1, SubSeqAppend DEF NextData
<1>5. Len(NextData) < 6 => NextLength = -1
  BY <1>1, <1>3 DEF NextLength, LengthOf
<1>6. ASSUME Len(NextData) >= 6
      PROVE  /\ NextLength = 256 * NextData[5] + NextData[6] + 6
             /\ NextLength \in Int /\ NextLength >= 6
             /\ Len(NextData) <= NextLength
  <2>1. NextData[5] \in Nat /\ NextData[6] \in Nat
    <3>1. 5 \in 1 .. Len(NextData) /\ 6 \in 1 .. Len(NextData)
      BY <1>1, <1>3, <1>6
    <3>2. NextData[5] \in Byte /\ NextData[6] \in Byte
      BY <1>3, <3>1
    <3> QED  BY <3>2, BytesAreNumbers
  <2>2. CASE Len(NextData) = 6
    <3>1. NextLength = NextData[5] * 256 + NextData[6] + 6
      BY <2>2 DEF NextLength, LengthOf, toUInt16
    <3> QED  BY <2>1, <2>2, <3>1
  <2>3. CASE Len(NextData) > 6
    <3>1. Len(mData) >= 6 /\ mLength # -1 /\ NextLength = mLength
      BY <1>1, <1>3, <2>3 DEF NextLength, LengthOf
    <3>2. NextData[5] = mData[5] /\ NextData[6] = mData[6]
      BY <1>1, <1>3, <3>1
    <3>3. NextLength = 256 * NextData[5] + NextData[6] + 6 /\ Len(mData) < NextLength
      BY <3>1, <3>2 DEF IInv, LengthKnown
    <3> QED  BY <1>1, <1>3, <2>1, <3>1, <3>3
  <2> QED  BY <1>1, <1>3, <1>6, <2>2, <2>3
<1> QED  BY <1>3, <1>4, <1>5, <1>6

(* A whole frame is passed on.                                             *)
LEMMA EmitPreserves ==
  ASSUME IInv, appended < readable, appended' = appended + 1,
         UNCHANGED << stream, readable, open >>,
         Len(NextData) = NextLength, Emit(NextData, NextLength)
  PROVE  IInv'
<1> DEFINE frame == [ first |-> Position + 1, data |-> NextData ]
<1> PICK count \in Nat : count = Len(frames)
  BY DEF IInv, TypeOK
<1>1. /\ NextData \in Seq(Byte) /\ Len(NextData) = Len(mData) + 1
      /\ NextData = SubSeq(stream, Position + 1, appended + 1)
      /\ Len(NextData) < 6 => NextLength = -1
      /\ Len(NextData) >= 6 => /\ NextLength = 256 * NextData[5] + NextData[6] + 6
                               /\ NextLength \in Int /\ NextLength >= 6
                               /\ Len(NextData) <= NextLength
  BY DataAndLength
<1>2. /\ appended \in Nat /\ readable \in Nat /\ Position \in Nat
      /\ frames \in Seq(FrameType)
      /\ Len(mData) = appended - Position /\ Position <= appended
  BY DEF IInv, TypeOK
<1>3. Len(NextData) >= 6 /\ Len(NextData) = appended - Position + 1
  BY <1>1, <1>2
<1>4. frame \in FrameType
  BY <1>1, <1>2 DEF FrameType
<1>5. frames' = Append(frames, frame)
  <2>1. appended - Len(mData) + 1 = Position + 1
    BY <1>2
  <2> QED  BY <2>1 DEF Emit
<1>6. /\ frames' \in Seq(FrameType) /\ Len(frames') = count + 1
      /\ \A n \in 1 .. count : frames'[n] = frames[n]
      /\ frames'[count + 1] = frame
  BY <1>2, <1>4, <1>5, AppendProperties
<1>7. ASSUME NEW n \in 0 .. count
      PROVE  FrameEnd(n)' = FrameEnd(n)
  <2>1. CASE n = 0
    BY <2>1 DEF FrameEnd
  <2>2. CASE n # 0
    <3>1. frames'[n] = frames[n]
      BY <1>2, <1>6, <2>2
    <3> QED  BY <2>2, <3>1 DEF FrameEnd
  <2> QED  BY <2>1, <2>2
<1>8. FrameEnd(count + 1)' = appended + 1
  <2>1. count + 1 # 0
    BY <1>2
  <2>2. FrameEnd(count + 1)' = frames'[count + 1].first + Len(frames'[count + 1].data) - 1
    BY <2>1 DEF FrameEnd
  <2>3. frame.first = Position + 1 /\ frame.data = NextData
    OBVIOUS
  <2>4. FrameEnd(count + 1)' = (Position + 1) + Len(NextData) - 1
    BY <1>6, <2>2, <2>3
  <2> QED  BY <1>2, <1>3, <2>4
<1>9. Position' = appended + 1
  BY <1>6, <1>8 DEF Position
<1>10. TypeOK'
  BY <1>6, StreamsAssumption DEF IInv, TypeOK, Emit
<1>11. FramesPartitionStream'
  <2>1. ASSUME NEW n \in DOMAIN frames'
        PROVE  /\ frames'[n].first = FrameEnd(n - 1)' + 1
               /\ Len(frames'[n].data) = 256 * frames'[n].data[5] + frames'[n].data[6] + 6
               /\ frames'[n].data = SubSeq(stream', frames'[n].first, FrameEnd(n)')
    <3>1. CASE n = count + 1
      <4>1. FrameEnd(n - 1)' = Position
        <5>1. n - 1 = count /\ count \in 0 .. count
          BY <1>2, <3>1
        <5> QED  BY <1>7, <5>1 DEF Position
      <4>2. frames'[n].first = Position + 1 /\ frames'[n].data = NextData
        BY <1>6, <3>1
      <4>3. FrameEnd(n)' = appended + 1
        BY <1>8, <3>1
      <4> QED  BY <1>1, <1>3, <4>1, <4>2, <4>3
    <3>2. CASE n # count + 1
      <4>1. n \in 1 .. count /\ n \in DOMAIN frames /\ n - 1 \in 0 .. count
        BY <1>2, <1>6, <3>2
      <4>2. frames'[n] = frames[n] /\ FrameEnd(n - 1)' = FrameEnd(n - 1) /\ FrameEnd(n)' = FrameEnd(n)
        BY <1>6, <1>7, <4>1
      <4> QED  BY <4>1, <4>2 DEF IInv, FramesPartitionStream
    <3> QED  BY <3>1, <3>2
  <2>2. mData' = SubSeq(stream', Position' + 1, appended')
    BY <1>2, <1>9, SubSeqEmpty DEF Emit
  <2> QED  BY <2>1, <2>2 DEF FramesPartitionStream, Position
<1>12. Position' \in 0 .. appended' /\ Len(mData') = appended' - Position'
  BY <1>2, <1>9 DEF Emit
<1>13. LengthKnown'
  BY DEF LengthKnown, Emit
<1> QED  BY <1>10, <1>11, <1>12, <1>13 DEF IInv

-----------------------------------------------------------------------------
(* The invariant holds initially.                                          *)
LEMMA InitIInv == Init => IInv
<1> SUFFICES ASSUME Init PROVE IInv  OBVIOUS
<1>1. frames \in Seq(FrameType) /\ Len(frames) = 0 /\ DOMAIN frames = {}
  BY DEF Init
<1>2. TypeOK
  BY <1>1, StreamsAssumption DEF Init, TypeOK
<1>3. Position = 0
  BY <1>1 DEF Position, FrameEnd
<1>4. mData = SubSeq(stream, Position + 1, appended)
  BY <1>3, SubSeqEmpty DEF Init
<1> QED  BY <1>1, <1>2, <1>3, <1>4 DEF Init, IInv, FramesPartitionStream, Position, LengthKnown

(* A byte that is appended to the frame keeps the invariant.               *)
LEMMA AppendByteIInv ==
  ASSUME IInv, AppendByte
  PROVE  IInv'
<1>1. /\ appended < readable /\ appended' = appended + 1
      /\ UNCHANGED << stream, readable, open >>
  BY DEF AppendByte
<1>2. CASE Len(NextData) = NextLength /\ Emit(NextData, NextLength)
  BY <1>1, <1>2, EmitPreserves
<1>3. CASE /\ Len(NextData) # NextLength
           /\ mData' = NextData /\ mLength' = NextLength /\ UNCHANGED frames
  <2>1. /\ NextData \in Seq(Byte) /\ Len(NextData) = Len(mData) + 1
        /\ NextData = SubSeq(stream, Position + 1, appended + 1)
        /\ Len(NextData) < 6 => NextLength = -1
        /\ Len(NextData) >= 6 => /\ NextLength = 256 * NextData[5] + NextData[6] + 6
                             /\ NextLength \in Int /\ NextLength >= 6
                             /\ Len(NextData) <= NextLength
    BY <1>1, DataAndLength
  <2>2. Position' = Position /\ \A n : FrameEnd(n)' = FrameEnd(n)
    BY <1>3 DEF Position, FrameEnd
  <2>3. TypeOK'
    BY <1>1, <1>3, <2>1 DEF IInv, TypeOK
  <2>4. FramesPartitionStream'
    <3>1. mData' = SubSeq(stream', Position' + 1, appended')
      BY <1>1, <1>3, <2>1, <2>2
    <3>2. ASSUME NEW n \in DOMAIN frames
          PROVE  /\ frames[n].first = FrameEnd(n - 1)' + 1
                 /\ Len(frames[n].data) = 256 * frames[n].data[5] + frames[n].data[6] + 6
                 /\ frames[n].data = SubSeq(stream, frames[n].first, FrameEnd(n)')
      BY <2>2 DEF IInv, FramesPartitionStream
    <3> QED  BY <1>1, <1>3, <3>1, <3>2 DEF FramesPartitionStream, Position
  <2>5. Position' \in 0 .. appended' /\ Len(mData') = appended' - Position'
    BY <1>1, <1>3, <2>1, <2>2 DEF IInv, TypeOK
  <2>6. LengthKnown'
    BY <1>3, <2>1 DEF LengthKnown
  <2> QED  BY <2>3, <2>4, <2>5, <2>6 DEF IInv
<1> QED  BY <1>2, <1>3 DEF AppendByte, NextData, NextLength

(* Every step keeps the invariant.                                         *)
LEMMA NextIInv == IInv /\ [Next]_connectionVars => IInv'
<1> SUFFICES ASSUME IInv, [Next]_connectionVars PROVE IInv'  OBVIOUS
<1>1. CASE AppendByte
  BY <1>1, AppendByteIInv
<1>2. ASSUME UNCHANGED << stream, appended, mData, mLength, frames >>, TypeOK'
      PROVE  IInv'
  <2>1. Position' = Position /\ \A n : FrameEnd(n)' = FrameEnd(n)
    BY <1>2 DEF Position, FrameEnd
  <2>2. FramesPartitionStream'
    <3>1. ASSUME NEW n \in DOMAIN frames
          PROVE  /\ frames[n].first = FrameEnd(n - 1)' + 1
                 /\ Len(frames[n].data) = 256 * frames[n].data[5] + frames[n].data[6] + 6
                 /\ frames[n].data = SubSeq(stream, frames[n].first, FrameEnd(n)')
      BY <2>1 DEF IInv, FramesPartitionStream
    <3>2. mData' = SubSeq(stream', Position' + 1, appended')
      BY <1>2, <2>1 DEF IInv, FramesPartitionStream, Position
    <3> QED  BY <1>2, <3>1, <3>2 DEF FramesPartitionStream, Position
  <2>3. LengthKnown'
    BY <1>2 DEF IInv, LengthKnown
  <2> QED  BY <1>2, <2>1, <2>2, <2>3 DEF IInv
<1>3. CASE ReadyRead
  <2>1. TypeOK'
    <3>1. stream \in Seq(Byte) /\ Len(stream) \in Nat
      BY StreamsAssumption DEF IInv, TypeOK
    <3> QED  BY <1>3, <3>1 DEF IInv, TypeOK, ReadyRead
  <2> QED  BY <1>2, <1>3, <2>1 DEF ReadyRead
<1>4. CASE Disconnected
  <2>1. TypeOK'
    BY <1>4 DEF IInv, TypeOK, Disconnected
  <2> QED  BY <1>2, <1>4, <2>1 DEF Disconnected
<1>5. CASE UNCHANGED connectionVars
  <2>1. TypeOK'
    BY <1>5 DEF IInv, TypeOK, connectionVars
  <2> QED  BY <1>2, <1>5, <2>1 DEF connectionVars
<1> QED  BY <1>1, <1>3, <1>4, <1>5 DEF Next

(* The invariant holds always.                                             *)
LEMMA Invariance == Spec => []IInv
  BY InitIInv, NextIInv, PTL DEF Spec

-----------------------------------------------------------------------------
(* Connection keeps the types, and knows the length of a frame exactly     *)
(* when it has the header (connection.cpp:19-22).                          *)
THEOREM TypeCorrect == Spec => []TypeOK
<1>1. IInv => TypeOK  BY DEF IInv
<1> QED  BY <1>1, Invariance, PTL

(* Every byte is in one frame, in its place, however the stream is cut     *)
(* into pieces (connection.cpp:14-36).                                     *)
THEOREM FramesAreThoseOfStream == Spec => []FramesPartitionStream
<1>1. IInv => FramesPartitionStream  BY DEF IInv
<1> QED  BY <1>1, Invariance, PTL

(* A whole frame is passed on at once, also one without bytes behind its   *)
(* header (connection.cpp:23).                                             *)
THEOREM FramesPassedOnAtOnce == Spec => []NothingWithheld
<1>1. IInv => NothingWithheld
  BY DEF IInv, NothingWithheld, LengthKnown, TypeOK
<1> QED  BY <1>1, Invariance, PTL
=============================================================================
