------------------------- MODULE DataIteratorProofs -------------------------
(***************************************************************************)
(* What module DataIterator promises, for every register map, every set of *)
(* services, every start address and every quantity.                       *)
(***************************************************************************)
EXTENDS DataIterator, RegisterMapProofs

-----------------------------------------------------------------------------
(* The operators of the iterator.                                          *)

(* No register is the end of the map.                                      *)
LEMMA EndIsNoRegister == End \notin Registers
BY MapAssumption, IteratorAssumption

(* QMap::lowerBound.                                                       *)
LEMMA LowerBoundFacts ==
  ASSUME NEW a \in Nat
  PROVE  \/ LowerBound(a) = End /\ \A k \in Registers : k < a
         \/ /\ LowerBound(a) \in Registers /\ LowerBound(a) >= a
            /\ \A k \in Registers : k >= a => LowerBound(a) <= k
<1>. DEFINE above == { k \in Registers : k >= a }
<1>1. above \in SUBSET Nat
  BY RegisterFacts
<1>2. CASE above = {}
  BY <1>2, RegisterFacts DEF LowerBound
<1>3. CASE above # {}
  <2>1. Min(above) \in above /\ \A k \in above : Min(above) <= k
    BY <1>1, <1>3, MinIsMinimum
  <2>2. LowerBound(a) = Min(above)
    BY <1>3 DEF LowerBound
  <2>. QED
    BY <2>1, <2>2
<1>. QED
  BY <1>2, <1>3

(* The constructor finds the entry that covers the start address, exactly  *)
(* when the address is Startable.                                          *)
LEMMA StartEntryFacts ==
  ASSUME NEW a \in Nat
  PROVE  /\ StartEntry(a) # End <=> Startable(a)
         /\ StartEntry(a) # End =>
              StartEntry(a) \in Registers /\ Covers(StartEntry(a), a)
<1>. DEFINE lb == LowerBound(a)
            before == { k \in Registers : k < a }
<1>1. CASE lb = End
  <2>1. \A k \in Registers : k < a
    BY <1>1, LowerBoundFacts, RegisterFacts, EndIsNoRegister
  <2>2. StartEntry(a) = End
    BY <1>1 DEF StartEntry
  <2>3. ~ Startable(a)
    BY <2>1, RegisterFacts DEF Startable
  <2>. QED
    BY <2>2, <2>3
<1>2. CASE lb = a
  <2>1. lb \in Registers
    BY <1>2, LowerBoundFacts, IteratorAssumption
  <2>2. StartEntry(a) = a
    BY <1>2, IteratorAssumption DEF StartEntry
  <2>3. Covers(a, a)
    BY <1>2, <2>1, RegisterFacts DEF Covers
  <2>4. Startable(a)
    BY <1>2, <2>1, <2>3 DEF Startable
  <2>. QED
    BY <1>2, <2>1, <2>2, <2>3, <2>4, RegisterFacts, EndIsNoRegister
<1>3. CASE lb # End /\ lb # a
  <2>1. lb \in Registers /\ lb > a /\ \A k \in Registers : k >= a => lb <= k
    BY <1>3, LowerBoundFacts, RegisterFacts
  <2>2. CASE before = {}
    <3>1. StartEntry(a) = End
      BY <1>3, <2>2, RegisterFacts DEF StartEntry
    <3>2. ~ Startable(a)
      BY <2>1, <2>2, RegisterFacts DEF Startable, Covers
    <3>. QED
      BY <3>1, <3>2
  <2>3. CASE before # {}
    <3>. DEFINE p == Predecessor(a)
    <3>1. before \in SUBSET (0 .. a)
      BY RegisterFacts
    <3>2. p \in before /\ \A k \in before : p >= k
      BY <2>3, <3>1, MaxIsMaximum DEF Predecessor
    <3>3. StartEntry(a) = IF p + SizeOf(p) <= a THEN End ELSE p
      BY <1>3, <2>3, RegisterFacts DEF StartEntry
    <3>4. CASE p + SizeOf(p) <= a
      <4>1. \A k \in Registers : ~ Covers(k, a)
        <5>. SUFFICES ASSUME NEW k \in Registers, Covers(k, a) PROVE FALSE
          OBVIOUS
        <5>1. k < a
          BY <2>1, RegisterFacts DEF Covers
        <5>2. k <= p
          BY <3>2, <5>1
        <5>3. k = p \/ k + SizeOf(k) <= p
          BY <3>2, <5>2, NoOverlapAssumption, RegisterFacts DEF SizeOf
        <5>. QED
          BY <3>2, <3>4, <5>3, RegisterFacts DEF Covers
      <4>. QED
        BY <3>3, <3>4, <4>1 DEF Startable
    <3>5. CASE ~ (p + SizeOf(p) <= a)
      <4>1. Covers(p, a) /\ p \in Registers
        BY <3>2, <3>5, RegisterFacts DEF Covers
      <4>2. Startable(a)
        BY <2>1, <4>1, RegisterFacts DEF Startable
      <4>3. p # End
        BY <4>1, RegisterFacts, EndIsNoRegister
      <4>. QED
        BY <3>3, <3>5, <4>1, <4>2, <4>3
    <3>. QED
      BY <3>4, <3>5
  <2>. QED
    BY <2>2, <2>3
<1>. QED
  BY <1>1, <1>2, <1>3

(* CountFrom is positive inside an entry and exhausts entry or request.    *)
LEMMA CountFromFacts ==
  ASSUME NEW k \in Registers, NEW a \in Nat, NEW q \in Nat \ {0}, Covers(k, a)
  PROVE  /\ CountFrom(k, a, q) \in 1 .. q
         /\ CountFrom(k, a, q) <= k + SizeOf(k) - a
         /\ CountFrom(k, a, q) # q => CountFrom(k, a, q) = k + SizeOf(k) - a
<1>1. k + SizeOf(k) - a \in Nat \ {0}
  BY RegisterFacts DEF Covers
<1>2. CountFrom(k, a, q) = IF k + SizeOf(k) - a <= q THEN k + SizeOf(k) - a ELSE q
  BY <1>1, MinOfTwo DEF CountFrom
<1>. QED
  BY <1>1, <1>2

-----------------------------------------------------------------------------
(* The inductive invariant.                                                *)

Entries == { s.entry : s \in visited }

(* While the iterator is inside the map: everything from the start of the  *)
(* request to the end of the current entry is mapped and answered for, and *)
(* exactly the entries before the current one have been processed.         *)
InsideMap ==
  ~ AtEnd =>
    /\ mError = "NoError"
    /\ Startable(address)
    /\ address <= mCurrent + mOffset
    /\ mOffset # 0 => mCurrent + mOffset = address
    /\ mRegisterCount # mQuantity => mOffset + mRegisterCount = SizeOf(mCurrent)
    /\ \A x \in address .. mCurrent + SizeOf(mCurrent) - 1 : Answerable(routes, x)
    /\ Entries = { j \in Registers : j < mCurrent /\ address < j + SizeOf(j) }
    /\ \A x \in address .. mCurrent + mOffset - 1 :
         \E s \in visited : x \in s.entry + s.offset .. s.entry + s.offset + s.count - 1

IInv == TypeOK /\ CursorInRequest /\ InsideMap /\ DataAligned /\ ComputesVisited

(* The constructor establishes it.                                         *)
LEMMA InitIInv == Init => IInv
<1>. SUFFICES ASSUME Init PROVE IInv
  OBVIOUS
<1>1. PICK a \in Addresses, q \in 0 .. MaxQuantity, svc \in RouteTable : Construct(a, q, svc)
  BY DEF Init
<1>2. /\ address = a /\ quantity = q /\ routes = svc /\ mQuantity = q
      /\ a \in Nat /\ q \in Nat /\ word = 0 /\ visited = {} /\ Entries = {}
  BY <1>1, IteratorAssumption DEF Construct, Init, Entries
<1>. DEFINE k == StartEntry(a)
<1>3. CASE q <= 0
  <2>1. mCurrent = End /\ mError = "NoError" /\ q = 0
    BY <1>1, <1>2, <1>3 DEF Construct
  <2>2. TypeOK /\ CursorInRequest /\ InsideMap /\ DataAligned
    BY <1>1, <1>2, <1>3, <2>1 DEF Construct, TypeOK, CursorInRequest, InsideMap, DataAligned, AtEnd
  <2>3. ComputesVisited
    BY <1>2, <2>1 DEF ComputesVisited, Visited, PassError, Entries
  <2>. QED
    BY <2>2, <2>3 DEF IInv
<1>4. CASE q > 0 /\ k = End
  <2>1. mCurrent = End /\ mError = "StartAddressError" /\ ~ Startable(a)
    BY <1>1, <1>2, <1>4, StartEntryFacts DEF Construct
  <2>2. TypeOK /\ CursorInRequest /\ InsideMap /\ DataAligned
    BY <1>1, <1>2, <1>4, <2>1 DEF Construct, TypeOK, CursorInRequest, InsideMap, DataAligned, AtEnd
  <2>3. ComputesVisited
    BY <1>2, <1>4, <2>1 DEF ComputesVisited, Visited, PassError, Entries
  <2>. QED
    BY <2>2, <2>3 DEF IInv
<1>5. CASE q > 0 /\ k # End
  <2>1. k \in Registers /\ Covers(k, a) /\ Startable(a)
    BY <1>2, <1>5, StartEntryFacts
  <2>2. /\ k \in Nat /\ SizeOf(k) \in Nat \ {0} /\ TypeAt(k) \in DeviceTypes
        /\ svc[TypeAt(k)] \in Services \cup { NoService }
    BY <2>1, RegisterFacts
  <2>3. k <= a /\ a < k + SizeOf(k)
    BY <2>1 DEF Covers
  <2>4. /\ mOffset = a - k /\ mRegisterCount = CountFrom(k, a, q)
        /\ mService = svc[TypeAt(k)]
    BY <1>1, <1>5 DEF Construct
  <2>5. /\ mRegisterCount \in 1 .. q /\ mRegisterCount <= k + SizeOf(k) - a
        /\ mRegisterCount # q => mRegisterCount = k + SizeOf(k) - a
    BY <1>2, <1>5, <2>1, <2>4, CountFromFacts
  <2>6. CASE svc[TypeAt(k)] = NoService
    <3>1. mCurrent = End /\ mError = "ServiceError"
      BY <1>1, <1>5, <2>6 DEF Construct
    <3>2. TypeOK /\ CursorInRequest /\ InsideMap /\ DataAligned
      BY <1>2, <2>2, <2>3, <2>4, <2>5, <3>1
         DEF TypeOK, CursorInRequest, InsideMap, DataAligned, AtEnd
    <3>3. ~ Answerable(svc, a)
      BY <1>2, <2>1, <2>6, AnswerableEntry
    <3>4. Visited(svc, a, q) = {}
      BY <1>2, <3>3, RegisterFacts DEF Visited
    <3>5. ComputesVisited
      BY <1>2, <1>5, <2>1, <3>1, <3>3, <3>4 DEF ComputesVisited, PassError, Entries
    <3>. QED
      BY <3>2, <3>5 DEF IInv
  <2>7. CASE svc[TypeAt(k)] # NoService
    <3>1. mCurrent = k /\ mError = "NoError" /\ ~ AtEnd
      BY <1>1, <1>5, <2>7 DEF Construct, AtEnd
    <3>2. TypeOK /\ CursorInRequest /\ DataAligned /\ ComputesVisited
      BY <1>2, <2>1, <2>2, <2>3, <2>4, <2>5, <2>7, <3>1
         DEF TypeOK, CursorInRequest, DataAligned, ComputesVisited, AtEnd
    <3>3. \A x \in a .. k + SizeOf(k) - 1 : Answerable(svc, x)
      BY <1>2, <2>1, <2>2, <2>3, <2>7 DEF Answerable, Covers
    <3>4. \A j \in Registers : ~ (j < k /\ a < j + SizeOf(j))
      BY <1>2, <2>1, <2>3, RegisterFacts, NoOverlapAssumption DEF SizeOf
    <3>5. InsideMap
      BY <1>2, <2>1, <2>2, <2>3, <2>4, <2>5, <3>1, <3>3, <3>4 DEF InsideMap
    <3>. QED
      BY <3>2, <3>5 DEF IInv
  <2>. QED
    BY <2>2, <2>6, <2>7
<1>. QED
  BY <1>2, <1>3, <1>4, <1>5

(* Each turn of the loop preserves it.                                     *)
LEMMA StepIInv == IInv /\ Step => IInv'
<1>. SUFFICES ASSUME IInv, Step PROVE IInv'
  OBVIOUS
<1>. DEFINE left == mQuantity - mRegisterCount
            k    == Successor(mCurrent)
            bottom == mCurrent + SizeOf(mCurrent)
<1>1. /\ ~ AtEnd /\ mQuantity' = left /\ word' = word + mRegisterCount
      /\ visited' = visited \cup { Segment }
      /\ address' = address /\ quantity' = quantity /\ routes' = routes
  BY DEF Step, args
<1>2. /\ mCurrent \in Registers /\ mCurrent \in Nat /\ SizeOf(mCurrent) \in Nat \ {0}
      /\ TypeAt(mCurrent) \in DeviceTypes
  BY <1>1, RegisterFacts DEF IInv, TypeOK, AtEnd
<1>3. /\ address \in Nat /\ quantity \in Nat /\ routes \in RouteTable
      /\ mQuantity \in Nat /\ mOffset \in Nat /\ mRegisterCount \in Nat /\ word \in Nat
      /\ mRegisterCount \in 1 .. mQuantity /\ mOffset + mRegisterCount <= SizeOf(mCurrent)
      /\ mCurrent + mOffset + mQuantity = address + quantity
      /\ word + mQuantity = quantity
      /\ mService = routes[TypeAt(mCurrent)] /\ mService \in Services
  BY <1>1, IteratorAssumption DEF IInv, TypeOK, CursorInRequest
<1>4. /\ mError = "NoError" /\ Startable(address) /\ address <= mCurrent + mOffset
      /\ mOffset # 0 => mCurrent + mOffset = address
      /\ mRegisterCount # mQuantity => mOffset + mRegisterCount = SizeOf(mCurrent)
      /\ \A x \in address .. mCurrent + SizeOf(mCurrent) - 1 : Answerable(routes, x)
      /\ Entries = { j \in Registers : j < mCurrent /\ address < j + SizeOf(j) }
      /\ \A x \in address .. mCurrent + mOffset - 1 :
           \E s \in visited : x \in s.entry + s.offset .. s.entry + s.offset + s.count - 1
  <2>1. InsideMap
    BY DEF IInv
  <2>. QED
    BY <1>1, <2>1, Zenon DEF InsideMap
<1>5. left \in Nat /\ left < mQuantity /\ quantity > 0
  BY <1>3
<1>6. /\ Segment \in SegmentType /\ Segment.entry = mCurrent /\ Segment.offset = mOffset
      /\ Segment.count = mRegisterCount /\ Segment.word = word
  BY <1>2, <1>3 DEF Segment, SegmentType
<1>7. Entries' = Entries \cup { mCurrent }
  BY <1>1, <1>6 DEF Entries
<1>8. Entries' = { j \in Registers : j <= mCurrent /\ address < j + SizeOf(j) }
  <2>1. address < mCurrent + SizeOf(mCurrent)
    BY <1>2, <1>3, <1>4
  <2>2. \A j \in Registers : j <= mCurrent <=> j < mCurrent \/ j = mCurrent
    BY <1>2, RegisterFacts
  <2>. QED
    BY <1>2, <1>4, <1>7, <2>1, <2>2
<1>9. \A s \in visited' : s.entry + s.offset = address' + s.word
  <2>1. \A s \in visited : s.entry + s.offset = address + s.word
    BY DEF IInv, DataAligned
  <2>2. mCurrent + mOffset = address + word
    BY <1>2, <1>3
  <2>. QED
    BY <1>1, <1>6, <2>1, <2>2
<1>10. \A x \in address .. mCurrent + mOffset + mRegisterCount - 1 :
         \E s \in visited' : x \in s.entry + s.offset .. s.entry + s.offset + s.count - 1
  <2>. SUFFICES ASSUME NEW x \in address .. mCurrent + mOffset + mRegisterCount - 1
                PROVE  \E s \in visited' :
                         x \in s.entry + s.offset .. s.entry + s.offset + s.count - 1
    OBVIOUS
  <2>1. CASE x < mCurrent + mOffset
    BY <1>1, <1>2, <1>3, <1>4, <2>1
  <2>2. CASE x >= mCurrent + mOffset
    BY <1>1, <1>2, <1>3, <1>6, <2>2
  <2>. QED
    BY <1>2, <1>3, <2>1, <2>2
<1>11. \A j \in Registers : j > mCurrent => j >= bottom
  BY <1>2, NoOverlapAssumption DEF SizeOf
<1>12. visited' \subseteq SegmentType
  BY <1>1, <1>6 DEF IInv, TypeOK
\* The entries behind the current one are not part of the closed form, when the
\* request ends here or nobody answers for the next register.
<1>13. ASSUME left = 0 \/ ~ Answerable(routes, bottom)
       PROVE  Visited(routes, address, quantity) = Entries'
  <2>1. ASSUME NEW j \in Registers,
               j < address + quantity, address < j + SizeOf(j),
               \A x \in address .. j + SizeOf(j) - 1 : Answerable(routes, x)
        PROVE  j <= mCurrent
    <3>. SUFFICES ASSUME j > mCurrent PROVE FALSE
      BY <1>2, RegisterFacts
    <3>1. j >= bottom
      BY <1>11
    <3>2. CASE left = 0
      BY <1>2, <1>3, <2>1, <3>1, <3>2, RegisterFacts
    <3>3. CASE ~ Answerable(routes, bottom)
      <4>1. bottom \in address .. j + SizeOf(j) - 1
        BY <1>2, <1>3, <1>4, <3>1, RegisterFacts
      <4>. QED
        BY <2>1, <3>3, <4>1
    <3>. QED
      BY <1>13, <3>2, <3>3
  <2>2. ASSUME NEW j \in Registers, j <= mCurrent, address < j + SizeOf(j)
        PROVE  /\ j < address + quantity
               /\ \A x \in address .. j + SizeOf(j) - 1 : Answerable(routes, x)
    <3>1. j < address + quantity
      BY <1>2, <1>3, <2>2, RegisterFacts
    <3>2. j + SizeOf(j) <= bottom
      BY <1>2, <2>2, NoOverlapAssumption, RegisterFacts DEF SizeOf
    <3>. QED
      BY <1>2, <1>3, <1>4, <3>1, <3>2, RegisterFacts
  <2>. QED
    BY <1>4, <1>5, <1>8, <2>1, <2>2 DEF Visited
\* Being refused behind the current entry is an AddressError in the closed form.
<1>14. ASSUME left # 0, ~ Answerable(routes, bottom)
       PROVE  PassError(routes, address, quantity) = "AddressError"
  <2>1. Answerable(routes, address)
    BY <1>2, <1>3, <1>4
  <2>2. bottom \in address .. address + quantity - 1
    BY <1>2, <1>3, <1>4, <1>5, <1>14
  <2>. QED
    BY <1>4, <1>5, <1>14, <2>1, <2>2 DEF PassError
<1>15. CASE left = 0
  <2>1. /\ mCurrent' = End /\ mError' = "NoError"
        /\ UNCHANGED << mOffset, mRegisterCount, mService >>
    BY <1>4, <1>15 DEF Step
  <2>2. TypeOK' /\ CursorInRequest' /\ InsideMap'
    BY <1>1, <1>3, <1>5, <1>12, <2>1 DEF IInv, TypeOK, CursorInRequest, InsideMap, AtEnd
  <2>3. DataAligned'
    <3>1. word' = quantity
      BY <1>1, <1>3, <1>15
    <3>2. mCurrent + mOffset + mRegisterCount = address + quantity
      BY <1>2, <1>3, <1>15
    <3>3. \A x \in address .. address + quantity - 1 :
            \E s \in visited' : x \in s.entry + s.offset .. s.entry + s.offset + s.count - 1
      BY <1>2, <1>3, <1>10, <3>2
    <3>. QED
      BY <1>1, <1>9, <3>1, <3>3 DEF DataAligned
  <2>4. PassError(routes, address, quantity) = "NoError"
    <3>1. \A x \in address .. address + quantity - 1 : Answerable(routes, x)
      BY <1>2, <1>3, <1>4, <1>15
    <3>2. Answerable(routes, address)
      BY <1>3, <1>5, <3>1
    <3>. QED
      BY <1>4, <1>5, <3>1, <3>2 DEF PassError
  <2>5. ComputesVisited'
    BY <1>1, <1>13, <1>15, <2>1, <2>4 DEF ComputesVisited, Entries
  <2>. QED
    BY <2>2, <2>3, <2>5 DEF IInv
<1>16. CASE left # 0 /\ (~ Adjacent(k) \/ NextService(k) = NoService)
  <2>1. /\ mCurrent' = End /\ mError' = "AddressError"
        /\ mOffset' = mOffset /\ mRegisterCount' = mRegisterCount
        /\ mService' = mService \/ mService' = NoService
    BY <1>16 DEF Step, SetError
  <2>2. ~ Answerable(routes, bottom)
    <3>1. \/ k = End /\ \A j \in Registers : j < mCurrent + 1
          \/ /\ k \in Registers /\ k >= mCurrent + 1
             /\ \A j \in Registers : j >= mCurrent + 1 => k <= j
      BY <1>2, LowerBoundFacts DEF Successor
    <3>2. bottom \in Nat
      BY <1>2
    <3>3. ASSUME NEW j \in Registers, Covers(j, bottom) PROVE j = k /\ j = bottom
      <4>1. j > mCurrent
        <5>. SUFFICES ASSUME j <= mCurrent PROVE FALSE
          BY <1>2, RegisterFacts
        <5>1. j + SizeOf(j) <= bottom
          BY <1>2, NoOverlapAssumption, RegisterFacts DEF SizeOf
        <5>. QED
          BY <1>2, <3>3, <5>1, RegisterFacts DEF Covers
      <4>2. j = bottom
        BY <1>2, <1>11, <3>3, <4>1, RegisterFacts DEF Covers
      <4>3. k \in Registers /\ k <= j /\ k > mCurrent
        <5>1. j >= mCurrent + 1 /\ ~ (j < mCurrent + 1)
          BY <1>2, <4>1, RegisterFacts
        <5>2. k \in Registers /\ k >= mCurrent + 1 /\ k <= j
          BY <3>1, <5>1
        <5>3. k \in Nat
          BY <5>2, RegisterFacts
        <5>. QED
          BY <1>2, <5>2, <5>3
      <4>4. k >= bottom
        BY <1>11, <4>3
      <4>5. k \in Nat
        BY <4>3, RegisterFacts
      <4>. QED
        BY <3>2, <4>2, <4>3, <4>4, <4>5
    <3>4. ASSUME NEW j \in Registers, Covers(j, bottom) PROVE routes[TypeAt(j)] = NoService
      <4>1. j = k /\ j = bottom
        BY <3>3, <3>4
      <4>2. Adjacent(k)
        BY <4>1 DEF Adjacent
      <4>3. NextService(k) = NoService
        BY <1>16, <4>2
      <4>. QED
        BY <1>3, <4>1, <4>3 DEF NextService
    <3>. QED
      BY <3>4 DEF Answerable
  <2>3. TypeOK' /\ CursorInRequest' /\ InsideMap'
    BY <1>1, <1>3, <1>5, <1>12, <2>1 DEF IInv, TypeOK, CursorInRequest, InsideMap, AtEnd
  <2>4. DataAligned'
    BY <1>9, <2>1 DEF DataAligned
  <2>5. ComputesVisited'
    BY <1>1, <1>13, <1>14, <1>16, <2>1, <2>2 DEF ComputesVisited, Entries
  <2>. QED
    BY <2>3, <2>4, <2>5 DEF IInv
<1>17. CASE left # 0 /\ Adjacent(k) /\ NextService(k) # NoService
  <2>1. /\ mCurrent' = k /\ mOffset' = 0 /\ mRegisterCount' = CountFrom(k, k, left)
        /\ mService' = NextService(k) /\ mError' = "NoError"
    BY <1>4, <1>17 DEF Step, SetError
  <2>2. k = bottom /\ k \in Nat
    BY <1>2, <1>17 DEF Adjacent
  <2>3. k \in Registers /\ SizeOf(k) \in Nat \ {0} /\ TypeAt(k) \in DeviceTypes
    BY <1>2, <2>2, LowerBoundFacts, RegisterFacts, IteratorAssumption DEF Successor
  <2>4. ~ AtEnd'
    BY <2>1, <2>2, IteratorAssumption DEF AtEnd
  <2>5. NextService(k) = routes[TypeAt(k)] /\ NextService(k) \in Services
    BY <1>3, <1>17, <2>3, RegisterFacts DEF NextService
  <2>6. Covers(k, k)
    BY <2>2, <2>3 DEF Covers
  <2>7. /\ mRegisterCount' \in 1 .. left /\ mRegisterCount' <= SizeOf(k)
        /\ mRegisterCount' # left => mRegisterCount' = SizeOf(k)
    BY <1>5, <1>17, <2>1, <2>2, <2>3, <2>6, CountFromFacts
  <2>8. left + bottom = address + quantity /\ mOffset + mRegisterCount = SizeOf(mCurrent)
    BY <1>2, <1>3, <1>4, <1>17
  <2>9. TypeOK'
    BY <1>1, <1>3, <1>5, <1>12, <2>1, <2>3, <2>5, <2>7 DEF IInv, TypeOK
  <2>10. CursorInRequest'
    BY <1>1, <1>3, <1>5, <2>1, <2>2, <2>5, <2>7, <2>8, ServiceAssumption DEF CursorInRequest
  <2>11. \A x \in address .. k + SizeOf(k) - 1 : Answerable(routes, x)
    <3>. SUFFICES ASSUME NEW x \in address .. k + SizeOf(k) - 1 PROVE Answerable(routes, x)
      OBVIOUS
    <3>1. CASE x < bottom
      BY <1>2, <1>3, <1>4, <3>1
    <3>2. CASE x >= bottom
      <4>1. Covers(k, x)
        BY <1>3, <2>2, <2>3, <3>2 DEF Covers
      <4>. QED
        BY <1>17, <2>3, <2>5, <4>1 DEF Answerable
    <3>. QED
      BY <1>2, <1>3, <2>2, <2>3, <3>1, <3>2
  <2>12. Entries' = { j \in Registers : j < k /\ address < j + SizeOf(j) }
    <3>1. \A j \in Registers : j < k <=> j <= mCurrent
      BY <1>2, <1>11, <2>2, RegisterFacts
    <3>. QED
      BY <1>8, <3>1
  <2>13. address <= k
    BY <1>2, <1>3, <1>4, <2>2
  <2>14. \A x \in address .. k - 1 :
           \E s \in visited' : x \in s.entry + s.offset .. s.entry + s.offset + s.count - 1
    BY <1>2, <1>3, <1>10, <2>2, <2>8
  <2>15. InsideMap'
    BY <1>1, <1>4, <2>1, <2>2, <2>3, <2>7, <2>11, <2>12, <2>13, <2>14 DEF InsideMap
  <2>16. DataAligned' /\ ComputesVisited'
    BY <1>9, <2>4 DEF DataAligned, ComputesVisited
  <2>. QED
    BY <2>9, <2>10, <2>15, <2>16 DEF IInv
<1>. QED
  BY <1>15, <1>16, <1>17

(* The iterator satisfies its invariant at every step.                     *)
THEOREM SpecIInv == Spec => []IInv
<1>1. IInv /\ UNCHANGED vars => IInv'
  BY DEF IInv, TypeOK, CursorInRequest, InsideMap, DataAligned, ComputesVisited, Entries,
         AtEnd, vars, args
<1>2. IInv /\ [Next]_vars => IInv'
  BY <1>1, StepIInv DEF Next
<1>. QED
  BY <1>2, InitIInv, PTL DEF Spec

-----------------------------------------------------------------------------
(* The fields of the iterator keep their types, whatever the map.          *)
THEOREM TypeCorrect == Spec => []TypeOK
BY SpecIInv, PTL DEF IInv

(* The assertions of the constructor and of next() hold, and the service   *)
(* next() carries along is the one a lookup would give.                    *)
THEOREM CursorStaysInRequest == Spec => []CursorInRequest
BY SpecIInv, PTL DEF IInv

(* Word w of the data is register address + w, and without an error every  *)
(* register of the request is processed.                                   *)
THEOREM DataIsAligned == Spec => []DataAligned
BY SpecIInv, PTL DEF IInv

(* The loop processes the entries Visited names and ends with PassError:   *)
(* the two operators other modules use instead of it.                      *)
THEOREM IteratorComputesClosedForm == Spec => []ComputesVisited
BY SpecIInv, PTL DEF IInv
=============================================================================
