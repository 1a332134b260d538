---------------------------- MODULE DataIterator ----------------------------
(***************************************************************************)
(* Mappings::DataIterator (mappings.h:87-126, mappings.cpp:617-782): the   *)
(* iterator with which handleRequest, getValues and setValues walk over    *)
(* the register map, with the part of their loops that depends on it.      *)
(*                                                                         *)
(* `DataIterator it(...); for (; !it.atEnd(); it.next()) body' runs to its *)
(* end inside one slot, so no service changes under it.  A behaviour is    *)
(* one such loop: the constructor gives the initial state and each         *)
(* `body; it.next()' is a step.  Of the body the model keeps which segment *)
(* it works on and where in the request's data that segment lies: `word'   *)
(* is j / 2 in setValues and replyData.size() / 2 in getValues.            *)
(***************************************************************************)
EXTENDS RegisterMap, FiniteSetsExt

CONSTANTS
  End,             \* mDBusModbusMap.end()
  Addresses,       \* start addresses of requests
  MaxQuantity      \* bound: registers in one request (Backend allows 125)

ASSUME IteratorAssumption ==
  /\ End \notin Nat
  /\ Addresses \subseteq Nat
  /\ MaxQuantity \in Nat

VARIABLES
  address, quantity, routes,              \* arguments of the constructor
  mCurrent, mQuantity, mOffset, mRegisterCount, mService, mError,
  word,                                   \* the next 16-bit word of the data
  visited                                 \* history: the segments processed

args == << address, quantity, routes >>
vars == << args, mCurrent, mQuantity, mOffset, mRegisterCount, mService,
           mError, word, visited >>

AtEnd == mCurrent = End

-----------------------------------------------------------------------------
(* QMap, ordered by key.                                                   *)

LowerBound(a) ==
  LET above == { k \in Registers : k >= a }
  IN  IF above = {} THEN End ELSE Min(above)

Successor(k) == LowerBound(k + 1)

(* --it, for an iterator that is not at the begin of the map.              *)
Predecessor(a) == Max({ k \in Registers : k < a })

-----------------------------------------------------------------------------
(* The entry the constructor starts at, or End when it calls setError with *)
(* StartAddressError: nothing at or behind a, nothing before a, or an      *)
(* entry before a that ends before it.                                     *)
StartEntryNoEndCheck(a) ==
  LET lb == LowerBound(a)
  IN  IF lb # End /\ lb # a /\ \E k \in Registers : k < a THEN Predecessor(a) ELSE lb
StartEntry(a) ==
  LET lb == LowerBound(a) IN
    CASE lb = End -> End
      [] lb = a -> a
      [] lb # End /\ lb # a ->
           IF \A k \in Registers : k >= a
             THEN End
             ELSE LET p == Predecessor(a)
                  IN  IF p + SizeOf(p) <= a THEN End ELSE p

(* mRegisterCount for an entry entered at register a with q registers left *)
CountFromIgnoresStart(k, a, q) == Min({ SizeOf(k), q })
CountFrom(k, a, q) == Min({ k + SizeOf(k) - a, q })

(* What the loop body sees of the iterator: data(), offset() and           *)
(* registerCount(), with its place in the data of the request.             *)
Segment ==
  [ entry |-> mCurrent, offset |-> mOffset, count |-> mRegisterCount,
    word |-> word, service |-> mService ]

-----------------------------------------------------------------------------
(* DataIterator::DataIterator.  setError moves the iterator to the end.    *)
Construct(a, q, svc) ==
  LET k == StartEntry(a) IN
  /\ address = a /\ quantity = q /\ routes = svc
  /\ mQuantity = q
  /\ \/ /\ q <= 0
        /\ mCurrent = End /\ mError = "NoError"
        /\ mOffset = 0 /\ mRegisterCount = 0 /\ mService = NoService
     \/ /\ q > 0 /\ k = End
        /\ mCurrent = End /\ mError = "StartAddressError"
        /\ mOffset = 0 /\ mRegisterCount = 0 /\ mService = NoService
     \/ /\ q > 0 /\ k # End
        /\ mOffset = a - k
        /\ mRegisterCount = CountFrom(k, a, q)
        /\ mService = svc[TypeAt(k)]
        /\ \/ /\ svc[TypeAt(k)] = NoService
              /\ mCurrent = End /\ mError = "ServiceError"
           \/ /\ svc[TypeAt(k)] # NoService
              /\ mCurrent = k /\ mError = "NoError"

Init ==
  /\ \E a \in Addresses, q \in 0 .. MaxQuantity, svc \in RouteTable : Construct(a, q, svc)
  /\ word = 0
  /\ visited = {}

(* DataIterator::setError.                                                 *)
SetError(e) == mCurrent' = End /\ mError' = e

(* The entry at k starts where the current one ends.                       *)
AdjacentSkipsGap(k) == k # End
Adjacent(k) == k = mCurrent + SizeOf(mCurrent)

(* The service of the next entry: looked up only when the type changes.    *)
NextServiceKept(k) == mService
NextService(k) ==
  IF TypeAt(k) = TypeAt(mCurrent) THEN mService ELSE routes[TypeAt(k)]

(* The loop body, then DataIterator::next.                                 *)
Step ==
  LET left == mQuantity - mRegisterCount
      k    == Successor(mCurrent)
  IN
  /\ ~ AtEnd
  /\ visited' = visited \cup { Segment }
  /\ word' = word + mRegisterCount
  /\ mQuantity' = left
  /\ UNCHANGED args
  /\ \/ /\ left = 0
        /\ mCurrent' = End
        /\ UNCHANGED << mOffset, mRegisterCount, mService, mError >>
     \/ /\ left # 0
        /\ ~ Adjacent(k)
        /\ SetError("AddressError")
        /\ UNCHANGED << mOffset, mRegisterCount, mService >>
     \/ /\ left # 0
        /\ Adjacent(k)
        /\ mService' = NextService(k)
        /\ \/ /\ NextService(k) = NoService
              /\ SetError("AddressError")
              /\ UNCHANGED << mOffset, mRegisterCount >>
           \/ /\ NextService(k) # NoService
              /\ mCurrent' = k
              /\ mOffset' = 0
              /\ mRegisterCount' = CountFrom(k, k, left)
              /\ UNCHANGED mError

Next == Step

Spec == Init /\ [][Next]_vars

-----------------------------------------------------------------------------
(* Segments of the current entry stay inside it and inside the request.    *)
SegmentType ==
  [ entry : Registers, offset : Nat, count : Nat, word : Nat, service : Services ]

(* The iterator's fields and the processed segments have their types.      *)
TypeOK ==
  /\ address \in Addresses /\ quantity \in 0 .. MaxQuantity /\ routes \in RouteTable
  /\ mCurrent \in Registers \cup { End }
  /\ mQuantity \in Nat /\ mOffset \in Nat /\ mRegisterCount \in Nat /\ word \in Nat
  /\ mService \in Services \cup { NoService }
  /\ mError \in { "NoError", "StartAddressError", "AddressError", "ServiceError" }
  /\ visited \subseteq SegmentType

(* The assertions of the constructor and of next (mappings.cpp:636-659,    *)
(* 685), and what the loop bodies rely on: the iterator is inside an entry *)
(* and inside the request, what lies behind it and what lies before it     *)
(* make up the request, and mService, which next() keeps from entry to     *)
(* entry, is the service a fresh lookup for this entry would give.         *)
CursorInRequest ==
  ~ AtEnd =>
    /\ mRegisterCount \in 1 .. mQuantity
    /\ mOffset + mRegisterCount <= SizeOf(mCurrent)
    /\ mCurrent + mOffset + mQuantity = address + quantity
    /\ word + mQuantity = quantity
    /\ mService = routes[TypeAt(mCurrent)] /\ mService # NoService

(* Word w of the request's data belongs to register address + w: each      *)
(* segment is read into or written from the words of its own registers,    *)
(* whatever entries lie before it and wherever the request starts.  And    *)
(* when no error is reported every register was processed: a read answers  *)
(* with exactly 2 * quantity bytes.                                        *)
DataAligned ==
  /\ \A s \in visited : s.entry + s.offset = address + s.word
  /\ AtEnd /\ mError = "NoError" =>
       /\ word = quantity
       /\ \A x \in address .. address + quantity - 1 :
            \E s \in visited : x \in s.entry + s.offset .. s.entry + s.offset + s.count - 1

(* At its end the iterator has processed exactly the entries, and reports  *)
(* exactly the error, that the map and the services determine; the module  *)
(* Mappings uses these closed forms instead of the loops.                  *)
ComputesVisited ==
  AtEnd => /\ { s.entry : s \in visited } = Visited(routes, address, quantity)
           /\ mError = PassError(routes, address, quantity)
=============================================================================
