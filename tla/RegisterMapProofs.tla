------------------------- MODULE RegisterMapProofs -------------------------
(***************************************************************************)
(* Lemmas about minima and maxima of sets of numbers, and about the        *)
(* operators of module RegisterMap, for the proofs of the modules that     *)
(* use them.                                                               *)
(***************************************************************************)
EXTENDS RegisterMap, FiniteSetsExt, WellFoundedInduction, TLAPS

-----------------------------------------------------------------------------
(* Minima and maxima of sets of naturals.                                  *)

(* A nonempty set of naturals has a minimum, and Min is it.                *)
LEMMA MinIsMinimum ==
  ASSUME NEW S \in SUBSET Nat, S # {}
  PROVE  Min(S) \in S /\ \A y \in S : Min(S) <= y
<1>1. PICK x \in S : \A y \in S : ~ (<< y, x >> \in OpToRel(<, Nat))
  BY NatLessThanWellFounded, WFMin
<1>2. \A y \in S : ~ (y < x)
  BY <1>1, Zenon DEF OpToRel
<1>3. \A y \in S : x <= y
  BY <1>2
<1>. QED
  BY <1>3 DEF Min

(* A nonempty set of naturals below b has a maximum, and Max is it.        *)
LEMMA MaxIsMaximum ==
  ASSUME NEW b \in Nat, NEW S \in SUBSET (0 .. b), S # {}
  PROVE  Max(S) \in S /\ \A y \in S : Max(S) >= y
<1>. DEFINE D == { b - y : y \in S }
<1>1. D \in SUBSET Nat /\ D # {}
  <2>1. \A y \in S : b - y \in Nat
    OBVIOUS
  <2>2. PICK y \in S : TRUE
    OBVIOUS
  <2>3. b - y \in D
    BY <2>2
  <2>. QED
    BY <2>1, <2>3
<1>2. Min(D) \in D /\ \A d \in D : Min(D) <= d
  BY <1>1, MinIsMinimum
<1>3. PICK x \in S : Min(D) = b - x
  BY <1>2
<1>4. ASSUME NEW y \in S PROVE x >= y
  <2>1. b - y \in D
    OBVIOUS
  <2>2. b - x <= b - y
    BY <1>2, <1>3, <2>1
  <2>. QED
    BY <2>2
<1>. QED
  BY <1>4 DEF Max

(* The smaller of two numbers.                                             *)
LEMMA MinOfTwo ==
  ASSUME NEW a \in Int, NEW b \in Int
  PROVE  Min({ a, b }) = IF a <= b THEN a ELSE b
<1>1. CASE a <= b
  BY <1>1 DEF Min
<1>2. CASE ~ (a <= b)
  BY <1>2 DEF Min
<1>. QED
  BY <1>1, <1>2

-----------------------------------------------------------------------------
(* The register map.                                                       *)

(* Registers are naturals, sizes are positive, and a route table yields    *)
(* services.                                                               *)
LEMMA RegisterFacts ==
  /\ \A k \in Registers : k \in Nat /\ SizeOf(k) \in Nat \ {0} /\ TypeAt(k) \in DeviceTypes
  /\ \A svc \in RouteTable, k \in Registers : svc[TypeAt(k)] \in Services \cup { NoService }
<1>1. \A k \in Registers : DBusModbusMap[k] \in DBusModbusData
  BY MapAssumption DEF Registers
<1>2. \A k \in Registers : SizeOf(k) \in Nat \ {0} /\ TypeAt(k) \in DeviceTypes
  BY <1>1 DEF DBusModbusData, SizeOf, TypeAt
<1>. QED
  BY <1>2, MapAssumption DEF RouteTable

(* No register belongs to two entries.                                     *)
LEMMA UniqueCover ==
  ASSUME NEW j \in Registers, NEW k \in Registers, NEW x \in Nat,
         Covers(j, x), Covers(k, x)
  PROVE  j = k
BY RegisterFacts, NoOverlapAssumption DEF Covers, SizeOf

(* All registers of an entry are answerable when one is.                   *)
LEMMA AnswerableEntry ==
  ASSUME NEW svc, NEW k \in Registers, NEW x \in Nat, Covers(k, x)
  PROVE  Answerable(svc, x) <=> svc[TypeAt(k)] # NoService
BY UniqueCover DEF Answerable

(* A pass visits entries of the request only, each with a service that     *)
(* answers for it: the iterator never hands out a null service.            *)
LEMMA VisitedFacts ==
  ASSUME NEW svc \in RouteTable, NEW addr \in Nat, NEW qty \in Nat
  PROVE  \A k \in Visited(svc, addr, qty) :
           /\ k \in Registers /\ k < addr + qty /\ addr < k + SizeOf(k)
           /\ svc[TypeAt(k)] \in Services
<1>. SUFFICES ASSUME NEW k \in Visited(svc, addr, qty)
              PROVE  svc[TypeAt(k)] \in Services
  BY DEF Visited
<1>1. /\ k \in Registers /\ addr < k + SizeOf(k)
      /\ \A x \in addr .. k + SizeOf(k) - 1 : Answerable(svc, x)
  BY DEF Visited
<1>. DEFINE x == k + SizeOf(k) - 1
<1>2. x \in addr .. k + SizeOf(k) - 1 /\ x \in Nat /\ Covers(k, x)
  BY <1>1, RegisterFacts DEF Covers
<1>3. svc[TypeAt(k)] # NoService
  BY <1>1, <1>2, AnswerableEntry
<1>. QED
  BY <1>1, <1>3, RegisterFacts

(* A pass without an error has every entry the request overlaps in it, and *)
(* every register of the request is mapped and answered for.               *)
LEMMA CompletePass ==
  ASSUME NEW svc \in RouteTable, NEW addr \in Nat, NEW qty \in Nat \ {0},
         PassError(svc, addr, qty) = "NoError"
  PROVE  /\ \A x \in addr .. addr + qty - 1 : Answerable(svc, x)
         /\ Visited(svc, addr, qty) =
              { k \in Registers : k < addr + qty /\ addr < k + SizeOf(k) }
<1>1. /\ Startable(addr)
      /\ \A x \in addr .. addr + qty - 1 : Answerable(svc, x)
  BY DEF PassError
<1>2. ASSUME NEW k \in Registers, k < addr + qty, addr < k + SizeOf(k),
             NEW x \in addr .. k + SizeOf(k) - 1
      PROVE  Answerable(svc, x)
  <2>1. CASE x < addr + qty
    BY <1>1, <2>1
  <2>2. CASE x >= addr + qty
    <3>. DEFINE y == addr + qty - 1
    <3>1. y \in addr .. addr + qty - 1 /\ y \in Nat /\ x \in Nat
      OBVIOUS
    <3>2. Covers(k, y) /\ Covers(k, x)
      BY <1>2, <2>2, RegisterFacts DEF Covers
    <3>. QED
      BY <1>1, <3>1, <3>2, AnswerableEntry
  <2>. QED
    BY <1>2, <2>1, <2>2, RegisterFacts
<1>. QED
  BY <1>1, <1>2 DEF Visited

(* The error of a pass is one of MappingErrors.                            *)
LEMMA PassErrorType ==
  ASSUME NEW svc, NEW addr \in Nat, NEW qty \in Nat
  PROVE  PassError(svc, addr, qty) \in Errors
<1>1. CASE qty <= 0
  BY <1>1 DEF PassError, Errors
<1>2. CASE qty > 0 /\ ~ Startable(addr)
  BY <1>2 DEF PassError, Errors
<1>3. CASE qty > 0 /\ Startable(addr) /\ ~ Answerable(svc, addr)
  BY <1>3 DEF PassError, Errors
<1>4. CASE qty > 0 /\ Startable(addr) /\ Answerable(svc, addr)
  BY <1>4 DEF PassError, Errors
<1>. QED
  BY <1>1, <1>2, <1>3, <1>4
=============================================================================
