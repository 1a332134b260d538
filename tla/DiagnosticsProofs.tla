-------------------------- MODULE DiagnosticsProofs --------------------------
(***************************************************************************)
(* The list of services, for any services, instances and unit ID map, and  *)
(* every order in which services come, go and change their instances; and  *)
(* at the end the published error, for every interval, every delay of the  *)
(* timer's slot and every succession of errors.                            *)
(***************************************************************************)
EXTENDS Diagnostics, LastError, WellFoundedInduction, TLAPS

-----------------------------------------------------------------------------
(* Services announce the instances they may.                               *)
Announced == \A s \in Services : diValue[s] \in InstancesOf[s] \cup { NoValue }

(* The unit ID of an entry is one of the service it names.                 *)
UnitOfName ==
  \A n \in DOMAIN entries :
    \E v \in InstancesOf[entries[n].serviceName] : entries[n].unitId = GetUnitId[v]

IInv ==
  /\ TypeOK /\ Announced /\ UnitOfName
  /\ UnitsListedOnce /\ AllListed /\ ActiveWhileThere

-----------------------------------------------------------------------------
(* The first of some entries is one of them.                               *)
LEMMA MinIsMember ==
  ASSUME NEW S \in SUBSET Nat, S # {}
  PROVE  Min(S) \in S
<1>1. PICK x \in S : \A y \in S : ~ (<< y, x >> \in OpToRel(<, Nat))
  BY NatLessThanWellFounded, WFMin
<1>2. \A y \in S : ~ (y < x)
  BY <1>1, Zenon DEF OpToRel
<1>3. \A y \in S : x <= y
  BY <1>2
<1>. QED
  BY <1>3 DEF Min

(* What the assumptions on the constants say of instances and unit IDs.    *)
LEMMA ConstantFacts ==
  /\ NoService \notin Services /\ NoValue \notin Nat
  /\ \A s \in Services : InstancesOf[s] \subseteq Instances /\ InstancesOf[s] \subseteq Nat
  /\ Instances \subseteq Nat
  /\ \A v \in Instances : GetUnitId[v] \in Nat
BY DiagnosticsAssumption, GetUnitIdAssumption DEF Instances

(* The list L that follows entries names service s in its entry m, which   *)
(* is new only if the list had none of this type and unit ID; the others   *)
(* are as they were.                                                       *)
Lists(L, m, s, state) ==
  /\ L \in Seq(EntryType) /\ m \in DOMAIN L /\ DOMAIN L = DOMAIN entries \cup { m }
  /\ L[m].serviceName = s /\ L[m].isActive = Active(state)
  /\ \E v \in InstancesOf[s] : L[m].unitId = GetUnitId[v]
  /\ \A n \in DOMAIN entries \ { m } : L[n] = entries[n]
  /\ IF m \in DOMAIN entries
       THEN /\ L[m].unitId = entries[m].unitId
            /\ L[m].vrmInstanceId = entries[m].vrmInstanceId
            /\ TypeOf[s] = TypeOf[entries[m].serviceName]
       ELSE \A n \in DOMAIN entries :
              TypeOf[entries[n].serviceName] # TypeOf[s] \/ entries[n].unitId # L[m].unitId

(* What an entry is.                                                       *)
LEMMA EntryFacts ==
  ASSUME TypeOK, NEW n \in DOMAIN entries
  PROVE  /\ entries[n] \in EntryType /\ n \in Nat
         /\ entries[n].serviceName \in Services
<1>1. entries \in Seq(EntryType)
  BY DEF TypeOK
<1>2. entries[n] \in EntryType /\ n \in Nat
  BY <1>1
<1>. QED
  BY <1>2 DEF EntryType

(* An entry that is there is updated.                                      *)
LEMMA UpdatedLists ==
  ASSUME IInv, NEW s \in Services, NEW state, NEW m \in DOMAIN entries,
         TypeOf[entries[m].serviceName] = TypeOf[s],
         \E v \in InstancesOf[s] : entries[m].unitId = GetUnitId[v]
  PROVE  Lists(Updated(m, s, state), m, s, state)
<1>. DEFINE e == [entries[m] EXCEPT !.serviceName = s, !.isActive = Active(state)]
<1>1. TypeOK /\ entries \in Seq(EntryType) /\ entries[m] \in EntryType
  BY EntryFacts DEF IInv, TypeOK
<1>2. /\ e \in EntryType /\ e.serviceName = s /\ e.isActive = Active(state)
      /\ e.unitId = entries[m].unitId /\ e.vrmInstanceId = entries[m].vrmInstanceId
  BY <1>1 DEF EntryType, Active
<1>3. Updated(m, s, state) = [entries EXCEPT ![m] = e]
  BY DEF Updated
<1>. HIDE DEF e
<1>4. /\ [entries EXCEPT ![m] = e] \in Seq(EntryType)
      /\ DOMAIN [entries EXCEPT ![m] = e] = DOMAIN entries
      /\ [entries EXCEPT ![m] = e][m] = e
      /\ \A n \in DOMAIN entries \ { m } : [entries EXCEPT ![m] = e][n] = entries[n]
  BY <1>1, <1>2
<1>. QED
  BY <1>2, <1>3, <1>4 DEF Lists

(* The list once a service is shown.                                       *)
LEMMA ShownLists ==
  ASSUME IInv, NEW s \in Services, NEW state, NEW v \in InstancesOf[s]
  PROVE  \E m \in Nat : Lists(Shown(s, v, state), m, s, state)
                     /\ Shown(s, v, state)[m].unitId = GetUnitId[v]
<1>1. TypeOK /\ entries \in Seq(EntryType) /\ v \in Nat /\ v # NoValue
      /\ GetUnitId[v] \in Nat
  BY ConstantFacts DEF IInv, TypeOK
<1>2. CASE SameUnit(s, v) = {}
  <2>. DEFINE e == NewEntry(s, v, state)
              m == Len(entries) + 1
              L == Append(entries, e)
  <2>1. Shown(s, v, state) = L
    BY <1>1, <1>2 DEF Shown
  <2>2. /\ e \in EntryType /\ e.serviceName = s /\ e.isActive = Active(state)
        /\ e.unitId = GetUnitId[v]
    BY <1>1 DEF NewEntry, EntryType, Active
  <2>. HIDE DEF e
  <2>3. /\ L \in Seq(EntryType) /\ L[m] = e /\ m \in Nat
        /\ DOMAIN entries = 1 .. Len(entries) /\ DOMAIN L = 1 .. Len(entries) + 1
        /\ Len(entries) \in Nat
        /\ \A n \in 1 .. Len(entries) : L[n] = entries[n]
    BY <1>1, <2>2
  <2>4. /\ m \in DOMAIN L /\ m \notin DOMAIN entries /\ DOMAIN L = DOMAIN entries \cup { m }
        /\ \A n \in DOMAIN entries \ { m } : L[n] = entries[n]
    BY <2>3
  <2>. HIDE DEF L, m
  <2>5. \A n \in DOMAIN entries :
          TypeOf[entries[n].serviceName] # TypeOf[s] \/ entries[n].unitId # e.unitId
    BY <1>2, <2>2 DEF SameUnit
  <2>6. Lists(L, m, s, state)
    BY <2>2, <2>3, <2>4, <2>5 DEF Lists
  <2>. QED
    BY <2>1, <2>2, <2>3, <2>6
<1>3. CASE SameUnit(s, v) # {}
  <2>1. SameUnit(s, v) \in SUBSET Nat
    BY <1>1, EntryFacts DEF SameUnit
  <2>2. PICK m : m = Min(SameUnit(s, v)) /\ m \in SameUnit(s, v) /\ m \in Nat
    BY <1>3, <2>1, MinIsMember
  <2>3. /\ m \in DOMAIN entries /\ TypeOf[entries[m].serviceName] = TypeOf[s]
        /\ entries[m].unitId = GetUnitId[v]
    BY <2>2 DEF SameUnit
  <2>4. Shown(s, v, state) = Updated(m, s, state)
    BY <1>1, <1>3, <2>2 DEF Shown
  <2>5. Lists(Updated(m, s, state), m, s, state)
    BY <2>3, UpdatedLists
  <2>6. Updated(m, s, state)[m].unitId = GetUnitId[v]
    BY <2>3, <2>5 DEF Lists
  <2>. QED
    BY <2>2, <2>4, <2>5, <2>6
<1>. QED
  BY <1>2, <1>3

(* The list once a service is gone, if it is named at all.                 *)
LEMMA GoneLists ==
  ASSUME IInv, NEW s \in Services, SameName(s) # {}
  PROVE  \E m \in Nat : Lists(Gone(s), m, s, "Offline")
<1>1. SameName(s) \in SUBSET Nat
  BY EntryFacts DEF SameName, IInv
<1>2. PICK m : m = Min(SameName(s)) /\ m \in SameName(s) /\ m \in Nat
  BY <1>1, MinIsMember
<1>3. m \in DOMAIN entries /\ entries[m].serviceName = s
  BY <1>2 DEF SameName
<1>4. \E v \in InstancesOf[s] : entries[m].unitId = GetUnitId[v]
  BY <1>3 DEF IInv, UnitOfName
<1>5. Lists(Updated(m, s, "Offline"), m, s, "Offline")
  BY <1>3, <1>4, UpdatedLists
<1>6. Gone(s) = Updated(m, s, "Offline")
  BY <1>2 DEF Gone
<1>. QED
  BY <1>2, <1>5, <1>6

-----------------------------------------------------------------------------
(* The invariant holds initially.                                          *)
LEMMA InitIInv == Init => IInv
BY DiagnosticsAssumption DEF Init, IInv, TypeOK, Announced, UnitOfName, UnitsListedOnce,
  AllListed, ActiveWhileThere

(* A step of service s, whose entry m is created or updated with the state *)
(* of the service.                                                         *)
LEMMA ListsIInv ==
  ASSUME IInv, NEW s \in Services, NEW m \in Nat,
         Lists(entries', m, s, rootState'[s]), UNCHANGED found,
         rootState' \in [Services -> { "Idle", "Synchronized", "Offline" }],
         diValue' \in [Services -> Instances \cup { NoValue }],
         diValue'[s] \in InstancesOf[s] \cup { NoValue },
         \A o \in Services \ { s } : rootState'[o] = rootState[o] /\ diValue'[o] = diValue[o],
         diValue'[s] # NoValue => \/ diValue'[s] = diValue[s]
                                  \/ entries'[m].unitId = GetUnitId[diValue'[s]]
  PROVE  IInv'
<1>1. /\ entries' \in Seq(EntryType) /\ m \in DOMAIN entries'
      /\ DOMAIN entries' = DOMAIN entries \cup { m }
      /\ entries'[m].serviceName = s /\ entries'[m].isActive = Active(rootState'[s])
      /\ \E v \in InstancesOf[s] : entries'[m].unitId = GetUnitId[v]
      /\ \A n \in DOMAIN entries \ { m } : entries'[n] = entries[n]
  BY DEF Lists
<1>2. \A n \in DOMAIN entries :
        /\ entries'[n].unitId = entries[n].unitId
        /\ TypeOf[entries'[n].serviceName] = TypeOf[entries[n].serviceName]
  BY <1>1 DEF Lists
<1>3. m \notin DOMAIN entries =>
        \A n \in DOMAIN entries :
          TypeOf[entries[n].serviceName] # TypeOf[s] \/ entries[n].unitId # entries'[m].unitId
  BY DEF Lists
<1>4. TypeOK' /\ Announced'
  BY <1>1 DEF IInv, TypeOK, Announced
<1>5. UnitOfName'
  BY <1>1 DEF IInv, UnitOfName
<1>6. UnitsListedOnce'
  <2>. SUFFICES ASSUME NEW k \in DOMAIN entries', NEW n \in DOMAIN entries',
                       TypeOf[entries'[k].serviceName] = TypeOf[entries'[n].serviceName],
                       entries'[k].unitId = entries'[n].unitId
                PROVE  k = n
    BY DEF UnitsListedOnce
  <2>1. CASE k \in DOMAIN entries /\ n \in DOMAIN entries
    BY <1>2, <2>1 DEF IInv, UnitsListedOnce
  <2>2. CASE k \notin DOMAIN entries
    BY <1>1, <1>2, <1>3, <2>2
  <2>3. CASE n \notin DOMAIN entries
    BY <1>1, <1>2, <1>3, <2>3
  <2>. QED
    BY <2>1, <2>2, <2>3
<1>7. AllListed'
  <2>. SUFFICES ASSUME NEW o \in Services, diValue'[o] # NoValue
                PROVE  \E n \in DOMAIN entries' :
                         /\ TypeOf[entries'[n].serviceName] = TypeOf[o]
                         /\ entries'[n].unitId = GetUnitId[diValue'[o]]
    BY DEF AllListed
  <2>1. CASE diValue'[o] = diValue[o]
    <3>1. PICK n \in DOMAIN entries :
            /\ TypeOf[entries[n].serviceName] = TypeOf[o]
            /\ entries[n].unitId = GetUnitId[diValue[o]]
      BY <2>1 DEF IInv, AllListed
    <3>. QED
      BY <1>1, <1>2, <2>1, <3>1
  <2>2. CASE diValue'[o] # diValue[o]
    BY <1>1, <2>2
  <2>. QED
    BY <2>1, <2>2
<1>8. ActiveWhileThere'
  <2>. SUFFICES ASSUME NEW n \in DOMAIN entries',
                       NEW v \in Instances, InstancesOf[entries'[n].serviceName] = { v }
                PROVE  LET o == entries'[n].serviceName IN
                       /\ entries'[n].isActive = 1 => rootState'[o] # "Offline"
                       /\ rootState'[o] # "Offline" /\ diValue'[o] # NoValue => entries'[n].isActive = 1
    BY DEF ActiveWhileThere
  <2>1. CASE entries'[n].serviceName = s
    <3>1. entries'[n].unitId = entries'[m].unitId
      BY <1>1, <1>5, <2>1 DEF UnitOfName
    <3>2. n = m
      BY <1>1, <1>6, <2>1, <3>1 DEF UnitsListedOnce
    <3>. QED
      BY <1>1, <2>1, <3>2 DEF Active
  <2>2. CASE entries'[n].serviceName # s
    <3>1. n \in DOMAIN entries /\ entries'[n] = entries[n]
      BY <1>1, <2>2
    <3>2. entries[n].serviceName \in Services \ { s }
      BY <2>2, <3>1, EntryFacts DEF IInv
    <3>. QED
      BY <2>2, <3>1, <3>2 DEF IInv, ActiveWhileThere
  <2>. QED
    BY <2>1, <2>2
<1>. QED
  BY <1>4, <1>5, <1>6, <1>7, <1>8 DEF IInv

(* A step of service s that leaves the list as it is.                      *)
LEMMA SilentIInv ==
  ASSUME IInv, NEW s \in Services, UNCHANGED entries,
         found' \subseteq Services,
         rootState' \in [Services -> { "Idle", "Synchronized", "Offline" }],
         diValue' \in [Services -> Instances \cup { NoValue }],
         \A o \in Services \ { s } : rootState'[o] = rootState[o] /\ diValue'[o] = diValue[o],
         \/ UNCHANGED << rootState, diValue >>
         \/ diValue'[s] = NoValue /\ (rootState'[s] = "Offline" => rootState[s] = "Offline")
         \/ SameName(s) = {} /\ diValue'[s] = diValue[s]
  PROVE  IInv'
<1>1. \A o \in Services : diValue'[o] # NoValue => diValue'[o] = diValue[o]
  OBVIOUS
<1>2. TypeOK' /\ Announced' /\ UnitOfName' /\ UnitsListedOnce'
  BY <1>1 DEF IInv, TypeOK, Announced, UnitOfName, UnitsListedOnce
<1>3. AllListed'
  BY <1>1 DEF IInv, AllListed
<1>4. ActiveWhileThere'
  <2>. SUFFICES ASSUME NEW n \in DOMAIN entries,
                       NEW v \in Instances, InstancesOf[entries[n].serviceName] = { v }
                PROVE  LET o == entries[n].serviceName IN
                       /\ entries[n].isActive = 1 => rootState'[o] # "Offline"
                       /\ rootState'[o] # "Offline" /\ diValue'[o] # NoValue => entries[n].isActive = 1
    BY DEF ActiveWhileThere
  <2>1. PICK o \in Services : o = entries[n].serviceName
    BY EntryFacts DEF IInv
  <2>2. /\ entries[n].isActive = 1 => rootState[o] # "Offline"
        /\ rootState[o] # "Offline" /\ diValue[o] # NoValue => entries[n].isActive = 1
    BY <2>1 DEF IInv, ActiveWhileThere
  <2>3. o = s => SameName(s) # {}
    BY <2>1 DEF SameName
  <2>. QED
    BY <2>1, <2>2, <2>3
<1>. QED
  BY <1>2, <1>3, <1>4 DEF IInv

-----------------------------------------------------------------------------
(* What a step does to the list: nothing, or it names service s in one of  *)
(* its entries.                                                            *)
ListStep(s) == UNCHANGED entries \/ \E m \in Nat : Lists(entries', m, s, rootState'[s])

(* A service is found.                                                     *)
LEMMA OnServiceFoundIInv ==
  ASSUME IInv, NEW s \in Services, OnServiceFound(s)
  PROVE  IInv' /\ ListStep(s)
<1>1. /\ UNCHANGED << rootState, diValue, entries >> /\ found' \subseteq Services
      /\ TypeOK
  BY DEF IInv, TypeOK, OnServiceFound
<1>. QED
  BY <1>1, SilentIInv DEF TypeOK, ListStep

(* The instance of a service becomes known, unknown or another one.        *)
LEMMA OnDeviceInstanceChangedIInv ==
  ASSUME IInv, NEW s \in Services, OnDeviceInstanceChanged(s)
  PROVE  IInv' /\ ListStep(s)
<1>1. PICK v \in InstancesOf[s] \cup { NoValue } :
        diValue' = [diValue EXCEPT ![s] = v] /\ entries' = Shown(s, v, rootState[s])
  BY DEF OnDeviceInstanceChanged
<1>2. /\ TypeOK /\ UNCHANGED << found, rootState >>
      /\ diValue' \in [Services -> Instances \cup { NoValue }] /\ diValue'[s] = v
      /\ \A o \in Services \ { s } : diValue'[o] = diValue[o]
  BY <1>1, ConstantFacts DEF IInv, TypeOK, OnDeviceInstanceChanged
<1>3. CASE v = NoValue
  <2>1. UNCHANGED entries
    BY <1>1, <1>3 DEF Shown
  <2>. QED
    BY <1>2, <1>3, <2>1, SilentIInv DEF TypeOK, ListStep
<1>4. CASE v # NoValue
  <2>1. PICK m \in Nat : Lists(entries', m, s, rootState[s]) /\ entries'[m].unitId = GetUnitId[v]
    BY <1>1, <1>4, ShownLists
  <2>. QED
    BY <1>2, <2>1, ListsIInv DEF TypeOK, ListStep
<1>. QED
  BY <1>3, <1>4

(* A service goes or comes back.                                           *)
LEMMA OnServiceStateChangedIInv ==
  ASSUME IInv, NEW s \in Services, OnServiceStateChanged(s)
  PROVE  IInv' /\ ListStep(s)
<1>1. PICK state \in { "Synchronized", "Offline" } :
        /\ rootState' = [rootState EXCEPT ![s] = state]
        /\ \/ state = "Offline" /\ entries' = Gone(s)
           \/ state # "Offline" /\ entries' = Shown(s, diValue[s], state)
  BY DEF OnServiceStateChanged
<1>2. /\ TypeOK /\ UNCHANGED << found, diValue >>
      /\ rootState' \in [Services -> { "Idle", "Synchronized", "Offline" }] /\ rootState'[s] = state
      /\ \A o \in Services \ { s } : rootState'[o] = rootState[o]
      /\ diValue[s] \in InstancesOf[s] \cup { NoValue }
  BY <1>1 DEF IInv, TypeOK, Announced, OnServiceStateChanged
<1>3. ASSUME NEW m \in Nat, Lists(entries', m, s, state)
      PROVE  IInv' /\ ListStep(s)
  BY <1>2, <1>3, ListsIInv DEF TypeOK, ListStep
<1>4. CASE state = "Offline" /\ SameName(s) = {}
  <2>1. UNCHANGED entries
    BY <1>1, <1>4 DEF Gone
  <2>. QED
    BY <1>2, <1>4, <2>1, SilentIInv DEF TypeOK, ListStep
<1>5. CASE state = "Offline" /\ SameName(s) # {}
  BY <1>1, <1>3, <1>5, GoneLists
<1>6. CASE state # "Offline" /\ diValue[s] = NoValue
  <2>1. UNCHANGED entries
    BY <1>1, <1>6 DEF Shown
  <2>. QED
    BY <1>2, <1>6, <2>1, SilentIInv DEF TypeOK, ListStep
<1>7. CASE state # "Offline" /\ diValue[s] # NoValue
  <2>1. PICK v \in InstancesOf[s] : v = diValue[s]
    BY <1>2, <1>7
  <2>2. entries' = Shown(s, v, state)
    BY <1>1, <1>7, <2>1
  <2>. QED
    BY <1>3, <2>2, ShownLists
<1>. QED
  BY <1>4, <1>5, <1>6, <1>7

(* Every step keeps the invariant, and names one service at most.          *)
LEMMA NextIInv ==
  ASSUME IInv, Next
  PROVE  IInv' /\ \E s \in Services : ListStep(s)
BY OnServiceFoundIInv, OnDeviceInstanceChangedIInv, OnServiceStateChangedIInv DEF Next

(* The invariant holds always.                                             *)
THEOREM SpecIInv == Spec => []IInv
<1>1. IInv /\ UNCHANGED diagnosticsVars => IInv'
  BY DEF IInv, TypeOK, Announced, UnitOfName, UnitsListedOnce, AllListed, ActiveWhileThere,
    diagnosticsVars
<1>2. IInv /\ [Next]_diagnosticsVars => IInv'
  BY <1>1, NextIInv
<1>. QED
  BY <1>2, InitIInv, PTL DEF Spec

(* The variables keep their types, and every entry has a name.             *)
THEOREM TypeCorrect == Spec => []TypeOK
BY SpecIInv, PTL DEF IInv

(* What a client reads at a unit ID is listed once.                        *)
THEOREM ListedOnce == Spec => []UnitsListedOnce
BY SpecIInv, PTL DEF IInv

(* A service whose instance is known is listed under its unit ID.          *)
THEOREM EveryServiceListed == Spec => []AllListed
BY SpecIInv, PTL DEF IInv

(* Of services that keep their instance, an entry is active while the one  *)
(* it names is there.                                                      *)
THEOREM ActiveIsThere == Spec => []ActiveWhileThere
BY SpecIInv, PTL DEF IInv

(* Entries keep their place, their type and their unit ID for ever.        *)
THEOREM EntriesAreKept == Spec => EntriesKept
<1>. DEFINE Kept(n) == /\ n \in DOMAIN entries'
                       /\ entries'[n].unitId = entries[n].unitId
                       /\ entries'[n].vrmInstanceId = entries[n].vrmInstanceId
                       /\ TypeOf[entries'[n].serviceName] = TypeOf[entries[n].serviceName]
<1>1. ASSUME IInv, Next, NEW n \in DOMAIN entries
      PROVE  Kept(n)
  <2>1. PICK s \in Services : ListStep(s)
    BY <1>1, NextIInv
  <2>2. CASE UNCHANGED entries
    BY <2>2
  <2>3. ASSUME NEW m \in Nat, Lists(entries', m, s, rootState'[s])
        PROVE  Kept(n)
    <3>1. CASE n = m
      BY <2>3, <3>1 DEF Lists
    <3>2. CASE n # m
      BY <2>3, <3>2 DEF Lists
    <3>. QED
      BY <3>1, <3>2
  <2>. QED
    BY <2>1, <2>2, <2>3 DEF ListStep
<1>2. IInv /\ [Next]_diagnosticsVars
        => [\A n \in DOMAIN entries : Kept(n)]_diagnosticsVars
  BY <1>1
<1>. QED
  BY <1>2, SpecIInv, PTL DEF Spec, EntriesKept

-----------------------------------------------------------------------------
(* What a timer that runs says of the errors that wait: it was started by  *)
(* the first of them, not before the last publication; and the event loop  *)
(* does not miss it.  The last error is always at hand.                    *)
LastErrorIInv ==
  /\ LastErrorTypeOK
  /\ mLastError = latest
  /\ LatestPublished
  /\ publishedAt # Never => publishedAt <= now
  /\ expires # Never =>
       /\ expires = waitingSince + Interval
       /\ waitingSince <= now /\ now <= expires + MaxDelay
       /\ publishedAt # Never => publishedAt <= waitingSince

(* What an error is.                                                       *)
LEMMA ErrorFacts ==
  ASSUME NEW message \in Messages, now \in Times
  PROVE  Error(message) \in ErrorType
BY DEF Error, ErrorType

(* The invariant holds initially.                                          *)
LEMMA InitLastErrorIInv == LastErrorInit => LastErrorIInv
<1>. SUFFICES ASSUME LastErrorInit PROVE LastErrorIInv
  OBVIOUS
<1>1. LastErrorTypeOK
  BY LastErrorAssumption DEF LastErrorInit, LastErrorTypeOK, Times, ErrorType, Never
<1>. QED
  BY <1>1 DEF LastErrorInit, LastErrorIInv, LatestPublished

(* An error that is logged while the timer runs waits for the same slot.   *)
LEMMA SetErrorIInv ==
  ASSUME LastErrorIInv, NEW message \in Messages, SetError(message)
  PROVE  LastErrorIInv'
<1>1. LastErrorTypeOK /\ now \in Nat /\ Interval \in Nat \ {0} /\ MaxDelay \in Nat
  BY LastErrorAssumption DEF LastErrorIInv, LastErrorTypeOK, Times
<1>2. UNCHANGED << now, published, publishedAt >>
  BY DEF SetError, Log
<1>3. mLastError' = Error(message) /\ latest' = Error(message)
  BY DEF SetError, Log
<1>4. CASE expires = Never
  <2>1. expires' = now + Interval /\ waitingSince' = now
    BY <1>1, <1>4 DEF SetError, Log, LastErrorTypeOK
  <2>2. LastErrorTypeOK'
    BY <1>1, <1>2, <1>3, <2>1, ErrorFacts DEF LastErrorTypeOK, Times, Never
  <2>. QED
    BY <1>1, <1>2, <1>3, <2>1, <2>2 DEF LastErrorIInv, LatestPublished, Never, LastErrorTypeOK, Times
<1>5. CASE expires # Never
  <2>1. expires' = expires /\ waitingSince' = waitingSince
    BY <1>1, <1>5 DEF SetError, Log, LastErrorTypeOK
  <2>2. LastErrorTypeOK'
    BY <1>1, <1>2, <1>3, <2>1, ErrorFacts DEF LastErrorTypeOK
  <2>. QED
    BY <1>2, <1>3, <1>5, <2>1, <2>2 DEF LastErrorIInv, LatestPublished
<1>. QED
  BY <1>4, <1>5

(* The slot publishes what was logged last.                                *)
LEMMA OnLastErrorTimerIInv ==
  ASSUME LastErrorIInv, OnLastErrorTimer
  PROVE  LastErrorIInv'
<1>1. /\ UNCHANGED << now, mLastError, latest >>
      /\ expires' = Never /\ waitingSince' = Never
      /\ published' = mLastError /\ publishedAt' = now
  BY DEF OnLastErrorTimer, Expired
<1>2. LastErrorTypeOK /\ now \in Nat /\ mLastError = latest
  BY LastErrorAssumption DEF LastErrorIInv, LastErrorTypeOK, Times
<1>3. LastErrorTypeOK'
  BY <1>1, <1>2 DEF LastErrorTypeOK, Times
<1>. QED
  BY <1>1, <1>2, <1>3 DEF LastErrorIInv, LatestPublished

(* Time passes, but not beyond the moment when the slot must have run.     *)
LEMMA TickIInv ==
  ASSUME LastErrorIInv, Tick
  PROVE  LastErrorIInv'
<1>1. /\ UNCHANGED << mLastError, expires, published, publishedAt, latest, waitingSince >>
      /\ now' = now + 1 /\ now < MaxTime
      /\ expires # Never => now < expires + MaxDelay
  BY DEF Tick
<1>2. LastErrorTypeOK /\ now \in Nat /\ Interval \in Nat \ {0} /\ MaxDelay \in Nat /\ MaxTime \in Nat
  BY LastErrorAssumption DEF LastErrorIInv, LastErrorTypeOK, Times
<1>3. LastErrorTypeOK'
  BY <1>1, <1>2 DEF LastErrorTypeOK, Times
<1>4. publishedAt' # Never => publishedAt' <= now'
  BY <1>1, <1>2 DEF LastErrorIInv, LastErrorTypeOK, Times, Never
<1>5. expires' # Never =>
        /\ expires' = waitingSince' + Interval
        /\ waitingSince' <= now' /\ now' <= expires' + MaxDelay
        /\ publishedAt' # Never => publishedAt' <= waitingSince'
  BY <1>1, <1>2 DEF LastErrorIInv, LastErrorTypeOK, Times, Never
<1>. QED
  BY <1>1, <1>3, <1>4, <1>5 DEF LastErrorIInv, LatestPublished

(* The invariant holds always.                                             *)
THEOREM LastErrorInvariance == LastErrorSpec => []LastErrorIInv
<1>1. LastErrorIInv /\ UNCHANGED lastErrorVars => LastErrorIInv'
  BY DEF LastErrorIInv, LastErrorTypeOK, LatestPublished, lastErrorVars
<1>2. LastErrorIInv /\ [LastErrorNext]_lastErrorVars => LastErrorIInv'
  BY <1>1, SetErrorIInv, OnLastErrorTimerIInv, TickIInv DEF LastErrorNext
<1>. QED
  BY <1>2, InitLastErrorIInv, PTL DEF LastErrorSpec

(* The variables keep their types, and the timer runs exactly while an     *)
(* error waits.                                                            *)
THEOREM LastErrorTypeCorrect == LastErrorSpec => []LastErrorTypeOK
BY LastErrorInvariance, PTL DEF LastErrorIInv

(* When nothing waits any more, the error published is the last one that   *)
(* was logged, with the time at which it was.                              *)
THEOREM LatestIsPublished == LastErrorSpec => []LatestPublished
BY LastErrorInvariance, PTL DEF LastErrorIInv

(* No error waits longer than the timer's interval and its delay, however  *)
(* many follow it.                                                         *)
THEOREM PublicationInTime == LastErrorSpec => []PublishedInTime
<1>1. LastErrorIInv => PublishedInTime
  BY LastErrorAssumption DEF LastErrorIInv, PublishedInTime, LastErrorTypeOK, Times, Never
<1>. QED
  BY <1>1, LastErrorInvariance, PTL

(* Between two publications lies at least the interval, less what the      *)
(* timer may be early.                                                     *)
THEOREM PublicationsAreLimited == LastErrorSpec => RateLimited
<1>1. LastErrorIInv /\ [LastErrorNext]_lastErrorVars
        => [published' # published /\ publishedAt # Never
              => now >= publishedAt + Interval - MaxEarly]_lastErrorVars
  <2>. SUFFICES ASSUME LastErrorIInv, LastErrorNext, published' # published, publishedAt # Never
                PROVE  now >= publishedAt + Interval - MaxEarly
    OBVIOUS
  <2>1. OnLastErrorTimer
    BY DEF LastErrorNext, SetError, Tick
  <2>. QED
    BY <2>1, LastErrorAssumption DEF OnLastErrorTimer, Expired, LastErrorIInv, LastErrorTypeOK, Times, Never
<1>. QED
  BY <1>1, LastErrorInvariance, PTL DEF LastErrorSpec, RateLimited
=============================================================================
