------------------------- MODULE DBusServicesProofs -------------------------
(***************************************************************************)
(* The registry of services and the resolution of unit IDs, for any        *)
(* services, instances and unit ID file.                                   *)
(***************************************************************************)
EXTENDS DBusServices, WellFoundedInduction, TLAPS

-----------------------------------------------------------------------------
(* An instance that is known is one.                                       *)
KnownInstances == \A s \in Services : diState[s] = "Synchronized" => diValue[s] \in Instances

RegistryTypes ==
  /\ children \in Seq(Services)
  /\ scanned \in 0 .. Len(children)
  /\ listening \in BOOLEAN
  /\ mServiceByType \in [DeviceTypes -> Seq(Services)]
  /\ rootState \in [Services -> { "Online", "Offline" }]
  /\ diState \in [Services -> { "Idle", "Requested", "Synchronized", "Offline" }]
  /\ diValue \in [Services -> Instances \cup { NoValue }]

IInv == RegistryTypes /\ KnownInstances /\ RegistryComplete

-----------------------------------------------------------------------------
(* Lists of services.                                                      *)

(* What a sequence is once an element is appended.                         *)
LEMMA AppendFacts ==
  ASSUME NEW S, NEW L \in Seq(S), NEW x \in S
  PROVE  /\ Append(L, x) \in Seq(S)
         /\ \E n \in Nat :
              /\ DOMAIN L = 1 .. n /\ DOMAIN Append(L, x) = 1 .. n + 1
              /\ \A i \in 1 .. n : Append(L, x)[i] = L[i]
              /\ Append(L, x)[n + 1] = x
         /\ ToSet(Append(L, x)) = ToSet(L) \cup { x }
<1>. DEFINE n == Len(L)
<1>1. n \in Nat /\ DOMAIN L = 1 .. n
  OBVIOUS
<1>2. Append(L, x) \in Seq(S) /\ Len(Append(L, x)) = n + 1
  OBVIOUS
<1>3. DOMAIN Append(L, x) = 1 .. n + 1
  BY <1>2
<1>4. \A i \in 1 .. n : Append(L, x)[i] = L[i]
  OBVIOUS
<1>5. Append(L, x)[n + 1] = x
  OBVIOUS
<1>. HIDE DEF n
<1>6. ToSet(Append(L, x)) = ToSet(L) \cup { x }
  BY <1>1, <1>3, <1>4, <1>5 DEF ToSet
<1>. QED
  BY <1>1, <1>2, <1>3, <1>4, <1>5, <1>6

(* The last of some places in a list is one of them.                       *)
LEMMA MaxIsMember ==
  ASSUME NEW n \in Nat, NEW P \in SUBSET (1 .. n), P # {}
  PROVE  Max(P) \in P
<1>. DEFINE D == { n - y : y \in P }
<1>1. D \in SUBSET Nat /\ D # {}
  <2>1. PICK y \in P : TRUE
    OBVIOUS
  <2>2. n - y \in D
    OBVIOUS
  <2>3. \A z \in P : n - z \in Nat
    OBVIOUS
  <2>. QED
    BY <2>2, <2>3
<1>2. PICK d \in D : \A e \in D : ~ (<< e, d >> \in OpToRel(<, Nat))
  BY <1>1, NatLessThanWellFounded, WFMin
<1>3. \A e \in D : ~ (e < d)
  BY <1>1, <1>2, Zenon DEF OpToRel
<1>4. PICK x \in P : d = n - x
  BY <1>2
<1>5. ASSUME NEW y \in P PROVE x >= y
  <2>1. n - y \in D
    OBVIOUS
  <2>2. ~ (n - y < n - x)
    BY <1>3, <1>4, <2>1
  <2>3. n \in Nat /\ x \in 1 .. n /\ y \in 1 .. n
    OBVIOUS
  <2>. QED
    BY <2>2, <2>3
<1>. QED
  BY <1>5 DEF Max

-----------------------------------------------------------------------------
(* The invariant holds initially.                                          *)
LEMMA InitIInv == Init => IInv
<1>. SUFFICES ASSUME Init PROVE IInv
  OBVIOUS
<1>1. RegistryTypes
  <2>1. children \in Seq(Services) /\ scanned \in 0 .. Len(children)
    BY DEF Init
  <2>2. << >> \in Seq(Services)
    OBVIOUS
  <2>3. mServiceByType \in [DeviceTypes -> Seq(Services)]
    BY <2>2 DEF Init
  <2>. QED
    BY <2>1, <2>3 DEF Init, RegistryTypes
<1>2. KnownInstances
  BY DEF Init, KnownInstances
<1>3. Shown = {}
  BY DEF Init, Shown
<1>4. \A t \in DeviceTypes : DOMAIN mServiceByType[t] = {} /\ ToSet(mServiceByType[t]) = {}
  BY DEF Init, ToSet
<1>. QED
  BY <1>1, <1>2, <1>3, <1>4 DEF IInv, RegistryComplete

(* The keys of the registry, by the lists.                                 *)
LEMMA RegisteredByType ==
  ASSUME IInv, NEW s \in Services
  PROVE  s \in Registered(mServiceByType) <=> s \in ToSet(mServiceByType[TypeOf[s]])
<1>1. TypeOf[s] \in DeviceTypes
  BY ServicesAssumption
<1>2. ASSUME NEW t \in DeviceTypes, s \in ToSet(mServiceByType[t])
      PROVE  t = TypeOf[s]
  BY <1>2 DEF IInv, RegistryComplete
<1>. QED
  BY <1>1, <1>2 DEF Registered

(* Every service of the registry is asked for its instance.                *)
LEMMA AskedInstances ==
  ASSUME IInv, AskInstances
  PROVE  /\ diState' \in [Services -> { "Idle", "Requested", "Synchronized", "Offline" }]
         /\ \A s \in Services :
              /\ diState'[s] = "Synchronized" <=> diState[s] = "Synchronized"
              /\ s \in Registered(mServiceByType') => diState'[s] # "Idle"
BY DEF IInv, RegistryTypes, AskInstances

(* A child is shown to onServiceAdded, behind those shown before.          *)
LEMMA AddIInv ==
  ASSUME IInv, NEW s \in Services, NEW q \in Nat,
         mServiceByType' = Add(mServiceByType, s), AskInstances,
         Shown' = Shown \cup { q }, children'[q] = s,
         \A p \in Shown : p \in Nat /\ p < q /\ children'[p] = children[p]
  PROVE  mServiceByType' \in [DeviceTypes -> Seq(Services)] /\ RegistryComplete'
<1>1. /\ RegistryTypes /\ TypeOf[s] \in DeviceTypes
      /\ mServiceByType \in [DeviceTypes -> Seq(Services)]
  BY ServicesAssumption DEF IInv, RegistryTypes
<1>2. ASSUME NEW t \in DeviceTypes
      PROVE  /\ ToSet(mServiceByType[t]) =
                  { x \in Services \ { OwnService } : TypeOf[x] = t /\ \E p \in Shown : children[p] = x }
             /\ \A i, j \in DOMAIN mServiceByType[t] : i < j =>
                  /\ mServiceByType[t][i] # mServiceByType[t][j]
                  /\ \E p, o \in Shown :
                       /\ p < o /\ children[p] = mServiceByType[t][i]
                       /\ children[o] = mServiceByType[t][j]
  BY DEF IInv, RegistryComplete
<1>0. ASSUME NEW x \in Services
      PROVE  (\E p \in Shown' : children'[p] = x) <=> x = s \/ \E p \in Shown : children[p] = x
  OBVIOUS
<1>3. CASE s = OwnService \/ s \in Registered(mServiceByType)
  <2>1. mServiceByType' = mServiceByType
    BY <1>3 DEF Add
  <2>2. s # OwnService => s \in ToSet(mServiceByType[TypeOf[s]])
    BY <1>3, RegisteredByType
  <2>3. ASSUME NEW t \in DeviceTypes
        PROVE  ToSet(mServiceByType[t]) =
                 { x \in Services \ { OwnService } : TypeOf[x] = t /\ \E p \in Shown' : children'[p] = x }
    <3>1. ASSUME NEW x \in Services \ { OwnService }, TypeOf[x] = t
          PROVE  (\E p \in Shown' : children'[p] = x) <=> \E p \in Shown : children[p] = x
      <4>1. s \in ToSet(mServiceByType[TypeOf[s]]) => \E p \in Shown : children[p] = s
        BY <1>1, <1>2
      <4>. QED
        BY <1>0, <2>2, <4>1
    <3>. QED
      BY <1>2, <3>1
  <2>4. ASSUME NEW t \in DeviceTypes, NEW i \in DOMAIN mServiceByType[t],
               NEW j \in DOMAIN mServiceByType[t], i < j
        PROVE  /\ mServiceByType[t][i] # mServiceByType[t][j]
               /\ \E p, o \in Shown' :
                    /\ p < o /\ children'[p] = mServiceByType[t][i]
                    /\ children'[o] = mServiceByType[t][j]
    BY <1>2, <2>4
  <2>5. ASSUME NEW t \in DeviceTypes, NEW x \in ToSet(mServiceByType[t])
        PROVE  diState'[x] # "Idle"
    BY <1>2, <2>1, <2>5, AskedInstances DEF Registered
  <2>. QED
    BY <1>1, <2>1, <2>3, <2>4, <2>5 DEF RegistryComplete
<1>4. CASE s # OwnService /\ s \notin Registered(mServiceByType)
  <2>. DEFINE u == TypeOf[s]
              L == mServiceByType[u]
  <2>1. /\ mServiceByType' = [mServiceByType EXCEPT ![u] = Append(L, s)]
        /\ L \in Seq(Services) /\ Append(L, s) \in Seq(Services)
    BY <1>1, <1>4, AppendFacts DEF Add
  <2>2. /\ mServiceByType' \in [DeviceTypes -> Seq(Services)]
        /\ mServiceByType'[u] = Append(L, s)
        /\ \A t \in DeviceTypes \ { u } : mServiceByType'[t] = mServiceByType[t]
    BY <1>1, <2>1
  <2>3. PICK n \in Nat :
          /\ DOMAIN L = 1 .. n /\ DOMAIN Append(L, s) = 1 .. n + 1
          /\ \A i \in 1 .. n : Append(L, s)[i] = L[i]
          /\ Append(L, s)[n + 1] = s
    BY <2>1, AppendFacts
  <2>4. ToSet(Append(L, s)) = ToSet(L) \cup { s } /\ s \notin ToSet(L)
    BY <1>4, <2>1, AppendFacts, RegisteredByType
  <2>5. ASSUME NEW t \in DeviceTypes
        PROVE  ToSet(mServiceByType'[t]) =
                 { x \in Services \ { OwnService } : TypeOf[x] = t /\ \E p \in Shown' : children'[p] = x }
    <3>1. CASE t = u
      <4>1. ToSet(mServiceByType'[t]) = ToSet(L) \cup { s }
        BY <2>2, <2>4, <3>1
      <4>2. ToSet(L) =
              { x \in Services \ { OwnService } : TypeOf[x] = t /\ \E p \in Shown : children[p] = x }
        BY <1>2, <3>1
      <4>3. s \in Services \ { OwnService } /\ TypeOf[s] = t
        BY <1>4, <3>1
      <4>. HIDE DEF L
      <4>. QED
        BY <1>0, <4>1, <4>2, <4>3
    <3>2. CASE t # u
      <4>1. ToSet(mServiceByType'[t]) =
              { x \in Services \ { OwnService } : TypeOf[x] = t /\ \E p \in Shown : children[p] = x }
        <5>1. mServiceByType'[t] = mServiceByType[t]
          BY <2>2, <3>2
        <5>. QED
          BY <1>2, <5>1
      <4>2. TypeOf[s] # t
        BY <3>2
      <4>. QED
        BY <1>0, <4>1, <4>2
    <3>. QED
      BY <3>1, <3>2
  <2>6. ASSUME NEW t \in DeviceTypes, NEW i \in DOMAIN mServiceByType'[t],
               NEW j \in DOMAIN mServiceByType'[t], i < j
        PROVE  /\ mServiceByType'[t][i] # mServiceByType'[t][j]
               /\ \E p, o \in Shown' :
                    /\ p < o /\ children'[p] = mServiceByType'[t][i]
                    /\ children'[o] = mServiceByType'[t][j]
    <3>1. CASE t # u
      <4>1. /\ i \in DOMAIN mServiceByType[t] /\ j \in DOMAIN mServiceByType[t]
            /\ mServiceByType'[t] = mServiceByType[t]
        BY <2>2, <2>6, <3>1
      <4>. QED
        BY <1>2, <2>6, <4>1
    <3>2. CASE t = u /\ j # n + 1
      <4>1. /\ i \in DOMAIN L /\ j \in DOMAIN L
            /\ mServiceByType'[t][i] = L[i] /\ mServiceByType'[t][j] = L[j]
        BY <2>2, <2>3, <2>6, <3>2
      <4>2. /\ L[i] # L[j]
            /\ \E p, o \in Shown : p < o /\ children[p] = L[i] /\ children[o] = L[j]
        <5>1. \A k, l \in DOMAIN L : k < l =>
                /\ L[k] # L[l]
                /\ \E p, o \in Shown : p < o /\ children[p] = L[k] /\ children[o] = L[l]
          BY <1>1, <1>2
        <5>. HIDE DEF L
        <5>. QED
          BY <2>6, <4>1, <5>1
      <4>. HIDE DEF L
      <4>. QED
        BY <4>1, <4>2
    <3>3. CASE t = u /\ j = n + 1
      <4>1. /\ i \in DOMAIN L /\ mServiceByType'[t][i] = L[i] /\ mServiceByType'[t][j] = s
        BY <2>2, <2>3, <2>6, <3>3
      <4>2. L[i] \in ToSet(L)
        BY <4>1 DEF ToSet
      <4>3. PICK p \in Shown : children[p] = L[i]
        BY <1>1, <1>2, <4>2
      <4>. QED
        BY <2>4, <4>1, <4>2, <4>3
    <3>. QED
      BY <3>1, <3>2, <3>3
  <2>7. ASSUME NEW t \in DeviceTypes, NEW x \in ToSet(mServiceByType'[t])
        PROVE  diState'[x] # "Idle"
    BY <2>5, <2>7, AskedInstances DEF Registered
  <2>. QED
    BY <2>2, <2>5, <2>6, <2>7 DEF RegistryComplete
<1>. QED
  BY <1>3, <1>4

-----------------------------------------------------------------------------
(* The steps of the registry.                                              *)

(* initialScan shows a child.                                              *)
LEMMA ScanChildIInv == ASSUME IInv, ScanChild PROVE IInv'
<1>1. /\ RegistryTypes /\ ~ listening /\ ~ listening' /\ children' = children
      /\ scanned \in Nat /\ scanned < Len(children) /\ scanned' = scanned + 1
      /\ UNCHANGED << rootState, diValue >> /\ AskInstances
      /\ mServiceByType' = Add(mServiceByType, children[scanned + 1])
  BY DEF IInv, RegistryTypes, ScanChild
<1>2. PICK q \in Nat : q = scanned + 1 /\ q \in 1 .. Len(children)
  BY <1>1 DEF RegistryTypes
<1>3. PICK s \in Services : s = children[q]
  BY <1>1, <1>2 DEF RegistryTypes
<1>4. /\ Shown' = Shown \cup { q }
      /\ \A p \in Shown : p \in Nat /\ p < q
  BY <1>1, <1>2 DEF Shown
<1>5. mServiceByType' \in [DeviceTypes -> Seq(Services)] /\ RegistryComplete'
  BY <1>1, <1>2, <1>3, <1>4, AddIInv
<1>6. RegistryTypes'
  <2>1. Len(children) \in Nat /\ scanned' \in 0 .. Len(children')
    BY <1>1, <1>2 DEF RegistryTypes
  <2>2. listening' = listening /\ children' \in Seq(Services)
    BY <1>1 DEF RegistryTypes, ScanChild
  <2>. QED
    BY <1>1, <1>5, <2>1, <2>2, AskedInstances DEF RegistryTypes
<1>7. KnownInstances'
  BY <1>1, AskedInstances DEF IInv, KnownInstances
<1>. QED
  BY <1>5, <1>6, <1>7 DEF IInv

(* initialScan ends.                                                       *)
LEMMA ConnectChildAddedIInv == ASSUME IInv, ConnectChildAdded PROVE IInv'
<1>1. /\ RegistryTypes /\ ~ listening /\ listening' = TRUE /\ scanned = Len(children)
      /\ UNCHANGED << children, scanned, mServiceByType, rootState, diState, diValue >>
  BY DEF IInv, ConnectChildAdded, busVars
<1>2. RegistryTypes' /\ KnownInstances'
  BY <1>1 DEF IInv, RegistryTypes, KnownInstances
<1>3. Shown' = Shown
  BY <1>1 DEF Shown, RegistryTypes
<1>4. RegistryComplete'
  BY <1>1, <1>3 DEF IInv, RegistryComplete
<1>. QED
  BY <1>2, <1>4 DEF IInv

(* A service appears, before the scan or after it.                         *)
LEMMA ServiceAppearsIInv ==
  ASSUME IInv, NEW s \in Services, ServiceAppears(s)
  PROVE  IInv'
<1>1. /\ RegistryTypes /\ children \in Seq(Services)
      /\ children' = Append(children, s)
      /\ rootState' = [rootState EXCEPT ![s] = "Online"]
      /\ UNCHANGED << scanned, listening, diValue >> /\ AskInstances
      /\ scanned \in 0 .. Len(children) /\ listening \in BOOLEAN
  BY DEF IInv, RegistryTypes, ServiceAppears
<1>2. PICK n \in Nat :
        /\ n = Len(children) /\ DOMAIN children = 1 .. n /\ DOMAIN children' = 1 .. n + 1
        /\ Len(children') = n + 1 /\ children' \in Seq(Services)
        /\ \A i \in 1 .. n : children'[i] = children[i]
        /\ children'[n + 1] = s
  <2>1. Len(children) \in Nat
    BY <1>1
  <2>. QED
    BY <1>1, <2>1
<1>3. ASSUME listening
      PROVE  mServiceByType' \in [DeviceTypes -> Seq(Services)] /\ RegistryComplete'
  <2>1. mServiceByType' = Add(mServiceByType, s) /\ n + 1 \in Nat
    BY <1>3 DEF ServiceAppears
  <2>2. Shown = 1 .. n /\ Shown' = 1 .. n + 1
    BY <1>1, <1>2, <1>3 DEF Shown
  <2>3. /\ Shown' = Shown \cup { n + 1 }
        /\ \A p \in Shown : p \in Nat /\ p < n + 1 /\ children'[p] = children[p]
    BY <1>2, <2>2
  <2>4. mServiceByType' \in [DeviceTypes -> Seq(Services)] /\ RegistryComplete'
    BY <1>1, <1>2, <2>1, <2>3, AddIInv
  <2>. QED
    BY <2>4
<1>4. ASSUME ~ listening
      PROVE  mServiceByType' \in [DeviceTypes -> Seq(Services)] /\ RegistryComplete'
  <2>1. mServiceByType' = mServiceByType
    BY <1>4 DEF ServiceAppears
  <2>2. Shown' = Shown /\ \A p \in Shown : children'[p] = children[p]
    BY <1>1, <1>2, <1>4 DEF Shown
  <2>3. \A t \in DeviceTypes : \A x \in ToSet(mServiceByType[t]) : diState'[x] # "Idle"
    BY <1>1, <2>1, AskedInstances DEF IInv, RegistryComplete, Registered
  <2>4. ASSUME NEW t \in DeviceTypes
        PROVE  /\ ToSet(mServiceByType[t]) =
                    { x \in Services \ { OwnService } : TypeOf[x] = t /\ \E p \in Shown : children'[p] = x }
               /\ \A i, j \in DOMAIN mServiceByType[t] : i < j =>
                    /\ mServiceByType[t][i] # mServiceByType[t][j]
                    /\ \E p, o \in Shown :
                         /\ p < o /\ children'[p] = mServiceByType[t][i]
                         /\ children'[o] = mServiceByType[t][j]
    <3>1. /\ ToSet(mServiceByType[t]) =
               { x \in Services \ { OwnService } : TypeOf[x] = t /\ \E p \in Shown : children[p] = x }
          /\ \A i, j \in DOMAIN mServiceByType[t] : i < j =>
               /\ mServiceByType[t][i] # mServiceByType[t][j]
               /\ \E p, o \in Shown :
                    /\ p < o /\ children[p] = mServiceByType[t][i]
                    /\ children[o] = mServiceByType[t][j]
      BY DEF IInv, RegistryComplete
    <3>. QED
      BY <2>2, <3>1
  <2>5. RegistryComplete'
    BY <2>1, <2>2, <2>3, <2>4 DEF RegistryComplete
  <2>. QED
    BY <1>1, <2>1, <2>5 DEF RegistryTypes
<1>5. RegistryTypes'
  <2>1. scanned' \in 0 .. Len(children')
    BY <1>1, <1>2
  <2>2. rootState' \in [Services -> { "Online", "Offline" }]
    BY <1>1 DEF RegistryTypes
  <2>. QED
    BY <1>1, <1>2, <1>3, <1>4, <2>1, <2>2, AskedInstances DEF RegistryTypes
<1>6. KnownInstances'
  BY <1>1, AskedInstances DEF IInv, KnownInstances
<1>. QED
  BY <1>3, <1>4, <1>5, <1>6 DEF IInv

(* What the library does with the items leaves the registry alone, and a   *)
(* service that was asked for its instance stays asked.                    *)
LEMMA ItemsIInv ==
  ASSUME IInv, NEW s \in Services,
         RootChanges(s) \/ InstanceArrives(s) \/ InstanceLost(s)
  PROVE  IInv'
<1>1. /\ RegistryTypes /\ UNCHANGED << children, scanned, listening, mServiceByType >>
      /\ rootState' \in [Services -> { "Online", "Offline" }]
      /\ diState' \in [Services -> { "Idle", "Requested", "Synchronized", "Offline" }]
      /\ diValue' \in [Services -> Instances \cup { NoValue }]
      /\ \A x \in Services : diState[x] # "Idle" => diState'[x] # "Idle"
      /\ \A x \in Services : diState'[x] = "Synchronized" => diValue'[x] \in Instances
  <2>1. CASE RootChanges(s)
    BY <2>1 DEF IInv, RegistryTypes, KnownInstances, RootChanges
  <2>2. CASE InstanceArrives(s)
    BY <2>2 DEF IInv, RegistryTypes, KnownInstances, InstanceArrives, InstanceBecomes
  <2>3. CASE InstanceLost(s)
    BY <2>3 DEF IInv, RegistryTypes, KnownInstances, InstanceLost, InstanceBecomes
  <2>. QED
    BY <2>1, <2>2, <2>3
<1>2. RegistryTypes' /\ KnownInstances'
  BY <1>1 DEF RegistryTypes, KnownInstances
<1>3. Shown' = Shown
  BY <1>1 DEF Shown
<1>4. \A t \in DeviceTypes : ToSet(mServiceByType[t]) \subseteq Services
  BY DEF IInv, RegistryComplete
<1>5. RegistryComplete'
  BY <1>1, <1>3, <1>4 DEF IInv, RegistryComplete
<1>. QED
  BY <1>2, <1>5 DEF IInv

(* The invariant holds always.                                             *)
THEOREM SpecIInv == Spec => []IInv
<1>1. IInv /\ UNCHANGED servicesVars => IInv'
  BY DEF IInv, RegistryTypes, KnownInstances, RegistryComplete, Shown, servicesVars, busVars
<1>2. IInv /\ [Next]_servicesVars => IInv'
  BY <1>1, ScanChildIInv, ConnectChildAddedIInv, ServiceAppearsIInv, ItemsIInv DEF Next
<1>. QED
  BY <1>2, InitIInv, PTL DEF Spec

-----------------------------------------------------------------------------
(* Lookups.                                                                *)

(* A lookup yields a service that claims the instance, and one whose       *)
(* instance is known if there is any.                                      *)
LEMMA LookupFacts ==
  ASSUME IInv, NEW t \in DeviceTypes, NEW instance
  PROVE  LET services == mServiceByType[t]  found == GetService(t, instance) IN
         /\ ToSet(services) \subseteq Services
         /\ IF \A s \in ToSet(services) : ToInt(diValue[s]) # instance
              THEN found = NoService
              ELSE found \in ToSet(services) /\ ToInt(diValue[found]) = instance
         /\ (\E s \in ToSet(services) : ToInt(diValue[s]) = instance /\ diState[s] = "Synchronized")
              => diState[found] = "Synchronized"
<1>. DEFINE services == mServiceByType[t]
            claims == Claims(services, instance)
            known == KnownClaims(services, instance)
<1>1. services \in Seq(Services)
  BY DEF IInv, RegistryTypes
<1>2. PICK n \in Nat : DOMAIN services = 1 .. n
  <2>1. Len(services) \in Nat /\ DOMAIN services = 1 .. Len(services)
    BY <1>1
  <2>. QED
    BY <2>1
<1>3. ToSet(services) \subseteq Services
  BY <1>1 DEF ToSet
<1>4. claims \in SUBSET (1 .. n) /\ known \in SUBSET (1 .. n) /\ known \subseteq claims
  BY <1>2 DEF Claims, KnownClaims
<1>5. CASE claims = {}
  <2>1. \A s \in ToSet(services) : ToInt(diValue[s]) # instance
    BY <1>5 DEF Claims, ToSet
  <2>2. GetService(t, instance) = NoService
    BY <1>5 DEF GetService
  <2>. QED
    BY <1>3, <2>1, <2>2
<1>6. CASE claims # {}
  <2>1. PICK i : i = Choose(services, instance)
    OBVIOUS
  <2>2. i \in claims /\ (known # {} => i \in known)
    BY <1>4, <1>6, <2>1, MaxIsMember DEF Choose
  <2>3. GetService(t, instance) = services[i]
    BY <1>6, <2>1 DEF GetService
  <2>4. services[i] \in ToSet(services) /\ ToInt(diValue[services[i]]) = instance
    BY <2>2 DEF Claims, ToSet
  <2>5. ASSUME NEW s \in ToSet(services), ToInt(diValue[s]) = instance, diState[s] = "Synchronized"
        PROVE  diState[services[i]] = "Synchronized"
    <3>1. PICK j \in DOMAIN services : services[j] = s
      BY DEF ToSet
    <3>2. j \in known
      BY <2>5, <3>1 DEF KnownClaims, Claims
    <3>. QED
      BY <2>2, <3>2 DEF KnownClaims
  <2>. QED
    BY <1>3, <2>3, <2>4, <2>5
<1>. QED
  BY <1>5, <1>6

(* An instance that a service which is there has announced is found, and   *)
(* the service found is there, too.                                        *)
LEMMA LiveFound ==
  ASSUME IInv, NEW t \in DeviceTypes, Coherent(t), NEW instance, Live(t, instance) # {}
  PROVE  GetService(t, instance) \in Live(t, instance) /\ Connected(GetService(t, instance))
<1>. DEFINE found == GetService(t, instance)
<1>1. PICK s \in ToSet(mServiceByType[t]) : diState[s] = "Synchronized" /\ diValue[s] = instance
  BY DEF Live
<1>2. ASSUME NEW x \in Services, diState[x] = "Synchronized"
      PROVE  diValue[x] \in Nat /\ ToInt(diValue[x]) = diValue[x]
  BY <1>2, ServicesAssumption DEF IInv, KnownInstances, ToInt
<1>3. ToSet(mServiceByType[t]) \subseteq Services
  BY LookupFacts
<1>4. ToInt(diValue[s]) = instance
  BY <1>1, <1>2, <1>3
<1>5. found \in ToSet(mServiceByType[t]) /\ ToInt(diValue[found]) = instance
  BY <1>4, LookupFacts
<1>6. diState[found] = "Synchronized"
  BY <1>1, <1>4, LookupFacts
<1>7. diValue[found] = instance /\ rootState[found] = "Online"
  BY <1>2, <1>3, <1>5, <1>6 DEF Coherent, IInv, RegistryTypes
<1>8. found # NoService
  BY <1>3, <1>5, ServicesAssumption
<1>. QED
  BY <1>5, <1>6, <1>7, <1>8 DEF Live, Connected

(* A unit ID that is an instance, or is mapped to one and not claimed by a *)
(* service that is there.                                                  *)
LEMMA LiveResolved ==
  ASSUME IInv, NEW t \in DeviceTypes, Coherent(t), NEW u
  PROVE  /\ Live(t, u) # {} => Resolve(t, u) \in Live(t, u)
         /\ /\ \A s \in ToSet(mServiceByType[t]) : ToInt(diValue[s]) = u => rootState[s] = "Offline"
            /\ u \in DOMAIN UnitIDMap
            /\ Live(t, UnitIDMap[u]) # {}
            => Resolve(t, u) \in Live(t, UnitIDMap[u])
<1>1. ASSUME Live(t, u) # {}
      PROVE  Resolve(t, u) \in Live(t, u)
  BY <1>1, LiveFound DEF Resolve
<1>2. ASSUME \A s \in ToSet(mServiceByType[t]) : ToInt(diValue[s]) = u => rootState[s] = "Offline",
             u \in DOMAIN UnitIDMap, Live(t, UnitIDMap[u]) # {}
      PROVE  Resolve(t, u) \in Live(t, UnitIDMap[u])
  <2>1. ~ Connected(GetService(t, u))
    BY <1>2, LookupFacts DEF Connected
  <2>2. /\ GetService(t, UnitIDMap[u]) \in Live(t, UnitIDMap[u])
        /\ Connected(GetService(t, UnitIDMap[u]))
    BY <1>2, LiveFound
  <2>. QED
    BY <1>2, <2>1, <2>2 DEF Resolve
<1>. QED
  BY <1>1, <1>2

(* The variables keep their types, and every lookup yields a service of    *)
(* the registry or none.                                                   *)
THEOREM TypeCorrect == Spec => []TypeOK
<1>1. ASSUME IInv, NEW t \in DeviceTypes, NEW u \in Units
      PROVE  Resolve(t, u) \in ToSet(mServiceByType[t]) \cup { NoService }
  <2>1. \A i : GetService(t, i) \in ToSet(mServiceByType[t]) \cup { NoService }
    BY <1>1, LookupFacts
  <2>. QED
    BY <2>1 DEF Resolve
<1>2. IInv => TypeOK
  BY <1>1 DEF IInv, RegistryTypes, TypeOK
<1>. QED
  BY <1>2, SpecIInv, PTL

(* The registry holds the services shown to it, each once, in the order of *)
(* their appearance, whether the scan found them or they came later.       *)
THEOREM RegistryIsComplete == Spec => []RegistryComplete
BY SpecIInv, PTL DEF IInv

(* A service that is gone never hides one that is there.                   *)
THEOREM LiveServicesAnswer == Spec => []LiveNotMasked
<1>1. IInv => LiveNotMasked
  BY LiveResolved DEF LiveNotMasked
<1>. QED
  BY <1>1, SpecIInv, PTL

(* The unit ID that is published for a service reaches its instance,       *)
(* unless another service that is there claims it.                         *)
THEOREM PublishedUnitsReach == Spec => []PublishedUnitReachable
<1>1. ASSUME IInv, NEW t \in DeviceTypes, Coherent(t),
             NEW s \in ToSet(mServiceByType[t]),
             rootState[s] = "Online", diState[s] = "Synchronized",
             NEW u \in GetUnitId(diValue[s]),
             \A other \in ToSet(mServiceByType[t]) :
               ~ (ToInt(diValue[other]) = u /\ u # diValue[s] /\ rootState[other] = "Online")
      PROVE  Resolve(t, u) \in Live(t, diValue[s])
  <2>1. Live(t, diValue[s]) # {}
    BY <1>1 DEF Live
  <2>2. CASE u = diValue[s]
    BY <1>1, <2>1, <2>2, LiveResolved
  <2>3. CASE u # diValue[s]
    <3>1. u \in DOMAIN UnitIDMap /\ UnitIDMap[u] = diValue[s]
      BY <2>3 DEF GetUnitId
    <3>2. \A other \in ToSet(mServiceByType[t]) : ToInt(diValue[other]) = u => rootState[other] = "Offline"
      BY <1>1, <2>3, LookupFacts DEF IInv, RegistryTypes
    <3>. QED
      BY <1>1, <2>1, <3>1, <3>2, LiveResolved
  <2>. QED
    BY <2>2, <2>3
<1>2. IInv => PublishedUnitReachable
  BY <1>1 DEF PublishedUnitReachable
<1>. QED
  BY <1>2, SpecIInv, PTL
=============================================================================
