---------------------------- MODULE DBusServices ----------------------------
(***************************************************************************)
(* DBusServices and DBusService: the registry of the services seen on      *)
(* D-Bus, and how a unit ID of a request is resolved to one of them        *)
(* (DBusServices::getService under DataIterator::getService), with the     *)
(* map from unit IDs to device instances that Mappings imports.            *)
(*                                                                         *)
(* The services are children of the producer's root item; the library      *)
(* never removes a child.  Of each service the code looks at the state of  *)
(* its root item, and at state and value of /DeviceInstance.  What the     *)
(* library does with these items when a service comes and goes, and in     *)
(* which order, is not known here: they change independently.              *)
(***************************************************************************)
EXTENDS Integers, Sequences, SequencesExt

CONSTANTS
  DeviceTypes,     \* third element of a service name
  Services,        \* services that may appear on D-Bus
  NoService,       \* the null DBusService pointer
  OwnService,      \* "com.victronenergy.modbustcp"
  TypeOf,          \* DBusService::getDeviceType of each service's name
  Instances,       \* device instances services announce
  NoValue,         \* the invalid QVariant
  Units,           \* unit IDs of requests
  UnitIDLines      \* unitid2di.csv

ASSUME ServicesAssumption ==
  /\ NoService \notin Services /\ OwnService \in Services
  /\ TypeOf \in [Services -> DeviceTypes]
  /\ Instances \subseteq Nat /\ Units \subseteq Nat /\ NoValue \notin Nat

(* The first two columns; << >> is one that is not a number.               *)
ASSUME UnitIDLinesAssumption ==
  \A i \in DOMAIN UnitIDLines :
    \A column \in { UnitIDLines[i].unit, UnitIDLines[i].instance } :
      column = << >> \/ column[1] \in Nat

(* Mappings::importUnitIDMapping.                                          *)
InsertUnit(map, line) ==
  IF line.unit = << >> \/ line.instance = << >> \/ line.unit = line.instance THEN map
  ELSE (line.unit[1] :> line.instance[1]) @@ map
UnitIDMap == FoldLeft(InsertUnit, << >>, UnitIDLines)

(* Mappings::getUnitId, which returns any of these: the order of a QHash   *)
(* decides.                                                                *)
GetUnitIdForward(instance) ==
  IF instance \in DOMAIN UnitIDMap THEN { UnitIDMap[instance] } ELSE { instance }
GetUnitId(instance) ==
  LET units == { u \in DOMAIN UnitIDMap : UnitIDMap[u] = instance }
  IN  IF units = {} THEN { instance } ELSE units

VARIABLES
  children,        \* the children of the producer's root item, in order
  scanned,         \* i, the children initialScan has visited
  listening,       \* initialScan has run and childAdded is connected
  mServiceByType,
  rootState,       \* state of each service's root item
  diState, diValue \* state and value of its /DeviceInstance

busVars == << rootState, diState, diValue >>
servicesVars == << children, scanned, listening, mServiceByType, busVars >>

-----------------------------------------------------------------------------
Children == ToSet(children)

(* The keys of mServicesByName, which is filled together with the lists.   *)
Registered(registry) == UNION { ToSet(registry[t]) : t \in DeviceTypes }

(* DBusServices::onServiceAdded, on the registry.                          *)
AddTooEarly(registry, s) ==
  IF s = OwnService THEN registry
  ELSE [registry EXCEPT ![TypeOf[s]] = Append(@, NoService)]
AddOwnToo(registry, s) ==
  IF s \in Registered(registry) THEN registry
  ELSE [registry EXCEPT ![TypeOf[s]] = Append(@, s)]
Add(registry, s) ==
  IF s = OwnService \/ s \in Registered(registry) THEN registry
  ELSE [registry EXCEPT ![TypeOf[s]] = Append(@, s)]

(* The constructor of DBusService asks for the device instance.            *)
AskInstances ==
  diState' = [s \in Services |->
    IF diState[s] = "Idle" /\ s \in Registered(mServiceByType') THEN "Requested"
    ELSE diState[s]]

(* DBusServices::initialScan, one child at a time.  It does not return to  *)
(* the event loop before it is done, so that nothing else happens.         *)
Scanning == scanned > 0 /\ ~ listening
ScanChild ==
  /\ ~ listening /\ scanned < Len(children)
  /\ scanned' = scanned + 1
  /\ mServiceByType' = Add(mServiceByType, children[scanned + 1])
  /\ AskInstances
  /\ UNCHANGED << children, listening, rootState, diValue >>
ConnectChildAdded ==
  /\ ~ listening /\ scanned = Len(children)
  /\ listening' = TRUE
  /\ UNCHANGED << children, scanned, mServiceByType, busVars >>

(* A service appears on the bus; with childAdded connected, in the same    *)
(* event it is registered.                                                 *)
ServiceAppears(s) ==
  /\ s \notin Children
  /\ children' = Append(children, s)
  /\ rootState' = [rootState EXCEPT ![s] = "Online"]
  /\ mServiceByType' = IF listening THEN Add(mServiceByType, s) ELSE mServiceByType
  /\ AskInstances
  /\ UNCHANGED << scanned, listening, diValue >>

-----------------------------------------------------------------------------
(* QVariant::toInt.                                                        *)
ToInt(v) == IF v = NoValue THEN 0 ELSE v

(* The services in the list whose instance reads as the one looked for; of *)
(* those whose instance is known the last is taken, or else of all.        *)
Claims(services, instance) ==
  { i \in DOMAIN services : ToInt(diValue[services[i]]) = instance }
KnownClaims(services, instance) ==
  { i \in Claims(services, instance) : diState[services[i]] = "Synchronized" }

ChooseLast(services, instance) == Max(Claims(services, instance))
Choose(services, instance) ==
  IF KnownClaims(services, instance) = {} THEN Max(Claims(services, instance))
  ELSE Max(KnownClaims(services, instance))

(* DBusServices::getService.                                               *)
GetService(type, instance) ==
  LET services == mServiceByType[type]
  IN  IF Claims(services, instance) = {} THEN NoService
      ELSE services[Choose(services, instance)]

(* DBusService::getConnected, of the service behind a pointer.             *)
Connected(s) == s # NoService /\ rootState[s] # "Offline"

(* DataIterator::getService: the unit ID is a device instance, or else is  *)
(* mapped to one.                                                          *)
Resolve(type, unit) ==
  LET direct == GetService(type, unit)
      mapped == IF unit \in DOMAIN UnitIDMap THEN GetService(type, UnitIDMap[unit])
                ELSE NoService
  IN  IF Connected(direct) THEN direct
      ELSE IF Connected(mapped) THEN mapped ELSE NoService

-----------------------------------------------------------------------------
(* The environment: the library's items follow the services.               *)

RootChanges(s) ==
  /\ s \in Children
  /\ rootState' = [rootState EXCEPT ![s] = IF @ = "Online" THEN "Offline" ELSE "Online"]
  /\ UNCHANGED << children, scanned, listening, mServiceByType, diState, diValue >>

InstanceBecomes(s, state, v) ==
  /\ diState' = [diState EXCEPT ![s] = state]
  /\ diValue' = [diValue EXCEPT ![s] = v]
  /\ UNCHANGED << children, scanned, listening, mServiceByType, rootState >>

(* The service answers, or announces another instance, or announces it     *)
(* again after it was gone.                                                *)
InstanceArrives(s) ==
  /\ diState[s] # "Idle"
  /\ \E v \in Instances : InstanceBecomes(s, "Synchronized", v)

(* The service is gone, or has no device instance; the item may keep the   *)
(* value it had.                                                           *)
InstanceLost(s) ==
  /\ diState[s] \in { "Requested", "Synchronized" }
  /\ \E v \in { diValue[s], NoValue } : InstanceBecomes(s, "Offline", v)

Init ==
  /\ children = << >>
  /\ scanned = 0
  /\ listening = FALSE
  /\ mServiceByType = [t \in DeviceTypes |-> << >>]
  /\ rootState = [s \in Services |-> "Offline"]
  /\ diState = [s \in Services |-> "Idle"]
  /\ diValue = [s \in Services |-> NoValue]

Next ==
  \/ ScanChild
  \/ ConnectChildAdded
  \/ /\ ~ Scanning
     /\ \E s \in Services :
          \/ ServiceAppears(s)
          \/ RootChanges(s)
          \/ InstanceArrives(s)
          \/ InstanceLost(s)

Spec == Init /\ [][Next]_servicesVars

-----------------------------------------------------------------------------
(* The variables have their types, and every lookup yields a service of    *)
(* the registry or none: what module Mappings takes as a route table.      *)
TypeOK ==
  /\ children \in Seq(Services)
  /\ scanned \in 0 .. Len(children)
  /\ listening \in BOOLEAN
  /\ mServiceByType \in [DeviceTypes -> Seq(Services)]
  /\ rootState \in [Services -> { "Online", "Offline" }]
  /\ diState \in [Services -> { "Idle", "Requested", "Synchronized", "Offline" }]
  /\ diValue \in [Services -> Instances \cup { NoValue }]
  /\ \A t \in DeviceTypes, u \in Units :
       Resolve(t, u) \in ToSet(mServiceByType[t]) \cup { NoService }

(* The children that the scan or childAdded has shown to onServiceAdded.   *)
Shown == IF listening THEN DOMAIN children ELSE 1 .. scanned

(* No service is missed or listed twice, whether it was there before the   *)
(* scan or appeared later; this program itself is not listed, and services *)
(* of one type are in the order of appearance, which decides between two   *)
(* of the same instance.  Each has been asked for its device instance.     *)
RegistryComplete ==
  \A t \in DeviceTypes :
    LET services == mServiceByType[t] IN
    /\ ToSet(services) =
         { s \in Services \ { OwnService } : TypeOf[s] = t /\ \E p \in Shown : children[p] = s }
    /\ \A i, j \in DOMAIN services : i < j =>
         /\ services[i] # services[j]
         /\ \E p, q \in Shown : p < q /\ children[p] = services[i] /\ children[q] = services[j]
    /\ \A s \in ToSet(services) : diState[s] # "Idle"

(* The services of a type that are there and have announced the instance.  *)
Live(type, instance) ==
  { s \in ToSet(mServiceByType[type]) :
      rootState[s] = "Online" /\ diState[s] = "Synchronized" /\ diValue[s] = instance }

(* A service that is gone has no current instance.  The library changes    *)
(* the two items one after the other, so this is not always so.            *)
Coherent(type) ==
  \A s \in ToSet(mServiceByType[type]) :
    rootState[s] = "Offline" => diState[s] # "Synchronized"

(* A service that is gone, or whose instance is not known, never hides one *)
(* that is there: neither from a request for its instance nor, when no     *)
(* service that is there claims the unit ID as instance, from one for a    *)
(* unit ID mapped to it.                                                   *)
LiveNotMasked ==
  \A t \in DeviceTypes, u \in Units :
    Coherent(t) =>
      /\ Live(t, u) # {} => Resolve(t, u) \in Live(t, u)
      /\ /\ \A s \in ToSet(mServiceByType[t]) : ToInt(diValue[s]) = u => rootState[s] = "Offline"
         /\ u \in DOMAIN UnitIDMap
         /\ Live(t, UnitIDMap[u]) # {}
         => Resolve(t, u) \in Live(t, UnitIDMap[u])

(* The unit ID the diagnostics service lists for a service that is there   *)
(* reaches one that is there and has its instance, whichever of several    *)
(* unit IDs getUnitId picks: unless that unit ID is itself the instance of *)
(* another service of the type that is there and then answers instead.     *)
PublishedUnitReachable ==
  \A t \in DeviceTypes : Coherent(t) =>
    \A s \in ToSet(mServiceByType[t]) : rootState[s] = "Online" /\ diState[s] = "Synchronized" =>
      \A u \in GetUnitId(diValue[s]) :
        \/ Resolve(t, u) \in Live(t, diValue[s])
        \/ \E other \in ToSet(mServiceByType[t]) :
             ToInt(diValue[other]) = u /\ u # diValue[s] /\ rootState[other] = "Online"
=============================================================================
