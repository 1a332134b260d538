----------------------------- MODULE Diagnostics -----------------------------
(***************************************************************************)
(* DiagnosticsService: the list /Services/<n> that the program publishes   *)
(* of the services that can be queried, kept up to date from the signals   *)
(* of the registered services (module DBusServices): valueChanged of       *)
(* /DeviceInstance and stateChanged of the root item.  Entries are never   *)
(* removed.  One is created for each device type and unit ID, and names    *)
(* the last service that was seen with them.                               *)
(***************************************************************************)
EXTENDS Integers, Sequences, FiniteSetsExt

CONSTANTS
  DeviceTypes,
  Services,        \* services that may be found on D-Bus
  TypeOf,          \* DBusService::getDeviceType of each service's name
  NoService,       \* no name was published
  NoValue,         \* the invalid QVariant
  InstancesOf,     \* the device instances each service may announce
  UnitIDMap,       \* mUnitIDMap: unit ID -> device instance
  GetUnitId        \* Mappings::getUnitId

Instances == UNION { InstancesOf[s] : s \in Services }

ASSUME DiagnosticsAssumption ==
  /\ TypeOf \in [Services -> DeviceTypes]
  /\ NoService \notin Services
  /\ InstancesOf \in [Services -> SUBSET Nat] /\ NoValue \notin Nat
  /\ DOMAIN UnitIDMap \subseteq Nat
  /\ \A u \in DOMAIN UnitIDMap : UnitIDMap[u] \in Nat

(* Any unit ID that is mapped to the instance, always the same one: the    *)
(* order of the QHash decides.  An instance that has none is its unit ID.  *)
ASSUME GetUnitIdAssumption ==
  /\ GetUnitId \in [Instances -> Nat]
  /\ \A i \in Instances :
       IF \E u \in DOMAIN UnitIDMap : UnitIDMap[u] = i
         THEN GetUnitId[i] \in DOMAIN UnitIDMap /\ UnitIDMap[GetUnitId[i]] = i
         ELSE GetUnitId[i] = i

VARIABLES
  found,           \* services whose signals are connected
  rootState,       \* state of each service's root item
  diValue,         \* value of its /DeviceInstance
  entries          \* /Services/0, /Services/1, ...; its length is the Count

diagnosticsVars == << found, rootState, diValue, entries >>

-----------------------------------------------------------------------------
Active(state) == IF state = "Offline" THEN 0 ELSE 1

(* DiagnosticsService::updateService, of the entry at n.                   *)
Updated(n, s, state) ==
  [entries EXCEPT ![n] = [@ EXCEPT !.serviceName = s, !.isActive = Active(state)]]

(* DiagnosticsService::createServiceItem, then updateService.              *)
NewEntryUnnamed(s, v, state) ==
  [ serviceName |-> NoService, vrmInstanceId |-> v, unitId |-> GetUnitId[v],
    isActive |-> Active(state) ]
NewEntry(s, v, state) ==
  [ serviceName |-> s, vrmInstanceId |-> v, unitId |-> GetUnitId[v],
    isActive |-> Active(state) ]

(* DiagnosticsService::getServiceItem(serviceRoot, deviceInstance): the    *)
(* entries it looks for, of which it takes the first.                      *)
SameUnitSameName(s, v) ==
  { n \in DOMAIN entries : entries[n].serviceName = s /\ entries[n].unitId = GetUnitId[v] }
SameUnitAnyType(s, v) ==
  { n \in DOMAIN entries : entries[n].unitId = GetUnitId[v] }
SameUnit(s, v) ==
  { n \in DOMAIN entries :
      TypeOf[entries[n].serviceName] = TypeOf[s] /\ entries[n].unitId = GetUnitId[v] }

(* DiagnosticsService::getServiceItem(serviceRoot).                        *)
SameName(s) == { n \in DOMAIN entries : entries[n].serviceName = s }

(* The list once service s, of instance v and in this state, is looked up  *)
(* by type and unit ID, created if missing, and updated.                   *)
ShownIfKnown(s, v, state) ==
  IF v = NoValue \/ SameUnit(s, v) = {} THEN entries
  ELSE Updated(Min(SameUnit(s, v)), s, state)
Shown(s, v, state) ==
  IF v = NoValue THEN entries
  ELSE IF SameUnit(s, v) = {} THEN Append(entries, NewEntry(s, v, state))
  ELSE Updated(Min(SameUnit(s, v)), s, state)

(* The list once service s is gone.                                        *)
GoneIgnored(s) == entries
Gone(s) ==
  IF SameName(s) = {} THEN entries ELSE Updated(Min(SameName(s)), s, "Offline")

-----------------------------------------------------------------------------
(* DiagnosticsService::onServiceFound.  DBusServices has just created the  *)
(* service; D-Bus has not answered for its instance yet.                   *)
OnServiceFound(s) ==
  /\ s \notin found
  /\ found' = found \cup { s }
  /\ UNCHANGED << rootState, diValue, entries >>

(* DiagnosticsService::onDeviceInstanceChanged.                            *)
OnDeviceInstanceChanged(s) ==
  /\ s \in found
  /\ \E v \in (InstancesOf[s] \cup { NoValue }) \ { diValue[s] } :
       /\ diValue' = [diValue EXCEPT ![s] = v]
       /\ entries' = Shown(s, v, rootState[s])
  /\ UNCHANGED << found, rootState >>

(* DiagnosticsService::onServiceStateChanged, which treats all states but  *)
(* Offline alike: Synchronized stands for them.                            *)
OnServiceStateChanged(s) ==
  /\ s \in found
  /\ \E state \in { "Synchronized", "Offline" } \ { rootState[s] } :
       /\ rootState' = [rootState EXCEPT ![s] = state]
       /\ \/ state = "Offline" /\ entries' = Gone(s)
          \/ state # "Offline" /\ entries' = Shown(s, diValue[s], state)
  /\ UNCHANGED << found, diValue >>

Init ==
  /\ found = {}
  /\ rootState = [s \in Services |-> "Idle"]
  /\ diValue = [s \in Services |-> NoValue]
  /\ entries = << >>

Next ==
  \E s \in Services :
    \/ OnServiceFound(s)
    \/ OnDeviceInstanceChanged(s)
    \/ OnServiceStateChanged(s)

Spec == Init /\ [][Next]_diagnosticsVars

-----------------------------------------------------------------------------
EntryType ==
  [ serviceName : Services, vrmInstanceId : Nat, unitId : Nat, isActive : {0, 1} ]

(* The variables have their types; in particular every entry has a name.   *)
TypeOK ==
  /\ found \subseteq Services
  /\ rootState \in [Services -> { "Idle", "Synchronized", "Offline" }]
  /\ diValue \in [Services -> Instances \cup { NoValue }]
  /\ entries \in Seq(EntryType)

(* No two entries are of the same device type and unit ID, however often   *)
(* services replace each other or change their instances: what a client    *)
(* reads at a unit ID is listed once.                                      *)
UnitsListedOnce ==
  \A m, n \in DOMAIN entries :
    /\ TypeOf[entries[m].serviceName] = TypeOf[entries[n].serviceName]
    /\ entries[m].unitId = entries[n].unitId
    => m = n

(* Every service whose instance is known is listed under its type and unit *)
(* ID, if only with the name of another one that has them, too.            *)
AllListed ==
  \A s \in Services : diValue[s] # NoValue =>
    \E n \in DOMAIN entries :
      /\ TypeOf[entries[n].serviceName] = TypeOf[s]
      /\ entries[n].unitId = GetUnitId[diValue[s]]

(* An entry keeps its place, its type and its unit ID for ever: old values *)
(* stay accessible (diagnostics_service.h:23-24).                          *)
EntriesKept ==
  [][\A n \in DOMAIN entries :
       /\ n \in DOMAIN entries'
       /\ entries'[n].unitId = entries[n].unitId
       /\ entries'[n].vrmInstanceId = entries[n].vrmInstanceId
       /\ TypeOf[entries'[n].serviceName] = TypeOf[entries[n].serviceName]]_diagnosticsVars

(* An entry is marked active while the service it names is there, and only *)
(* then, however services of its type and unit ID replace each other.      *)
(* Holds of services that do not change their instance.                    *)
ActiveWhileThere ==
  \A n \in DOMAIN entries :
    LET s == entries[n].serviceName IN
    (\E v \in Instances : InstancesOf[s] = {v}) =>
      /\ entries[n].isActive = 1 => rootState[s] # "Offline"
      /\ rootState[s] # "Offline" /\ diValue[s] # NoValue => entries[n].isActive = 1

(* diagnostics_service.h:23: IsActive is 0 "When service has existed in    *)
(* the past, but has disappeared".                                         *)
DisappearedIsInactive ==
  \A n \in DOMAIN entries :
    rootState[entries[n].serviceName] = "Offline" => entries[n].isActive = 0
=============================================================================
