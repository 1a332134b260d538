------------------------------ MODULE Mappings ------------------------------
(***************************************************************************)
(* Mappings (mappings.cpp) with the VeQItemInitMonitor it uses: what       *)
(* happens to a MappingRequest between Backend's mappingRequest signal and *)
(* Mappings' requestCompleted signal.                                      *)
(*                                                                         *)
(* A request is checked when it arrives (handleRequest).  If a D-Bus item  *)
(* it needs has no value yet, it waits in mPendingRequests for a monitor   *)
(* of those items, and the services, the items and the ReadWrite setting   *)
(* may change before getValues or setValues walks over the map again.      *)
(*                                                                         *)
(* The program is one event loop.  Each action is one event with all the   *)
(* slots it calls, except that an item's stateChanged signal, which calls  *)
(* the monitors connected to the item one after the other, is split: the   *)
(* monitors still to be called are in `notified' and nothing else happens  *)
(* until all were.  Qt calls them in the order in which they connected;    *)
(* the model takes any order, and lets a monitor that is notified from     *)
(* inside getValues or setValues run when that slot returns.               *)
(***************************************************************************)
EXTENDS RegisterMap, FiniteSetsExt

CONSTANTS
  MaxRequests,      \* bound: requests in a behaviour
  Inputs,           \* the requests a client may make
  NoInput,          \* no request yet
  RouteTables,      \* the services that may answer for the requests' unit ID
  ReadWriteValues,  \* values of the setting ModbusServer/ReadWrite
  Reloads           \* may an item that had a value lose it and be asked again

Requests == 1 .. MaxRequests

(* Backend sends quantities 1 .. 125 only.                                 *)
InputType ==
  [ type : { "ReadValues", "WriteValues" }, address : Nat, quantity : Nat \ {0} ]

ASSUME MappingsAssumption ==
  /\ MaxRequests \in Nat
  /\ Inputs \subseteq InputType /\ NoInput \notin Inputs
  /\ RouteTables \subseteq RouteTable
  /\ ReadWriteValues \subseteq BOOLEAN
  /\ Reloads \in BOOLEAN

(* Only read-only entries have no D-Bus path: the date and time register.  *)
ASSUME WritableAssumption ==
  \A k \in Registers : DBusModbusMap[k].writable => DBusModbusMap[k].objectPaths # << >>

VARIABLES
  mReadWrite,    \* may registers be written
  routes,        \* what DataIterator::getService finds for each device type
  itemState,     \* VeQItem::State of each item
  phase,         \* of each request: "new", "pending", "completed"
  input,         \* type, address and quantity of the request
  error,         \* MappingRequest::mError
  mItems,        \* the items its monitor waits for
  watched,       \* the items whose stateChanged its monitor is connected to
  notified,      \* the monitors still to be told about a change
  used           \* history: the items read or written, with their state

mappingsVars ==
  << mReadWrite, routes, itemState, phase, input, error, mItems, watched, notified, used >>

-----------------------------------------------------------------------------
Items == Services \X Paths

ItemStates == { "Idle", "Requested", "Synchronized", "Offline" }

(* VeQItemInitMonitor::checkState, of one item.                            *)
LoadedWhenAsked(i) == itemState[i] # "Idle"
Loaded(i) == itemState[i] \notin { "Idle", "Requested" }

PathsOf(k) ==
  { DBusModbusMap[k].objectPaths[n] : n \in DOMAIN DBusModbusMap[k].objectPaths }

(* DataIterator::items of the entry at k.                                  *)
ItemsAt(k) == { routes[TypeAt(k)] } \X PathsOf(k)

VisitedBy(in) == Visited(routes, in.address, in.quantity)
ItemsOf(in)   == UNION { ItemsAt(k) : k \in VisitedBy(in) }

(* DataIterator::error after the loop.                                     *)
ErrorBeforeLoop(in) ==
  IF VisitedBy(in) = {} THEN PassError(routes, in.address, in.quantity) ELSE "NoError"
ErrorOf(in) == PassError(routes, in.address, in.quantity)

(* The monitors connected to an item that changes its state in this step.  *)
WatchersOfChanges ==
  { r \in Requests : \E i \in watched[r] : itemState'[i] # itemState[i] }

(* The state of a request's monitor after r's own slots have run: an       *)
(* executed request's monitor is deleted or has an empty mItems.           *)
NotifyOthers(r) == notified' = (notified \cup WatchersOfChanges) \ { r }

-----------------------------------------------------------------------------
(* Mappings::getValues.  item->getValue() asks for an Idle item.           *)
GetValues(r, in) ==
  /\ used' = [used EXCEPT ![r] =
       UNION { { [ entry |-> k, item |-> i, state |-> itemState[i] ] : i \in ItemsAt(k) }
               : k \in VisitedBy(in) }]
  /\ error' = [error EXCEPT ![r] = ErrorOf(in)]
  /\ itemState' = [i \in Items |->
       IF i \in ItemsOf(in) /\ itemState[i] = "Idle" THEN "Requested" ELSE itemState[i]]

(* The state of an item after `written' were: a successful setValue leaves *)
(* an item (NoStorageQItem) Synchronized.                                  *)
StateAfter(written, i) == IF i \in written THEN "Synchronized" ELSE itemState[i]

(* The item setValues writes: the first of the entry that is not Offline,  *)
(* or the last one.                                                        *)
Target(k, written) ==
  LET service == routes[TypeAt(k)]
      paths   == DBusModbusMap[k].objectPaths
      online  == { n \in DOMAIN paths : StateAfter(written, << service, paths[n] >>) # "Offline" }
  IN  << service, paths[IF online = {} THEN Len(paths) ELSE Min(online)] >>

(* What was written before k, if target[j] was for each entry j, and what  *)
(* is then written for k.                                                  *)
WrittenBefore(target, k) == { target[j] : j \in { j \in DOMAIN target : j < k } }
Use(target, k) ==
  [ entry |-> k, item |-> target[k], state |-> StateAfter(WrittenBefore(target, k), target[k]) ]

(* A write that does not cover the whole entry starts from item->getValue() *)
PartlyCovered(k, in) ==
  k < in.address \/ in.address + in.quantity < k + SizeOf(k)

(* Mappings::setValues.  Conversion or setValue may fail at any entry;     *)
(* `stop' is that entry, or the register behind the request.               *)
SetValues(r, in) ==
  LET todo == { k \in VisitedBy(in) : ~ DBusModbusMap[k].reserved } IN
  \E target \in [todo -> ItemsOf(in)], stop \in todo \cup { in.address + in.quantity } :
    /\ \A k \in todo : target[k] = Target(k, WrittenBefore(target, k))
    /\ used' = [used EXCEPT ![r] = { Use(target, k) : k \in { k \in todo : k < stop } }]
    /\ error' = [error EXCEPT ![r] = IF stop \in todo THEN "ServiceError" ELSE ErrorOf(in)]
    /\ itemState' = [i \in Items |->
         LET state == StateAfter(WrittenBefore(target, stop), i) IN
         IF /\ stop \in todo /\ i = target[stop] /\ PartlyCovered(stop, in)
            /\ state = "Idle"
           THEN "Requested" ELSE state]

(* Mappings::onItemsInitialized(request): the second pass over the map, up *)
(* to requestCompleted, in which Backend answers and deletes the request.  *)
Execute(r, in) ==
  /\ phase' = [phase EXCEPT ![r] = "completed"]
  /\ \/ in.type = "ReadValues" /\ GetValues(r, in)
     \/ in.type = "WriteValues" /\ SetValues(r, in)
  /\ NotifyOthers(r)

(* setError and requestCompleted without a second pass.                    *)
RefuseUnreported(r, e) ==
  /\ error' = [error EXCEPT ![r] = e]
  /\ UNCHANGED << phase, itemState, mItems, watched, notified, used >>
Refuse(r, e) ==
  /\ phase' = [phase EXCEPT ![r] = "completed"]
  /\ error' = [error EXCEPT ![r] = e]
  /\ UNCHANGED << itemState, mItems, watched, notified, used >>

(* VeQItemInitMonitor::start: Idle items are asked for, and the monitor    *)
(* connects to every item that has no value yet.                           *)
MonitorIdleOnly(r, items) ==
  /\ phase' = [phase EXCEPT ![r] = "pending"]
  /\ itemState' = [i \in Items |->
       IF i \in items /\ itemState[i] = "Idle" THEN "Requested" ELSE itemState[i]]
  /\ mItems' = [mItems EXCEPT ![r] = items]
  /\ watched' = [watched EXCEPT ![r] = { i \in items : itemState[i] = "Idle" }]
  /\ NotifyOthers(r)
  /\ UNCHANGED << error, used >>
Monitor(r, items) ==
  /\ phase' = [phase EXCEPT ![r] = "pending"]
  /\ itemState' = [i \in Items |->
       IF i \in items /\ itemState[i] = "Idle" THEN "Requested" ELSE itemState[i]]
  /\ mItems' = [mItems EXCEPT ![r] = items]
  /\ watched' = [watched EXCEPT ![r] = { i \in items : ~ Loaded(i) }]
  /\ NotifyOthers(r)
  /\ UNCHANGED << error, used >>

(* Mappings::addPendingRequest.                                            *)
AddPendingRequest(r, in) ==
  \/ /\ \A i \in ItemsOf(in) : Loaded(i)
     /\ Execute(r, in)
     /\ UNCHANGED << mItems, watched >>
  \/ /\ \E i \in ItemsOf(in) : ~ Loaded(i)
     /\ Monitor(r, ItemsOf(in))

(* The check of handleRequest's loop.                                      *)
DeniedBySetting(in) == in.type = "WriteValues" /\ ~ mReadWrite
Denied(in) ==
  /\ in.type = "WriteValues"
  /\ \E k \in VisitedBy(in) : ~ mReadWrite \/ ~ DBusModbusMap[k].writable

(* Mappings::handleRequest.                                                *)
HandleRequest(r, in) ==
  /\ notified = {}
  /\ \A q \in Requests : q < r <=> phase[q] # "new"
  /\ input' = [input EXCEPT ![r] = in]
  /\ \/ Denied(in) /\ Refuse(r, "PermissionError")
     \/ ~ Denied(in) /\ ErrorOf(in) # "NoError" /\ Refuse(r, ErrorOf(in))
     \/ ~ Denied(in) /\ ErrorOf(in) = "NoError" /\ AddPendingRequest(r, in)
  /\ UNCHANGED << mReadWrite, routes >>

(* What updateState and onItemsInitialized clear: mItems, the monitor with *)
(* its connections, and the entry in mPendingRequests.                     *)
ForgetMonitorLater(r) == UNCHANGED << mItems, watched >>
ForgetMonitor(r) ==
  /\ mItems' = [mItems EXCEPT ![r] = {}]
  /\ watched' = [watched EXCEPT ![r] = {}]

(* VeQItemInitMonitor::onStateChanged and updateState, with the slot       *)
(* Mappings::onItemsInitialized that its signal calls.                     *)
OnStateChanged(r) ==
  /\ r \in notified
  /\ UNCHANGED << mReadWrite, routes, input >>
  /\ \/ /\ mItems[r] = {} \/ \E i \in mItems[r] : ~ Loaded(i)
        /\ notified' = notified \ { r }
        /\ UNCHANGED << itemState, phase, error, mItems, watched, used >>
     \/ /\ mItems[r] # {} /\ \A i \in mItems[r] : Loaded(i)
        /\ ForgetMonitor(r)
        /\ Execute(r, input[r])

-----------------------------------------------------------------------------
(* The environment: D-Bus.                                                 *)

ItemBecomes(i, s) ==
  /\ notified = {}
  /\ itemState' = [itemState EXCEPT ![i] = s]
  /\ notified' = WatchersOfChanges
  /\ UNCHANGED << mReadWrite, routes, phase, input, error, mItems, watched, used >>

(* The answer to GetValue: a value, or an error.                           *)
ItemAnswered(i) ==
  /\ itemState[i] = "Requested"
  /\ \E s \in { "Synchronized", "Offline" } : ItemBecomes(i, s)

(* The service that owns the item disappears from the bus, or comes back   *)
(* and sends its values.                                                   *)
ItemLost(i) == itemState[i] = "Synchronized" /\ ItemBecomes(i, "Offline")
ItemBack(i) == itemState[i] = "Offline" /\ ItemBecomes(i, "Synchronized")

(* The service comes back and its items have to be asked for again.        *)
ItemReloads(i) ==
  /\ Reloads
  /\ itemState[i] = "Offline"
  /\ \E s \in { "Idle", "Requested" } : ItemBecomes(i, s)

(* A service appears, disappears, comes back or changes its DeviceInstance *)
(* (module DBusServices).                                                  *)
RoutesChange ==
  /\ notified = {}
  /\ routes' \in RouteTables \ { routes }
  /\ UNCHANGED << mReadWrite, itemState, phase, input, error, mItems, watched, notified, used >>

(* Mappings::onReadWriteChanged.                                           *)
OnReadWriteChanged ==
  /\ notified = {}
  /\ mReadWrite' \in ReadWriteValues \ { mReadWrite }
  /\ UNCHANGED << routes, itemState, phase, input, error, mItems, watched, notified, used >>

-----------------------------------------------------------------------------
Init ==
  /\ mReadWrite \in ReadWriteValues
  /\ routes \in RouteTables
  /\ itemState = [i \in Items |-> "Idle"]
  /\ phase = [r \in Requests |-> "new"]
  /\ input = [r \in Requests |-> NoInput]
  /\ error = [r \in Requests |-> "NoError"]
  /\ mItems = [r \in Requests |-> {}]
  /\ watched = [r \in Requests |-> {}]
  /\ notified = {}
  /\ used = [r \in Requests |-> {}]

ItemEvent(i) == ItemAnswered(i) \/ ItemLost(i) \/ ItemBack(i) \/ ItemReloads(i)

Next ==
  \/ \E r \in Requests, in \in Inputs : HandleRequest(r, in)
  \/ \E r \in Requests : OnStateChanged(r)
  \/ \E i \in Items : ItemEvent(i)
  \/ RoutesChange
  \/ OnReadWriteChanged

(* The event loop delivers every signal, and D-Bus answers every GetValue, *)
(* if only with a timeout.  The answer's event may find the loop busy with *)
(* another one, again and again, but it stays queued: hence SF.  No client *)
(* is obliged to make requests.                                            *)
Fairness ==
  /\ \A r \in Requests : WF_mappingsVars(OnStateChanged(r))
  /\ \A i \in Items : SF_mappingsVars(ItemAnswered(i))

Spec == Init /\ [][Next]_mappingsVars /\ Fairness

-----------------------------------------------------------------------------
UseType == [ entry : Registers, item : Items, state : ItemStates ]

(* No request is lost: one that has come in waits or is completed, and one *)
(* that has an error was reported to Backend.                              *)
NoneLost ==
  \A r \in Requests :
    /\ phase[r] = "new" <=> input[r] = NoInput
    /\ error[r] # "NoError" => phase[r] = "completed"

(* The variables have their types and go together.                         *)
TypeOK ==
  /\ NoneLost
  /\ mReadWrite \in BOOLEAN
  /\ routes \in RouteTables
  /\ itemState \in [Items -> ItemStates]
  /\ phase \in [Requests -> { "new", "pending", "completed" }]
  /\ input \in [Requests -> Inputs \cup { NoInput }]
  /\ error \in [Requests -> Errors]
  /\ mItems \in [Requests -> SUBSET Items]
  /\ watched \in [Requests -> SUBSET Items]
  /\ notified \subseteq Requests
  /\ used \in [Requests -> SUBSET UseType]

Pending   == { r \in Requests : phase[r] = "pending" }
Completed == { r \in Requests : phase[r] = "completed" }
Writes    == { r \in Requests : phase[r] # "new" /\ input[r].type = "WriteValues" }

(* The entries a request touches, answered for or not.                     *)
Overlapping(in) ==
  { k \in Registers : k < in.address + in.quantity /\ in.address < k + SizeOf(k) }

(* No wakeup is lost: between two events every pending request waits for   *)
(* an item that has no value yet and whose next change its monitor will be *)
(* told of.  Holds unless an item that had a value is asked for again.     *)
NoLostWakeup ==
  notified = {} =>
    \A r \in Pending : \E i \in mItems[r] : ~ Loaded(i) /\ i \in watched[r]

(* Write access is checked in the first pass only; no write that executes, *)
(* possibly much later and with other services, touches an entry that is   *)
(* read-only, reserved or outside of its request.                          *)
OnlyWritableWritten ==
  \A r \in Writes : \A u \in used[r] :
    /\ DBusModbusMap[u.entry].writable /\ ~ DBusModbusMap[u.entry].reserved
    /\ u.entry \in Overlapping(input[r])

(* A request answered without an error was carried out in full: each       *)
(* register of it is mapped, each entry was read, or written unless it is  *)
(* reserved, and entries of one device type on one service.                *)
AcknowledgedInFull ==
  \A r \in Completed :
    LET in == input[r] IN
    error[r] = "NoError" =>
      /\ \A x \in in.address .. in.address + in.quantity - 1 :
           \E k \in Overlapping(in) : Covers(k, x)
      /\ \A k \in Overlapping(in) :
           IF in.type = "ReadValues"
             THEN \A p \in PathsOf(k) : \E u \in used[r] : u.entry = k /\ u.item[2] = p
             ELSE DBusModbusMap[k].reserved \/ \E u \in used[r] : u.entry = k
      /\ \A u, v \in used[r] : TypeAt(u.entry) = TypeAt(v.entry) => u.item[1] = v.item[1]

(* The values used were values: neither a reply nor a write is computed    *)
(* from an item that D-Bus has not answered for.  Holds, also when services*)
(* go and come back, unless another one takes over while a request waits.  *)
UsesLoadedItems ==
  \A r \in Requests : \A u \in used[r] : u.state \notin { "Idle", "Requested" }

(* A request is completed once: Backend deletes it when it is.             *)
CompletedOnce ==
  [][\A r \in Completed :
       phase'[r] = "completed" /\ error'[r] = error[r] /\ used'[r] = used[r]]_mappingsVars

Service == INSTANCE RequestService WITH Requests <- Requests, phase <- phase, error <- error

(* To Backend, Mappings is a RequestService: every request is completed    *)
(* once, those that wait eventually, with the errors it may have.          *)
IsRequestService == Service!Spec

Monitoring ==
  INSTANCE InitMonitor WITH
    Monitors <- Requests, Items <- Items, ItemStates <- ItemStates,
    itemState <- itemState, mItems <- mItems,
    started <- [r \in Requests |-> phase[r] # "new"]

(* The items a request waits for are monitored as VeQItemInitMonitor's     *)
(* documentation promises: the request goes on only in a step that begins  *)
(* with values for all of them, and it does not stay behind when they all  *)
(* have been answered for, whoever asked for them and in whatever order    *)
(* the answers came.  Holds unless an item that had a value is asked for   *)
(* again: it is not watched then.                                          *)
MonitorsItems == Monitoring!Spec

(* mappings.cpp:373 asserts this of the item setValues is about to write.  *)
WriteTargetAsserted ==
  \A r \in Writes : \A u \in used[r] : u.state \notin { "Idle", "Requested" }

(* test/mapping_test.h:473-505: a write answered with AddressError left    *)
(* every value as it was.                                                  *)
AddressErrorTouchesNothing ==
  \A r \in Writes : error[r] = "AddressError" => used[r] = {}
=============================================================================
