--------------------------- MODULE MappingsProofs ---------------------------
(***************************************************************************)
(* What module Mappings promises for every register map, every set of      *)
(* services and items, any number of requests and any change of the        *)
(* services that answer for them.  Four parts: the operators and the       *)
(* inductive invariant; the wakeups of the VeQItemInitMonitors, by which a *)
(* request is executed once and, as long as D-Bus asks for no item a       *)
(* second time, none is left waiting for a signal already sent; what       *)
(* Mappings does for Backend: a request acknowledged was carried out in    *)
(* full; and that every step is one that RequestService and InitMonitor    *)
(* allow.  That what waits is completed in the end is left to TLC.         *)
(***************************************************************************)
EXTENDS Mappings, RegisterMapProofs

-----------------------------------------------------------------------------
(* The operators of the module.                                            *)

(* What a request is.                                                      *)
LEMMA InputFacts ==
  ASSUME NEW in \in Inputs
  PROVE  /\ in.type \in { "ReadValues", "WriteValues" }
         /\ in.address \in Nat /\ in.quantity \in Nat \ {0}
BY MappingsAssumption DEF InputType

(* The paths of an entry are paths.                                        *)
LEMMA PathFacts ==
  ASSUME NEW k \in Registers
  PROVE  /\ DBusModbusMap[k].objectPaths \in Seq(Paths)
         /\ PathsOf(k) \subseteq Paths
<1>1. DBusModbusMap[k].objectPaths \in Seq(Paths)
  BY MapAssumption DEF Registers, DBusModbusData
<1>. QED
  BY <1>1 DEF PathsOf

(* What a request's pass over the map uses are items of services.          *)
LEMMA ItemFacts ==
  ASSUME TypeOK, NEW in \in Inputs
  PROVE  /\ \A k \in VisitedBy(in) :
              /\ k \in Registers /\ k \in Overlapping(in)
              /\ k < in.address + in.quantity
              /\ ItemsAt(k) \subseteq Items
         /\ ItemsOf(in) \subseteq Items
<1>1. routes \in RouteTable
  BY MappingsAssumption DEF TypeOK
<1>2. ASSUME NEW k \in VisitedBy(in)
      PROVE  /\ k \in Registers /\ k \in Overlapping(in)
             /\ k < in.address + in.quantity
             /\ ItemsAt(k) \subseteq Items
  <2>1. /\ k \in Registers /\ k < in.address + in.quantity /\ in.address < k + SizeOf(k)
        /\ routes[TypeAt(k)] \in Services
    BY <1>1, <1>2, InputFacts, VisitedFacts DEF VisitedBy
  <2>2. ItemsAt(k) \subseteq Items
    BY <2>1, PathFacts DEF ItemsAt, Items
  <2>. QED
    BY <2>1, <2>2 DEF Overlapping
<1>. QED
  BY <1>2 DEF ItemsOf

(* The item setValues picks is one of the entry's, one the first pass has  *)
(* looked at.                                                              *)
LEMMA TargetFacts ==
  ASSUME NEW k \in Registers, DBusModbusMap[k].writable, NEW written
  PROVE  Target(k, written) \in ItemsAt(k)
<1>. DEFINE service == routes[TypeAt(k)]
            paths   == DBusModbusMap[k].objectPaths
            online  == { m \in DOMAIN paths : StateAfter(written, << service, paths[m] >>) # "Offline" }
            n       == IF online = {} THEN Len(paths) ELSE Min(online)
<1>1. DOMAIN paths = 1 .. Len(paths) /\ Len(paths) \in Nat \ {0}
  BY PathFacts, WritableAssumption
<1>2. online # {} => Min(online) \in online
  <2>1. online \in SUBSET Nat
    BY <1>1
  <2>. HIDE DEF online
  <2>. QED
    BY <2>1, MinIsMinimum
<1>3. n \in DOMAIN paths
  BY <1>1, <1>2
<1>4. Target(k, written) = << service, paths[n] >>
  BY DEF Target
<1>. HIDE DEF n
<1>. QED
  BY <1>3, <1>4 DEF ItemsAt, PathsOf

(* The entries setValues has to write.                                     *)
ToWrite(in) == { k \in VisitedBy(in) : ~ DBusModbusMap[k].reserved }

(* What setValues does, entry by entry, with the states it finds: the one  *)
(* before the pass, or Synchronized if an earlier entry wrote the item.    *)
WritePass(r, in, target, stop) ==
  /\ \A k \in ToWrite(in) : \E written : target[k] = Target(k, written)
  /\ \A k \in ToWrite(in) : Use(target, k).state \in { "Synchronized", itemState[target[k]] }
  /\ used'[r] = { Use(target, k) : k \in { k \in ToWrite(in) : k < stop } }
  /\ used' = [used EXCEPT ![r] = used'[r]]
  /\ error' = [error EXCEPT ![r] = IF stop \in ToWrite(in) THEN "ServiceError" ELSE ErrorOf(in)]
  /\ itemState' = [i \in Items |-> itemState'[i]]
  /\ \A i \in Items :
       \/ itemState'[i] \in { "Synchronized", itemState[i] }
       \/ itemState'[i] = "Requested" /\ itemState[i] = "Idle"

LEMMA SetValuesFacts ==
  ASSUME TypeOK, NEW r \in Requests, NEW in \in Inputs, SetValues(r, in)
  PROVE  \E target \in [ToWrite(in) -> Items], stop \in ToWrite(in) \cup { in.address + in.quantity } :
           WritePass(r, in, target, stop)
<1>. DEFINE todo == ToWrite(in)
<1>1. PICK target \in [todo -> ItemsOf(in)], stop \in todo \cup { in.address + in.quantity } :
        /\ \A k \in todo : target[k] = Target(k, WrittenBefore(target, k))
        /\ used' = [used EXCEPT ![r] = { Use(target, k) : k \in { k \in todo : k < stop } }]
        /\ error' = [error EXCEPT ![r] = IF stop \in todo THEN "ServiceError" ELSE ErrorOf(in)]
        /\ itemState' = [i \in Items |->
             LET state == StateAfter(WrittenBefore(target, stop), i) IN
             IF /\ stop \in todo /\ i = target[stop] /\ PartlyCovered(stop, in)
                /\ state = "Idle"
               THEN "Requested" ELSE state]
  BY DEF SetValues, ToWrite
<1>2. target \in [todo -> Items]
  BY <1>1, ItemFacts
<1>3. \A k \in todo : Use(target, k).state \in { "Synchronized", itemState[target[k]] }
  BY DEF Use, StateAfter
<1>4. /\ used'[r] = { Use(target, k) : k \in { k \in todo : k < stop } }
      /\ used' = [used EXCEPT ![r] = used'[r]]
  BY <1>1 DEF TypeOK
<1>5. /\ itemState' = [i \in Items |-> itemState'[i]]
      /\ \A i \in Items :
           \/ itemState'[i] \in { "Synchronized", itemState[i] }
           \/ itemState'[i] = "Requested" /\ itemState[i] = "Idle"
  <2>. DEFINE state(i) == StateAfter(WrittenBefore(target, stop), i)
              asked(i) == stop \in todo /\ i = target[stop] /\ PartlyCovered(stop, in)
              value(i) == IF asked(i) /\ state(i) = "Idle" THEN "Requested" ELSE state(i)
  <2>1. itemState' = [i \in Items |-> value(i)]
    BY <1>1
  <2>2. ASSUME NEW i PROVE state(i) = "Synchronized" \/ state(i) = itemState[i]
    BY DEF StateAfter
  <2>3. ASSUME NEW i
        PROVE  \/ value(i) \in { "Synchronized", itemState[i] }
               \/ value(i) = "Requested" /\ itemState[i] = "Idle"
    <3>1. state(i) = "Synchronized" \/ state(i) = itemState[i]
      BY <2>2
    <3>. HIDE DEF asked, state
    <3>. QED
      BY <3>1
  <2>. HIDE DEF value
  <2>. QED
    BY <2>1, <2>3
<1>. HIDE DEF todo
<1>6. /\ \A k \in todo : \E written : target[k] = Target(k, written)
      /\ error' = [error EXCEPT ![r] = IF stop \in todo THEN "ServiceError" ELSE ErrorOf(in)]
  BY <1>1
<1>. QED
  BY <1>2, <1>3, <1>4, <1>5, <1>6 DEF WritePass, todo

-----------------------------------------------------------------------------
(* The inductive invariant.                                                *)

(* A write that waits has been checked: whatever pass over the map will be *)
(* made for it later, it finds writable entries only.                      *)
Checked ==
  \A r \in Requests :
    /\ phase[r] # "new" => input[r] \in Inputs
    /\ phase[r] = "new" => used[r] = {}
    /\ phase[r] = "pending" /\ input[r].type = "WriteValues" =>
         \A k \in Overlapping(input[r]) : DBusModbusMap[k].writable

(* Only a request that waits has a monitor with items.                     *)
MonitorsOfPending == \A r \in Requests : mItems[r] # {} => phase[r] = "pending"

IInv == TypeOK /\ Checked /\ MonitorsOfPending /\ OnlyWritableWritten

(* In the initial state no request has been made.                          *)
LEMMA InitIInv == Init => IInv
<1>. SUFFICES ASSUME Init PROVE IInv
  OBVIOUS
<1>1. TypeOK
  BY MappingsAssumption DEF Init, TypeOK, NoneLost, ItemStates, Errors
<1>2. Checked /\ MonitorsOfPending /\ OnlyWritableWritten
  BY DEF Init, Checked, MonitorsOfPending, OnlyWritableWritten, Writes
<1>. QED
  BY <1>1, <1>2 DEF IInv

(* The second pass, for a request that was checked, keeps the types and    *)
(* writes writable entries of the request only.                            *)
LEMMA ExecuteFacts ==
  ASSUME TypeOK, NEW r \in Requests, NEW in \in Inputs, Execute(r, in),
         in.type = "WriteValues" => \A k \in Overlapping(in) : DBusModbusMap[k].writable
  PROVE  /\ phase' = [phase EXCEPT ![r] = "completed"]
         /\ itemState' \in [Items -> ItemStates]
         /\ error' \in [Requests -> Errors]
         /\ used' \in [Requests -> SUBSET UseType]
         /\ \A q \in Requests \ { r } : used'[q] = used[q] /\ error'[q] = error[q]
         /\ notified' = (notified \cup WatchersOfChanges) \ { r }
         /\ notified' \subseteq Requests
         /\ in.type = "WriteValues" =>
              \A u \in used'[r] :
                /\ DBusModbusMap[u.entry].writable /\ ~ DBusModbusMap[u.entry].reserved
                /\ u.entry \in Overlapping(in)
<1>1. /\ phase' = [phase EXCEPT ![r] = "completed"]
      /\ notified' = (notified \cup WatchersOfChanges) \ { r }
  BY DEF Execute, NotifyOthers
<1>2. notified' \subseteq Requests
  BY <1>1 DEF TypeOK, WatchersOfChanges
<1>3. ErrorOf(in) \in Errors
  BY InputFacts, PassErrorType DEF ErrorOf
<1>4. CASE in.type = "ReadValues" /\ GetValues(r, in)
  <2>1. itemState' \in [Items -> ItemStates]
    BY <1>4 DEF GetValues, TypeOK, ItemStates
  <2>2. error' \in [Requests -> Errors] /\ \A q \in Requests \ { r } : error'[q] = error[q]
    BY <1>3, <1>4 DEF GetValues, TypeOK
  <2>. DEFINE U == UNION { { [ entry |-> k, item |-> i, state |-> itemState[i] ]
                             : i \in ItemsAt(k) } : k \in VisitedBy(in) }
  <2>3. U \subseteq UseType
    <3>. SUFFICES ASSUME NEW k \in VisitedBy(in), NEW i \in ItemsAt(k)
                  PROVE  [ entry |-> k, item |-> i, state |-> itemState[i] ] \in UseType
      OBVIOUS
    <3>1. k \in Registers /\ i \in Items
      BY ItemFacts
    <3>. QED
      BY <3>1 DEF UseType, TypeOK
  <2>4. used' = [used EXCEPT ![r] = U]
    BY <1>4 DEF GetValues
  <2>5. /\ used' \in [Requests -> SUBSET UseType]
        /\ \A q \in Requests \ { r } : used'[q] = used[q]
    BY <2>3, <2>4 DEF TypeOK
  <2>. QED
    BY <1>1, <1>2, <1>4, <2>1, <2>2, <2>5
<1>5. CASE in.type = "WriteValues" /\ SetValues(r, in)
  <2>. DEFINE todo == ToWrite(in)
  <2>0. PICK target \in [todo -> Items], stop \in todo \cup { in.address + in.quantity } :
          WritePass(r, in, target, stop)
    BY <1>5, SetValuesFacts
  <2>1. /\ \A k \in todo : Use(target, k).state \in { "Synchronized", itemState[target[k]] }
        /\ used'[r] = { Use(target, k) : k \in { k \in todo : k < stop } }
        /\ used' = [used EXCEPT ![r] = used'[r]]
        /\ error' = [error EXCEPT ![r] = IF stop \in todo THEN "ServiceError" ELSE ErrorOf(in)]
        /\ itemState' = [i \in Items |-> itemState'[i]]
        /\ \A i \in Items :
             \/ itemState'[i] \in { "Synchronized", itemState[i] }
             \/ itemState'[i] = "Requested" /\ itemState[i] = "Idle"
    BY <2>0 DEF WritePass
  <2>2. itemState' \in [Items -> ItemStates]
    <3>1. \A i \in Items : itemState[i] \in ItemStates
      BY DEF TypeOK
    <3>2. \A i \in Items : itemState'[i] \in ItemStates
      BY <2>1, <3>1 DEF ItemStates
    <3>. QED
      BY <2>1, <3>2
  <2>3. error' \in [Requests -> Errors] /\ \A q \in Requests \ { r } : error'[q] = error[q]
    BY <1>3, <2>1 DEF TypeOK, Errors
  <2>4. \A k \in todo : /\ k \in Registers /\ k \in Overlapping(in)
                        /\ DBusModbusMap[k].writable /\ ~ DBusModbusMap[k].reserved
    BY <1>5, ItemFacts DEF ToWrite
  <2>5. ASSUME NEW u \in used'[r]
        PROVE  u \in UseType /\ u.entry \in todo
    <3>1. PICK k \in todo : u = Use(target, k)
      BY <2>1
    <3>2. target[k] \in Items /\ itemState[target[k]] \in ItemStates
      BY DEF TypeOK
    <3>3. u.state \in ItemStates /\ u = [ entry |-> k, item |-> target[k], state |-> u.state ]
      BY <2>1, <3>1, <3>2 DEF Use, ItemStates
    <3>. QED
      BY <2>4, <3>2, <3>3 DEF UseType
  <2>6. /\ used' \in [Requests -> SUBSET UseType]
        /\ \A q \in Requests \ { r } : used'[q] = used[q]
    BY <2>1, <2>5 DEF TypeOK
  <2>. QED
    BY <1>1, <1>2, <2>2, <2>3, <2>4, <2>5, <2>6
<1>. QED
  BY <1>4, <1>5 DEF Execute

(* No request is lost by a step that takes r into a new phase: it has come *)
(* in, and it has an error only if it is completed.                        *)
LEMMA NoneLostStep ==
  ASSUME TypeOK, NEW r \in Requests, NEW p \in { "pending", "completed" },
         phase' = [phase EXCEPT ![r] = p],
         input'[r] # NoInput,
         p = "pending" => error'[r] = "NoError",
         \A q \in Requests \ { r } : input'[q] = input[q] /\ error'[q] = error[q]
  PROVE  NoneLost'
BY DEF TypeOK, NoneLost

(* Each event of the program preserves it.                                 *)
LEMMA HandleRequestIInv ==
  ASSUME IInv, NEW r \in Requests, NEW in \in Inputs, HandleRequest(r, in)
  PROVE  IInv'
<1>1. /\ notified = {} /\ phase[r] = "new" /\ used[r] = {}
      /\ input' = [input EXCEPT ![r] = in]
      /\ UNCHANGED << mReadWrite, routes >>
  BY DEF HandleRequest, IInv, TypeOK, Checked, Requests
<1>2. TypeOK /\ Checked /\ MonitorsOfPending /\ OnlyWritableWritten
  BY DEF IInv
<1>3. /\ mItems[r] = {}
      /\ input'[r] = in /\ \A q \in Requests \ { r } : input'[q] = input[q]
      /\ input' \in [Requests -> Inputs \cup { NoInput }]
  BY <1>1, <1>2 DEF TypeOK, MonitorsOfPending
<1>4. ASSUME NEW e \in Errors, Refuse(r, e) PROVE IInv'
  <2>1. TypeOK'
    <3>1. NoneLost'
      BY <1>2, <1>3, <1>4, MappingsAssumption, NoneLostStep DEF Refuse, TypeOK
    <3>. QED
      BY <1>1, <1>2, <1>3, <1>4, <3>1 DEF Refuse, TypeOK
  <2>2. /\ phase'[r] = "completed" /\ \A q \in Requests \ { r } : phase'[q] = phase[q]
        /\ used' = used /\ mItems' = mItems
    BY <1>2, <1>4 DEF Refuse, TypeOK
  <2>3. Checked' /\ MonitorsOfPending'
    BY <1>2, <1>3, <2>2 DEF Checked, MonitorsOfPending, Overlapping
  <2>4. OnlyWritableWritten'
    <3>. SUFFICES ASSUME NEW q \in Writes', NEW u \in used'[q]
                  PROVE  /\ DBusModbusMap[u.entry].writable /\ ~ DBusModbusMap[u.entry].reserved
                         /\ u.entry \in Overlapping(input'[q])
      BY DEF OnlyWritableWritten, Overlapping
    <3>1. q # r
      BY <1>1, <2>2
    <3>. QED
      BY <1>2, <1>3, <2>2, <3>1 DEF OnlyWritableWritten, Writes
  <2>. QED
    BY <2>1, <2>3, <2>4 DEF IInv
<1>5. ASSUME ~ Denied(in), ErrorOf(in) = "NoError", in.type = "WriteValues"
      PROVE  \A k \in Overlapping(in) : DBusModbusMap[k].writable
  <2>1. VisitedBy(in) = Overlapping(in)
    BY <1>2, <1>5, InputFacts, CompletePass, MappingsAssumption
       DEF TypeOK, ErrorOf, VisitedBy, Overlapping
  <2>. QED
    BY <1>5, <2>1 DEF Denied
<1>6. ASSUME ~ Denied(in), ErrorOf(in) = "NoError", Execute(r, in), UNCHANGED << mItems, watched >>
      PROVE  IInv'
  <2>1. /\ phase' = [phase EXCEPT ![r] = "completed"]
        /\ itemState' \in [Items -> ItemStates]
        /\ error' \in [Requests -> Errors]
        /\ used' \in [Requests -> SUBSET UseType]
        /\ \A q \in Requests \ { r } : used'[q] = used[q] /\ error'[q] = error[q]
        /\ notified' \subseteq Requests
        /\ in.type = "WriteValues" =>
             \A u \in used'[r] :
               /\ DBusModbusMap[u.entry].writable /\ ~ DBusModbusMap[u.entry].reserved
               /\ u.entry \in Overlapping(in)
    BY <1>2, <1>5, <1>6, ExecuteFacts
  <2>2. phase'[r] = "completed" /\ \A q \in Requests \ { r } : phase'[q] = phase[q]
    BY <1>2, <2>1 DEF TypeOK
  <2>3. TypeOK'
    <3>1. NoneLost'
      BY <1>2, <1>3, <2>1, MappingsAssumption, NoneLostStep
    <3>. QED
      BY <1>1, <1>2, <1>3, <1>6, <2>1, <3>1 DEF TypeOK
  <2>4. Checked' /\ MonitorsOfPending'
    BY <1>2, <1>3, <1>6, <2>1, <2>2 DEF Checked, MonitorsOfPending, Overlapping
  <2>5. OnlyWritableWritten'
    <3>. SUFFICES ASSUME NEW q \in Writes', NEW u \in used'[q]
                  PROVE  /\ DBusModbusMap[u.entry].writable /\ ~ DBusModbusMap[u.entry].reserved
                         /\ u.entry \in Overlapping(input'[q])
      BY DEF OnlyWritableWritten, Overlapping
    <3>1. CASE q = r
      BY <1>3, <2>1, <3>1 DEF Writes
    <3>2. CASE q # r
      BY <1>2, <1>3, <2>1, <2>2, <3>2 DEF OnlyWritableWritten, Writes
    <3>. QED
      BY <3>1, <3>2
  <2>. QED
    BY <2>3, <2>4, <2>5 DEF IInv
<1>7. ASSUME ~ Denied(in), ErrorOf(in) = "NoError", Monitor(r, ItemsOf(in)) PROVE IInv'
  <2>1. ItemsOf(in) \subseteq Items
    BY <1>2, ItemFacts
  <2>2. /\ phase'[r] = "pending" /\ \A q \in Requests \ { r } : phase'[q] = phase[q]
        /\ \A q \in Requests \ { r } : mItems'[q] = mItems[q]
        /\ used' = used
    BY <1>2, <1>7 DEF Monitor, TypeOK
  <2>3. TypeOK'
    <3>1. itemState' \in [Items -> ItemStates]
      BY <1>2, <1>7 DEF Monitor, TypeOK, ItemStates
    <3>2. notified' \subseteq Requests
      BY <1>2, <1>7 DEF Monitor, NotifyOthers, WatchersOfChanges, TypeOK
    <3>3. /\ mItems' \in [Requests -> SUBSET Items] /\ watched' \in [Requests -> SUBSET Items]
          /\ phase' \in [Requests -> { "new", "pending", "completed" }]
      BY <1>2, <1>7, <2>1 DEF Monitor, TypeOK
    <3>4. error' = error /\ error[r] = "NoError"
      BY <1>1, <1>2, <1>7 DEF Monitor, TypeOK, NoneLost
    <3>5. NoneLost'
      BY <1>2, <1>3, <1>7, <3>4, MappingsAssumption, NoneLostStep DEF Monitor
    <3>. QED
      BY <1>1, <1>2, <1>3, <1>7, <3>1, <3>2, <3>3, <3>5 DEF Monitor, TypeOK
  <2>4. Checked' /\ MonitorsOfPending'
    BY <1>2, <1>3, <1>5, <1>7, <2>2 DEF Checked, MonitorsOfPending, Overlapping
  <2>5. OnlyWritableWritten'
    <3>. SUFFICES ASSUME NEW q \in Writes', NEW u \in used'[q]
                  PROVE  /\ DBusModbusMap[u.entry].writable /\ ~ DBusModbusMap[u.entry].reserved
                         /\ u.entry \in Overlapping(input'[q])
      BY DEF OnlyWritableWritten, Overlapping
    <3>1. q # r
      BY <1>1, <2>2
    <3>. QED
      BY <1>2, <1>3, <2>2, <3>1 DEF OnlyWritableWritten, Writes
  <2>. QED
    BY <2>3, <2>4, <2>5 DEF IInv
<1>8. "PermissionError" \in Errors /\ ErrorOf(in) \in Errors
  BY InputFacts, PassErrorType DEF ErrorOf, Errors
<1>. QED
  BY <1>4, <1>6, <1>7, <1>8 DEF HandleRequest, AddPendingRequest

(* So does a monitor that is told of a change, whether its request goes on  *)
(* waiting or is executed now.                                             *)
LEMMA OnStateChangedIInv ==
  ASSUME IInv, NEW r \in Requests, OnStateChanged(r)
  PROVE  IInv'
<1>1. TypeOK /\ Checked /\ MonitorsOfPending /\ OnlyWritableWritten
  BY DEF IInv
<1>2. UNCHANGED << mReadWrite, routes, input >>
  BY DEF OnStateChanged
<1>3. CASE /\ notified' = notified \ { r }
           /\ UNCHANGED << itemState, phase, error, mItems, watched, used >>
  <2>1. TypeOK'
    BY <1>1, <1>2, <1>3 DEF TypeOK, NoneLost
  <2>2. Checked' /\ MonitorsOfPending' /\ OnlyWritableWritten'
    BY <1>1, <1>2, <1>3
       DEF Checked, MonitorsOfPending, OnlyWritableWritten, Writes, Overlapping
  <2>. QED
    BY <2>1, <2>2 DEF IInv
<1>4. CASE mItems[r] # {} /\ ForgetMonitor(r) /\ Execute(r, input[r])
  <2>1. phase[r] = "pending" /\ input[r] \in Inputs
    BY <1>1, <1>4 DEF MonitorsOfPending, Checked
  <2>2. input[r].type = "WriteValues" => \A k \in Overlapping(input[r]) : DBusModbusMap[k].writable
    BY <1>1, <2>1 DEF Checked
  <2>3. /\ phase' = [phase EXCEPT ![r] = "completed"]
        /\ itemState' \in [Items -> ItemStates]
        /\ error' \in [Requests -> Errors]
        /\ used' \in [Requests -> SUBSET UseType]
        /\ \A q \in Requests \ { r } : used'[q] = used[q] /\ error'[q] = error[q]
        /\ notified' \subseteq Requests
        /\ input[r].type = "WriteValues" =>
             \A u \in used'[r] :
               /\ DBusModbusMap[u.entry].writable /\ ~ DBusModbusMap[u.entry].reserved
               /\ u.entry \in Overlapping(input[r])
    BY <1>1, <1>4, <2>1, <2>2, ExecuteFacts
  <2>4. phase'[r] = "completed" /\ \A q \in Requests \ { r } : phase'[q] = phase[q]
    BY <1>1, <2>3 DEF TypeOK
  <2>5. /\ mItems'[r] = {} /\ \A q \in Requests \ { r } : mItems'[q] = mItems[q]
        /\ mItems' \in [Requests -> SUBSET Items] /\ watched' \in [Requests -> SUBSET Items]
    BY <1>1, <1>4 DEF ForgetMonitor, TypeOK
  <2>6. TypeOK'
    <3>1. NoneLost'
      BY <1>1, <1>2, <2>1, <2>3, MappingsAssumption, NoneLostStep
    <3>. QED
      BY <1>1, <1>2, <2>3, <2>5, <3>1 DEF TypeOK
  <2>7. Checked' /\ MonitorsOfPending'
    BY <1>1, <1>2, <2>1, <2>3, <2>4, <2>5 DEF Checked, MonitorsOfPending, Overlapping
  <2>8. OnlyWritableWritten'
    <3>. SUFFICES ASSUME NEW q \in Writes', NEW u \in used'[q]
                  PROVE  /\ DBusModbusMap[u.entry].writable /\ ~ DBusModbusMap[u.entry].reserved
                         /\ u.entry \in Overlapping(input'[q])
      BY DEF OnlyWritableWritten, Overlapping
    <3>1. CASE q = r
      BY <1>2, <2>3, <3>1 DEF Writes
    <3>2. CASE q # r
      BY <1>1, <1>2, <2>3, <2>4, <3>2 DEF OnlyWritableWritten, Writes
    <3>. QED
      BY <3>1, <3>2
  <2>. QED
    BY <2>6, <2>7, <2>8 DEF IInv
<1>. QED
  BY <1>3, <1>4 DEF OnStateChanged

(* What happens on D-Bus preserves it.                                     *)
LEMMA EnvironmentIInv ==
  ASSUME IInv,
         \/ \E i \in Items : ItemEvent(i)
         \/ RoutesChange
         \/ OnReadWriteChanged
  PROVE  IInv'
<1>1. /\ UNCHANGED << phase, input, error, mItems, watched, used >>
      /\ mReadWrite' \in BOOLEAN /\ routes' \in RouteTables
      /\ itemState' \in [Items -> ItemStates]
      /\ notified' \subseteq Requests
  <2>1. ASSUME NEW i \in Items, NEW s \in ItemStates, ItemBecomes(i, s)
        PROVE  /\ UNCHANGED << mReadWrite, routes, phase, input, error, mItems, watched, used >>
               /\ itemState' \in [Items -> ItemStates] /\ notified' \subseteq Requests
    BY <2>1 DEF ItemBecomes, WatchersOfChanges, IInv, TypeOK
  <2>2. CASE \E i \in Items : ItemEvent(i)
    <3>1. \E i \in Items, s \in ItemStates : ItemBecomes(i, s)
      BY <2>2 DEF ItemEvent, ItemAnswered, ItemLost, ItemBack, ItemReloads, ItemStates
    <3>. QED
      BY <2>1, <3>1 DEF IInv, TypeOK
  <2>3. CASE RoutesChange
    BY <2>3 DEF RoutesChange, IInv, TypeOK
  <2>4. CASE OnReadWriteChanged
    BY <2>4, MappingsAssumption DEF OnReadWriteChanged, IInv, TypeOK
  <2>. QED
    BY <2>2, <2>3, <2>4
<1>2. TypeOK'
  BY <1>1 DEF IInv, TypeOK, NoneLost
<1>3. Checked' /\ MonitorsOfPending' /\ OnlyWritableWritten'
  BY <1>1 DEF IInv, Checked, MonitorsOfPending, OnlyWritableWritten, Writes, Overlapping
<1>. QED
  BY <1>2, <1>3 DEF IInv

(* The invariant holds in every state.                                     *)
THEOREM SpecIInv == Spec => []IInv
<1>1. IInv /\ UNCHANGED mappingsVars => IInv'
  BY DEF IInv, TypeOK, NoneLost, Checked, MonitorsOfPending, OnlyWritableWritten, Writes,
         Overlapping, mappingsVars
<1>2. IInv /\ [Next]_mappingsVars => IInv'
  BY <1>1, HandleRequestIInv, OnStateChangedIInv, EnvironmentIInv DEF Next
<1>. QED
  BY <1>2, InitIInv, PTL DEF Spec

(* The variables keep their types: among others, no pass over the map ever *)
(* uses the null service.                                                  *)
THEOREM TypeCorrect == Spec => []TypeOK
BY SpecIInv, PTL DEF IInv

(* Whatever happens between the two passes, a write writes writable,       *)
(* unreserved entries of its own request only.                             *)
THEOREM WritesAreAllowed == Spec => []OnlyWritableWritten
BY SpecIInv, PTL DEF IInv

-----------------------------------------------------------------------------
(* A completed request has no monitor that could execute it again.         *)
LEMMA CompletedStep ==
  ASSUME IInv, Next, NEW r \in Completed
  PROVE  phase'[r] = "completed" /\ error'[r] = error[r] /\ used'[r] = used[r]
<1>1. TypeOK /\ MonitorsOfPending /\ r \in Requests /\ phase[r] = "completed" /\ mItems[r] = {}
  BY DEF IInv, Completed, MonitorsOfPending
<1>2. ASSUME NEW q \in Requests \ { r }, NEW in \in Inputs,
             \/ \E e : Refuse(q, e)
             \/ Execute(q, in)
             \/ Monitor(q, ItemsOf(in))
      PROVE  phase'[r] = "completed" /\ error'[r] = error[r] /\ used'[r] = used[r]
  BY <1>1, <1>2 DEF TypeOK, Refuse, Execute, GetValues, SetValues, Monitor
<1>3. ASSUME NEW q \in Requests, NEW in \in Inputs, HandleRequest(q, in)
      PROVE  phase'[r] = "completed" /\ error'[r] = error[r] /\ used'[r] = used[r]
  <2>1. q # r
    BY <1>1, <1>3 DEF HandleRequest, Requests
  <2>. QED
    BY <1>2, <1>3, <2>1 DEF HandleRequest, AddPendingRequest
<1>4. ASSUME NEW q \in Requests, OnStateChanged(q)
      PROVE  phase'[r] = "completed" /\ error'[r] = error[r] /\ used'[r] = used[r]
  <2>1. CASE UNCHANGED << phase, error, used >>
    BY <1>1, <2>1
  <2>2. CASE mItems[q] # {} /\ Execute(q, input[q])
    <3>1. q # r /\ input[q] \in Inputs
      BY <1>1, <2>2 DEF MonitorsOfPending, IInv, Checked
    <3>. QED
      BY <1>2, <2>2, <3>1
  <2>. QED
    BY <1>4, <2>1, <2>2 DEF OnStateChanged
<1>5. CASE \E i \in Items : ItemEvent(i)
  BY <1>1, <1>5 DEF ItemEvent, ItemAnswered, ItemLost, ItemBack, ItemReloads, ItemBecomes
<1>6. CASE RoutesChange \/ OnReadWriteChanged
  BY <1>1, <1>6 DEF RoutesChange, OnReadWriteChanged
<1>. QED
  BY <1>3, <1>4, <1>5, <1>6 DEF Next

(* Backend, which deletes a request when it is completed, is never told so *)
(* a second time, and its answer is final.                                 *)
THEOREM RequestsCompleteOnce == Spec => CompletedOnce
<1>1. ASSUME IInv, [Next]_mappingsVars
      PROVE  [\A r \in Completed :
                phase'[r] = "completed" /\ error'[r] = error[r] /\ used'[r] = used[r]]_mappingsVars
  BY <1>1, CompletedStep
<1>. QED
  BY <1>1, SpecIInv, PTL DEF Spec, CompletedOnce

-----------------------------------------------------------------------------
(* What the monitor of a pending request q can rely on: it is connected to *)
(* each of its items that has no value, each of these has been asked for,  *)
(* and if there is none left it is about to be told.                       *)
Waiting(q) ==
  /\ mItems[q] # {}
  /\ \A i \in mItems[q] : Loaded(i) \/ (itemState[i] = "Requested" /\ i \in watched[q])
  /\ q \in notified \/ \E i \in mItems[q] : ~ Loaded(i)

AllWaiting == \A q \in Pending : Waiting(q)

(* In no step does an item that has a value lose it, or one that has been  *)
(* asked for become idle.                                                  *)
Progress ==
  \A i \in Items :
    itemState'[i] = itemState[i]
      \/ /\ itemState[i] # "Idle" => itemState'[i] \notin { "Idle", "Requested" }
         /\ itemState[i] = "Idle" => itemState'[i] \in { "Requested", "Synchronized", "Offline" }

(* Every monitor other than r's that watches a changed item is notified,   *)
(* and no other monitor's notification is dropped.                         *)
Notifies(r) ==
  \A q \in Requests \ { r } : q \in notified \cup WatchersOfChanges => q \in notified'

(* Under these two conditions a monitor goes on waiting properly.          *)
LEMMA WaitingPreserved ==
  ASSUME TypeOK, TypeOK', Progress, NEW r, Notifies(r),
         NEW q \in Requests \ { r }, Waiting(q),
         mItems'[q] = mItems[q], watched'[q] = watched[q]
  PROVE  Waiting(q)'
<1>1. ASSUME NEW i \in mItems[q]
      PROVE  /\ Loaded(i) => Loaded(i)'
             /\ ~ Loaded(i) => /\ itemState[i] = "Requested" /\ i \in watched[q]
                               /\ itemState'[i] = "Requested" \/ Loaded(i)'
  BY <1>1 DEF Waiting, Progress, Loaded, TypeOK
<1>2. ASSUME q \notin notified' PROVE \E i \in mItems[q] : ~ Loaded(i)'
  <2>1. q \notin notified /\ q \notin WatchersOfChanges
    BY <1>2 DEF Notifies
  <2>2. PICK i \in mItems[q] : ~ Loaded(i)
    BY <2>1 DEF Waiting
  <2>3. itemState'[i] = itemState[i]
    BY <1>1, <2>1, <2>2 DEF WatchersOfChanges
  <2>. QED
    BY <2>2, <2>3 DEF Loaded
<1>. QED
  BY <1>1, <1>2 DEF Waiting

(* The second pass over the map loads items or asks for them.              *)
LEMMA ExecuteProgress ==
  ASSUME TypeOK, NEW r \in Requests, NEW in \in Inputs, Execute(r, in)
  PROVE  Progress /\ Notifies(r)
<1>1. Notifies(r)
  BY DEF Execute, NotifyOthers, Notifies
<1>2. CASE GetValues(r, in)
  BY <1>1, <1>2 DEF GetValues, Progress
<1>3. CASE SetValues(r, in)
  <2>1. \A i \in Items :
          \/ itemState'[i] \in { "Synchronized", itemState[i] }
          \/ itemState'[i] = "Requested" /\ itemState[i] = "Idle"
    BY <1>3, SetValuesFacts DEF WritePass
  <2>. QED
    BY <1>1, <2>1 DEF Progress
<1>. QED
  BY <1>1, <1>2, <1>3 DEF Execute

(* One event: every request that waits after it waits properly.            *)
LEMMA WaitingStep ==
  ASSUME ~ Reloads, IInv, IInv', AllWaiting, Next
  PROVE  AllWaiting'
<1>1. TypeOK /\ TypeOK' /\ MonitorsOfPending
  BY DEF IInv
<1>2. ASSUME NEW r, Progress, Notifies(r),
             \A q \in Requests \ { r } :
               phase'[q] = phase[q] /\ mItems'[q] = mItems[q] /\ watched'[q] = watched[q],
             r \in Pending' => Waiting(r)'
      PROVE  AllWaiting'
  <2>. SUFFICES ASSUME NEW q \in Pending' PROVE Waiting(q)'
    BY DEF AllWaiting
  <2>1. CASE q = r
    BY <1>2, <2>1
  <2>2. CASE q # r
    <3>1. q \in Requests \ { r } /\ Waiting(q)
      BY <1>2, <2>2 DEF Pending, AllWaiting
    <3>. QED
      BY <1>1, <1>2, <3>1, WaitingPreserved
  <2>. QED
    BY <2>1, <2>2
<1>3. ASSUME NEW r \in Requests, NEW in \in Inputs, HandleRequest(r, in) PROVE AllWaiting'
  <2>1. CASE \E e : Refuse(r, e)
    BY <1>1, <1>2, <2>1 DEF Refuse, TypeOK, Progress, Notifies, WatchersOfChanges, Pending
  <2>2. CASE Execute(r, in) /\ UNCHANGED << mItems, watched >>
    <3>1. \A q \in Requests \ { r } : phase'[q] = phase[q]
      BY <1>1, <2>2 DEF Execute, TypeOK
    <3>2. r \notin Pending'
      BY <1>1, <2>2 DEF Execute, TypeOK, Pending
    <3>. QED
      BY <1>1, <1>2, <2>2, <3>1, <3>2, ExecuteProgress
  <2>3. CASE Monitor(r, ItemsOf(in)) /\ \E i \in ItemsOf(in) : ~ Loaded(i)
    <3>1. ItemsOf(in) \subseteq Items
      BY <1>1, ItemFacts
    <3>2. /\ mItems'[r] = ItemsOf(in)
          /\ watched'[r] = { i \in ItemsOf(in) : ~ Loaded(i) }
          /\ \A q \in Requests \ { r } :
               phase'[q] = phase[q] /\ mItems'[q] = mItems[q] /\ watched'[q] = watched[q]
      BY <1>1, <2>3 DEF Monitor, TypeOK
    <3>3. \A i \in Items :
            itemState'[i] =
              IF i \in ItemsOf(in) /\ itemState[i] = "Idle" THEN "Requested" ELSE itemState[i]
      BY <2>3 DEF Monitor
    <3>4. Progress /\ Notifies(r)
      BY <2>3, <3>3 DEF Progress, Monitor, NotifyOthers, Notifies
    <3>5. \A i \in ItemsOf(in) :
            /\ ~ Loaded(i) => itemState'[i] = "Requested" /\ ~ Loaded(i)'
            /\ Loaded(i) => Loaded(i)'
      BY <3>1, <3>3 DEF Loaded
    <3>6. Waiting(r)'
      BY <2>3, <3>2, <3>5 DEF Waiting
    <3>. QED
      BY <1>2, <3>2, <3>4, <3>6
  <2>. QED
    BY <1>3, <2>1, <2>2, <2>3 DEF HandleRequest, AddPendingRequest
<1>4. ASSUME NEW r \in Requests, OnStateChanged(r) PROVE AllWaiting'
  <2>1. CASE /\ mItems[r] = {} \/ \E i \in mItems[r] : ~ Loaded(i)
             /\ notified' = notified \ { r }
             /\ UNCHANGED << itemState, phase, error, mItems, watched, used >>
    <3>1. Progress /\ Notifies(r)
      BY <2>1 DEF Progress, Notifies, WatchersOfChanges
    <3>2. ASSUME r \in Pending' PROVE Waiting(r)'
      <4>1. Waiting(r)
        BY <2>1, <3>2 DEF Pending, AllWaiting
      <4>. QED
        BY <2>1, <4>1 DEF Waiting, Loaded
    <3>. QED
      BY <1>2, <2>1, <3>1, <3>2
  <2>2. CASE mItems[r] # {} /\ ForgetMonitor(r) /\ Execute(r, input[r])
    <3>. input[r] \in Inputs
      BY <1>1, <2>2 DEF MonitorsOfPending, IInv, Checked
    <3>1. /\ \A q \in Requests \ { r } :
               phase'[q] = phase[q] /\ mItems'[q] = mItems[q] /\ watched'[q] = watched[q]
          /\ r \notin Pending'
      BY <1>1, <2>2 DEF Execute, ForgetMonitor, TypeOK, Pending
    <3>. QED
      BY <1>1, <1>2, <2>2, <3>1, ExecuteProgress
  <2>. QED
    BY <1>4, <2>1, <2>2 DEF OnStateChanged
<1>5. CASE \E i \in Items : ItemEvent(i)
  <2>1. PICK i \in Items : ItemAnswered(i) \/ ItemLost(i) \/ ItemBack(i)
    BY <1>5 DEF ItemEvent, ItemReloads
  <2>2. PICK s \in { "Synchronized", "Offline" } : ItemBecomes(i, s) /\ itemState[i] # "Idle"
    BY <2>1 DEF ItemAnswered, ItemLost, ItemBack
  <2>3. Progress
    BY <1>1, <2>2 DEF ItemBecomes, Progress, TypeOK
  <2>4. Notifies(0) /\ 0 \notin Pending'
    BY <2>2 DEF ItemBecomes, Notifies, Pending, Requests
  <2>. QED
    BY <1>2, <2>2, <2>3, <2>4 DEF ItemBecomes
<1>6. CASE RoutesChange \/ OnReadWriteChanged
  BY <1>6 DEF RoutesChange, OnReadWriteChanged, AllWaiting, Waiting, Loaded, Pending
<1>. QED
  BY <1>3, <1>4, <1>5, <1>6 DEF Next

(* As long as no item that had a value is asked for again, no wakeup is    *)
(* lost: between two events each pending request waits for the next change *)
(* of an item it is connected to.                                          *)
THEOREM NoWakeupIsLost ==
  ASSUME ~ Reloads
  PROVE  Spec => []NoLostWakeup
<1>1. Init => AllWaiting
  BY DEF Init, AllWaiting, Pending
<1>2. IInv /\ IInv' /\ AllWaiting /\ [Next]_mappingsVars => AllWaiting'
  <2>1. AllWaiting /\ UNCHANGED mappingsVars => AllWaiting'
    BY DEF mappingsVars, AllWaiting, Waiting, Loaded, Pending
  <2>. QED
    BY <2>1, WaitingStep
<1>3. AllWaiting => NoLostWakeup
  BY DEF AllWaiting, Waiting, NoLostWakeup
<1>. QED
  BY <1>1, <1>2, <1>3, SpecIInv, PTL DEF Spec

-----------------------------------------------------------------------------
(* AcknowledgedInFull, of one request.                                     *)
InFull(r) ==
  LET in == input[r] IN
  error[r] = "NoError" =>
    /\ \A x \in in.address .. in.address + in.quantity - 1 :
         \E k \in Overlapping(in) : Covers(k, x)
    /\ \A k \in Overlapping(in) :
         IF in.type = "ReadValues"
           THEN \A p \in PathsOf(k) : \E u \in used[r] : u.entry = k /\ u.item[2] = p
           ELSE DBusModbusMap[k].reserved \/ \E u \in used[r] : u.entry = k
    /\ \A u, v \in used[r] : TypeAt(u.entry) = TypeAt(v.entry) => u.item[1] = v.item[1]

(* The second pass of a request, if it ends without an error, has found    *)
(* every register of it mapped and has visited every entry.                *)
LEMMA PassInFull ==
  ASSUME TypeOK, NEW in \in Inputs, ErrorOf(in) = "NoError"
  PROVE  /\ VisitedBy(in) = Overlapping(in)
         /\ \A x \in in.address .. in.address + in.quantity - 1 :
              \E k \in Overlapping(in) : Covers(k, x)
<1>1. routes \in RouteTable /\ in.address \in Nat /\ in.quantity \in Nat \ {0}
  BY MappingsAssumption, InputFacts DEF TypeOK
<1>2. /\ \A x \in in.address .. in.address + in.quantity - 1 : Answerable(routes, x)
      /\ VisitedBy(in) = Overlapping(in)
  BY <1>1, CompletePass DEF ErrorOf, VisitedBy, Overlapping
<1>3. ASSUME NEW x \in in.address .. in.address + in.quantity - 1
      PROVE  \E k \in Overlapping(in) : Covers(k, x)
  <2>1. PICK k \in Registers : Covers(k, x)
    BY <1>2 DEF Answerable
  <2>2. k \in Nat /\ SizeOf(k) \in Nat
    BY <2>1, RegisterFacts
  <2>3. k < in.address + in.quantity /\ in.address < k + SizeOf(k)
    BY <1>1, <2>1, <2>2 DEF Covers
  <2>. QED
    BY <2>1, <2>3 DEF Overlapping
<1>. QED
  BY <1>2, <1>3

(* The second pass carries out what it acknowledges.                       *)
LEMMA ExecuteInFull ==
  ASSUME TypeOK, NEW r \in Requests, NEW in \in Inputs, input'[r] = in, Execute(r, in)
  PROVE  InFull(r)'
<1>. SUFFICES ASSUME error'[r] = "NoError"
              PROVE  /\ \A x \in in.address .. in.address + in.quantity - 1 :
                          \E k \in Overlapping(in) : Covers(k, x)
                     /\ \A k \in Overlapping(in) :
                          IF in.type = "ReadValues"
                            THEN \A p \in PathsOf(k) :
                                   \E u \in used'[r] : u.entry = k /\ u.item[2] = p
                            ELSE DBusModbusMap[k].reserved \/ \E u \in used'[r] : u.entry = k
                     /\ \A u, v \in used'[r] :
                          TypeAt(u.entry) = TypeAt(v.entry) => u.item[1] = v.item[1]
  BY DEF InFull, Overlapping, PathsOf, Covers, SizeOf, TypeAt
<1>1. CASE in.type = "ReadValues" /\ GetValues(r, in)
  <2>1. ErrorOf(in) = "NoError"
    BY <1>1 DEF GetValues, TypeOK
  <2>2. /\ VisitedBy(in) = Overlapping(in)
        /\ \A x \in in.address .. in.address + in.quantity - 1 :
             \E k \in Overlapping(in) : Covers(k, x)
    BY <2>1, PassInFull
  <2>. DEFINE U == UNION { { [ entry |-> k, item |-> i, state |-> itemState[i] ]
                             : i \in ItemsAt(k) } : k \in VisitedBy(in) }
  <2>3. used'[r] = U
    BY <1>1 DEF GetValues, TypeOK
  <2>4. ASSUME NEW k \in Overlapping(in), NEW p \in PathsOf(k)
        PROVE  \E u \in used'[r] : u.entry = k /\ u.item[2] = p
    <3>. DEFINE i == << routes[TypeAt(k)], p >>
                u == [ entry |-> k, item |-> i, state |-> itemState[i] ]
    <3>1. i \in ItemsAt(k)
      BY DEF ItemsAt
    <3>2. u \in U
      BY <2>2, <3>1
    <3>3. u.entry = k /\ u.item[2] = p
      OBVIOUS
    <3>. QED
      BY <2>3, <3>2, <3>3
  <2>5. ASSUME NEW u \in used'[r]
        PROVE  u.item[1] = routes[TypeAt(u.entry)]
    <3>1. PICK k \in VisitedBy(in) : \E i \in ItemsAt(k) :
            u = [ entry |-> k, item |-> i, state |-> itemState[i] ]
      BY <2>3, <2>5
    <3>2. PICK i \in ItemsAt(k) : u = [ entry |-> k, item |-> i, state |-> itemState[i] ]
      BY <3>1
    <3>3. i[1] = routes[TypeAt(k)]
      BY DEF ItemsAt
    <3>. QED
      BY <3>2, <3>3
  <2>. QED
    BY <1>1, <2>2, <2>4, <2>5
<1>2. CASE in.type = "WriteValues" /\ SetValues(r, in)
  <2>. DEFINE todo == ToWrite(in)
  <2>0. PICK target \in [todo -> Items], stop \in todo \cup { in.address + in.quantity } :
          WritePass(r, in, target, stop)
    BY <1>2, SetValuesFacts
  <2>1. /\ \A k \in todo : \E written : target[k] = Target(k, written)
        /\ used'[r] = { Use(target, k) : k \in { k \in todo : k < stop } }
        /\ error' = [error EXCEPT ![r] = IF stop \in todo THEN "ServiceError" ELSE ErrorOf(in)]
    BY <2>0 DEF WritePass
  <2>2. stop \notin todo /\ ErrorOf(in) = "NoError"
    BY <2>1 DEF TypeOK
  <2>3. /\ VisitedBy(in) = Overlapping(in)
        /\ \A x \in in.address .. in.address + in.quantity - 1 :
             \E k \in Overlapping(in) : Covers(k, x)
    BY <2>2, PassInFull
  <2>4. { k \in todo : k < stop } = todo
    BY <2>1, <2>2, ItemFacts DEF ToWrite
  <2>5. used'[r] = { Use(target, k) : k \in todo }
    BY <2>1, <2>4
  <2>6. ASSUME NEW k \in Overlapping(in), ~ DBusModbusMap[k].reserved
        PROVE  \E u \in used'[r] : u.entry = k
    <3>1. k \in todo
      BY <2>3, <2>6 DEF ToWrite
    <3>2. Use(target, k) \in used'[r]
      BY <2>5, <3>1
    <3>. QED
      BY <3>2 DEF Use
  <2>7. ASSUME NEW u \in used'[r]
        PROVE  u.item[1] = routes[TypeAt(u.entry)]
    <3>1. PICK k \in todo : u = Use(target, k)
      BY <2>5
    <3>2. PICK written : target[k] = Target(k, written)
      BY <2>1
    <3>3. target[k][1] = routes[TypeAt(k)]
      BY <3>2 DEF Target
    <3>. QED
      BY <3>1, <3>3 DEF Use
  <2>. QED
    BY <1>2, <2>3, <2>6, <2>7
<1>. QED
  BY <1>1, <1>2 DEF Execute

-----------------------------------------------------------------------------
(* A request acknowledged was carried out in full.                         *)
LEMMA AcknowledgedStep ==
  ASSUME IInv, AcknowledgedInFull, [Next]_mappingsVars
  PROVE  AcknowledgedInFull'
<1>1. TypeOK /\ Checked /\ MonitorsOfPending
  BY DEF IInv
<1>. SUFFICES ASSUME NEW q \in Completed' PROVE InFull(q)'
  BY DEF AcknowledgedInFull, InFull, Overlapping, PathsOf, Covers, SizeOf, TypeAt
<1>. q \in Requests /\ phase'[q] = "completed"
  BY DEF Completed, Requests
<1>2. ASSUME q \in Completed, input'[q] = input[q] PROVE InFull(q)'
  <2>1. error'[q] = error[q] /\ used'[q] = used[q]
    BY <1>2, CompletedStep DEF mappingsVars
  <2>2. InFull(q)
    BY <1>2 DEF AcknowledgedInFull, InFull
  <2>. QED
    BY <1>2, <2>1, <2>2 DEF InFull, Overlapping, PathsOf, Covers, SizeOf, TypeAt
<1>3. ASSUME NEW r \in Requests, NEW in \in Inputs, HandleRequest(r, in) PROVE InFull(q)'
  <2>1. /\ phase[r] = "new"
        /\ input'[r] = in /\ \A p \in Requests \ { r } : input'[p] = input[p]
    BY <1>1, <1>3 DEF HandleRequest, TypeOK, Requests
  <2>2. CASE q # r
    <3>1. phase'[q] = phase[q]
      BY <1>1, <1>3, <2>2
         DEF HandleRequest, Refuse, AddPendingRequest, Execute, Monitor, TypeOK
    <3>. QED
      BY <1>2, <2>1, <2>2, <3>1 DEF Completed
  <2>3. ASSUME NEW e, Refuse(r, e), e # "NoError", q = r PROVE InFull(q)'
    BY <1>1, <2>3 DEF Refuse, InFull, TypeOK
  <2>4. ASSUME Execute(r, in), q = r PROVE InFull(q)'
    BY <1>1, <2>1, <2>4, ExecuteInFull
  <2>5. ASSUME Monitor(r, ItemsOf(in)), q = r PROVE FALSE
    BY <1>1, <2>5 DEF Monitor, TypeOK
  <2>. QED
    BY <1>3, <2>2, <2>3, <2>4, <2>5 DEF HandleRequest, AddPendingRequest
<1>4. ASSUME NEW r \in Requests, OnStateChanged(r) PROVE InFull(q)'
  <2>1. input' = input
    BY <1>4 DEF OnStateChanged
  <2>2. CASE phase' = phase
    BY <1>2, <2>1, <2>2 DEF Completed
  <2>3. CASE mItems[r] # {} /\ Execute(r, input[r])
    <3>1. phase[r] = "pending" /\ input[r] \in Inputs
      BY <1>1, <2>3 DEF MonitorsOfPending, Checked
    <3>2. CASE q = r
      BY <1>1, <2>1, <2>3, <3>1, <3>2, ExecuteInFull
    <3>3. CASE q # r
      BY <1>1, <1>2, <2>1, <2>3, <3>3 DEF Execute, Completed, TypeOK
    <3>. QED
      BY <3>2, <3>3
  <2>. QED
    BY <1>4, <2>2, <2>3 DEF OnStateChanged
<1>5. CASE UNCHANGED << phase, input >>
  BY <1>2, <1>5 DEF Completed
<1>6. CASE (\E i \in Items : ItemEvent(i)) \/ RoutesChange \/ OnReadWriteChanged
  BY <1>5, <1>6 DEF ItemEvent, ItemAnswered, ItemLost, ItemBack, ItemReloads, ItemBecomes,
                    RoutesChange, OnReadWriteChanged
<1>. QED
  BY <1>3, <1>4, <1>5, <1>6 DEF Next, mappingsVars

(* Success is never claimed for a request that stopped on the way, nor for *)
(* one whose registers nobody answers for, whatever happened to services,  *)
(* items and other requests while it waited.                               *)
THEOREM SuccessMeansInFull == Spec => []AcknowledgedInFull
<1>1. Init => AcknowledgedInFull
  BY DEF Init, AcknowledgedInFull, Completed
<1>. QED
  BY <1>1, SpecIInv, AcknowledgedStep, PTL DEF Spec

-----------------------------------------------------------------------------
(* The steps of a RequestService.                                          *)

(* What the passes leave is one of the errors RequestService allows.       *)
LEMMA ErrorOfPass ==
  ASSUME NEW in \in Inputs
  PROVE  ErrorOf(in) \in Service!ExecutionErrors
<1>. DEFINE a == in.address  n == in.quantity
<1>1. a \in Nat /\ n \in Nat /\ n > 0
  BY InputFacts
<1>2. CASE ~ Startable(a)
  BY <1>1, <1>2 DEF ErrorOf, PassError, Service!ExecutionErrors
<1>3. CASE Startable(a) /\ ~ Answerable(routes, a)
  BY <1>1, <1>3 DEF ErrorOf, PassError, Service!ExecutionErrors
<1>4. CASE Startable(a) /\ Answerable(routes, a)
  BY <1>1, <1>4 DEF ErrorOf, PassError, Service!ExecutionErrors
<1>. QED
  BY <1>2, <1>3, <1>4

(* The second pass completes its request, with such an error.              *)
LEMMA ExecuteCompletes ==
  ASSUME NEW r \in Requests, NEW in \in Inputs, Execute(r, in)
  PROVE  \E e \in Service!ExecutionErrors : Service!Completed(r, e)
<1>1. phase' = [phase EXCEPT ![r] = "completed"]
  BY DEF Execute
<1>2. \E e \in Service!ExecutionErrors : error' = [error EXCEPT ![r] = e]
  <2>1. CASE GetValues(r, in)
    BY <2>1, ErrorOfPass DEF GetValues
  <2>2. CASE SetValues(r, in)
    <3>1. error' = [error EXCEPT ![r] = "ServiceError"] \/ error' = [error EXCEPT ![r] = ErrorOf(in)]
      BY <2>2 DEF SetValues
    <3>. QED
      BY <3>1, ErrorOfPass DEF Service!ExecutionErrors
  <2>. QED
    BY <2>1, <2>2 DEF Execute
<1>. QED
  BY <1>1, <1>2 DEF Service!Completed

(* Each step of Mappings is one of RequestService, or is none of Backend's *)
(* business.                                                               *)
LEMMA ServiceStep ==
  ASSUME IInv, [Next]_mappingsVars
  PROVE  [Service!Next]_<< phase, error >>
<1>1. TypeOK /\ Checked /\ MonitorsOfPending
  BY DEF IInv
<1>2. ASSUME NEW r \in Requests, NEW in \in Inputs, HandleRequest(r, in)
      PROVE  Service!Next
  <2>1. phase[r] = "new"
    BY <1>2 DEF HandleRequest, Requests
  <2>2. ASSUME NEW e \in Service!ArrivalErrors, Refuse(r, e) PROVE Service!Next
    <3>1. Service!CompleteAtOnce(r, e)
      BY <2>1, <2>2 DEF Refuse, Service!CompleteAtOnce, Service!Completed
    <3>. QED
      BY <3>1 DEF Service!Next
  <2>3. CASE Execute(r, in)
    <3>1. PICK e \in Service!ExecutionErrors : Service!Completed(r, e)
      BY <2>3, ExecuteCompletes
    <3>2. e \in Service!ArrivalErrors /\ Service!CompleteAtOnce(r, e)
      BY <2>1, <3>1 DEF Service!CompleteAtOnce, Service!ArrivalErrors
    <3>. QED
      BY <3>2 DEF Service!Next
  <2>4. CASE Monitor(r, ItemsOf(in))
    <3>1. Service!Wait(r)
      BY <2>1, <2>4 DEF Monitor, Service!Wait
    <3>. QED
      BY <3>1 DEF Service!Next
  <2>5. "PermissionError" \in Service!ArrivalErrors /\ ErrorOf(in) \in Service!ArrivalErrors
    BY ErrorOfPass DEF Service!ArrivalErrors
  <2>. QED
    BY <1>2, <2>2, <2>3, <2>4, <2>5 DEF HandleRequest, AddPendingRequest
<1>3. ASSUME NEW r \in Requests, OnStateChanged(r)
      PROVE  Service!Next \/ UNCHANGED << phase, error >>
  <2>1. CASE mItems[r] # {} /\ Execute(r, input[r])
    <3>1. phase[r] = "pending" /\ input[r] \in Inputs
      BY <1>1, <2>1 DEF MonitorsOfPending, Checked
    <3>2. PICK e \in Service!ExecutionErrors : Service!Completed(r, e)
      BY <2>1, <3>1, ExecuteCompletes
    <3>3. Service!CompleteLater(r, e)
      BY <3>1, <3>2 DEF Service!CompleteLater
    <3>. QED
      BY <3>3 DEF Service!Next
  <2>. QED
    BY <1>3, <2>1 DEF OnStateChanged
<1>4. CASE (\E i \in Items : ItemEvent(i)) \/ RoutesChange \/ OnReadWriteChanged
  BY <1>4 DEF ItemEvent, ItemAnswered, ItemLost, ItemBack, ItemReloads, ItemBecomes,
              RoutesChange, OnReadWriteChanged
<1>. QED
  BY <1>2, <1>3, <1>4 DEF Next, mappingsVars

(* To Backend, Mappings behaves as a RequestService: each request is       *)
(* completed at most once, with an error it may have, whether at once or   *)
(* after waiting.  (The safety part of IsRequestService.)                  *)
THEOREM ImplementsRequestService ==
  Spec => Service!Init /\ [][Service!Next]_<< phase, error >>
<1>1. Init => Service!Init
  BY DEF Init, Service!Init
<1>. QED
  BY <1>1, SpecIInv, ServiceStep, PTL DEF Spec

-----------------------------------------------------------------------------
(* IInv is inductive.                                                      *)
LEMMA IInvStep == ASSUME IInv, [Next]_mappingsVars PROVE IInv'
<1>1. CASE UNCHANGED mappingsVars
  BY <1>1 DEF IInv, TypeOK, NoneLost, Checked, MonitorsOfPending, OnlyWritableWritten, Writes,
              Overlapping, mappingsVars
<1>. QED
  BY <1>1, HandleRequestIInv, OnStateChangedIInv, EnvironmentIInv DEF Next

(* The steps of a set of VeQItemInitMonitors.                              *)

MonitorVars == << itemState, mItems, [r \in Requests |-> phase[r] # "new"] >>

(* In every step monitors are left alone, or one is started for the items  *)
(* of a request that needs some, or one signals that all of them have been *)
(* answered for.                                                           *)
LEMMA MonitoringStep ==
  ASSUME IInv, [Next]_mappingsVars
  PROVE  [Monitoring!Next]_MonitorVars
<1>1. TypeOK /\ Checked /\ MonitorsOfPending /\ TypeOK'
  BY IInvStep DEF IInv
<1>. DEFINE isStarted  == [q \in Requests |-> phase[q] # "new"]
            isStarted1 == [q \in Requests |-> phase'[q] # "new"]
<1>2. itemState' \in [Items -> ItemStates]
  BY <1>1 DEF TypeOK
<1>3. ASSUME isStarted1 = isStarted, mItems' = mItems PROVE Monitoring!Next
  BY <1>2, <1>3 DEF Monitoring!Next
<1>4. ASSUME NEW r \in Requests, NEW in \in Inputs, HandleRequest(r, in)
      PROVE  Monitoring!Next
  <2>1. phase[r] = "new" /\ mItems[r] = {}
    BY <1>1, <1>4 DEF HandleRequest, Requests, MonitorsOfPending
  <2>2. ASSUME NEW p \in { "pending", "completed" }, phase' = [phase EXCEPT ![r] = p],
               NEW items, mItems' = [mItems EXCEPT ![r] = items],
               items # {} => \E i \in items : ~ Loaded(i)
        PROVE  Monitoring!Next
    <3>1. isStarted1 = [isStarted EXCEPT ![r] = TRUE] /\ ~ isStarted[r]
      BY <1>1, <2>1, <2>2 DEF TypeOK
    <3>2. mItems'[r] = items
      BY <1>1, <2>2 DEF TypeOK
    <3>3. Monitoring!Start(r)
      BY <2>2, <3>1, <3>2 DEF Monitoring!Start, Monitoring!Initialized, Loaded
    <3>. QED
      BY <1>2, <3>3 DEF Monitoring!Next
  <2>3. ASSUME phase' = [phase EXCEPT ![r] = "completed"], mItems' = mItems
        PROVE  Monitoring!Next
    <3>1. mItems' = [mItems EXCEPT ![r] = {}]
      BY <1>1, <2>1, <2>3 DEF TypeOK
    <3>. QED
      BY <2>2, <2>3, <3>1
  <2>4. ASSUME NEW e, Refuse(r, e) PROVE Monitoring!Next
    BY <2>3, <2>4 DEF Refuse
  <2>5. CASE AddPendingRequest(r, in)
    <3>1. CASE Execute(r, in) /\ UNCHANGED mItems
      BY <2>3, <3>1 DEF Execute
    <3>2. CASE (\E i \in ItemsOf(in) : ~ Loaded(i)) /\ Monitor(r, ItemsOf(in))
      BY <2>2, <3>2 DEF Monitor
    <3>. QED
      BY <2>5, <3>1, <3>2 DEF AddPendingRequest
  <2>. QED
    BY <1>4, <2>4, <2>5 DEF HandleRequest
<1>5. ASSUME NEW r \in Requests, OnStateChanged(r) PROVE Monitoring!Next
  <2>1. CASE UNCHANGED << phase, mItems >>
    BY <1>3, <2>1
  <2>2. CASE /\ mItems[r] # {} /\ \A i \in mItems[r] : Loaded(i)
             /\ ForgetMonitor(r) /\ Execute(r, input[r])
    <3>1. phase[r] = "pending"
      BY <1>1, <2>2 DEF MonitorsOfPending
    <3>2. isStarted1 = isStarted
      BY <1>1, <2>2, <3>1 DEF Execute, TypeOK
    <3>3. Monitoring!EmitInitialized(r)
      BY <2>2 DEF ForgetMonitor, Monitoring!EmitInitialized, Monitoring!Initialized, Loaded
    <3>. QED
      BY <1>2, <3>2, <3>3 DEF Monitoring!Next
  <2>. QED
    BY <1>5, <2>1, <2>2 DEF OnStateChanged
<1>6. CASE (\E i \in Items : ItemEvent(i)) \/ RoutesChange \/ OnReadWriteChanged
  <2>1. UNCHANGED << phase, mItems >>
    BY <1>6 DEF ItemEvent, ItemAnswered, ItemLost, ItemBack, ItemReloads, ItemBecomes,
                RoutesChange, OnReadWriteChanged
  <2>. QED
    BY <1>3, <2>1
<1>7. CASE UNCHANGED mappingsVars
  BY <1>7 DEF MonitorVars, mappingsVars
<1>. QED
  BY <1>4, <1>5, <1>6, <1>7 DEF Next

(* What VeQItemInitMonitor promises never to do is not done, whatever the  *)
(* library does with the items, also if it asks for one again: a request   *)
(* goes on only with answers for all of its items, and only once.  (The    *)
(* safety part of MonitorsItems.)                                          *)
THEOREM ImplementsInitMonitor ==
  Spec => Monitoring!Init /\ [][Monitoring!Next]_MonitorVars
<1>1. Init => Monitoring!Init
  BY DEF Init, Monitoring!Init
<1>. QED
  BY <1>1, SpecIInv, MonitoringStep, PTL DEF Spec

-----------------------------------------------------------------------------
(* The values a request uses, as long as no service takes over from        *)
(* another: at any time a device type has the same service, or none.       *)
SameServices ==
  \A R, S \in RouteTables : \A t \in DeviceTypes :
    R[t] \in Services /\ S[t] \in Services => R[t] = S[t]

(* A request waits for all items that its second pass may come across.     *)
Awaited(r) ==
  \A k \in Overlapping(input[r]) : \A p \in PathsOf(k) :
    \E R \in RouteTables : R[TypeAt(k)] \in Services /\ << R[TypeAt(k)], p >> \in mItems[r]
AllAwaited == \A r \in Pending : Awaited(r)

(* The second pass uses values that were loaded before it began.           *)
LEMMA ExecuteLoaded ==
  ASSUME TypeOK, NEW r \in Requests, NEW in \in Inputs, Execute(r, in),
         in.type = "WriteValues" => \A k \in Overlapping(in) : DBusModbusMap[k].writable,
         \A k \in VisitedBy(in) : \A i \in ItemsAt(k) : Loaded(i)
  PROVE  \A u \in used'[r] : u.state \notin { "Idle", "Requested" }
<1>1. CASE GetValues(r, in)
  <2>1. used'[r] = UNION { { [ entry |-> k, item |-> i, state |-> itemState[i] ]
                               : i \in ItemsAt(k) } : k \in VisitedBy(in) }
    BY <1>1 DEF GetValues, TypeOK
  <2>2. ASSUME NEW u \in used'[r] PROVE u.state \notin { "Idle", "Requested" }
    <3>1. PICK k \in VisitedBy(in) : \E i \in ItemsAt(k) :
            u = [ entry |-> k, item |-> i, state |-> itemState[i] ]
      BY <2>1, <2>2
    <3>2. PICK i \in ItemsAt(k) : u = [ entry |-> k, item |-> i, state |-> itemState[i] ]
      BY <3>1
    <3>3. Loaded(i)
      OBVIOUS
    <3>. QED
      BY <3>2, <3>3 DEF Loaded
  <2>. QED
    BY <2>2
<1>2. CASE in.type = "WriteValues" /\ SetValues(r, in)
  <2>. DEFINE todo == ToWrite(in)
  <2>0. PICK target \in [todo -> Items], stop \in todo \cup { in.address + in.quantity } :
          WritePass(r, in, target, stop)
    BY <1>2, SetValuesFacts
  <2>1. /\ \A k \in todo : \E written : target[k] = Target(k, written)
        /\ \A k \in todo : Use(target, k).state \in { "Synchronized", itemState[target[k]] }
        /\ used'[r] = { Use(target, k) : k \in { k \in todo : k < stop } }
    BY <2>0 DEF WritePass
  <2>2. ASSUME NEW k \in todo PROVE Loaded(target[k])
    <3>1. k \in VisitedBy(in) /\ k \in Registers /\ DBusModbusMap[k].writable
      BY <1>2, ItemFacts DEF ToWrite
    <3>2. target[k] \in ItemsAt(k)
      BY <2>1, <3>1, TargetFacts
    <3>. QED
      BY <3>1, <3>2
  <2>. QED
    BY <2>1, <2>2 DEF Loaded
<1>. QED
  BY <1>1, <1>2 DEF Execute

(* A request that starts to wait does so for everything it was checked on. *)
LEMMA MonitorAwaits ==
  ASSUME TypeOK, NEW r \in Requests, NEW in \in Inputs, ErrorOf(in) = "NoError",
         Monitor(r, ItemsOf(in)), input'[r] = in
  PROVE  Awaited(r)'
<1>1. VisitedBy(in) = Overlapping(in)
  BY PassInFull
<1>2. mItems'[r] = ItemsOf(in)
  BY DEF Monitor, TypeOK
<1>3. ASSUME NEW k \in Overlapping(in), NEW p \in PathsOf(k)
      PROVE  \E R \in RouteTables : R[TypeAt(k)] \in Services /\ << R[TypeAt(k)], p >> \in mItems'[r]
  <2>1. routes \in RouteTables /\ routes[TypeAt(k)] \in Services
    BY <1>1, MappingsAssumption, InputFacts, VisitedFacts DEF TypeOK, VisitedBy
  <2>2. << routes[TypeAt(k)], p >> \in ItemsOf(in)
    BY <1>1 DEF ItemsOf, ItemsAt
  <2>. QED
    BY <1>2, <2>1, <2>2
<1>. QED
  BY <1>3 DEF Awaited, Overlapping, PathsOf, TypeAt, SizeOf

(* Each step keeps both.                                                   *)
LEMMA LoadedStep ==
  ASSUME SameServices, IInv, AllAwaited, UsesLoadedItems, [Next]_mappingsVars
  PROVE  AllAwaited' /\ UsesLoadedItems'
<1>1. TypeOK /\ Checked /\ MonitorsOfPending
  BY DEF IInv
<1>2. ASSUME NEW q \in Requests, mItems'[q] = mItems[q], phase'[q] = phase[q], input'[q] = input[q]
      PROVE  q \in Pending' => Awaited(q)'
  BY <1>2 DEF AllAwaited, Awaited, Pending, Overlapping, PathsOf, TypeAt, SizeOf
<1>3. ASSUME NEW q \in Requests, used'[q] = used[q]
      PROVE  \A u \in used'[q] : u.state \notin { "Idle", "Requested" }
  BY <1>3 DEF UsesLoadedItems
<1>4. ASSUME NEW r \in Requests, NEW in \in Inputs, HandleRequest(r, in)
      PROVE  AllAwaited' /\ UsesLoadedItems'
  <2>1. /\ input'[r] = in /\ \A q \in Requests \ { r } : input'[q] = input[q]
        /\ phase[r] = "new"
    BY <1>1, <1>4 DEF HandleRequest, TypeOK, Requests
  <2>2. \A q \in Requests \ { r } :
          /\ mItems'[q] = mItems[q] /\ phase'[q] = phase[q] /\ used'[q] = used[q]
    BY <1>1, <1>4
       DEF HandleRequest, Refuse, AddPendingRequest, Execute, GetValues, SetValues, Monitor, TypeOK
  <2>3. SUFFICES /\ r \in Pending' => Awaited(r)'
                 /\ \A u \in used'[r] : u.state \notin { "Idle", "Requested" }
    <3>1. ASSUME NEW q \in Requests
          PROVE  /\ q \in Pending' => Awaited(q)'
                 /\ \A u \in used'[q] : u.state \notin { "Idle", "Requested" }
      BY <1>2, <1>3, <2>1, <2>2, <2>3
    <3>. QED
      BY <3>1 DEF AllAwaited, Pending, UsesLoadedItems, Requests
  <2>4. ASSUME NEW e, Refuse(r, e)
        PROVE  r \notin Pending' /\ used'[r] = used[r]
    BY <1>1, <2>4 DEF Refuse, Pending, TypeOK
  <2>5. CASE /\ ~ Denied(in) /\ ErrorOf(in) = "NoError"
             /\ \A i \in ItemsOf(in) : Loaded(i)
             /\ Execute(r, in)
    <3>1. in.type = "WriteValues" => \A k \in Overlapping(in) : DBusModbusMap[k].writable
      BY <1>1, <2>5, PassInFull DEF Denied
    <3>2. \A k \in VisitedBy(in) : \A i \in ItemsAt(k) : Loaded(i)
      BY <2>5 DEF ItemsOf
    <3>3. \A u \in used'[r] : u.state \notin { "Idle", "Requested" }
      BY <1>1, <2>5, <3>1, <3>2, ExecuteLoaded
    <3>. QED
      BY <1>1, <2>5, <3>3 DEF Execute, Pending, TypeOK
  <2>6. CASE ErrorOf(in) = "NoError" /\ Monitor(r, ItemsOf(in))
    <3>1. Awaited(r)'
      BY <1>1, <2>1, <2>6, MonitorAwaits
    <3>2. used' = used
      BY <2>6 DEF Monitor
    <3>. QED
      BY <1>3, <3>1, <3>2
  <2>. QED
    BY <1>3, <1>4, <2>4, <2>5, <2>6 DEF HandleRequest, AddPendingRequest
<1>5. ASSUME NEW r \in Requests, OnStateChanged(r)
      PROVE  AllAwaited' /\ UsesLoadedItems'
  <2>1. input' = input
    BY <1>5 DEF OnStateChanged
  <2>2. CASE UNCHANGED << phase, mItems, used >>
    BY <1>2, <1>3, <2>1, <2>2 DEF AllAwaited, Pending, UsesLoadedItems, Requests
  <2>3. CASE /\ mItems[r] # {} /\ \A i \in mItems[r] : Loaded(i)
             /\ ForgetMonitor(r) /\ Execute(r, input[r])
    <3>1. phase[r] = "pending" /\ input[r] \in Inputs /\ Awaited(r)
      BY <1>1, <2>3 DEF MonitorsOfPending, Checked, AllAwaited, Pending
    <3>2. input[r].type = "WriteValues" => \A k \in Overlapping(input[r]) : DBusModbusMap[k].writable
      BY <1>1, <3>1 DEF Checked
    <3>3. ASSUME NEW k \in VisitedBy(input[r]), NEW i \in ItemsAt(k) PROVE Loaded(i)
      <4>1. /\ k \in Registers /\ k \in Overlapping(input[r])
            /\ routes \in RouteTables /\ routes[TypeAt(k)] \in Services
        BY <1>1, <3>1, <3>3, ItemFacts, MappingsAssumption, InputFacts, VisitedFacts
           DEF TypeOK, VisitedBy
      <4>2. PICK p \in PathsOf(k) : i = << routes[TypeAt(k)], p >>
        BY DEF ItemsAt
      <4>3. PICK R \in RouteTables : R[TypeAt(k)] \in Services /\ << R[TypeAt(k)], p >> \in mItems[r]
        BY <3>1, <4>1 DEF Awaited
      <4>4. TypeAt(k) \in DeviceTypes
        BY <4>1, RegisterFacts
      <4>5. R[TypeAt(k)] = routes[TypeAt(k)]
        BY <4>1, <4>3, <4>4 DEF SameServices
      <4>. QED
        BY <2>3, <4>2, <4>3, <4>5
    <3>4. \A u \in used'[r] : u.state \notin { "Idle", "Requested" }
      BY <1>1, <2>3, <3>1, <3>2, <3>3, ExecuteLoaded
    <3>5. \A q \in Requests \ { r } :
            /\ mItems'[q] = mItems[q] /\ phase'[q] = phase[q] /\ used'[q] = used[q]
      BY <1>1, <2>3 DEF ForgetMonitor, Execute, GetValues, SetValues, TypeOK
    <3>6. r \notin Pending'
      BY <1>1, <2>3 DEF Execute, Pending, TypeOK
    <3>7. ASSUME NEW q \in Requests
          PROVE  /\ q \in Pending' => Awaited(q)'
                 /\ \A u \in used'[q] : u.state \notin { "Idle", "Requested" }
      BY <1>2, <1>3, <2>1, <3>4, <3>5, <3>6
    <3>. QED
      BY <3>7 DEF AllAwaited, Pending, UsesLoadedItems, Requests
  <2>. QED
    BY <1>5, <2>2, <2>3 DEF OnStateChanged
<1>6. CASE UNCHANGED << phase, input, mItems, used >>
  BY <1>2, <1>3, <1>6 DEF AllAwaited, Pending, UsesLoadedItems, Requests
<1>7. CASE (\E i \in Items : ItemEvent(i)) \/ RoutesChange \/ OnReadWriteChanged
  BY <1>6, <1>7 DEF ItemEvent, ItemAnswered, ItemLost, ItemBack, ItemReloads, ItemBecomes,
                    RoutesChange, OnReadWriteChanged
<1>. QED
  BY <1>4, <1>5, <1>6, <1>7 DEF Next, mappingsVars

(* The values used were values, for reads and for writes that patch them,  *)
(* if services only go and come back while a request waits; also if items  *)
(* are asked for again.                                                    *)
THEOREM ValuesAreLoaded ==
  ASSUME SameServices
  PROVE  Spec => []UsesLoadedItems
<1>1. Init => AllAwaited /\ UsesLoadedItems
  BY DEF Init, AllAwaited, Pending, UsesLoadedItems
<1>2. IInv /\ AllAwaited /\ UsesLoadedItems /\ [Next]_mappingsVars
        => AllAwaited' /\ UsesLoadedItems'
  BY LoadedStep
<1>. QED
  BY <1>1, <1>2, SpecIInv, PTL DEF Spec
=============================================================================
