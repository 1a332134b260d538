---------------------------- MODULE RegisterMap ----------------------------
(***************************************************************************)
(* The Modbus register map of dbus_modbustcp: mDBusModbusMap, filled by    *)
(* Mappings::importCSV, and what a request for `qty' registers starting at *)
(* register `addr' addresses in it.                                        *)
(*                                                                         *)
(* The operators at the end give in closed form what the two passes of a   *)
(* request over the map (Mappings::handleRequest, then getValues or        *)
(* setValues) see.  Module DataIterator is the translation of the iterator *)
(* the code uses; there it is checked, and in DataIteratorProofs proved,   *)
(* that the iterator computes exactly these operators.                     *)
(***************************************************************************)
EXTENDS Integers, Sequences, FiniteSets

CONSTANTS
  DeviceTypes,     \* third element of a service name: "vebus", "settings", ...
  Paths,           \* D-Bus object paths below a service
  Services,        \* D-Bus services that may ever be seen
  NoService,       \* the null DBusService pointer
  DBusModbusMap    \* register -> DBusModbusData

Registers == DOMAIN DBusModbusMap

(* The fields of Mappings::DBusModbusData that decide control flow.  The   *)
(* Modbus and D-Bus types and the scale factor only matter to the value    *)
(* conversions; `reserved' is modbusType = mb_type_reserved.               *)
DBusModbusData ==
  [ deviceType  : DeviceTypes,
    objectPaths : Seq(Paths),
    size        : Nat \ {0},
    reserved    : BOOLEAN,
    writable    : BOOLEAN ]

(* A negative or malformed register number or size is refused by           *)
(* test/check_column_validity.py.  Registers may have gaps.                *)
ASSUME MapAssumption ==
  /\ Registers \subseteq Nat
  /\ DBusModbusMap \in [Registers -> DBusModbusData]

(* test/check_register_overlaps.py checks this of attributes.csv per       *)
(* service type; for the shipped table it also holds across types and for  *)
(* the entries importCSV adds itself.                                      *)
ASSUME NoOverlapAssumption ==
  \A j, k \in Registers : j < k => j + DBusModbusMap[j].size <= k

ASSUME ServiceAssumption == NoService \notin Services

SizeOf(k) == DBusModbusMap[k].size
TypeAt(k) == DBusModbusMap[k].deviceType

(* Register x belongs to the entry at register k.                          *)
Covers(k, x) == k <= x /\ x < k + SizeOf(k)

-----------------------------------------------------------------------------
(* Below, `svc' maps each device type to the service that answers for the  *)
(* unit ID of the request, or to NoService.                                *)

RouteTable == [DeviceTypes -> Services \cup {NoService}]

(* Register x is mapped, and a service answers for it.                     *)
Answerable(svc, x) ==
  \E k \in Registers : Covers(k, x) /\ svc[TypeAt(k)] # NoService

(* The request's first register can be looked up.  The second conjunct is  *)
(* what the code does, not what one expects: QMap::lowerBound returns end  *)
(* for an address behind the last key of the map, so a request that starts *)
(* inside the last entry is refused although the entry covers it.          *)
Startable(addr) ==
  /\ \E k \in Registers : Covers(k, addr)
  /\ \E k \in Registers : addr <= k

(* The entries a pass over the map visits: those that overlap the request, *)
(* up to the first register that nobody answers for.                       *)
Visited(svc, addr, qty) ==
  { k \in Registers :
      /\ qty > 0
      /\ Startable(addr)
      /\ k < addr + qty
      /\ addr < k + SizeOf(k)
      /\ \A x \in addr .. k + SizeOf(k) - 1 : Answerable(svc, x) }

(* The error the pass ends with.                                           *)
PassError(svc, addr, qty) ==
  CASE qty <= 0 -> "NoError"
    [] qty > 0 /\ ~ Startable(addr) -> "StartAddressError"
    [] qty > 0 /\ Startable(addr) /\ ~ Answerable(svc, addr) -> "ServiceError"
    [] qty > 0 /\ Startable(addr) /\ Answerable(svc, addr) ->
         IF \A x \in addr .. addr + qty - 1 : Answerable(svc, x)
           THEN "NoError"
           ELSE "AddressError"

Errors == { "NoError", "QuantityError", "StartAddressError", "AddressError",
            "UnitIdError", "ServiceError", "PermissionError" }
=============================================================================
