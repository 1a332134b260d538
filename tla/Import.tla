------------------------------- MODULE Import -------------------------------
(***************************************************************************)
(* Mappings::importCSV: how the lines of attributes.csv become the entries *)
(* of mDBusModbusMap; and the two scripts that check the file before it is *)
(* released, test/check_column_validity.py and                             *)
(* test/check_register_overlaps.py, which count registers on their own.    *)
(*                                                                         *)
(* A line is a record.  `service' is its first column cut at the dots;     *)
(* `path' and `unit' are cut at their commas, and empty when the column is *)
(* missing.  `modbusType' has a name and, in brackets, << >> or            *)
(* << count >>; `register' and `scale' are << >> when they are not a       *)
(* number.  `quoted' has the columns in double quotes: csv.reader, which   *)
(* the scripts use, takes the quotes off and does not look for commas      *)
(* between them, the program does neither.                                 *)
(***************************************************************************)
EXTENDS Conversion

CONSTANT BuiltInAt   \* the registers of the entries importCSV adds itself

BuiltInNames == { "/Pv/I", "genset", "dcgenset", "/DateAndTime", "/FirmwareVersion" }

ASSUME BuiltInAssumption ==
  /\ BuiltInAt \in [BuiltInNames -> Nat]
  /\ \A a, b \in BuiltInNames : BuiltInAt[a] = BuiltInAt[b] => a = b

Optional(S) == { s \in Seq(S) : Len(s) <= 1 }
Quotable == { "path", "unit", "dbusType", "register", "modbusType", "scale", "rw" }
Lines ==
  [ service : Seq(STRING), path : Seq(STRING), unit : Seq(STRING), dbusType : STRING,
    register : Optional(Int), modbusType : [ name : STRING, count : Optional(Nat) ],
    scale : Optional([ n : Int, d : Nat \ {0} ]), rw : STRING, quoted : SUBSET Quotable ]

-----------------------------------------------------------------------------
(* Mappings::convertModbusType.                                            *)
ConvertModbusType(type) ==
  IF type.name \in ModbusTypes THEN type.name ELSE "none"

(* QString::toInt is 0 of what is not a number or does not fit an int.     *)
FitsInt(number) == number # << >> /\ number[1] \in Signed(LongValues)
ToIntOf(number) == IF FitsInt(number) THEN number[1] ELSE 0

(* Mappings::convertSize.                                                  *)
ConvertSize(type) == ToIntOf(type.count)

(* Mappings::convertDbusType, as far as the conversions tell types apart.  *)
ConvertDbusType(letter) ==
  CASE letter = "d" -> "double"
    [] letter \in { "n", "i", "x" } -> "int"
    [] letter \in { "y", "q", "u", "t" } -> "uint"
    [] letter = "b" -> "bool"
    [] letter = "s" -> "string"
    [] OTHER -> "void"

(* Mappings::convertPermissions.                                           *)
ConvertPermissions(rw) ==
  CASE rw = "R" -> "read" [] rw = "W" -> "write" [] OTHER -> "none"

(* The constructor of DBusModbusData makes 1 of a scale that reads as 0.   *)
One == [ n |-> 1, d |-> 1 ]
ScaleFactor(scale) == IF scale = << >> \/ scale[1].n = 0 THEN One ELSE scale[1]

ItemSizeSigned(type) ==
  CASE type.name \in { "string", "reserved" } -> ConvertSize(type)
    [] type.name = "int32" -> 2
    [] type.name = "uint64" -> 4
    [] OTHER -> 1
ItemSize(type) ==
  CASE type.name \in { "string", "reserved" } -> ConvertSize(type)
    [] type.name \in { "int32", "uint32" } -> 2
    [] type.name = "uint64" -> 4
    [] OTHER -> 1

(* DBusService::getDeviceType.                                             *)
DeviceType(service) == IF Len(service) < 3 THEN "Unknown" ELSE service[3]

(* What split leaves of a column: no conversion knows one in quotes.       *)
Seen(line, column, unknown) == IF column \in line.quoted THEN unknown ELSE line[column]

EntryOf(line) ==
  [ deviceType |-> DeviceType(line.service), objectPaths |-> line.path,
    scaleFactor |-> ScaleFactor(Seen(line, "scale", << >>)),
    size |-> ItemSize(line.modbusType),
    modbusType |-> ConvertModbusType(line.modbusType),
    dbusType |-> ConvertDbusType(Seen(line, "dbusType", "")),
    accessRights |-> ConvertPermissions(Seen(line, "rw", "")),
    operation |-> IF line.modbusType.name = "reserved" THEN "Reserved" ELSE "Nop" ]

RegisterOf(line) == ToIntOf(Seen(line, "register", << >>))

(* A line is skipped when it is too short, or has no known type in its     *)
(* sixth column.  A comma in a path, as two alternatives in braces need,   *)
(* or in a unit moves the columns: the sixth is then no type but a column  *)
(* before it (or a piece of one, none of which is taken to spell a type).  *)
InOnePiece(line) == Len(line.path) = 1 /\ Len(line.unit) = 1
Imported(line) ==
  /\ InOnePiece(line)
  /\ "modbusType" \notin line.quoted /\ ConvertModbusType(line.modbusType) # "none"

Insert(map, line) ==
  IF Imported(line)
    THEN [ r \in DOMAIN map \cup { RegisterOf(line) } |->
             IF r = RegisterOf(line) THEN EntryOf(line) ELSE map[r] ]
    ELSE map

(* The entries of the backwards compatibility registers.                   *)
BuiltIn(deviceType, paths, scale, size, modbusType, dbusType, operation) ==
  [ deviceType |-> deviceType, objectPaths |-> paths,
    scaleFactor |-> [ n |-> scale, d |-> 1 ], size |-> size, modbusType |-> modbusType,
    dbusType |-> dbusType, accessRights |-> "read", operation |-> operation ]
ErrorIds == << "/Error/0/Id", "/Error/1/Id" >>   \* up to /Error/7/Id
BuiltInEntry(name) ==
  CASE name = "/Pv/I" ->
         BuiltIn("solarcharger", << "/Yield/Power", "/Pv/V" >>, 10, 1, "int16", "double", "Div")
    [] name \in { "genset", "dcgenset" } ->
         BuiltIn(name, ErrorIds, 1, 1, "uint16", "uint", "GensetErrorSummary")
    [] name = "/DateAndTime" -> BuiltIn("system", << >>, 1, 4, "uint64", "uint", "Time")
    [] name = "/FirmwareVersion" ->
         BuiltIn("system", << "/FirmwareVersion" >>, 1, 2, "uint32", "uint", "Firmware")
BuiltIns ==
  [ r \in { BuiltInAt[name] : name \in BuiltInNames } |->
      BuiltInEntry(CHOOSE name \in BuiltInNames : BuiltInAt[name] = r) ]

(* Mappings::importCSV.                                                    *)
ImportCSV(file) ==
  LET map[i \in 0 .. Len(file)] == IF i = 0 THEN << >> ELSE Insert(map[i - 1], file[i])
      read == map[Len(file)]
  IN  [ r \in DOMAIN read \cup DOMAIN BuiltIns |->
          IF r \in DOMAIN BuiltIns THEN BuiltIns[r] ELSE read[r] ]

-----------------------------------------------------------------------------
(* getRegistersCount of check_register_overlaps.py.                        *)
RegistersCount(type) ==
  IF type.name \in { "string", "reserved", "INTERNAL" } /\ type.count # << >>
    THEN type.count[1]
  ELSE IF type.name \in { "int32", "uint32" } THEN 2 ELSE 1

FirstOf(line) == line.register[1]
LastOf(line) == FirstOf(line) + RegistersCount(line.modbusType) - 1

(* No line ends behind the beginning of the next one with the same first   *)
(* column.                                                                 *)
OverlapFree(file) ==
  \A i, j \in DOMAIN file :
    i # j /\ file[i].service = file[j].service
      => LastOf(file[i]) < FirstOf(file[j]) \/ LastOf(file[j]) < FirstOf(file[i])

(* isValidModbusType and checkRow of check_column_validity.py; what it     *)
(* asks of path, D-Bus type and scale is left out.                         *)
ValidModbusType(type) ==
  IF type.count = << >>
    THEN type.name \in { "uint16", "int16", "uint32", "int32", "RESERVED", "reserved" }
    ELSE type.name \in { "string", "reserved", "RESERVED", "INTERNAL" }
OneColumn(line, column) ==
  line[column] # << >> /\ (Len(line[column]) = 1 \/ column \in line.quoted)
ValidRow(line) ==
  /\ OneColumn(line, "path") /\ OneColumn(line, "unit")
  /\ Len(line.service) > 2 /\ SubSeq(line.service, 1, 2) = << "com", "victronenergy" >>
  /\ line.register # << >> /\ line.register[1] >= 0
  /\ ValidModbusType(line.modbusType)
  /\ line.rw \in { "R", "W" }

Accepted(file) == (\A i \in DOMAIN file : ValidRow(file[i])) /\ OverlapFree(file)
=============================================================================
