----------------------------- MODULE Registers ------------------------------
(***************************************************************************)
(* The registers as a Modbus client sees them: the program imports its     *)
(* table once, when it starts, then the D-Bus services announce values and *)
(* clients write registers, each in its own words.  One entry of the table *)
(* is followed; what a client reads of it is WordsOf its items' values.    *)
(*                                                                         *)
(* Here a service takes every value written to it.  Whether the request is *)
(* answered at all, and by whom, is the subject of module Mappings.        *)
(***************************************************************************)
EXTENDS Import

CONSTANTS
  Files,           \* contents of attributes.csv
  Targets,         \* for each, the registers clients use; not that of the
                   \* clock, which has no item
  Numbers, Texts,  \* values services announce
  Samples,         \* words clients write
  NoRegister       \* the table has none of the targets

ASSUME RegistersAssumption ==
  /\ Files \subseteq Seq(Lines)
  /\ Targets \in [Files -> SUBSET (Int \ { BuiltInAt["/DateAndTime"] })]
  /\ NoRegister \notin Int
  /\ Numbers \subseteq NumberValues /\ Texts \subseteq TextValues
  /\ Samples \subseteq Word

VARIABLES
  file,            \* attributes.csv
  charSigned,      \* whether the compiler's char is signed
  mDBusModbusMap,
  register,        \* the register of the entry that is followed
  values           \* the values of its items

vars == << file, charSigned, mDBusModbusMap, register, values >>

Init ==
  /\ file \in Files
  /\ charSigned \in BOOLEAN
  /\ mDBusModbusMap = << >>
  /\ register = NoRegister
  /\ values = << >>

(* The constructor of App.                                                 *)
Import ==
  /\ mDBusModbusMap = << >>
  /\ mDBusModbusMap' = ImportCSV(file)
  /\ \/ register' \in Targets[file] \cap DOMAIN mDBusModbusMap'
     \/ Targets[file] \cap DOMAIN mDBusModbusMap' = {} /\ register' = NoRegister
  /\ values' =
       IF register' = NoRegister THEN << >>
       ELSE [ p \in DOMAIN mDBusModbusMap'[register'].objectPaths |-> Invalid ]
  /\ UNCHANGED << file, charSigned >>

Following == register # NoRegister
Entry == mDBusModbusMap[register]
Writable == Following /\ Entry.accessRights = "write" /\ Entry.modbusType # "reserved"
Fits(offset, data) == offset + Len(data) <= Entry.size

(* A service announces a value, or that it has none: for a register with a *)
(* text, a text.                                                           *)
Announce(p) ==
  /\ \E v \in (IF Entry.modbusType = "string" THEN {} ELSE Numbers) \cup Texts \cup { Invalid } :
       values' = [values EXCEPT ![p] = v]
  /\ UNCHANGED << file, charSigned, mDBusModbusMap, register >>

(* What setValues does to an entry that a write covers from `offset' on;   *)
(* an invalid value is not written and fails the request.                  *)
Write(offset, data) ==
  /\ Writable /\ Fits(offset, data)
  /\ \E v \in Written(values[1], Entry, offset, data, charSigned) :
       values' = IF v = Invalid THEN values ELSE [values EXCEPT ![1] = v]
  /\ UNCHANGED << file, charSigned, mDBusModbusMap, register >>

Writings == { << w >> : w \in Samples } \cup (Samples \X Samples)

Next ==
  \/ Import
  \/ \E p \in DOMAIN values : Announce(p)
  \/ \E data \in Writings, offset \in 0 .. 1 : Write(offset, data)

Spec == Init /\ [][Next]_vars

-----------------------------------------------------------------------------
Reads(vals) ==
  UNION { WordsOf(v, Entry, charSigned) : v \in Calculate(Entry.operation, vals) }

(* The variables have their types: above all, numbers fit the type of the  *)
(* QVariant that holds them, and texts written have no NUL in them.        *)
TypeOK ==
  /\ file \in Files /\ charSigned \in BOOLEAN
  /\ register \in (Targets[file] \cap DOMAIN mDBusModbusMap) \cup { NoRegister }
  /\ DOMAIN values = IF Following THEN DOMAIN Entry.objectPaths ELSE {}
  /\ \A p \in DOMAIN values :
       values[p] \in (IF Entry.modbusType = "string" THEN {} ELSE NumberValues)
                      \cup TextValues \cup { Invalid }

(* Numbers of this D-Bus type can hold what the registers can.             *)
Represents(e) ==
  \/ e.dbusType = "double"
  \/ /\ e.dbusType \in { "int", "uint", "bool" } /\ e.scaleFactor = One
     /\ RangeOf(e.modbusType) \subseteq DBusRange(e.dbusType)

(* The largest value of a type reads as the one before it, except from a   *)
(* double: the bound in convertFromDbus is one too low.                    *)
LargestWords(e) ==
  [ i \in 1 .. e.size |->
      (IF i = 1 /\ IsSigned(e.modbusType) THEN WordValues \div 2 ELSE WordValues) - 1 ]
ReadBack(e, words) ==
  IF e.dbusType # "double" /\ words = LargestWords(e)
    THEN [ words EXCEPT ![e.size] = @ - 1 ] ELSE words

(* A write changes the words it covers and no others, as a client reads    *)
(* them, whatever value the item had and whatever type that was of: where  *)
(* one word of two is written, value and type of the item go to registers, *)
(* are patched and come back (setValues).  A double has any scale, for the *)
(* other types it is 1, as a whole number does not hold every register's   *)
(* worth divided by a scale.                                               *)
WriteIsOverlay ==
  Writable /\ Entry.modbusType \notin { "string", "uint64" } /\ Represents(Entry) =>
    LET reads == Reads(values) IN
    \A before \in reads, data \in Writings, offset \in 0 .. 1 :
      Fits(offset, data) /\ (reads = { before } \/ Len(data) = Entry.size) =>
        \A v \in Written(values[1], Entry, offset, data, charSigned) :
          Reads(<< v >>) = { ReadBack(Entry, Overlay(before, offset, data)) }

(* Of a text, as well, but what comes after a NUL is lost: a write behind  *)
(* the end of the text is acknowledged and has no effect.  For characters  *)
(* above ASCII this depends on the sign of the compiler's char, and is     *)
(* claimed only where that is none.                                        *)
UpToNulWords(words) ==
  LET chars == UpToNul(CharsOf(words)) IN
  [ i \in 1 .. Len(words) |-> CharAt(chars, 2 * i - 2) * CharValues + CharAt(chars, 2 * i - 1) ]
Plain(chars) == charSigned => \A b \in DOMAIN chars : chars[b] < CharValues \div 2
TextWriteIsOverlay ==
  Writable /\ Entry.modbusType = "string" /\ (values[1] # Invalid => Plain(values[1].chars)) =>
    \A data \in Writings, offset \in 0 .. 1 :
      Fits(offset, data) /\ Plain(CharsOf(data)) =>
        \A before \in Reads(values),
           v \in Written(values[1], Entry, offset, data, charSigned) :
          Reads(<< v >>) = { UpToNulWords(Overlay(before, offset, data)) }

(* What a client reads is defined by the language unless an item has a     *)
(* double, a text has a character above ASCII where char is signed, at the *)
(* beginning of a register, or the firmware version does not fit a shifted *)
(* int: whole numbers are bounded to the register's type before they are   *)
(* converted to it.  (Doubles are not, nor is the quotient of register     *)
(* 777, which has no number when the voltage is 0.)                        *)
PlainAbove(chars) ==
  charSigned => \A n \in 0 .. Entry.size - 1 : CharAt(chars, 2 * n) < CharValues \div 2
ReadsDefined ==
  Following /\ Entry.operation # "Div"
    /\ (\A p \in DOMAIN values : values[p].kind # "double")
    /\ (Entry.modbusType = "string" /\ values[1] # Invalid => PlainAbove(values[1].chars))
    /\ (Entry.operation = "Firmware" => ShiftsLeft(ToInt(values[1])))
    => Cardinality(Reads(values)) = 1

(* What the import makes of a regular file that the scripts accept: one    *)
(* that names no more than a device type in its first columns, quotes none *)
(* but paths and units, has numbers that fit an int, says how long its     *)
(* reserved ranges are, and has placeholders for the built-in entries.     *)
(* (The scripts see to nothing of that; the shipped table is regular.)     *)
(* The scripts count registers as the program does.  Within a device type  *)
(* no entries overlap.  No writable entry is one of four registers, whose  *)
(* value setValues cannot assemble.  Every line is found in the table      *)
(* unless a comma in quotes cuts it or a line of another type claims its   *)
(* register: the scripts look at each first column alone, the table is     *)
(* keyed by register only.                                                 *)
Placeholder(line) == line.modbusType.name \in { "INTERNAL", "RESERVED" }
RegularLine(line) ==
  /\ Len(line.service) = 3 /\ line.quoted \subseteq { "path", "unit" }
  /\ FitsInt(line.register)
  /\ line.modbusType.count # << >> => FitsInt(line.modbusType.count)
  /\ line.modbusType.count # << 0 >>
  /\ line.modbusType # [ name |-> "reserved", count |-> << >> ]
Regular ==
  /\ \A i \in DOMAIN file : RegularLine(file[i])
  /\ \A r \in DOMAIN BuiltIns :
       \E i \in DOMAIN file :
         /\ DeviceType(file[i].service) = BuiltIns[r].deviceType /\ file[i].register = << r >>
         /\ file[i].modbusType = [ name |-> "INTERNAL", count |-> << BuiltIns[r].size >> ]
AcceptedFileImported ==
  mDBusModbusMap # << >> /\ Accepted(file) /\ Regular =>
    /\ \A r, q \in DOMAIN mDBusModbusMap :
         mDBusModbusMap[r].deviceType = mDBusModbusMap[q].deviceType /\ r < q
           => r + mDBusModbusMap[r].size <= q
    /\ \A r \in DOMAIN mDBusModbusMap :
         /\ mDBusModbusMap[r].size > 0
         /\ mDBusModbusMap[r].accessRights = "write" => mDBusModbusMap[r].modbusType # "uint64"
    /\ \A i \in DOMAIN file :
         LET r == RegisterOf(file[i]) IN
         \/ Placeholder(file[i]) \/ ~ InOnePiece(file[i])
         \/ /\ r \in DOMAIN mDBusModbusMap /\ mDBusModbusMap[r] = EntryOf(file[i])
            /\ mDBusModbusMap[r].size = RegistersCount(file[i].modbusType)
         \/ r \in DOMAIN BuiltIns
         \/ \E j \in DOMAIN file :
              /\ j > i /\ RegisterOf(file[j]) = r
              /\ DeviceType(file[j].service) # DeviceType(file[i].service)
=============================================================================
