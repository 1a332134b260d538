----------------------------- MODULE Conversion -----------------------------
(***************************************************************************)
(* How the value of a D-Bus item becomes the words of its registers, and   *)
(* back: the operations, getValue with convertFromDbus, and the assembly   *)
(* of a value in setValues with convertToDbus.                             *)
(*                                                                         *)
(* A register holds two characters, and the integer types are one, two or  *)
(* four registers wide.  What C++ leaves undefined is a set of outcomes:   *)
(* converting a double that the target type cannot hold, shifting by the   *)
(* width of the type or more, shifting a negative number to the left.      *)
(* Doubles are exact fractions; the error of a real one is far below the   *)
(* half of a register's step that rounding would need.                     *)
(***************************************************************************)
EXTENDS Integers, Sequences, SequencesExt

CONSTANT CharValues   \* how many values a char has, 256

ASSUME CharAssumption == CharValues \in Nat \ {0} /\ CharValues % 2 = 0

Char == 0 .. CharValues - 1
WordValues == CharValues * CharValues
Word == 0 .. WordValues - 1
LongValues == WordValues * WordValues   \* of 32 bits

(* QVariants: `n' is the number, over `d' for a double.                    *)
Invalid == [ kind |-> "invalid" ]
Double(n, d) == [ kind |-> "double", n |-> n, d |-> d ]
Integer(kind, n) == [ kind |-> kind, n |-> n ]
Text(chars) == [ kind |-> "string", chars |-> chars ]

(* mb_type_int16 and so on.                                                *)
ModbusTypes == { "int16", "uint16", "int32", "uint32", "uint64", "string", "reserved" }

ValuesOf(type) ==
  CASE type \in { "int16", "uint16" } -> WordValues
    [] type \in { "int32", "uint32" } -> LongValues
    [] type = "uint64" -> LongValues * LongValues

(* std::numeric_limits.                                                    *)
IsSigned(type) == type \in { "int16", "int32" }
Unsigned(n) == 0 .. n - 1
Signed(n) == -(n \div 2) .. (n \div 2) - 1
RangeOf(type) == IF IsSigned(type) THEN Signed(ValuesOf(type)) ELSE Unsigned(ValuesOf(type))
Largest(type) == (IF IsSigned(type) THEN ValuesOf(type) \div 2 ELSE ValuesOf(type)) - 1
Least(type) == IF IsSigned(type) THEN -(ValuesOf(type) \div 2) ELSE 0

(* What items hold; a text ends at its first NUL.                          *)
NumberValues ==
  [ kind : { "int" }, n : Signed(LongValues) ]
    \cup [ kind : { "uint" }, n : Unsigned(LongValues) ]
    \cup [ kind : { "double" }, n : Int, d : Nat \ {0} ]
    \cup [ kind : { "bool" }, n : { 0, 1 } ]
TextValues == [ kind : { "string" }, chars : Seq(Char \ {0}) ]

(* static_cast to a signed type.                                           *)
ToSigned(x, n) == IF x >= n \div 2 THEN x - n ELSE x

(* round(n / d), halves away from zero.                                    *)
Abs(x) == IF x < 0 THEN -x ELSE x
Round(n, d) ==
  LET q == (2 * Abs(n) + Abs(d)) \div (2 * Abs(d))
  IN  IF (n < 0) = (d < 0) THEN q ELSE -q

(* The quotient, with the sign in the numerator.                           *)
Fraction(n, d) == IF d < 0 THEN Double(-n, -d) ELSE Double(n, d)

-----------------------------------------------------------------------------
(* Operation::calculate, of the values of the entry's items: the values it *)
(* may return.                                                             *)

NopOperation(values) ==
  LET valid == { p \in DOMAIN values : values[p] # Invalid }
  IN  IF valid = {} THEN Invalid ELSE values[Min(valid)]

(* QVariant::toDouble is 0 unless the value is a number.                   *)
Numerator(v) == IF v.kind \in { "invalid", "string" } THEN 0 ELSE v.n
Denominator(v) == IF v.kind = "double" THEN v.d ELSE 1
DivOperation(values) ==
  LET a == values[1]  b == values[2] IN
  Fraction(Numerator(a) * Denominator(b), Denominator(a) * Numerator(b))

(* QVariant::toULongLong and toInt, also of doubles.                       *)
Whole(v) == IF Denominator(v) = 0 THEN 0 ELSE Round(Numerator(v), Denominator(v))
ToInt(v) == ToSigned(Whole(v) % LongValues, LongValues)

(* A beta version in the last character moves to a word of its own: the    *)
(* outcomes of `version << 8', whose upper word is kept.                   *)
ShiftsLeft(version) == version >= 0 /\ version * CharValues \in Signed(LongValues)
FirmwareOperation(values) ==
  LET version == ToInt(values[1])
      above == IF ShiftsLeft(version) THEN { version \div CharValues } ELSE Word
  IN  { Integer("uint", (high * WordValues) + (version % CharValues)) : high \in above }

(* 0xFF00 when an item has any text.                                       *)
GensetErrorSummaryOperation(values) ==
  Integer("uint",
    IF \E p \in DOMAIN values : values[p] # Invalid /\ values[p] # Text(<< >>)
      THEN WordValues - CharValues ELSE 0)

Calculate(operation, values) ==
  CASE operation = "Nop" -> { NopOperation(values) }
    [] operation = "Div" -> { DivOperation(values) }
    [] operation = "Firmware" -> FirmwareOperation(values)
    [] operation = "GensetErrorSummary" -> { GensetErrorSummaryOperation(values) }
    [] operation = "Reserved" -> { Integer("int", WordValues - 1) }

-----------------------------------------------------------------------------
(* A scale factor is a fraction, too.                                      *)

(* qBound around the rounded value.                                        *)
BoundNone(type, x) == IF x \in RangeOf(type) THEN { x } ELSE RangeOf(type)
Bound(type, x) ==
  { IF x < Least(type) THEN Least(type)
    ELSE IF x > Largest(type) - 1 THEN Largest(type) - 1 ELSE x }

(* Mappings::convertFromDbus: the values it may return.                    *)
ConvertFromDbus(v, type, scale) ==
  CASE v.kind = "double" ->
         IF v.d # 0 /\ Round(v.n * scale.n, v.d * scale.d) \in RangeOf(type)
           THEN { Round(v.n * scale.n, v.d * scale.d) } ELSE RangeOf(type)
    [] v.kind \in { "int", "uint" } -> Bound(type, Round(v.n * scale.n, scale.d))
    [] v.kind = "bool" -> { v.n }
    [] v.kind = "string" -> { 0 }

(* x >> n, for n a number of registers, and the register's worth there.   *)
Shift(n) ==
  CASE n = 0 -> 1
    [] n = 1 -> WordValues
    [] n = 2 -> LongValues
    [] n = 3 -> LongValues * WordValues
WordAt(x, n) == (x \div Shift(n)) % WordValues

(* `v | b[index]' of getValue: a char that is signed and negative sets all *)
(* bits of the other character.                                            *)
LowChar(c, charSigned, high) ==
  IF charSigned /\ c >= CharValues \div 2
    THEN WordValues - CharValues + c ELSE high * CharValues + c
CharAt(chars, index) == IF index < Len(chars) THEN chars[index + 1] ELSE 0
TextWordEarly(chars, offset, charSigned) ==
  IF Len(chars) <= 2 * offset + 2 THEN CharAt(chars, 2 * offset) * CharValues
  ELSE LowChar(CharAt(chars, 2 * offset + 1), charSigned, CharAt(chars, 2 * offset))
TextWord(chars, offset, charSigned) ==
  IF Len(chars) <= 2 * offset + 1 THEN CharAt(chars, 2 * offset) * CharValues
  ELSE LowChar(CharAt(chars, 2 * offset + 1), charSigned, CharAt(chars, 2 * offset))

(* `b[index] << 8' of a negative char.                                     *)
TextWords(chars, offset, charSigned) ==
  IF charSigned /\ CharAt(chars, 2 * offset) >= CharValues \div 2 THEN Word
  ELSE { TextWord(chars, offset, charSigned) }

(* Mappings::getValue: the words it may return.                            *)
GetValue(v, e, offset, charSigned) ==
  CASE v = Invalid -> { 0 }
    [] v # Invalid /\ e.modbusType \in { "int16", "uint16", "int32", "uint32" } ->
         { WordAt(x, e.size - 1 - offset)
             : x \in ConvertFromDbus(v, e.modbusType, e.scaleFactor) }
    [] v # Invalid /\ e.modbusType = "uint64" ->
         { WordAt(Whole(v) * (e.scaleFactor.n \div e.scaleFactor.d), 3 - offset) }
    [] v # Invalid /\ e.modbusType = "string" -> TextWords(v.chars, offset, charSigned)
    [] v # Invalid /\ e.modbusType = "reserved" -> { WordValues - 1 }

(* All words of an entry; each is converted on its own.                    *)
Extended(prefixes, outcomes) == { Append(prefix, w) : prefix \in prefixes, w \in outcomes }
WordsOf(v, e, charSigned) ==
  LET words[n \in 0 .. e.size] ==
        IF n = 0 THEN { << >> }
        ELSE Extended(words[n - 1], GetValue(v, e, n - 1, charSigned))
  IN  words[e.size]

-----------------------------------------------------------------------------
(* Data that begins at a register of the entry, in place of what was there.*)
Overlay(words, offset, data) ==
  [ i \in 1 .. Len(words) |->
      IF i \in offset + 1 .. offset + Len(data) THEN data[i - offset] ELSE words[i] ]

CharsOf(words) ==
  [ b \in 1 .. 2 * Len(words) |->
      LET w == words[(b + 1) \div 2]
      IN  IF b % 2 = 1 THEN w \div CharValues ELSE w % CharValues ]

(* QString::fromLatin1 of a C string.                                      *)
AllOf(chars) == chars
UpToNul(chars) ==
  LET n == SelectInSeq(chars, LAMBDA c : c = 0)
  IN  IF n = 0 THEN chars ELSE SubSeq(chars, 1, n - 1)

(* What a write that covers only a part of the entry starts from.          *)
SeededBehind(e, offset, data) == offset > 0
Seeded(e, offset, data) == Len(data) < e.size \/ offset > 0

(* The string setValues writes.                                            *)
TextWritten(v, e, offset, data) ==
  LET current == IF Seeded(e, offset, data) /\ v.kind = "string" THEN v.chars ELSE << >>
      bytes == [ b \in 1 .. 2 * e.size |->
                   IF b \in 2 * offset + 1 .. 2 * (offset + Len(data))
                     THEN CharsOf(data)[b - 2 * offset] ELSE CharAt(current, b - 1) ]
  IN  Text(UpToNul(bytes))

(* The 32 bit `value' of setValues, word by word from the seed and then    *)
(* from the data, `n' registers above its end: the outcomes.               *)
PutWord(x, n, w) ==
  IF n >= 2 THEN Unsigned(LongValues) ELSE { x + (w - WordAt(x, n)) * Shift(n) }
SeedValue(words) ==
  LET value[i \in 0 .. Len(words)] ==
        IF i = 0 THEN 0 ELSE (value[i - 1] * WordValues + words[i]) % LongValues
  IN  value[Len(words)]
Seeds(v, e, offset, data, charSigned) ==
  IF Seeded(e, offset, data) THEN { SeedValue(words) : words \in WordsOf(v, e, charSigned) }
  ELSE { 0 }
PutWordInAny(xs, n, w) == UNION { PutWord(x, n, w) : x \in xs }
Values(v, e, offset, data, charSigned) ==
  LET value[i \in 0 .. Len(data)] ==
        IF i = 0 THEN Seeds(v, e, offset, data, charSigned)
        ELSE PutWordInAny(value[i - 1], e.size - i - offset, data[i])
  IN  value[Len(data)]

(* The static_cast of `value' to the type of the register.                 *)
CastTo(type, x) ==
  CASE type = "int16" -> ToSigned(x % WordValues, WordValues)
    [] type = "uint16" -> x % WordValues
    [] type = "int32" -> ToSigned(x, LongValues)
    [] type \in { "uint32", "uint64" } -> x

(* int and unsigned int, in which QVariants hold integers.                 *)
DBusRange(dbusType) ==
  IF dbusType = "uint" THEN Unsigned(LongValues) ELSE Signed(LongValues)

(* Mappings::convertToDbus: the values it may return.                      *)
ConvertToDbus(dbusType, x, scale) ==
  CASE dbusType = "double" -> { Fraction(x * scale.d, scale.n) }
    [] dbusType \in { "int", "uint" } ->
         LET y == Round(x * scale.d, scale.n) IN
         { Integer(dbusType, z) : z \in IF y \in DBusRange(dbusType) THEN { y }
                                        ELSE DBusRange(dbusType) }
    [] dbusType = "bool" -> { Integer("int", ToSigned(x % LongValues, LongValues)) }
    [] dbusType \in { "string", "void" } -> { Invalid }

(* What setValues writes to the item, or Invalid.                          *)
Written(v, e, offset, data, charSigned) ==
  IF e.modbusType = "string" THEN { TextWritten(v, e, offset, data) }
  ELSE UNION { ConvertToDbus(e.dbusType, CastTo(e.modbusType, x), e.scaleFactor)
                 : x \in Values(v, e, offset, data, charSigned) }
=============================================================================
