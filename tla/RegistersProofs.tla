--------------------------- MODULE RegistersProofs ---------------------------
(***************************************************************************)
(* Registers as clients read and write them, for every table the import    *)
(* can build, every value of an item and every width of a register.        *)
(***************************************************************************)
EXTENDS Registers, FiniteSetTheorems, WellFoundedInduction, TLAPS

-----------------------------------------------------------------------------
(* Arithmetic of registers: quotient and remainder are unique.             *)
LEMMA DivFacts ==
  ASSUME NEW x \in Int, NEW b \in Nat \ {0}
  PROVE  x \div b \in Int /\ x % b \in 0 .. b - 1 /\ x = b * (x \div b) + (x % b)
OBVIOUS

(* ... so that whoever finds one has found both.                           *)
LEMMA DivUnique ==
  ASSUME NEW b \in Nat \ {0}, NEW q \in Int, NEW r \in 0 .. b - 1
  PROVE  (b * q + r) \div b = q /\ (b * q + r) % b = r
<1>1. b * q + r \in Int
  OBVIOUS
<1>2. PICK k \in Int, m \in 0 .. b - 1 :
        /\ k = (b * q + r) \div b /\ m = (b * q + r) % b
        /\ b * q + r = b * k + m
  BY <1>1, DivFacts
<1>3. b * (q - k) = m - r
  BY <1>2
<1>4. ~ q - k >= 1
  <2>. SUFFICES ASSUME q - k >= 1 PROVE FALSE
    OBVIOUS
  <2>1. b * (q - k) >= b
    OBVIOUS
  <2>. QED
    BY <1>3, <2>1
<1>5. ~ q - k <= -1
  <2>. SUFFICES ASSUME q - k <= -1 PROVE FALSE
    OBVIOUS
  <2>1. b * (q - k) <= -b
    OBVIOUS
  <2>. QED
    BY <1>3, <2>1
<1>. QED
  BY <1>2, <1>3, <1>4, <1>5

(* A number below the divisor.                                             *)
LEMMA DivSmall ==
  ASSUME NEW b \in Nat \ {0}, NEW r \in 0 .. b - 1
  PROVE  r \div b = 0 /\ r % b = r
<1>1. r = b * 0 + r
  OBVIOUS
<1>. QED
  BY <1>1, DivUnique

(* Half of an even number.                                                 *)
LEMMA HalfFacts ==
  ASSUME NEW k \in Nat
  PROVE  (2 * k) \div 2 = k
BY DivUnique, 0 \in 0 .. 1

(* How many values characters, registers and pairs of registers have, with *)
(* halves that are whole.                                                  *)
LEMMA WidthFacts ==
  /\ CharValues \in Nat /\ CharValues >= 2
  /\ CharValues \div 2 \in Nat /\ CharValues = 2 * (CharValues \div 2)
  /\ WordValues \in Nat /\ WordValues >= 4 /\ WordValues = CharValues * CharValues
  /\ WordValues \div 2 \in Nat /\ WordValues = 2 * (WordValues \div 2)
  /\ LongValues \in Nat /\ LongValues >= 4 * WordValues /\ LongValues = WordValues * WordValues
  /\ LongValues \div 2 \in Nat /\ LongValues = 2 * (LongValues \div 2)
  /\ LongValues \div 2 = WordValues * (WordValues \div 2)
<1>1. CharValues \in Nat /\ CharValues # 0 /\ CharValues % 2 = 0
  BY CharAssumption
<1>2. PICK h \in Nat : CharValues = 2 * h /\ h >= 1
  BY <1>1
<1>3. CharValues \div 2 = h
  BY <1>2, HalfFacts
<1>4. WordValues = 2 * (h * CharValues) /\ h * CharValues \in Nat /\ h * CharValues >= 2
  BY <1>2 DEF WordValues
<1>5. WordValues \div 2 = h * CharValues
  BY <1>4, HalfFacts
<1>6. LongValues = 2 * (WordValues * (h * CharValues)) /\ WordValues * (h * CharValues) \in Nat
  BY <1>4 DEF LongValues
<1>7. LongValues \div 2 = WordValues * (h * CharValues)
  BY <1>6, HalfFacts
<1>8. LongValues = WordValues * WordValues /\ WordValues * WordValues >= 4 * WordValues
  BY <1>4 DEF LongValues
<1>. QED
  BY <1>2, <1>3, <1>4, <1>5, <1>6, <1>7, <1>8 DEF WordValues

(* Two registers make a long one, and come apart again.                    *)
LEMMA LongFacts ==
  ASSUME NEW a \in Word, NEW b \in Word
  PROVE  LET x == a * WordValues + b IN
         /\ x \in 0 .. LongValues - 1
         /\ x \div WordValues = a /\ x % WordValues = b /\ x % LongValues = x
         /\ a % WordValues = a /\ b % LongValues = b
<1>. DEFINE x == a * WordValues + b
<1>1. a \in Nat /\ b \in Nat /\ a < WordValues /\ b < WordValues /\ WordValues \in Nat \ {0}
      /\ LongValues \in Nat \ {0} /\ LongValues = WordValues * WordValues
  BY WidthFacts DEF Word
<1>2. a * WordValues <= (WordValues - 1) * WordValues /\ a * WordValues \in Nat
  BY <1>1
<1>3. x \in 0 .. LongValues - 1
  BY <1>1, <1>2
<1>4. x = WordValues * a + b
  BY <1>1
<1>5. x \div WordValues = a /\ x % WordValues = b
  BY <1>1, <1>4, DivUnique
<1>6. x % LongValues = x
  <2>. HIDE DEF x
  <2>. QED
    BY <1>1, <1>3, DivSmall
<1>7. a % WordValues = a
  BY <1>1, DivSmall
<1>8. b % LongValues = b
  BY <1>1, DivSmall, WidthFacts
<1>. QED
  BY <1>3, <1>5, <1>6, <1>7, <1>8

-----------------------------------------------------------------------------
(* What is needed of an entry of the table: how many registers its number  *)
(* has, and that its scale is a number other than 0.                       *)
EntryOK(e) ==
  /\ e.modbusType \in ModbusTypes /\ e.size \in Nat
  /\ e.modbusType \in { "int16", "uint16" } => e.size = 1
  /\ e.modbusType \in { "int32", "uint32" } => e.size = 2
  /\ e.modbusType = "uint64" => e.size = 4
  /\ e.scaleFactor \in [ n : Int \ {0}, d : Nat \ {0} ]
  /\ e.dbusType \in { "double", "int", "uint", "bool", "string", "void" }

NumberTypes == { "int16", "uint16", "int32", "uint32" }

(* The values that items of an entry may have.                             *)
ValuesFor(e) ==
  (IF e.modbusType = "string" THEN {} ELSE NumberValues) \cup TextValues \cup { Invalid }

(* Rounding gives back a number that was multiplied and divided.           *)
LEMMA RoundInt ==
  ASSUME NEW n \in Int, NEW d \in Int \ {0}
  PROVE  Round(n, d) \in Int
<1>1. Abs(n) \in Nat /\ Abs(d) \in Nat \ {0}
  BY DEF Abs
<1>2. 2 * Abs(n) + Abs(d) \in Int /\ 2 * Abs(d) \in Nat \ {0}
  BY <1>1
<1>3. (2 * Abs(n) + Abs(d)) \div (2 * Abs(d)) \in Int
  BY <1>2, DivFacts
<1>. QED
  BY <1>3 DEF Round

(* Rounding a whole number changes nothing, ...                            *)
LEMMA RoundMultiple ==
  ASSUME NEW t \in Int, NEW k \in Nat \ {0}
  PROVE  Round(t * k, k) = t
<1>1. Abs(k) = k /\ Abs(t * k) = Abs(t) * k /\ Abs(t) \in Nat
  <2>1. CASE t >= 0
    <3>1. t * k >= 0 /\ t * k \in Int
      BY <2>1
    <3>. QED
      BY <2>1, <3>1 DEF Abs
  <2>2. CASE t < 0
    <3>1. t * k < 0 /\ t * k \in Int /\ -(t * k) = (-t) * k
      BY <2>2
    <3>. QED
      BY <2>2, <3>1 DEF Abs
  <2>. QED
    BY <2>1, <2>2
<1>2. 2 * Abs(t * k) + Abs(k) = (2 * k) * Abs(t) + k /\ 2 * Abs(k) = 2 * k
  BY <1>1
<1>3. ((2 * k) * Abs(t) + k) \div (2 * k) = Abs(t)
  BY <1>1, DivUnique, 2 * k \in Nat \ {0}, k \in 0 .. 2 * k - 1
<1>4. (2 * Abs(t * k) + Abs(k)) \div (2 * Abs(k)) = Abs(t)
  BY <1>2, <1>3
<1>5. (t * k < 0) = (t < 0) /\ ~ k < 0
  <2>1. t >= 0 => t * k >= 0
    OBVIOUS
  <2>2. t < 0 => t * k < 0
    OBVIOUS
  <2>. QED
    BY <2>1, <2>2
<1>. QED
  BY <1>4, <1>5 DEF Round, Abs

(* ... nor does the scale 1.                                               *)
LEMMA RoundWhole ==
  ASSUME NEW t \in Int
  PROVE  Round(t * 1, 1) = t
BY RoundMultiple

(* Ranges are made of integers.                                            *)
LEMMA ValuesOfFacts ==
  ASSUME NEW type \in NumberTypes
  PROVE  /\ type \in { "int16", "uint16" } => ValuesOf(type) = WordValues
         /\ type \in { "int32", "uint32" } => ValuesOf(type) = LongValues
         /\ ValuesOf(type) \in Nat /\ ValuesOf(type) >= 4
         /\ ValuesOf(type) \div 2 \in Nat /\ ValuesOf(type) = 2 * (ValuesOf(type) \div 2)
<1>1. ASSUME type \in { "int16", "uint16" } PROVE ValuesOf(type) = WordValues
  BY <1>1 DEF ValuesOf
<1>2. ASSUME type \in { "int32", "uint32" } PROVE ValuesOf(type) = LongValues
  BY <1>2 DEF ValuesOf
<1>3. ValuesOf(type) = WordValues \/ ValuesOf(type) = LongValues
  BY <1>1, <1>2 DEF NumberTypes
<1>. QED
  BY <1>1, <1>2, <1>3, WidthFacts

(* A register's type covers an interval around 0.                          *)
LEMMA RangeFacts ==
  ASSUME NEW type \in NumberTypes
  PROVE  /\ RangeOf(type) \subseteq Int /\ Largest(type) \in Nat /\ Least(type) \in Int
         /\ RangeOf(type) = Least(type) .. Largest(type)
         /\ Largest(type) >= 1 /\ Least(type) <= 0
<1>1. CASE IsSigned(type)
  BY <1>1, ValuesOfFacts DEF RangeOf, Largest, Least, Signed
<1>2. CASE ~ IsSigned(type)
  BY <1>2, ValuesOfFacts DEF RangeOf, Largest, Least, Unsigned
<1>. QED
  BY <1>1, <1>2

(* A shift by registers divides by a positive number.                      *)
LEMMA ShiftFacts ==
  ASSUME NEW n \in 0 .. 3
  PROVE  Shift(n) \in Nat \ {0}
<1>1. WordValues \in Nat \ {0} /\ LongValues \in Nat \ {0}
  BY WidthFacts
<1>2. LongValues * WordValues \in Nat \ {0}
  BY <1>1
<1>. QED
  BY <1>1, <1>2 DEF Shift

(* What getValue takes out of a number is a word.                          *)
LEMMA WordAtWord ==
  ASSUME NEW x \in Int, NEW n \in 0 .. 3
  PROVE  WordAt(x, n) \in Word
<1>1. x \div Shift(n) \in Int
  BY ShiftFacts, DivFacts
<1>2. WordValues \in Nat \ {0}
  BY WidthFacts
<1>3. \A y \in Int : y % WordValues \in 0 .. WordValues - 1
  BY <1>2, DivFacts
<1>4. (x \div Shift(n)) % WordValues \in 0 .. WordValues - 1
  BY <1>1, <1>3
<1>. QED
  BY <1>4 DEF WordAt, Word

(* A value of an item, in what convertFromDbus makes of it.                *)
LEMMA FromDbusInt ==
  ASSUME NEW v \in NumberValues \cup TextValues, NEW type \in NumberTypes,
         NEW scale \in [ n : Int \ {0}, d : Nat \ {0} ]
  PROVE  ConvertFromDbus(v, type, scale) \subseteq Int
<1>1. CASE v.kind = "double"
  <2>1. v.n \in Int /\ v.d \in Nat \ {0}
    BY <1>1 DEF NumberValues, TextValues
  <2>. QED
    BY <1>1, <2>1, RangeFacts DEF ConvertFromDbus
<1>2. CASE v.kind \in { "int", "uint" }
  <2>1. v.n \in Int
    BY <1>2, WidthFacts DEF NumberValues, TextValues, Signed, Unsigned
  <2>2. Round(v.n * scale.n, scale.d) \in Int
    BY <2>1, RoundInt
  <2>. QED
    BY <1>2, <2>2, RangeFacts DEF ConvertFromDbus, Bound
<1>3. CASE v.kind = "bool"
  BY <1>3 DEF NumberValues, TextValues, ConvertFromDbus
<1>4. CASE v.kind = "string"
  BY <1>4 DEF ConvertFromDbus
<1>. QED
  BY <1>1, <1>2, <1>3, <1>4 DEF NumberValues, TextValues

-----------------------------------------------------------------------------
(* A register from two characters.                                         *)
LEMMA CharAtFacts ==
  ASSUME NEW chars \in Seq(Char), NEW i \in Nat
  PROVE  CharAt(chars, i) \in Char
<1>1. 0 \in Char
  BY WidthFacts DEF Char
<1>. QED
  BY <1>1 DEF CharAt

(* Two characters make a word, and are found in it again.                  *)
LEMMA WordOfChars ==
  ASSUME NEW a \in Char, NEW b \in Char
  PROVE  /\ a * CharValues + b \in Word
         /\ (a * CharValues + b) \div CharValues = a
         /\ (a * CharValues + b) % CharValues = b
<1>1. a \in Nat /\ b \in 0 .. CharValues - 1 /\ a <= CharValues - 1 /\ CharValues \in Nat \ {0}
  BY WidthFacts DEF Char
<1>2. a * CharValues <= (CharValues - 1) * CharValues /\ a * CharValues \in Nat
  BY <1>1
<1>3. a * CharValues + b \in Word
  BY <1>1, <1>2, WidthFacts DEF Word
<1>4. a * CharValues + b = CharValues * a + b
  BY <1>1
<1>5. (CharValues * a + b) \div CharValues = a /\ (CharValues * a + b) % CharValues = b
  BY <1>1, DivUnique
<1>. QED
  BY <1>3, <1>4, <1>5

(* What getValue takes out of a text is a word.                            *)
LEMMA TextWordWord ==
  ASSUME NEW chars \in Seq(Char), NEW offset \in Nat, NEW signed \in BOOLEAN
  PROVE  TextWord(chars, offset, signed) \in Word
<1>1. CharAt(chars, 2 * offset) \in Char /\ CharAt(chars, 2 * offset + 1) \in Char
  BY CharAtFacts
<1>2. ASSUME NEW a \in Char PROVE a * CharValues \in Word
  <2>1. 0 \in Char /\ a * CharValues + 0 = a * CharValues
    BY WidthFacts DEF Char
  <2>. QED
    BY <2>1, WordOfChars
<1>3. ASSUME NEW a \in Char, NEW b \in Char PROVE LowChar(b, signed, a) \in Word
  <2>1. WordValues - CharValues + b \in Word
    <3>1. WordValues >= CharValues
      BY WidthFacts
    <3>. QED
      BY <3>1, WidthFacts DEF Word, Char
  <2>. QED
    BY <2>1, WordOfChars DEF LowChar
<1>. QED
  BY <1>1, <1>2, <1>3 DEF TextWord

(* Every register that is read of an item is a register's worth.           *)
LEMMA GetValueWords ==
  ASSUME NEW e, EntryOK(e), NEW v \in ValuesFor(e), NEW offset \in 0 .. e.size - 1,
         NEW signed \in BOOLEAN
  PROVE  GetValue(v, e, offset, signed) \subseteq Word
<1>0. e.size \in Nat /\ offset \in Nat
  BY DEF EntryOK
<1>1. CASE v = Invalid
  BY <1>1, WidthFacts DEF GetValue, Word
<1>2. CASE v # Invalid /\ e.modbusType \in NumberTypes
  <2>1. v \in NumberValues \cup TextValues
    BY <1>2 DEF ValuesFor, NumberTypes
  <2>2. ConvertFromDbus(v, e.modbusType, e.scaleFactor) \subseteq Int
    BY <1>2, <2>1, FromDbusInt DEF EntryOK
  <2>3. e.size - 1 - offset \in 0 .. 3
    BY <1>2 DEF EntryOK, NumberTypes
  <2>4. \A x \in ConvertFromDbus(v, e.modbusType, e.scaleFactor) :
          WordAt(x, e.size - 1 - offset) \in Word
    BY <2>2, <2>3, WordAtWord
  <2>5. GetValue(v, e, offset, signed)
          = { WordAt(x, e.size - 1 - offset)
                : x \in ConvertFromDbus(v, e.modbusType, e.scaleFactor) }
    BY <1>2 DEF GetValue, NumberTypes
  <2>. QED
    BY <2>4, <2>5
<1>3. CASE v # Invalid /\ e.modbusType = "uint64"
  <2>1. v \in NumberValues \cup TextValues
    BY <1>3 DEF ValuesFor
  <2>2. Numerator(v) \in Int /\ Denominator(v) \in Int
    BY <2>1, WidthFacts DEF NumberValues, TextValues, Numerator, Denominator, Signed, Unsigned
  <2>3. Whole(v) \in Int
    BY <2>2, RoundInt DEF Whole
  <2>4. e.scaleFactor.n \div e.scaleFactor.d \in Int
    BY DivFacts DEF EntryOK
  <2>5. Whole(v) * (e.scaleFactor.n \div e.scaleFactor.d) \in Int
    BY <2>3, <2>4
  <2>6. 3 - offset \in 0 .. 3
    BY <1>0, <1>3 DEF EntryOK
  <2>7. WordAt(Whole(v) * (e.scaleFactor.n \div e.scaleFactor.d), 3 - offset) \in Word
    BY <2>5, <2>6, WordAtWord
  <2>8. GetValue(v, e, offset, signed)
          = { WordAt(Whole(v) * (e.scaleFactor.n \div e.scaleFactor.d), 3 - offset) }
    BY <1>3 DEF GetValue
  <2>. QED
    BY <2>7, <2>8
<1>4. CASE v # Invalid /\ e.modbusType = "string"
  <2>1. v.chars \in Seq(Char \ {0})
    BY <1>4 DEF ValuesFor, TextValues
  <2>2. v.chars \in Seq(Char)
    BY <2>1
  <2>. QED
    BY <1>0, <1>4, <2>2, TextWordWord DEF GetValue, TextWords
<1>5. CASE v # Invalid /\ e.modbusType = "reserved"
  <2>1. WordValues - 1 \in Word
    BY WidthFacts DEF Word
  <2>. QED
    BY <1>5, <2>1 DEF GetValue
<1>. QED
  BY <1>1, <1>2, <1>3, <1>4, <1>5 DEF EntryOK, ModbusTypes, NumberTypes

(* A sequence is what its last element is appended to.                     *)
LEMMA AppendSplit ==
  ASSUME NEW S, NEW n \in Nat, NEW s \in [1 .. n + 1 -> S]
  PROVE  s = Append([i \in 1 .. n |-> s[i]], s[n + 1])
<1>. DEFINE p == [i \in 1 .. n |-> s[i]]
            w == s[n + 1]
<1>1. p \in Seq(S) /\ Len(p) = n /\ w \in S
  OBVIOUS
<1>2. (\A i \in 1 .. n : p[i] = s[i]) /\ w = s[n + 1]
  OBVIOUS
<1>. HIDE DEF p, w
<1>3. /\ Append(p, w) \in Seq(S) /\ Len(Append(p, w)) = n + 1
      /\ Append(p, w)[n + 1] = w
      /\ \A i \in 1 .. n : Append(p, w)[i] = p[i]
  BY <1>1
<1>4. ASSUME NEW i \in 1 .. n + 1 PROVE s[i] = Append(p, w)[i]
  <2>1. CASE i = n + 1
    BY <1>2, <1>3, <2>1
  <2>2. CASE i # n + 1
    <3>1. i \in 1 .. n
      BY <2>2
    <3>. QED
      BY <1>2, <1>3, <3>1
  <2>. QED
    BY <2>1, <2>2
<1>5. s = Append(p, w)
  BY <1>3, <1>4
<1>. QED
  BY <1>5 DEF p, w

(* Sequences of a length are functions, ...                                *)
LEMMA SeqIsFunction ==
  ASSUME NEW S, NEW n \in Nat, NEW s \in Seq(S), Len(s) = n
  PROVE  s \in [1 .. n -> S]
OBVIOUS

(* ... and the reverse.                                                    *)
LEMMA FunctionIsSeq ==
  ASSUME NEW S, NEW n \in Nat, NEW s, s \in [1 .. n -> S]
  PROVE  s \in Seq(S) /\ Len(s) = n
OBVIOUS

(* Natural numbers below a bound: the first for which something fails.     *)
LEMMA FirstFailure ==
  ASSUME NEW T \in SUBSET Nat, T # {}
  PROVE  \E n \in T : \A m \in T : n <= m
<1>1. PICK n \in T : \A m \in T : ~ (<< m, n >> \in OpToRel(<, Nat))
  BY NatLessThanWellFounded, WFMin
<1>2. \A m \in T : ~ (m < n)
  BY <1>1, Zenon DEF OpToRel
<1>3. \A m \in T : n <= m
  BY <1>2
<1>. QED
  BY <1>3

(* The words read of an entry: any that getValue returns, one by one.      *)
WordSequences(v, e, signed, n) ==
  { words \in [1 .. n -> UNION { GetValue(v, e, i - 1, signed) : i \in 1 .. e.size }] :
      \A i \in 1 .. n : words[i] \in GetValue(v, e, i - 1, signed) }

(* One more register of an entry: one more word, any of its outcomes.      *)
LEMMA WordSequencesStep ==
  ASSUME NEW v, NEW e, NEW signed, e.size \in Nat, NEW n \in 1 .. e.size
  PROVE  WordSequences(v, e, signed, n)
           = Extended(WordSequences(v, e, signed, n - 1), GetValue(v, e, n - 1, signed))
<1>. DEFINE S == UNION { GetValue(v, e, i - 1, signed) : i \in 1 .. e.size }
            G(i) == GetValue(v, e, i - 1, signed)
<1>1. \A i \in 1 .. e.size : G(i) \subseteq S
  OBVIOUS
<1>2. \A m \in Nat : WordSequences(v, e, signed, m)
                       = { words \in [1 .. m -> S] : \A i \in 1 .. m : words[i] \in G(i) }
  BY DEF WordSequences
<1>3. n - 1 \in Nat /\ n \in Nat /\ 1 .. n - 1 \subseteq 1 .. n /\ 1 .. n \subseteq 1 .. e.size
  OBVIOUS
<1>. HIDE DEF S, G
<1>4. ASSUME NEW words \in WordSequences(v, e, signed, n)
      PROVE  \E prefix \in WordSequences(v, e, signed, n - 1), w \in G(n) :
               words = Append(prefix, w)
  <2>. DEFINE prefix == [i \in 1 .. n - 1 |-> words[i]]
  <2>1. words \in [1 .. n -> S] /\ \A i \in 1 .. n : words[i] \in G(i)
    BY <1>2, <1>3
  <2>2. words = Append(prefix, words[n])
    BY <1>3, <2>1, AppendSplit, (n - 1) + 1 = n
  <2>3. prefix \in WordSequences(v, e, signed, n - 1)
    BY <1>2, <1>3, <2>1
  <2>. QED
    BY <1>3, <2>1, <2>2, <2>3
<1>5. ASSUME NEW prefix \in WordSequences(v, e, signed, n - 1), NEW w \in G(n)
      PROVE  Append(prefix, w) \in WordSequences(v, e, signed, n)
  <2>1. prefix \in [1 .. n - 1 -> S] /\ \A i \in 1 .. n - 1 : prefix[i] \in G(i)
    BY <1>2, <1>3
  <2>2. w \in S
    BY <1>1, <1>3
  <2>3. prefix \in Seq(S) /\ Len(prefix) = n - 1
    BY <1>3, <2>1
  <2>4. /\ Append(prefix, w) \in Seq(S) /\ Len(Append(prefix, w)) = n
        /\ Append(prefix, w)[n] = w
        /\ \A i \in 1 .. n - 1 : Append(prefix, w)[i] = prefix[i]
    BY <1>3, <2>2, <2>3
  <2>5. Append(prefix, w) \in [1 .. n -> S]
    BY <1>3, <2>4, SeqIsFunction
  <2>6. \A i \in 1 .. n : Append(prefix, w)[i] \in G(i)
    BY <1>3, <2>1, <2>4
  <2>. QED
    BY <1>2, <1>3, <2>5, <2>6
<1>6. WordSequences(v, e, signed, n)
        \subseteq Extended(WordSequences(v, e, signed, n - 1), G(n))
  BY <1>4 DEF Extended
<1>7. Extended(WordSequences(v, e, signed, n - 1), G(n))
        \subseteq WordSequences(v, e, signed, n)
  <2>. SUFFICES ASSUME NEW words \in Extended(WordSequences(v, e, signed, n - 1), G(n))
                PROVE  words \in WordSequences(v, e, signed, n)
    OBVIOUS
  <2>1. PICK prefix \in WordSequences(v, e, signed, n - 1), w \in G(n) : words = Append(prefix, w)
    BY DEF Extended
  <2>. QED
    BY <1>5, <2>1
<1>. QED
  BY <1>6, <1>7 DEF G

(* Before the first register nothing is read.                              *)
LEMMA NoWords ==
  ASSUME NEW v, NEW e, NEW signed
  PROVE  WordSequences(v, e, signed, 0) = { << >> }
<1>1. ASSUME NEW words \in WordSequences(v, e, signed, 0) PROVE words = << >>
  BY DEF WordSequences
<1>2. << >> \in WordSequences(v, e, signed, 0)
  BY DEF WordSequences
<1>. QED
  BY <1>1, <1>2

(* The loop of getValues reads the sequences of words.                     *)
LEMMA WordsOfFacts ==
  ASSUME NEW v, NEW e, NEW signed, e.size \in Nat
  PROVE  WordsOf(v, e, signed) = WordSequences(v, e, signed, e.size)
<1>. DEFINE
     Body(f) == [n \in 0 .. e.size |->
                   IF n = 0 THEN { << >> }
                   ELSE Extended(f[n - 1], GetValue(v, e, n - 1, signed))]
     f == CHOOSE f : f = Body(f)
     g == [n \in 0 .. e.size |-> WordSequences(v, e, signed, n)]
<1>1. WordsOf(v, e, signed) = f[e.size]
  BY DEF WordsOf
<1>2. WordSequences(v, e, signed, 0) = { << >> }
  BY NoWords
<1>3. g = Body(g)
  <2>1. ASSUME NEW n \in 0 .. e.size
        PROVE  WordSequences(v, e, signed, n)
                 = IF n = 0 THEN { << >> }
                   ELSE Extended(g[n - 1], GetValue(v, e, n - 1, signed))
    <3>1. CASE n = 0
      BY <1>2, <3>1
    <3>2. CASE n # 0
      <4>1. n \in 1 .. e.size /\ n - 1 \in 0 .. e.size
        BY <3>2
      <4>2. g[n - 1] = WordSequences(v, e, signed, n - 1)
        BY <4>1
      <4>. HIDE DEF g
      <4>. QED
        BY <3>2, <4>1, <4>2, WordSequencesStep
    <3>. QED
      BY <3>1, <3>2
  <2>. QED
    BY <2>1
<1>4. f = Body(f)
  <2>. HIDE DEF g
  <2>. QED
    BY <1>3
<1>. HIDE DEF f
<1>5. f[0] = { << >> }
  BY <1>4, 0 \in 0 .. e.size
<1>6. ASSUME NEW n \in 1 .. e.size
      PROVE  f[n] = Extended(f[n - 1], GetValue(v, e, n - 1, signed))
  BY <1>4, n \in 0 .. e.size, n # 0
<1>7. f[e.size] = WordSequences(v, e, signed, e.size)
  <2>. DEFINE T == { n \in 0 .. e.size : f[n] # WordSequences(v, e, signed, n) }
  <2>. SUFFICES ASSUME T # {} PROVE FALSE
    OBVIOUS
  <2>1. PICK n \in T : \A m \in T : n <= m
    BY FirstFailure, T \in SUBSET Nat
  <2>2. n \in 1 .. e.size
    <3>1. n # 0
      BY <1>2, <1>5, <2>1
    <3>. QED
      BY <2>1, <3>1
  <2>3. f[n - 1] = WordSequences(v, e, signed, n - 1)
    BY <2>1, <2>2
  <2>4. f[n] = WordSequences(v, e, signed, n)
    BY <1>6, <2>2, <2>3, WordSequencesStep
  <2>. QED
    BY <2>1, <2>4
<1>. QED
  BY <1>1, <1>7

-----------------------------------------------------------------------------
(* The shift in 32 bits drops what lies above them.                        *)
LEMMA LongRemainder ==
  ASSUME NEW a \in Int, NEW r \in 0 .. LongValues - 1
  PROVE  (LongValues * a + r) % LongValues = r
<1>1. LongValues \in Nat \ {0}
  BY WidthFacts
<1>. QED
  BY <1>1, DivUnique

(* The value a write starts from: the last two registers of the entry, as  *)
(* much as 32 bits hold.                                                   *)
LEMMA SeedValueFacts ==
  ASSUME NEW n \in Nat, NEW words \in [1 .. n -> Word]
  PROVE  /\ SeedValue(words) \in 0 .. LongValues - 1
         /\ n = 1 => SeedValue(words) = words[1]
         /\ n = 2 => SeedValue(words) = words[1] * WordValues + words[2]
<1>. DEFINE
     Body(f) == [i \in 0 .. n |-> IF i = 0 THEN 0 ELSE (f[i - 1] * WordValues + words[i]) % LongValues]
     f == CHOOSE f : f = Body(f)
     Pair(i) == IF i = 0 THEN 0 ELSE IF i = 1 THEN words[1] ELSE words[i - 1] * WordValues + words[i]
     g == [i \in 0 .. n |-> Pair(i)]
<1>0. Len(words) = n
  OBVIOUS
<1>1. SeedValue(words) = f[n]
  BY <1>0 DEF SeedValue
<1>2. \A i \in 1 .. n : words[i] \in Word /\ words[i] \in Nat
  BY WidthFacts DEF Word
<1>3. 0 \in Word /\ Word \subseteq Nat /\ WordValues \in Nat /\ LongValues \in Nat \ {0}
      /\ LongValues = WordValues * WordValues
  BY WidthFacts DEF Word
<1>4. ASSUME NEW i \in 1 .. n
      PROVE  Pair(i) = (Pair(i - 1) * WordValues + words[i]) % LongValues
  <2>1. CASE i = 1
    <3>1. Pair(i - 1) = 0 /\ Pair(i) = words[1] /\ words[i] = words[1]
      BY <2>1
    <3>2. words[1] % LongValues = words[1]
      BY <1>2, <1>3, <2>1, LongFacts
    <3>3. 0 * WordValues + words[1] = words[1]
      BY <1>2, <1>3, <2>1
    <3>. QED
      BY <3>1, <3>2, <3>3
  <2>2. CASE i = 2
    <3>1. words[1] \in Word /\ words[2] \in Word
      BY <1>2, <2>2
    <3>2. Pair(i - 1) = words[1] /\ Pair(i) = words[1] * WordValues + words[2]
      BY <2>2
    <3>3. (words[1] * WordValues + words[2]) % LongValues = words[1] * WordValues + words[2]
      BY <3>1, LongFacts
    <3>. QED
      BY <2>2, <3>2, <3>3
  <2>3. CASE i > 2
    <3>1. PICK a \in Word, b \in Word, c \in Word :
            a = words[i - 2] /\ b = words[i - 1] /\ c = words[i]
      <4>1. i - 2 \in 1 .. n /\ i - 1 \in 1 .. n /\ i \in 1 .. n
        BY <2>3
      <4>. QED
        BY <1>2, <4>1
    <3>2. Pair(i - 1) = a * WordValues + b /\ Pair(i) = b * WordValues + c
      BY <2>3, <3>1
    <3>3. a \in Nat /\ b \in Nat /\ c \in Nat
      BY <1>3
    <3>4. (a * WordValues + b) * WordValues + c = LongValues * a + (b * WordValues + c)
      BY <1>3, <3>3
    <3>5. b * WordValues + c \in 0 .. LongValues - 1
      BY LongFacts
    <3>6. \A r \in 0 .. LongValues - 1 : (LongValues * a + r) % LongValues = r
      BY <3>3, LongRemainder
    <3>. QED
      BY <3>1, <3>2, <3>4, <3>5, <3>6
  <2>. QED
    BY <2>1, <2>2, <2>3
<1>5. g = Body(g)
  <2>1. ASSUME NEW i \in 0 .. n
        PROVE  Pair(i) = IF i = 0 THEN 0 ELSE (g[i - 1] * WordValues + words[i]) % LongValues
    <3>1. CASE i = 0
      BY <3>1
    <3>2. CASE i # 0
      <4>1. i \in 1 .. n /\ i - 1 \in 0 .. n
        BY <3>2
      <4>2. g[i - 1] = Pair(i - 1)
        BY <4>1
      <4>. HIDE DEF g, Pair
      <4>. QED
        BY <1>4, <3>2, <4>1, <4>2
    <3>. QED
      BY <3>1, <3>2
  <2>. QED
    BY <2>1
<1>6. f = Body(f)
  <2>. HIDE DEF g
  <2>. QED
    BY <1>5
<1>. HIDE DEF f
<1>7. f[0] = 0
  BY <1>6, 0 \in 0 .. n
<1>8. ASSUME NEW i \in 1 .. n
      PROVE  f[i] = (f[i - 1] * WordValues + words[i]) % LongValues
  BY <1>6, i \in 0 .. n, i # 0
<1>9. f[n] \in 0 .. LongValues - 1
  <2>. DEFINE T == { i \in 0 .. n : f[i] \notin 0 .. LongValues - 1 }
  <2>. SUFFICES ASSUME T # {} PROVE FALSE
    OBVIOUS
  <2>1. PICK i \in T : \A j \in T : i <= j
    BY FirstFailure, T \in SUBSET Nat
  <2>2. i # 0
    BY <1>3, <1>7, <2>1
  <2>3. i \in 1 .. n /\ i - 1 \in 0 .. n
    BY <2>1, <2>2
  <2>4. f[i - 1] \in Int
    BY <2>1, <2>3
  <2>5. f[i - 1] * WordValues + words[i] \in Int
    BY <1>2, <1>3, <2>3, <2>4
  <2>6. f[i] \in 0 .. LongValues - 1
    BY <1>3, <1>8, <2>3, <2>5, DivFacts
  <2>. QED
    BY <2>1, <2>6
<1>10. ASSUME n \in 1 .. 2 PROVE f[1] = words[1]
  <2>1. f[1] = (f[0] * WordValues + words[1]) % LongValues /\ words[1] \in Word
    BY <1>2, <1>8, <1>10
  <2>2. 0 * WordValues + words[1] = words[1]
    BY <1>2, <1>3, <1>10
  <2>. QED
    BY <1>7, <2>1, <2>2, LongFacts
<1>11. ASSUME n = 2 PROVE f[2] = words[1] * WordValues + words[2]
  <2>1. f[2] = (f[1] * WordValues + words[2]) % LongValues /\ words[1] \in Word /\ words[2] \in Word
    BY <1>2, <1>8, <1>11
  <2>. QED
    BY <1>10, <1>11, <2>1, LongFacts
<1>. QED
  BY <1>1, <1>9, <1>10, <1>11

-----------------------------------------------------------------------------
(* What the import makes of a file.                                        *)

(* The built-in entries, of five names in BuiltInAt.                       *)
LEMMA BuiltInFacts ==
  ASSUME NEW r \in DOMAIN BuiltIns
  PROVE  LET e == BuiltIns[r] IN
         /\ r \in Nat
         /\ EntryOK(e) /\ e.size > 0 /\ e.accessRights = "read"
         /\ e.operation \in { "Div", "GensetErrorSummary", "Time", "Firmware" }
         /\ e.operation = "Time" => r = BuiltInAt["/DateAndTime"]
         /\ e.modbusType \in { "int16", "uint16", "uint32", "uint64" }
         /\ e.operation \in { "GensetErrorSummary", "Firmware" }
              => e.modbusType \in { "uint16", "uint32" }
<1>. DEFINE name == CHOOSE name \in BuiltInNames : BuiltInAt[name] = r
<1>1. \E n \in BuiltInNames : BuiltInAt[n] = r
  BY DEF BuiltIns
<1>2. name \in BuiltInNames /\ BuiltInAt[name] = r
  BY <1>1
<1>3. BuiltIns[r] = BuiltInEntry(name)
  BY DEF BuiltIns
<1>. HIDE DEF name
<1>4. r \in Nat
  BY <1>2, BuiltInAssumption
<1>5. LET e == BuiltInEntry(name) IN
      /\ EntryOK(e) /\ e.size > 0 /\ e.accessRights = "read"
      /\ e.operation \in { "Div", "GensetErrorSummary", "Time", "Firmware" }
      /\ e.operation = "Time" => name = "/DateAndTime"
      /\ e.modbusType \in { "int16", "uint16", "uint32", "uint64" }
      /\ e.operation \in { "GensetErrorSummary", "Firmware" }
           => e.modbusType \in { "uint16", "uint32" }
  BY <1>2 DEF BuiltInNames, BuiltInEntry, BuiltIn, EntryOK, ModbusTypes
<1>. QED
  BY <1>2, <1>3, <1>4, <1>5

(* The only element of an optional column.                                 *)
LEMMA SeqHead ==
  ASSUME NEW S, NEW s \in Seq(S), s # << >>
  PROVE  s[1] \in S
OBVIOUS

(* The entry of a line of the file.                                        *)
LEMMA EntryOfFacts ==
  ASSUME NEW line \in Lines, Imported(line)
  PROVE  LET e == EntryOf(line) IN
         /\ EntryOK(e) /\ DOMAIN e.objectPaths = { 1 }
         /\ e.operation \in { "Nop", "Reserved" }
         /\ e.operation = "Reserved" <=> e.modbusType = "reserved"
         /\ e.deviceType = DeviceType(line.service)
<1>1. line.modbusType.name \in ModbusTypes /\ line.modbusType.name # "none"
  BY DEF Imported, ConvertModbusType, ModbusTypes
<1>2. ConvertModbusType(line.modbusType) = line.modbusType.name
  BY <1>1 DEF ConvertModbusType
<1>3. ItemSize(line.modbusType) \in Nat
  <2>1. ConvertSize(line.modbusType) \in Nat
    <3>1. line.modbusType.count \in Seq(Nat)
      BY DEF Lines, Optional
    <3>. QED
      BY <3>1, SeqHead DEF ConvertSize, ToIntOf, FitsInt
  <2>. QED
    BY <1>1, <2>1 DEF ItemSize, ModbusTypes
<1>. DEFINE scale == Seen(line, "scale", << >>)
<1>4. ScaleFactor(scale) \in [ n : Int \ {0}, d : Nat \ {0} ]
  <2>1. scale \in Seq([ n : Int, d : Nat \ {0} ])
    BY DEF Seen, Lines, Optional
  <2>2. scale # << >> => scale[1] \in [ n : Int, d : Nat \ {0} ]
    BY <2>1, SeqHead
  <2>. HIDE DEF scale
  <2>. QED
    BY <2>2 DEF ScaleFactor, One
<1>5. DOMAIN line.path = { 1 }
  BY DEF Imported, InOnePiece, Lines
<1>. HIDE DEF scale
<1>. QED
  BY <1>1, <1>2, <1>3, <1>4, <1>5
  DEF EntryOf, EntryOK, ItemSize, ModbusTypes, ConvertDbusType, scale

(* The last of some numbers up to n.                                       *)
LEMMA LastIn ==
  ASSUME NEW n \in Nat, NEW T \in SUBSET (1 .. n), T # {}
  PROVE  \E i \in T : \A j \in T : j <= i
<1>. DEFINE U == { n - i : i \in T }
<1>0. \A i \in T : n - i \in Nat
  OBVIOUS
<1>1. U \in SUBSET Nat /\ U # {}
  BY <1>0
<1>2. PICK k \in U : \A m \in U : k <= m
  BY <1>1, FirstFailure
<1>3. PICK i \in T : k = n - i
  BY <1>2
<1>4. ASSUME NEW j \in T PROVE j <= i
  <2>1. n - j \in U
    OBVIOUS
  <2>. QED
    BY <1>2, <1>3, <2>1
<1>. QED
  BY <1>3, <1>4

(* The table after the first n lines: of each register, the last line that *)
(* was imported.                                                           *)
LinesAt(file_, n, r) == { i \in 1 .. n : Imported(file_[i]) /\ RegisterOf(file_[i]) = r }
LastLine(file_, n, r) ==
  CHOOSE i \in LinesAt(file_, n, r) : \A j \in LinesAt(file_, n, r) : j <= i
Table(file_, n) ==
  [ r \in { RegisterOf(file_[i]) : i \in { j \in 1 .. n : Imported(file_[j]) } } |->
      EntryOf(file_[LastLine(file_, n, r)]) ]

(* Of the lines imported at a register there is a last one.                *)
LEMMA LastLineFacts ==
  ASSUME NEW file_, NEW n \in Nat, NEW r, LinesAt(file_, n, r) # {}
  PROVE  /\ LastLine(file_, n, r) \in LinesAt(file_, n, r)
         /\ \A j \in LinesAt(file_, n, r) : j <= LastLine(file_, n, r)
<1>1. LinesAt(file_, n, r) \in SUBSET (1 .. n)
  BY DEF LinesAt
<1>2. \E i \in LinesAt(file_, n, r) : \A j \in LinesAt(file_, n, r) : j <= i
  BY <1>1, LastIn
<1>. QED
  BY <1>2 DEF LastLine

(* The table after one more line.                                          *)
LEMMA TableStep ==
  ASSUME NEW file_, NEW n \in Nat
  PROVE  Table(file_, n + 1) = Insert(Table(file_, n), file_[n + 1])
<1>. DEFINE D(m) == { RegisterOf(file_[i]) : i \in { j \in 1 .. m : Imported(file_[j]) } }
<1>1. 1 .. n + 1 = (1 .. n) \cup { n + 1 } /\ n + 1 \notin 1 .. n
  OBVIOUS
<1>2. ASSUME ~ Imported(file_[n + 1])
      PROVE  Table(file_, n + 1) = Table(file_, n)
  <2>1. \A r : LinesAt(file_, n + 1, r) = LinesAt(file_, n, r)
    BY <1>1, <1>2 DEF LinesAt
  <2>2. \A r : LastLine(file_, n + 1, r) = LastLine(file_, n, r)
    BY <2>1 DEF LastLine
  <2>3. D(n + 1) = D(n)
    BY <1>1, <1>2
  <2>. QED
    BY <2>2, <2>3 DEF Table
<1>3. ASSUME Imported(file_[n + 1])
      PROVE  Table(file_, n + 1)
               = [ r \in D(n) \cup { RegisterOf(file_[n + 1]) } |->
                     IF r = RegisterOf(file_[n + 1]) THEN EntryOf(file_[n + 1])
                     ELSE Table(file_, n)[r] ]
  <2>1. D(n + 1) = D(n) \cup { RegisterOf(file_[n + 1]) }
    BY <1>1, <1>3
  <2>2. ASSUME NEW r \in D(n + 1), r = RegisterOf(file_[n + 1])
        PROVE  LastLine(file_, n + 1, r) = n + 1
    <3>1. n + 1 \in LinesAt(file_, n + 1, r)
      BY <1>3, <2>2 DEF LinesAt
    <3>2. LastLine(file_, n + 1, r) \in 1 .. n + 1 /\ n + 1 <= LastLine(file_, n + 1, r)
      BY <3>1, LastLineFacts DEF LinesAt
    <3>. QED
      BY <3>2
  <2>3. ASSUME NEW r \in D(n + 1), r # RegisterOf(file_[n + 1])
        PROVE  r \in D(n) /\ LastLine(file_, n + 1, r) = LastLine(file_, n, r)
    <3>1. LinesAt(file_, n + 1, r) = LinesAt(file_, n, r)
      BY <1>1, <2>3 DEF LinesAt
    <3>. QED
      BY <2>1, <2>3, <3>1 DEF LastLine
  <2>. QED
    BY <2>1, <2>2, <2>3 DEF Table
<1>4. DOMAIN Table(file_, n) = D(n)
  BY DEF Table
<1>. QED
  BY <1>2, <1>3, <1>4 DEF Insert

(* The loop of importCSV builds the table; the built-in entries come last. *)
LEMMA ImportFacts ==
  ASSUME NEW file_, Len(file_) \in Nat
  PROVE  ImportCSV(file_)
           = [ r \in DOMAIN Table(file_, Len(file_)) \cup DOMAIN BuiltIns |->
                 IF r \in DOMAIN BuiltIns THEN BuiltIns[r] ELSE Table(file_, Len(file_))[r] ]
<1>. DEFINE
     N == Len(file_)
     Body(f) == [ i \in 0 .. N |-> IF i = 0 THEN << >> ELSE Insert(f[i - 1], file_[i]) ]
     f == CHOOSE f : f = Body(f)
     g == [ i \in 0 .. N |-> Table(file_, i) ]
<1>1. ImportCSV(file_)
        = [ r \in DOMAIN f[N] \cup DOMAIN BuiltIns |->
              IF r \in DOMAIN BuiltIns THEN BuiltIns[r] ELSE f[N][r] ]
  BY DEF ImportCSV
<1>2. Table(file_, 0) = << >>
  BY DEF Table
<1>3. \A i \in 1 .. N : Table(file_, i) = Insert(Table(file_, i - 1), file_[i])
  <2>1. ASSUME NEW i \in 1 .. N PROVE Table(file_, i) = Insert(Table(file_, i - 1), file_[i])
    <3>1. i - 1 \in Nat /\ (i - 1) + 1 = i
      OBVIOUS
    <3>. QED
      BY <3>1, TableStep
  <2>. QED
    BY <2>1
<1>4. g = Body(g)
  <2>1. ASSUME NEW i \in 0 .. N
        PROVE  Table(file_, i) = IF i = 0 THEN << >> ELSE Insert(g[i - 1], file_[i])
    <3>1. CASE i = 0
      BY <1>2, <3>1
    <3>2. CASE i # 0
      <4>1. i \in 1 .. N /\ i - 1 \in 0 .. N
        BY <3>2
      <4>2. g[i - 1] = Table(file_, i - 1)
        BY <4>1
      <4>. HIDE DEF g
      <4>. QED
        BY <1>3, <3>2, <4>1, <4>2
    <3>. QED
      BY <3>1, <3>2
  <2>. QED
    BY <2>1
<1>5. f = Body(f)
  <2>. HIDE DEF g
  <2>. QED
    BY <1>4
<1>. HIDE DEF f
<1>6. f[0] = << >>
  BY <1>5, 0 \in 0 .. N
<1>7. ASSUME NEW i \in 1 .. N
      PROVE  f[i] = Insert(f[i - 1], file_[i])
  BY <1>5, i \in 0 .. N, i # 0
<1>8. f[N] = Table(file_, N)
  <2>. DEFINE T == { i \in 0 .. N : f[i] # Table(file_, i) }
  <2>. SUFFICES ASSUME T # {} PROVE FALSE
    OBVIOUS
  <2>1. PICK i \in T : \A j \in T : i <= j
    BY FirstFailure, T \in SUBSET Nat
  <2>2. i # 0
    BY <1>2, <1>6, <2>1
  <2>3. i \in 1 .. N /\ i - 1 \in 0 .. N
    BY <2>1, <2>2
  <2>4. f[i - 1] = Table(file_, i - 1)
    BY <2>1, <2>3
  <2>. QED
    BY <1>3, <1>7, <2>1, <2>3, <2>4
<1>. QED
  BY <1>1, <1>8

(* An entry of the table is a built-in one or that of the last line with   *)
(* its register.                                                           *)
LEMMA TableEntries ==
  ASSUME NEW file_ \in Seq(Lines), NEW r \in DOMAIN ImportCSV(file_)
  PROVE  \/ r \in DOMAIN BuiltIns /\ ImportCSV(file_)[r] = BuiltIns[r]
         \/ /\ r \notin DOMAIN BuiltIns
            /\ \E i \in 1 .. Len(file_) :
                 /\ Imported(file_[i]) /\ RegisterOf(file_[i]) = r
                 /\ ImportCSV(file_)[r] = EntryOf(file_[i])
                 /\ \A j \in 1 .. Len(file_) :
                      Imported(file_[j]) /\ RegisterOf(file_[j]) = r => j <= i
<1>. DEFINE N == Len(file_)
<1>1. N \in Nat
  OBVIOUS
<1>2. ImportCSV(file_)
        = [ q \in DOMAIN Table(file_, N) \cup DOMAIN BuiltIns |->
              IF q \in DOMAIN BuiltIns THEN BuiltIns[q] ELSE Table(file_, N)[q] ]
  BY <1>1, ImportFacts
<1>3. CASE r \in DOMAIN BuiltIns
  BY <1>2, <1>3
<1>4. CASE r \notin DOMAIN BuiltIns
  <2>1. r \in DOMAIN Table(file_, N) /\ ImportCSV(file_)[r] = Table(file_, N)[r]
    BY <1>2, <1>4
  <2>2. LinesAt(file_, N, r) # {}
    BY <2>1 DEF Table, LinesAt
  <2>3. Table(file_, N)[r] = EntryOf(file_[LastLine(file_, N, r)])
    BY <2>1 DEF Table
  <2>. QED
    BY <1>1, <1>4, <2>1, <2>2, <2>3, LastLineFacts DEF LinesAt
<1>. QED
  BY <1>3, <1>4

(* No line that is imported leaves its register without an entry.          *)
LEMMA ImportedAreInTable ==
  ASSUME NEW file_ \in Seq(Lines), NEW i \in 1 .. Len(file_), Imported(file_[i])
  PROVE  RegisterOf(file_[i]) \in DOMAIN ImportCSV(file_)
<1>. DEFINE N == Len(file_)
<1>1. RegisterOf(file_[i]) \in DOMAIN Table(file_, N)
  BY DEF Table
<1>2. N \in Nat
  OBVIOUS
<1>3. DOMAIN ImportCSV(file_) = DOMAIN Table(file_, N) \cup DOMAIN BuiltIns
  BY <1>2, ImportFacts
<1>. QED
  BY <1>1, <1>3

(* The entries of a table, all together.                                     *)
LEMMA ImportedEntries ==
  ASSUME NEW file_ \in Seq(Lines), NEW r \in DOMAIN ImportCSV(file_)
  PROVE  LET e == ImportCSV(file_)[r] IN
         /\ r \in Int /\ EntryOK(e)
         /\ e.accessRights = "read" \/ (DOMAIN e.objectPaths = { 1 }
                /\ (e.operation = "Nop" \/ e.modbusType = "reserved"))
         /\ e.operation \in { "Nop", "Reserved", "Div", "GensetErrorSummary", "Time", "Firmware" }
         /\ e.operation = "Time" => r = BuiltInAt["/DateAndTime"]
         /\ e.operation \in { "GensetErrorSummary", "Firmware" }
              => e.modbusType \in { "uint16", "uint32" }
         /\ e.operation = "Reserved" <=> e.modbusType = "reserved"
         /\ e.operation = "Nop" => DOMAIN e.objectPaths = { 1 }
<1>1. CASE r \in DOMAIN BuiltIns
  <2>1. ImportCSV(file_)[r] = BuiltIns[r]
    BY <1>1, TableEntries
  <2>. QED
    BY <1>1, <2>1, BuiltInFacts
<1>2. CASE r \notin DOMAIN BuiltIns
  <2>1. PICK i \in 1 .. Len(file_) :
          /\ Imported(file_[i]) /\ RegisterOf(file_[i]) = r
          /\ ImportCSV(file_)[r] = EntryOf(file_[i])
    BY <1>2, TableEntries
  <2>2. file_[i] \in Lines
    OBVIOUS
  <2>3. r \in Int
    <3>. DEFINE number == Seen(file_[i], "register", << >>)
    <3>1. number \in Seq(Int)
      BY <2>2 DEF Lines, Optional, Seen
    <3>2. ToIntOf(number) = r
      BY <2>1 DEF RegisterOf
    <3>. HIDE DEF number
    <3>. QED
      BY <3>1, <3>2, SeqHead DEF ToIntOf, FitsInt
  <2>. QED
    BY <2>1, <2>2, <2>3, EntryOfFacts
<1>. QED
  BY <1>1, <1>2

-----------------------------------------------------------------------------
(* What a write makes of its data.                                         *)

(* A C string has no NUL in it, and begins like its buffer.                *)
LEMMA UpToNulFacts ==
  ASSUME NEW chars \in Seq(Char)
  PROVE  /\ UpToNul(chars) \in Seq(Char \ {0})
         /\ Len(UpToNul(chars)) <= Len(chars)
         /\ \A b \in 1 .. Len(UpToNul(chars)) : UpToNul(chars)[b] = chars[b]
<1>. DEFINE N == { i \in 1 .. Len(chars) : chars[i] = 0 }
            n == IF N # {} THEN Min(N) ELSE 0
<1>1. UpToNul(chars) = IF n = 0 THEN chars ELSE SubSeq(chars, 1, n - 1)
  BY DEF UpToNul, SelectInSeq
<1>2. CASE N = {}
  <2>1. UpToNul(chars) = chars
    BY <1>1, <1>2
  <2>2. \A i \in 1 .. Len(chars) : chars[i] \in Char \ {0}
    BY <1>2
  <2>3. chars \in [1 .. Len(chars) -> Char \ {0}]
    BY <2>2
  <2>. QED
    BY <2>1, <2>3
<1>3. CASE N # {}
  <2>1. N \in SUBSET Nat
    OBVIOUS
  <2>2. PICK m \in N : \A i \in N : m <= i
    BY <1>3, <2>1, FirstFailure
  <2>3. Min(N) \in N /\ \A i \in N : Min(N) <= i
    BY <2>2 DEF Min
  <2>4. n = Min(N) /\ n \in 1 .. Len(chars)
    BY <1>3, <2>3
  <2>5. \A i \in 1 .. n - 1 : chars[i] # 0
    BY <2>3, <2>4
  <2>. HIDE DEF n, N
  <2>6. UpToNul(chars) = SubSeq(chars, 1, n - 1)
    BY <1>1, <2>4
  <2>7. n - 1 \in 0 .. Len(chars) - 1
    BY <2>4
  <2>8. SubSeq(chars, 1, n - 1) = [ i \in 1 .. n - 1 |-> chars[i] ]
    BY <2>7
  <2>9. \A i \in 1 .. n - 1 : chars[i] \in Char \ {0}
    BY <2>5, <2>7
  <2>. HIDE DEF Char
  <2>10. [ i \in 1 .. n - 1 |-> chars[i] ] \in Seq(Char \ {0})
         /\ Len([ i \in 1 .. n - 1 |-> chars[i] ]) = n - 1
    BY <2>7, <2>9
  <2>. QED
    BY <2>6, <2>7, <2>8, <2>10
<1>. QED
  BY <1>2, <1>3

(* The characters of some words are two of each.                           *)
LEMMA CharsOfFacts ==
  ASSUME NEW words \in Seq(Word)
  PROVE  /\ CharsOf(words) \in Seq(Char) /\ Len(CharsOf(words)) = 2 * Len(words)
         /\ \A i \in 1 .. Len(words) :
              /\ CharsOf(words)[2 * i - 1] = words[i] \div CharValues
              /\ CharsOf(words)[2 * i] = words[i] % CharValues
<1>. DEFINE N == Len(words)
            C(b) == LET w == words[(b + 1) \div 2]
                    IN  IF b % 2 = 1 THEN w \div CharValues ELSE w % CharValues
<1>0. N \in Nat /\ 2 * N \in Nat
  OBVIOUS
<1>1. CharsOf(words) = [ b \in 1 .. 2 * N |-> C(b) ]
  BY DEF CharsOf
<1>2. ASSUME NEW w \in Word
      PROVE  w \div CharValues \in Char /\ w % CharValues \in Char
  <2>1. w \in 0 .. CharValues * CharValues - 1 /\ CharValues \in Nat \ {0}
    BY WidthFacts DEF Word
  <2>2. w \div CharValues \in Int /\ w % CharValues \in 0 .. CharValues - 1
        /\ w = CharValues * (w \div CharValues) + (w % CharValues)
    BY <2>1, DivFacts
  <2>3. PICK q \in Int, r \in 0 .. CharValues - 1 :
          q = w \div CharValues /\ r = w % CharValues /\ w = CharValues * q + r
    BY <2>2
  <2>4. ~ q < 0
    <3>1. ASSUME q < 0 PROVE CharValues * q <= -CharValues
      BY <2>1, <3>1
    <3>. QED
      BY <2>1, <2>3, <3>1
  <2>5. ~ q >= CharValues
    <3>1. ASSUME q >= CharValues PROVE CharValues * q >= CharValues * CharValues
      BY <2>1, <3>1
    <3>. QED
      BY <2>1, <2>3, <3>1
  <2>. QED
    BY <2>1, <2>3, <2>4, <2>5 DEF Char
<1>3. ASSUME NEW i \in 1 .. N
      PROVE  /\ 2 * i - 1 \in 1 .. 2 * N /\ 2 * i \in 1 .. 2 * N
             /\ ((2 * i - 1) + 1) \div 2 = i /\ (2 * i + 1) \div 2 = i
             /\ (2 * i - 1) % 2 = 1 /\ (2 * i) % 2 = 0
  BY <1>0
<1>4. ASSUME NEW b \in 1 .. 2 * N PROVE (b + 1) \div 2 \in 1 .. N
  BY <1>0
<1>5. ASSUME NEW b \in 1 .. 2 * N PROVE C(b) \in Char
  <2>1. words[(b + 1) \div 2] \in Word
    BY <1>4
  <2>. QED
    BY <1>2, <2>1
<1>. HIDE DEF C, N
<1>6. CharsOf(words) \in Seq(Char) /\ Len(CharsOf(words)) = 2 * N
  BY <1>0, <1>1, <1>5
<1>7. ASSUME NEW i \in 1 .. N
      PROVE  /\ CharsOf(words)[2 * i - 1] = words[i] \div CharValues
             /\ CharsOf(words)[2 * i] = words[i] % CharValues
  <2>1. C(2 * i - 1) = words[i] \div CharValues /\ C(2 * i) = words[i] % CharValues
    BY <1>3 DEF C
  <2>. QED
    BY <1>1, <1>3, <2>1
<1>. QED
  BY <1>6, <1>7 DEF N

(* What is written over the registers of an item and what remains of them. *)
LEMMA OverlayFacts ==
  ASSUME NEW before \in Seq(Word), NEW data \in Seq(Word), NEW offset \in Nat,
         offset + Len(data) <= Len(before)
  PROVE  LET O == Overlay(before, offset, data) IN
         /\ O \in Seq(Word) /\ Len(O) = Len(before)
         /\ \A i \in 1 .. Len(before) :
              O[i] = IF i \in offset + 1 .. offset + Len(data) THEN data[i - offset] ELSE before[i]
<1>. DEFINE N == Len(data)
            n == Len(before)
            V(i) == IF i \in offset + 1 .. offset + N THEN data[i - offset] ELSE before[i]
<1>1. n \in Nat /\ N \in Nat
  OBVIOUS
<1>2. Overlay(before, offset, data) = [ i \in 1 .. n |-> V(i) ]
  BY DEF Overlay
<1>3. ASSUME NEW i \in 1 .. n PROVE V(i) \in Word
  <2>1. CASE i \in offset + 1 .. offset + N
    <3>1. i - offset \in 1 .. N
      BY <1>1, <2>1
    <3>2. data[i - offset] \in Word
      BY <3>1
    <3>. QED
      BY <2>1, <3>2
  <2>2. CASE i \notin offset + 1 .. offset + N
    BY <2>2
  <2>. QED
    BY <2>1, <2>2
<1>4. Overlay(before, offset, data) \in [1 .. n -> Word]
      /\ \A i \in 1 .. n : Overlay(before, offset, data)[i] = V(i)
  BY <1>2, <1>3
<1>5. Overlay(before, offset, data) \in Seq(Word) /\ Len(Overlay(before, offset, data)) = n
  BY <1>1, <1>4, FunctionIsSeq
<1>. QED
  BY <1>4, <1>5

(* The characters an item has.                                             *)
TextOf(v) == IF v.kind = "string" THEN v.chars ELSE << >>

(* The characters of a text that is written, up to the end of the entry.   *)
Bytes(v, e, offset, data) ==
  [ b \in 1 .. 2 * e.size |->
      IF b \in 2 * offset + 1 .. 2 * (offset + Len(data)) THEN CharsOf(data)[b - 2 * offset]
      ELSE CharAt(IF Seeded(e, offset, data) THEN TextOf(v) ELSE << >>, b - 1) ]

(* The text written is the buffer of setValues up to its first NUL.        *)
LEMMA TextWrittenBytes ==
  ASSUME NEW v, NEW e, NEW offset, NEW data
  PROVE  TextWritten(v, e, offset, data) = Text(UpToNul(Bytes(v, e, offset, data)))
<1>1. (IF Seeded(e, offset, data) /\ v.kind = "string" THEN v.chars ELSE << >>)
        = IF Seeded(e, offset, data) THEN TextOf(v) ELSE << >>
  BY DEF TextOf
<1>. QED
  BY <1>1 DEF TextWritten, Bytes

(* The buffer has two characters for each register.                        *)
LEMMA BytesFacts ==
  ASSUME NEW v, TextOf(v) \in Seq(Char), NEW e, e.size \in Nat, NEW offset \in Nat,
         NEW data \in Seq(Word), offset + Len(data) <= e.size
  PROVE  /\ Bytes(v, e, offset, data) \in Seq(Char)
         /\ Len(Bytes(v, e, offset, data)) = 2 * e.size
<1>. DEFINE N == Len(data)
            current == IF Seeded(e, offset, data) THEN TextOf(v) ELSE << >>
            B(b) == IF b \in 2 * offset + 1 .. 2 * (offset + N) THEN CharsOf(data)[b - 2 * offset]
                    ELSE CharAt(current, b - 1)
<1>1. N \in Nat /\ 2 * e.size \in Nat
  OBVIOUS
<1>2. CharsOf(data) \in Seq(Char) /\ Len(CharsOf(data)) = 2 * N
  BY CharsOfFacts
<1>3. current \in Seq(Char)
  OBVIOUS
<1>4. ASSUME NEW b \in 1 .. 2 * e.size PROVE B(b) \in Char
  <2>1. CASE b \in 2 * offset + 1 .. 2 * (offset + N)
    <3>1. b - 2 * offset \in 1 .. 2 * N
      BY <1>1, <2>1
    <3>. HIDE DEF N
    <3>2. CharsOf(data)[b - 2 * offset] \in Char
      BY <1>2, <3>1
    <3>. QED
      BY <2>1, <3>2
  <2>2. CASE b \notin 2 * offset + 1 .. 2 * (offset + N)
    <3>. HIDE DEF current
    <3>1. CharAt(current, b - 1) \in Char
      BY <1>3, CharAtFacts, b - 1 \in Nat
    <3>. QED
      BY <2>2, <3>1
  <2>. QED
    BY <2>1, <2>2
<1>5. Bytes(v, e, offset, data) = [ b \in 1 .. 2 * e.size |-> B(b) ]
  BY DEF Bytes
<1>. HIDE DEF B
<1>6. Bytes(v, e, offset, data) \in [1 .. 2 * e.size -> Char]
  BY <1>4, <1>5
<1>. QED
  BY <1>1, <1>6, FunctionIsSeq

(* They are the characters of the registers, written over as registers.    *)
LEMMA BytesOverlay ==
  ASSUME NEW v, TextOf(v) \in Seq(Char), NEW e, e.size \in Nat, NEW offset \in Nat,
         NEW data \in Seq(Word), offset + Len(data) <= e.size,
         NEW before \in Seq(Word), Len(before) = e.size,
         \A i \in 1 .. e.size :
           /\ before[i] \div CharValues = CharAt(TextOf(v), 2 * i - 2)
           /\ before[i] % CharValues = CharAt(TextOf(v), 2 * i - 1)
  PROVE  CharsOf(Overlay(before, offset, data)) = Bytes(v, e, offset, data)
<1>. DEFINE N == Len(data)
            n == e.size
            O == Overlay(before, offset, data)
            B == Bytes(v, e, offset, data)
<1>1. N \in Nat /\ n \in Nat /\ offset + N <= n
  OBVIOUS
<1>2. \A i \in 1 .. n :
           O[i] = IF i \in offset + 1 .. offset + N THEN data[i - offset] ELSE before[i]
  BY <1>1, OverlayFacts
<1>3. O \in Seq(Word) /\ Len(O) = n
  BY <1>1, OverlayFacts
<1>4. /\ CharsOf(O) \in Seq(Char) /\ Len(CharsOf(O)) = 2 * n
      /\ \A i \in 1 .. n : /\ CharsOf(O)[2 * i - 1] = O[i] \div CharValues
                           /\ CharsOf(O)[2 * i] = O[i] % CharValues
  BY <1>3, CharsOfFacts
<1>5. B \in Seq(Char) /\ Len(B) = 2 * n
  BY BytesFacts
<1>6. \A i \in 1 .. N : /\ CharsOf(data)[2 * i - 1] = data[i] \div CharValues
                        /\ CharsOf(data)[2 * i] = data[i] % CharValues
  BY CharsOfFacts
<1>7. \A b \in 1 .. 2 * n :
        B[b] = IF b \in 2 * offset + 1 .. 2 * (offset + N) THEN CharsOf(data)[b - 2 * offset]
               ELSE CharAt(IF Seeded(e, offset, data) THEN TextOf(v) ELSE << >>, b - 1)
  BY DEF Bytes
<1>8. N < n \/ offset > 0 => Seeded(e, offset, data)
  BY DEF Seeded
<1>. HIDE DEF N, n, O, B
<1>9. ASSUME NEW i \in 1 .. n
      PROVE  CharsOf(O)[2 * i - 1] = B[2 * i - 1] /\ CharsOf(O)[2 * i] = B[2 * i]
  <2>1. 2 * i - 1 \in 1 .. 2 * n /\ 2 * i \in 1 .. 2 * n
    BY <1>1
  <2>2. CASE i \in offset + 1 .. offset + N
    <3>1. /\ 2 * i - 1 \in 2 * offset + 1 .. 2 * (offset + N)
          /\ 2 * i \in 2 * offset + 1 .. 2 * (offset + N)
          /\ i - offset \in 1 .. N
          /\ 2 * i - 1 - 2 * offset = 2 * (i - offset) - 1
          /\ 2 * i - 2 * offset = 2 * (i - offset)
      BY <1>1, <2>2
    <3>2. B[2 * i - 1] = CharsOf(data)[2 * (i - offset) - 1] /\ B[2 * i] = CharsOf(data)[2 * (i - offset)]
      BY <1>7, <2>1, <3>1
    <3>3. O[i] = data[i - offset]
      BY <1>2, <2>2
    <3>. QED
      BY <1>4, <1>6, <3>1, <3>2, <3>3
  <2>3. CASE i \notin offset + 1 .. offset + N
    <3>1. /\ 2 * i - 1 \notin 2 * offset + 1 .. 2 * (offset + N)
          /\ 2 * i \notin 2 * offset + 1 .. 2 * (offset + N)
      BY <1>1, <2>3
    <3>2. Seeded(e, offset, data)
      BY <1>1, <1>8, <2>3
    <3>3. B[2 * i - 1] = CharAt(TextOf(v), (2 * i - 1) - 1) /\ B[2 * i] = CharAt(TextOf(v), 2 * i - 1)
      BY <1>7, <2>1, <3>1, <3>2
    <3>4. (2 * i - 1) - 1 = 2 * i - 2
      BY <1>1
    <3>5. O[i] = before[i]
      BY <1>2, <2>3
    <3>. QED
      BY <1>4, <3>3, <3>4, <3>5 DEF n
  <2>. QED
    BY <2>2, <2>3
<1>10. ASSUME NEW b \in 1 .. 2 * n PROVE CharsOf(O)[b] = B[b]
  <2>1. PICK i \in 1 .. n : b = 2 * i - 1 \/ b = 2 * i
    <3>1. b % 2 \in 0 .. 1 /\ b \div 2 \in Int /\ b = 2 * (b \div 2) + (b % 2)
      BY <1>1
    <3>2. CASE b % 2 = 0
      <4>1. b \div 2 \in 1 .. n /\ b = 2 * (b \div 2)
        BY <1>1, <3>1, <3>2
      <4>. QED
        BY <4>1
    <3>3. CASE b % 2 = 1
      <4>1. b \div 2 + 1 \in 1 .. n /\ b = 2 * (b \div 2 + 1) - 1
        BY <1>1, <3>1, <3>3
      <4>. QED
        BY <4>1
    <3>. QED
      BY <3>1, <3>2, <3>3
  <2>. QED
    BY <1>9, <2>1
<1>11. CharsOf(O) = B
  BY <1>1, <1>4, <1>5, <1>10
<1>. QED
  BY <1>11 DEF O, B

(* Nothing but this value is possible.                                     *)
Certain(outcomes, x) == outcomes = { x }

(* When every word that is read is certain, so is what is read.            *)
LEMMA CertainWords ==
  ASSUME NEW v, NEW e, NEW signed, e.size \in Nat, NEW h, h = [ i \in 1 .. e.size |-> h[i] ],
         \A i \in 1 .. e.size : GetValue(v, e, i - 1, signed) = { h[i] }
  PROVE  WordsOf(v, e, signed) = { h }
<1>. DEFINE n == e.size
            S == UNION { GetValue(v, e, i - 1, signed) : i \in 1 .. n }
<1>0. WordsOf(v, e, signed)
        = { words \in [1 .. n -> S] : \A i \in 1 .. n : words[i] \in GetValue(v, e, i - 1, signed) }
  BY WordsOfFacts DEF WordSequences
<1>1. \A words : words \in WordsOf(v, e, signed)
        <=> words \in [1 .. n -> S] /\ \A i \in 1 .. n : words[i] = h[i]
  <2>. HIDE DEF S
  <2>. QED
    BY <1>0
<1>2. \A i \in 1 .. n : h[i] \in S
  OBVIOUS
<1>. HIDE DEF S
<1>3. h \in [1 .. n -> S]
  BY <1>2
<1>4. h \in WordsOf(v, e, signed)
  BY <1>1, <1>3
<1>5. ASSUME NEW words \in WordsOf(v, e, signed) PROVE words = h
  <2>1. words \in [1 .. n -> S] /\ \A i \in 1 .. n : words[i] = h[i]
    BY <1>1
  <2>. QED
    BY <2>1
<1>. QED
  BY <1>4, <1>5

(* A text is read two characters at a time.                                *)
Pairs(chars, n) ==
  [ i \in 1 .. n |-> CharAt(chars, 2 * i - 2) * CharValues + CharAt(chars, 2 * i - 1) ]

(* Pairs of characters are words, and are found in them again.             *)
LEMMA PairsFacts ==
  ASSUME NEW chars \in Seq(Char), NEW n \in Nat
  PROVE  /\ Pairs(chars, n) \in Seq(Word) /\ Len(Pairs(chars, n)) = n
         /\ \A i \in 1 .. n :
              /\ Pairs(chars, n)[i] \div CharValues = CharAt(chars, 2 * i - 2)
              /\ Pairs(chars, n)[i] % CharValues = CharAt(chars, 2 * i - 1)
<1>1. ASSUME NEW i \in 1 .. n
      PROVE  CharAt(chars, 2 * i - 2) \in Char /\ CharAt(chars, 2 * i - 1) \in Char
  <2>1. 2 * i - 2 \in Nat /\ 2 * i - 1 \in Nat
    OBVIOUS
  <2>. QED
    BY <2>1, CharAtFacts
<1>2. ASSUME NEW i \in 1 .. n
      PROVE  /\ Pairs(chars, n)[i] \in Word
             /\ Pairs(chars, n)[i] \div CharValues = CharAt(chars, 2 * i - 2)
             /\ Pairs(chars, n)[i] % CharValues = CharAt(chars, 2 * i - 1)
  <2>1. Pairs(chars, n)[i] = CharAt(chars, 2 * i - 2) * CharValues + CharAt(chars, 2 * i - 1)
    BY DEF Pairs
  <2>. QED
    BY <1>1, <2>1, WordOfChars
<1>3. Pairs(chars, n) \in [1 .. n -> Word]
  <2>1. Pairs(chars, n) = [ i \in 1 .. n |-> Pairs(chars, n)[i] ]
    BY DEF Pairs
  <2>. QED
    BY <1>2, <2>1
<1>. QED
  BY <1>2, <1>3, FunctionIsSeq

(* A text reads as the pairs of its characters, padded with NUL.           *)
LEMMA TextRead ==
  ASSUME NEW v, v = Invalid \/ v.kind = "string", TextOf(v) \in Seq(Char),
         NEW e, e.size \in Nat, e.modbusType = "string", NEW signed \in BOOLEAN,
         signed => \A b \in DOMAIN TextOf(v) : TextOf(v)[b] < CharValues \div 2
  PROVE  WordsOf(v, e, signed) = { Pairs(TextOf(v), e.size) }
<1>. DEFINE chars == TextOf(v)
            h == Pairs(chars, e.size)
<1>1. h = [ i \in 1 .. e.size |-> h[i] ]
  BY DEF Pairs
<1>2. ASSUME NEW i \in 1 .. e.size
      PROVE  GetValue(v, e, i - 1, signed) = { h[i] }
  <2>1. h[i] = CharAt(chars, 2 * i - 2) * CharValues + CharAt(chars, 2 * i - 1)
    BY DEF Pairs
  <2>2. CASE v = Invalid
    <3>1. chars = << >>
      BY <2>2 DEF TextOf, Invalid
    <3>2. CharAt(chars, 2 * i - 2) = 0 /\ CharAt(chars, 2 * i - 1) = 0
      BY <3>1 DEF CharAt
    <3>3. h[i] = 0
      BY <2>1, <3>2, WidthFacts
    <3>. QED
      BY <2>2, <3>3 DEF GetValue
  <2>3. CASE v # Invalid
    <3>1. v.chars = chars /\ GetValue(v, e, i - 1, signed) = TextWords(chars, i - 1, signed)
      BY <2>3 DEF GetValue, TextOf
    <3>2. 2 * (i - 1) = 2 * i - 2 /\ 2 * (i - 1) + 1 = 2 * i - 1 /\ 2 * i - 2 \in Nat /\ 2 * i - 1 \in Nat
      OBVIOUS
    <3>3. CharAt(chars, 2 * i - 2) \in Char /\ CharAt(chars, 2 * i - 1) \in Char
      BY <3>2, CharAtFacts
    <3>6. ~ (signed /\ CharAt(chars, 2 * i - 2) >= CharValues \div 2)
      <4>1. CharAt(chars, 2 * i - 2) = 0 \/
              (2 * i - 1 \in DOMAIN chars /\ CharAt(chars, 2 * i - 2) = chars[2 * i - 1])
        BY DEF CharAt
      <4>2. 0 < CharValues \div 2 /\ ~ 0 >= CharValues \div 2
        BY WidthFacts
      <4>3. \A c \in Char : c < CharValues \div 2 => ~ c >= CharValues \div 2
        BY WidthFacts DEF Char
      <4>. QED
        BY <3>3, <4>1, <4>2, <4>3
    <3>7. GetValue(v, e, i - 1, signed) = { TextWord(chars, i - 1, signed) }
      BY <3>1, <3>2, <3>6 DEF TextWords
    <3>4. CASE Len(chars) <= 2 * (i - 1) + 1
      <4>1. CharAt(chars, 2 * i - 1) = 0
        BY <3>4 DEF CharAt
      <4>2. CharAt(chars, 2 * i - 2) * CharValues + 0 = CharAt(chars, 2 * i - 2) * CharValues
        BY <3>3, WidthFacts DEF Char
      <4>3. TextWord(chars, i - 1, signed) = CharAt(chars, 2 * i - 2) * CharValues
        BY <3>2, <3>4 DEF TextWord
      <4>. QED
        BY <2>1, <3>7, <4>1, <4>2, <4>3
    <3>5. CASE ~ Len(chars) <= 2 * (i - 1) + 1
      <4>1. 2 * i \in DOMAIN chars /\ CharAt(chars, 2 * i - 1) = chars[2 * i]
        BY <3>5 DEF CharAt
      <4>2. ~ (signed /\ CharAt(chars, 2 * i - 1) >= CharValues \div 2)
        BY <3>3, <4>1, WidthFacts DEF Char
      <4>3. TextWord(chars, i - 1, signed)
              = LowChar(CharAt(chars, 2 * i - 1), signed, CharAt(chars, 2 * i - 2))
        BY <3>2, <3>5 DEF TextWord
      <4>. QED
        BY <2>1, <3>7, <4>2, <4>3 DEF LowChar
    <3>. QED
      BY <3>4, <3>5
  <2>. QED
    BY <2>2, <2>3
<1>. HIDE DEF h
<1>. QED
  BY <1>1, <1>2, CertainWords DEF h

(* A text that is written is read as the registers that were written, up   *)
(* to the first NUL.                                                       *)
LEMMA TextWriteRead ==
  ASSUME NEW v \in TextValues \cup { Invalid }, NEW e, e.size \in Nat, e.modbusType = "string",
         NEW signed \in BOOLEAN, NEW offset \in Nat, NEW data \in Seq(Word),
         offset + Len(data) <= e.size,
         signed => \A b \in DOMAIN TextOf(v) : TextOf(v)[b] < CharValues \div 2,
         signed => \A b \in DOMAIN CharsOf(data) : CharsOf(data)[b] < CharValues \div 2,
         NEW before \in WordsOf(v, e, signed)
  PROVE  Certain(WordsOf(TextWritten(v, e, offset, data), e, signed),
                 UpToNulWords(Overlay(before, offset, data)))
<1>. DEFINE B == Bytes(v, e, offset, data)
            O == Overlay(before, offset, data)
<1>1. TextOf(v) \in Seq(Char) /\ (v = Invalid \/ v.kind = "string")
  BY DEF TextOf, TextValues, Invalid
<1>2. before = Pairs(TextOf(v), e.size)
  BY <1>1, TextRead
<1>3. /\ before \in Seq(Word) /\ Len(before) = e.size
      /\ \A i \in 1 .. e.size :
           /\ before[i] \div CharValues = CharAt(TextOf(v), 2 * i - 2)
           /\ before[i] % CharValues = CharAt(TextOf(v), 2 * i - 1)
  BY <1>1, <1>2, PairsFacts
<1>4. CharsOf(O) = B
  BY <1>1, <1>3, BytesOverlay
<1>5. B \in Seq(Char) /\ Len(B) = 2 * e.size
  BY <1>1, BytesFacts
<1>6. Len(O) = e.size
  BY <1>3, OverlayFacts
<1>7. TextWritten(v, e, offset, data) = Text(UpToNul(B))
  BY TextWrittenBytes
<1>8. UpToNulWords(O) = Pairs(UpToNul(B), e.size)
  BY <1>4, <1>6 DEF UpToNulWords, Pairs
<1>9. ASSUME signed, NEW b \in 1 .. 2 * e.size PROVE B[b] < CharValues \div 2
  <2>1. CASE b \in 2 * offset + 1 .. 2 * (offset + Len(data))
    <3>1. B[b] = CharsOf(data)[b - 2 * offset]
      BY <2>1 DEF Bytes
    <3>2. b - 2 * offset \in 1 .. 2 * Len(data)
      BY <2>1
    <3>3. b - 2 * offset \in DOMAIN CharsOf(data)
      BY <3>2 DEF CharsOf
    <3>. QED
      BY <1>9, <3>1, <3>3
  <2>2. CASE b \notin 2 * offset + 1 .. 2 * (offset + Len(data))
    <3>1. PICK c \in { TextOf(v), << >> } : B[b] = CharAt(c, b - 1)
      BY <2>2 DEF Bytes
    <3>2. 0 < CharValues \div 2
      BY WidthFacts
    <3>3. c = << >> => B[b] = 0
      BY <3>1 DEF CharAt
    <3>4. c = TextOf(v) => B[b] < CharValues \div 2
      <4>1. b - 1 < Len(TextOf(v)) => b \in DOMAIN TextOf(v) /\ (b - 1) + 1 = b
        BY <1>1
      <4>2. CharAt(TextOf(v), b - 1) = IF b - 1 < Len(TextOf(v)) THEN TextOf(v)[(b - 1) + 1] ELSE 0
        BY DEF CharAt
      <4>. QED
        BY <1>9, <3>1, <3>2, <4>1, <4>2
    <3>. QED
      BY <3>1, <3>2, <3>3, <3>4
  <2>. QED
    BY <2>1, <2>2
<1>. DEFINE U == UpToNul(B)
<1>10. /\ U \in Seq(Char \ {0}) /\ Len(U) <= 2 * e.size
       /\ \A b \in 1 .. Len(U) : U[b] = B[b]
  BY <1>5, UpToNulFacts
<1>11. Text(U).kind = "string" /\ TextOf(Text(U)) = U
  BY DEF Text, TextOf
<1>. HIDE DEF U, B
<1>12. U \in Seq(Char)
  BY <1>10
<1>13. signed => \A b \in DOMAIN U : U[b] < CharValues \div 2
  <2>1. DOMAIN U = 1 .. Len(U) /\ Len(U) \in Nat
    BY <1>12
  <2>. QED
    BY <1>9, <1>10, <2>1
<1>14. WordsOf(Text(U), e, signed) = { Pairs(U, e.size) }
  BY <1>11, <1>12, <1>13, TextRead
<1>. QED
  BY <1>7, <1>8, <1>14 DEF U, Certain

-----------------------------------------------------------------------------
(* The value that is assembled of the data of a write and what was there.  *)

(* The loop of setValues, unrolled for one and two words.                  *)
LEMMA ValuesFacts ==
  ASSUME NEW v, NEW e, NEW offset, NEW data \in Seq(Word), Len(data) \in 1 .. 2, NEW signed
  PROVE  LET first == PutWordInAny(Seeds(v, e, offset, data, signed), e.size - 1 - offset, data[1])
         IN  /\ Len(data) = 1 => Values(v, e, offset, data, signed) = first
             /\ Len(data) = 2 => Values(v, e, offset, data, signed)
                                   = PutWordInAny(first, e.size - 2 - offset, data[2])
<1>. DEFINE
     N == Len(data)
     Zero == Seeds(v, e, offset, data, signed)
     Body(f) == [ i \in 0 .. N |-> IF i = 0 THEN Zero
                                   ELSE PutWordInAny(f[i - 1], e.size - i - offset, data[i]) ]
     f == CHOOSE f : f = Body(f)
     One_ == PutWordInAny(Zero, e.size - 1 - offset, data[1])
     Two == PutWordInAny(One_, e.size - 2 - offset, data[2])
     g == [ i \in 0 .. N |-> IF i = 0 THEN Zero ELSE IF i = 1 THEN One_ ELSE Two ]
<1>1. Values(v, e, offset, data, signed) = f[N]
  BY DEF Values
<1>2. g = Body(g)
  <2>1. ASSUME NEW i \in 0 .. N
        PROVE  g[i] = IF i = 0 THEN Zero ELSE PutWordInAny(g[i - 1], e.size - i - offset, data[i])
    <3>. HIDE DEF Zero
    <3>1. CASE i = 0
      BY <3>1
    <3>2. CASE i = 1
      <4>1. i - 1 = 0 /\ 0 \in 0 .. N /\ 1 \in 0 .. N
        BY <3>2
      <4>2. g[0] = Zero /\ g[1] = One_
        BY <3>2, <4>1
      <4>. QED
        BY <3>2, <4>1, <4>2
    <3>3. CASE i = 2
      <4>1. i - 1 = 1 /\ 1 \in 0 .. N /\ 2 \in 0 .. N
        BY <3>3
      <4>2. g[1] = One_ /\ g[2] = Two
        BY <3>3, <4>1
      <4>. HIDE DEF One_, g
      <4>. QED
        BY <3>3, <4>1, <4>2
    <3>. QED
      BY <3>1, <3>2, <3>3
  <2>. HIDE DEF One_, Two, Zero
  <2>. QED
    BY <2>1
<1>3. f = Body(f)
  <2>. HIDE DEF g
  <2>. QED
    BY <1>2
<1>. HIDE DEF f
<1>4. f[0] = Zero
  BY <1>3, 0 \in 0 .. N
<1>5. ASSUME NEW i \in 1 .. N
      PROVE  f[i] = PutWordInAny(f[i - 1], e.size - i - offset, data[i])
  BY <1>3, i \in 0 .. N, i # 0
<1>6. f[1] = One_
  <2>1. 1 \in 1 .. N /\ 1 - 1 = 0
    OBVIOUS
  <2>. QED
    BY <1>4, <1>5, <2>1
<1>7. N = 2 => f[2] = Two
  <2>1. N = 2 => 2 \in 1 .. N /\ 2 - 1 = 1
    OBVIOUS
  <2>. HIDE DEF One_
  <2>. QED
    BY <1>5, <1>6, <2>1
<1>. QED
  BY <1>1, <1>6, <1>7

(* Putting in a word yields integers, ...                                  *)
LEMMA PutWordFacts ==
  ASSUME NEW xs \in SUBSET Int, NEW n \in Nat, NEW w \in Word
  PROVE  PutWordInAny(xs, n, w) \subseteq Int
<1>. SUFFICES ASSUME NEW x \in xs PROVE PutWord(x, n, w) \subseteq Int
  BY DEF PutWordInAny
<1>1. CASE n >= 2
  BY <1>1, WidthFacts DEF PutWord, Unsigned
<1>2. CASE ~ n >= 2
  <2>1. Shift(n) \in Nat /\ WordAt(x, n) \in Word
    BY <1>2, ShiftFacts, WordAtWord
  <2>2. (w - WordAt(x, n)) * Shift(n) \in Int
    BY <2>1, WidthFacts DEF Word
  <2>. QED
    BY <1>2, <2>2 DEF PutWord
<1>. QED
  BY <1>1, <1>2

(* ... and one that is certain in the two lower registers.                 *)
LEMMA PutWordCertain ==
  ASSUME NEW x \in Int, NEW w \in Word
  PROVE  /\ PutWordInAny({ x }, 0, w) = { x + (w - (x % WordValues)) }
         /\ PutWordInAny({ x }, 1, w) = { x + (w - ((x \div WordValues) % WordValues)) * WordValues }
<1>1. Shift(0) = 1 /\ Shift(1) = WordValues
  BY DEF Shift
<1>2. x \div 1 = x
  BY DivUnique, x = 1 * x + 0, 0 \in 0 .. 1 - 1
<1>3. WordAt(x, 0) = x % WordValues /\ WordAt(x, 1) = (x \div WordValues) % WordValues
  BY <1>1, <1>2 DEF WordAt
<1>4. x % WordValues \in Int /\ (w - (x % WordValues)) * 1 = w - (x % WordValues)
  <2>1. x % WordValues \in Int
    BY WidthFacts, DivFacts
  <2>. QED
    BY <2>1, WidthFacts DEF Word
<1>5. \A n, y : PutWordInAny({ y }, n, w) = PutWord(y, n, w)
  BY DEF PutWordInAny
<1>6. PutWord(x, 0, w) = { x + (w - (x % WordValues)) * 1 }
  BY <1>1, <1>3 DEF PutWord
<1>7. PutWord(x, 1, w) = { x + (w - ((x \div WordValues) % WordValues)) * WordValues }
  BY <1>1, <1>3 DEF PutWord
<1>. QED
  BY <1>4, <1>5, <1>6, <1>7

(* What setValues starts from are integers.                                *)
LEMMA SeedsFacts ==
  ASSUME NEW e, EntryOK(e), NEW v \in ValuesFor(e), NEW offset, NEW data, NEW signed \in BOOLEAN
  PROVE  Seeds(v, e, offset, data, signed) \subseteq Int
<1>1. ASSUME NEW words \in WordsOf(v, e, signed) PROVE SeedValue(words) \in Int
  <2>1. e.size \in Nat
    BY DEF EntryOK
  <2>2. words \in WordSequences(v, e, signed, e.size)
    BY <2>1, WordsOfFacts
  <2>3. \A i \in 1 .. e.size : words[i] \in GetValue(v, e, i - 1, signed)
    BY <2>2 DEF WordSequences
  <2>4. words = [ i \in 1 .. e.size |-> words[i] ]
    BY <2>2 DEF WordSequences
  <2>5. ASSUME NEW i \in 1 .. e.size PROVE words[i] \in Word
    <3>1. i - 1 \in 0 .. e.size - 1
      BY <2>1
    <3>. QED
      BY <2>3, <3>1, GetValueWords
  <2>6. words \in [1 .. e.size -> Word]
    BY <2>4, <2>5
  <2>7. SeedValue(words) \in 0 .. LongValues - 1
    BY <2>1, <2>6, SeedValueFacts
  <2>. QED
    BY <2>7, WidthFacts
<1>. QED
  BY <1>1 DEF Seeds

(* The words of a write, and how far above the end they go.                *)
LEMMA DataFacts ==
  ASSUME NEW data \in Seq(Word), Len(data) \in 1 .. 2, NEW n \in Nat, NEW offset \in Nat,
         offset + Len(data) <= n
  PROVE  /\ data[1] \in Word /\ n - 1 - offset \in Nat
         /\ Len(data) = 2 => data[2] \in Word /\ n - 2 - offset \in Nat
<1>. PICK m \in 1 .. 2 : m = Len(data) /\ offset + m <= n
  OBVIOUS
<1>1. n - 1 - offset \in Nat
  OBVIOUS
<1>2. m = 2 => n - 2 - offset \in Nat
  OBVIOUS
<1>3. data \in [1 .. m -> Word]
  OBVIOUS
<1>4. data[1] \in Word
  BY <1>3
<1>5. m = 2 => data[2] \in Word
  BY <1>3
<1>. QED
  BY <1>1, <1>2, <1>4, <1>5

(* The 32 bit value of setValues is an integer, whatever was there.        *)
LEMMA ValuesAreIntegers ==
  ASSUME NEW e, EntryOK(e), NEW v \in ValuesFor(e), NEW offset \in Nat, NEW data \in Seq(Word),
         Len(data) \in 1 .. 2, offset + Len(data) <= e.size, NEW signed \in BOOLEAN
  PROVE  Values(v, e, offset, data, signed) \subseteq Int
<1>. DEFINE zero == Seeds(v, e, offset, data, signed)
            first == PutWordInAny(zero, e.size - 1 - offset, data[1])
<1>0. e.size \in Nat
  BY DEF EntryOK
<1>1. zero \in SUBSET Int
  BY SeedsFacts
<1>2. e.size - 1 - offset \in Nat /\ data[1] \in Word
  BY <1>0, DataFacts
<1>3. first \in SUBSET Int
  BY <1>1, <1>2, PutWordFacts
<1>4. CASE Len(data) = 1
  BY <1>3, <1>4, ValuesFacts
<1>5. CASE Len(data) = 2
  <2>1. e.size - 2 - offset \in Nat /\ data[2] \in Word
    BY <1>0, <1>5, DataFacts
  <2>. HIDE DEF first
  <2>2. PutWordInAny(first, e.size - 2 - offset, data[2]) \subseteq Int
    BY <1>3, <2>1, PutWordFacts
  <2>. QED
    BY <1>5, <2>2, ValuesFacts DEF first
<1>. QED
  BY <1>4, <1>5

(* So is its cast to the type of the register, ...                         *)
LEMMA CastToInt ==
  ASSUME NEW x \in Int, NEW type \in NumberTypes \cup { "uint64" }
  PROVE  CastTo(type, x) \in Int
<1>1. x % WordValues \in Int
  BY WidthFacts, DivFacts
<1>2. \A y \in Int, n \in Nat : ToSigned(y, n) \in Int
  BY DEF ToSigned
<1>. QED
  BY <1>1, <1>2, WidthFacts DEF CastTo, NumberTypes

(* ... and what convertToDbus makes of it fits its type, or is invalid.    *)
LEMMA ToDbusFacts ==
  ASSUME NEW x \in Int, NEW scale \in [ n : Int \ {0}, d : Nat \ {0} ],
         NEW dbusType \in { "double", "int", "uint", "bool", "string", "void" }
  PROVE  ConvertToDbus(dbusType, x, scale) \subseteq NumberValues \cup { Invalid }
<1>1. CASE dbusType = "double"
  <2>1. x * scale.d \in Int /\ -(x * scale.d) \in Int
    OBVIOUS
  <2>2. Fraction(x * scale.d, scale.n) \in NumberValues
    <3>1. CASE scale.n < 0
      <4>1. Fraction(x * scale.d, scale.n) = Double(-(x * scale.d), -scale.n)
        BY <3>1 DEF Fraction
      <4>2. -scale.n \in Nat \ {0}
        BY <3>1
      <4>. QED
        BY <2>1, <4>1, <4>2 DEF Double, NumberValues
    <3>2. CASE ~ scale.n < 0
      <4>1. Fraction(x * scale.d, scale.n) = Double(x * scale.d, scale.n)
        BY <3>2 DEF Fraction
      <4>2. scale.n \in Nat \ {0}
        BY <3>2
      <4>. QED
        BY <2>1, <4>1, <4>2 DEF Double, NumberValues
    <3>. QED
      BY <3>1, <3>2
  <2>. QED
    BY <1>1, <2>2 DEF ConvertToDbus
<1>2. CASE dbusType \in { "int", "uint" }
  <2>1. \A z \in DBusRange(dbusType) : Integer(dbusType, z) \in NumberValues
    BY <1>2 DEF DBusRange, Integer, NumberValues
  <2>. DEFINE y == Round(x * scale.d, scale.n)
  <2>2. ConvertToDbus(dbusType, x, scale)
          = { Integer(dbusType, z) : z \in IF y \in DBusRange(dbusType) THEN { y }
                                           ELSE DBusRange(dbusType) }
    BY <1>2 DEF ConvertToDbus
  <2>. HIDE DEF y
  <2>. QED
    BY <2>1, <2>2
<1>3. CASE dbusType = "bool"
  <2>1. x % LongValues \in 0 .. LongValues - 1
    <3>1. LongValues \in Nat \ {0}
      BY WidthFacts
    <3>. QED
      BY <3>1, DivFacts
  <2>2. ToSigned(x % LongValues, LongValues) \in Signed(LongValues)
    BY <2>1, WidthFacts DEF ToSigned, Signed
  <2>3. Integer("int", ToSigned(x % LongValues, LongValues)) \in NumberValues
    BY <2>2 DEF Integer, NumberValues
  <2>. QED
    BY <1>3, <2>3 DEF ConvertToDbus
<1>4. CASE dbusType \in { "string", "void" }
  BY <1>4 DEF ConvertToDbus
<1>. QED
  BY <1>1, <1>2, <1>3, <1>4

(* A write leaves a value of the entry's item, or none.                    *)
LEMMA WrittenTyped ==
  ASSUME NEW e, EntryOK(e), e.modbusType # "reserved", NEW v \in ValuesFor(e), NEW offset \in Nat,
         NEW data \in Seq(Word), Len(data) \in 1 .. 2, offset + Len(data) <= e.size,
         NEW signed \in BOOLEAN
  PROVE  Written(v, e, offset, data, signed) \subseteq ValuesFor(e)
<1>0. e.size \in Nat
  BY DEF EntryOK
<1>1. CASE e.modbusType = "string"
  <2>1. TextOf(v) \in Seq(Char)
    BY <1>1 DEF ValuesFor, TextOf, TextValues, Invalid
  <2>2. Bytes(v, e, offset, data) \in Seq(Char)
    BY <1>0, <2>1, BytesFacts
  <2>3. UpToNul(Bytes(v, e, offset, data)) \in Seq(Char \ {0})
    BY <2>2, UpToNulFacts
  <2>4. Text(UpToNul(Bytes(v, e, offset, data))) \in TextValues
    BY <2>3 DEF Text, TextValues
  <2>5. TextWritten(v, e, offset, data) \in TextValues
    BY <2>4, TextWrittenBytes
  <2>. QED
    BY <1>1, <2>5 DEF Written, ValuesFor
<1>2. CASE e.modbusType # "string"
  <2>1. e.modbusType \in NumberTypes \cup { "uint64" }
    BY <1>2 DEF EntryOK, ModbusTypes, NumberTypes
  <2>2. Values(v, e, offset, data, signed) \subseteq Int
    BY ValuesAreIntegers
  <2>3. ASSUME NEW x \in Values(v, e, offset, data, signed)
        PROVE  ConvertToDbus(e.dbusType, CastTo(e.modbusType, x), e.scaleFactor)
                 \subseteq NumberValues \cup { Invalid }
    <3>1. CastTo(e.modbusType, x) \in Int
      BY <2>1, <2>2, CastToInt
    <3>. QED
      BY <3>1, ToDbusFacts DEF EntryOK
  <2>4. NumberValues \cup { Invalid } \subseteq ValuesFor(e)
    BY <1>2 DEF ValuesFor
  <2>5. Written(v, e, offset, data, signed)
          = UNION { ConvertToDbus(e.dbusType, CastTo(e.modbusType, x), e.scaleFactor)
                      : x \in Values(v, e, offset, data, signed) }
    BY <1>2 DEF Written
  <2>. QED
    BY <2>3, <2>4, <2>5
<1>. QED
  BY <1>1, <1>2

(* A word is its own lower word, and has no upper one.                     *)
LEMMA WordFacts ==
  ASSUME NEW w \in Word
  PROVE  w \in Nat /\ w % WordValues = w /\ w \div WordValues = 0
<1>1. WordValues \in Nat \ {0} /\ w \in 0 .. WordValues - 1
  BY WidthFacts DEF Word
<1>. QED
  BY <1>1, DivSmall

(* An upper word has no lower one.                                         *)
LEMMA MultipleFacts ==
  ASSUME NEW w \in Word
  PROVE  w * WordValues \in Nat /\ (w * WordValues) % WordValues = 0
<1>1. WordValues \in Nat \ {0} /\ w \in Nat /\ 0 \in 0 .. WordValues - 1
  BY WidthFacts, WordFacts
<1>2. w * WordValues = WordValues * w + 0 /\ w * WordValues \in Nat
  BY <1>1
<1>3. (WordValues * w + 0) % WordValues = 0
  BY <1>1, DivUnique
<1>. QED
  BY <1>2, <1>3

(* The number that two registers make.                                     *)
LongOf(a, b) == a * WordValues + b

(* Words put into 0 make the number they are the words of.                 *)
LEMMA PutNumbers ==
  ASSUME NEW a \in Word, NEW b \in Word, NEW d \in Word
  PROVE  /\ PutWordInAny({ 0 }, 0, d) = { d }
         /\ PutWordInAny(PutWordInAny({ 0 }, 1, a), 0, b) = { LongOf(a, b) }
<1>1. a \in Nat /\ b \in Nat /\ d \in Nat /\ WordValues \in Nat \ {0} /\ 0 \in Word
  BY WordFacts, WidthFacts DEF Word
<1>2. 0 % WordValues = 0 /\ (0 \div WordValues) % WordValues = 0
  BY <1>1, WordFacts
<1>3. PutWordInAny({ 0 }, 0, d) = { d }
  <2>1. 0 + (d - 0) = d
    BY <1>1
  <2>2. PutWordInAny({ 0 }, 0, d) = { 0 + (d - (0 % WordValues)) }
    BY PutWordCertain, 0 \in Int
  <2>. QED
    BY <1>2, <2>1, <2>2
<1>4. PutWordInAny({ 0 }, 1, a) = { a * WordValues }
  <2>1. 0 + (a - 0) * WordValues = a * WordValues
    BY <1>1
  <2>2. PutWordInAny({ 0 }, 1, a) = { 0 + (a - ((0 \div WordValues) % WordValues)) * WordValues }
    BY PutWordCertain, 0 \in Int
  <2>. QED
    BY <1>2, <2>1, <2>2
<1>5. PutWordInAny({ a * WordValues }, 0, b) = { a * WordValues + b }
  <2>. DEFINE y == a * WordValues
  <2>1. y \in Int /\ y % WordValues = 0 /\ y + (b - 0) = y + b
    BY <1>1, MultipleFacts
  <2>. HIDE DEF y
  <2>2. PutWordInAny({ y }, 0, b) = { y + (b - (y % WordValues)) }
    BY <2>1, PutWordCertain
  <2>. QED
    BY <2>1, <2>2 DEF y
<1>. QED
  BY <1>3, <1>4, <1>5 DEF LongOf

(* A word put over another of a number of two leaves the other.            *)
LEMMA PutOver ==
  ASSUME NEW a \in Word, NEW b \in Word, NEW d \in Word, NEW xs, xs = { LongOf(a, b) }
  PROVE  /\ PutWordInAny(xs, 1, d) = { LongOf(d, b) }
         /\ PutWordInAny(xs, 0, d) = { LongOf(a, d) }
<1>1. a \in Nat /\ b \in Nat /\ d \in Nat /\ WordValues \in Nat \ {0}
  BY WordFacts, WidthFacts
<1>. DEFINE x == a * WordValues + b
<1>6. x \in Int /\ x \div WordValues = a /\ x % WordValues = b /\ a % WordValues = a
      /\ x + (d - a) * WordValues = d * WordValues + b /\ x + (d - b) = a * WordValues + d
  <2>1. x \in Int
    BY <1>1
  <2>2. x + (d - a) * WordValues = d * WordValues + b
    BY <1>1
  <2>3. x + (d - b) = a * WordValues + d
    BY <1>1
  <2>. QED
    BY <2>1, <2>2, <2>3, LongFacts
<1>. HIDE DEF x
<1>7. /\ PutWordInAny({ x }, 0, d) = { x + (d - (x % WordValues)) }
      /\ PutWordInAny({ x }, 1, d) = { x + (d - ((x \div WordValues) % WordValues)) * WordValues }
  BY <1>6, PutWordCertain
<1>. QED
  BY <1>6, <1>7 DEF x, LongOf

(* A write to one or two registers assembles the number they then make.    *)
LEMMA ValuesOfOverlay ==
  ASSUME NEW e, e.size \in 1 .. 2, NEW v, NEW signed,
         NEW before \in Seq(Word), Len(before) = e.size, NEW offset \in Nat,
         NEW data \in Seq(Word), Len(data) \in 1 .. 2, offset + Len(data) <= e.size,
         Certain(WordsOf(v, e, signed), before) \/ Len(data) = e.size
  PROVE  Certain(Values(v, e, offset, data, signed), SeedValue(Overlay(before, offset, data)))
<1>. DEFINE O == Overlay(before, offset, data)
            zero == Seeds(v, e, offset, data, signed)
<1>1. /\ O \in Seq(Word) /\ Len(O) = e.size
      /\ \A i \in 1 .. e.size :
           O[i] = IF i \in offset + 1 .. offset + Len(data) THEN data[i - offset] ELSE before[i]
  <2>1. offset + Len(data) <= Len(before)
    OBVIOUS
  <2>2. /\ O \in Seq(Word) /\ Len(O) = Len(before)
        /\ \A i \in 1 .. Len(before) :
             O[i] = IF i \in offset + 1 .. offset + Len(data) THEN data[i - offset] ELSE before[i]
    BY <2>1, OverlayFacts
  <2>. HIDE DEF O
  <2>. QED
    BY <2>2
<1>2. /\ e.size = 1 => SeedValue(O) = O[1]
      /\ e.size = 2 => SeedValue(O) = LongOf(O[1], O[2])
      /\ e.size = 1 => SeedValue(before) = before[1]
      /\ e.size = 2 => SeedValue(before) = LongOf(before[1], before[2])
  <2>. HIDE DEF O
  <2>1. O \in [1 .. e.size -> Word] /\ before \in [1 .. e.size -> Word]
    BY <1>1
  <2>. QED
    BY <2>1, SeedValueFacts DEF LongOf
<1>3. Seeded(e, offset, data) => zero = { SeedValue(before) }
  <2>1. Seeded(e, offset, data) => WordsOf(v, e, signed) = { before }
    BY DEF Seeded, Certain
  <2>. QED
    BY <2>1 DEF Seeds
<1>4. ~ Seeded(e, offset, data) => zero = { 0 }
  BY DEF Seeds
<1>5. data[1] \in Word /\ (Len(data) = 2 => data[2] \in Word)
  BY DataFacts
<1>. DEFINE first == PutWordInAny(zero, e.size - 1 - offset, data[1])
<1>6. /\ Len(data) = 1 => Values(v, e, offset, data, signed) = first
      /\ Len(data) = 2 => Values(v, e, offset, data, signed)
                            = PutWordInAny(first, e.size - 2 - offset, data[2])
  BY ValuesFacts
<1>7. Len(data) < e.size \/ offset > 0 <=> Seeded(e, offset, data)
  BY DEF Seeded
<1>. HIDE DEF O, zero
<1>0. PICK n \in 1 .. 2, m \in 1 .. 2 : n = e.size /\ m = Len(data) /\ offset + m <= n
  OBVIOUS
<1>8. CASE e.size = 1
  <2>1. Len(data) = 1 /\ offset = 0 /\ e.size - 1 - offset = 0
    BY <1>0, <1>8
  <2>2. zero = { 0 }
    BY <1>4, <1>7, <1>8, <2>1
  <2>3. Values(v, e, offset, data, signed) = { data[1] }
    BY <1>5, <1>6, <2>1, <2>2, PutNumbers
  <2>4. O[1] = data[1]
    BY <1>1, <1>8, <2>1
  <2>. QED
    BY <1>2, <1>8, <2>3, <2>4 DEF O, Certain
<1>9. CASE e.size = 2 /\ Len(data) = 2
  <2>1. offset = 0 /\ e.size - 1 - offset = 1 /\ e.size - 2 - offset = 0
    BY <1>9
  <2>2. zero = { 0 }
    BY <1>4, <1>7, <1>9, <2>1
  <2>3. first = PutWordInAny({ 0 }, 1, data[1])
    BY <2>1, <2>2
  <2>. HIDE DEF first
  <2>4. Values(v, e, offset, data, signed) = { LongOf(data[1], data[2]) }
    <3>1. data[1] \in Word /\ data[2] \in Word
      BY <1>5, <1>9
    <3>2. Values(v, e, offset, data, signed)
            = PutWordInAny(PutWordInAny({ 0 }, 1, data[1]), 0, data[2])
      BY <1>6, <1>9, <2>1, <2>3
    <3>. QED
      BY <3>1, <3>2, PutNumbers
  <2>5. O[1] = data[1] /\ O[2] = data[2]
    BY <1>1, <1>9, <2>1
  <2>. QED
    BY <1>2, <1>9, <2>4, <2>5 DEF O, Certain
<1>10. CASE e.size = 2 /\ Len(data) = 1
  <2>1. before[1] \in Word /\ before[2] \in Word
    <3>1. before \in [1 .. 2 -> Word]
      BY <1>10, SeqIsFunction
    <3>. QED
      BY <3>1
  <2>2. zero = { LongOf(before[1], before[2]) }
    BY <1>2, <1>3, <1>7, <1>10
  <2>3. offset \in 0 .. 1
    BY <1>10
  <2>4. CASE offset = 0
    <3>1. e.size - 1 - offset = 1
      BY <1>10, <2>4
    <3>2. Values(v, e, offset, data, signed) = { LongOf(data[1], before[2]) }
      <4>1. Values(v, e, offset, data, signed)
              = PutWordInAny(zero, 1, data[1])
        BY <1>6, <1>10, <3>1
      <4>. QED
        BY <1>5, <2>1, <2>2, <4>1, PutOver
    <3>3. O[1] = data[1] /\ O[2] = before[2]
      BY <1>1, <1>10, <2>4
    <3>. QED
      BY <1>2, <1>10, <3>2, <3>3 DEF O, Certain
  <2>5. CASE offset = 1
    <3>1. e.size - 1 - offset = 0
      BY <1>10, <2>5
    <3>2. Values(v, e, offset, data, signed) = { LongOf(before[1], data[1]) }
      <4>1. Values(v, e, offset, data, signed)
              = PutWordInAny(zero, 0, data[1])
        BY <1>6, <1>10, <3>1
      <4>. QED
        BY <1>5, <2>1, <2>2, <4>1, PutOver
    <3>3. O[1] = before[1] /\ O[2] = data[1]
      BY <1>1, <1>10, <2>5
    <3>. QED
      BY <1>2, <1>10, <3>2, <3>3 DEF O, Certain
  <2>. QED
    BY <2>3, <2>4, <2>5
<1>. QED
  BY <1>8, <1>9, <1>10 DEF Certain

-----------------------------------------------------------------------------
(* A number of a register's type has the words it was made of.             *)

(* The two lower registers of a number.                                    *)
LEMMA WordAtEnds ==
  ASSUME NEW x \in Int
  PROVE  WordAt(x, 0) = x % WordValues /\ WordAt(x, 1) = (x \div WordValues) % WordValues
<1>1. Shift(0) = 1 /\ Shift(1) = WordValues
  BY DEF Shift
<1>2. x \div 1 = x
  BY DivUnique, x = 1 * x + 0, 0 \in 0 .. 1 - 1
<1>. QED
  BY <1>1, <1>2 DEF WordAt

(* The cast to qint16 keeps the word.                                      *)
LEMMA SignedWord ==
  ASSUME NEW w \in Word
  PROVE  ToSigned(w, WordValues) \in Signed(WordValues) /\ ToSigned(w, WordValues) % WordValues = w
<1>1. /\ WordValues \in Nat \ {0} /\ w \in 0 .. WordValues - 1
      /\ WordValues \div 2 \in Nat /\ WordValues = 2 * (WordValues \div 2)
  BY WidthFacts DEF Word
<1>2. ToSigned(w, WordValues) \in Signed(WordValues)
  BY <1>1 DEF ToSigned, Signed
<1>3. w % WordValues = w
  BY WordFacts
<1>4. (w - WordValues) % WordValues = w
  <2>1. w - WordValues = WordValues * (-1) + w
    BY <1>1
  <2>2. (WordValues * (-1) + w) % WordValues = w
    BY <1>1, DivUnique
  <2>. QED
    BY <2>1, <2>2
<1>. QED
  BY <1>2, <1>3, <1>4 DEF ToSigned

(* The cast to qint32 keeps both words.                                    *)
LEMMA SignedLong ==
  ASSUME NEW a \in Word, NEW b \in Word
  PROVE  LET t == ToSigned(LongOf(a, b), LongValues) IN
         /\ t \in Signed(LongValues)
         /\ t % WordValues = b /\ (t \div WordValues) % WordValues = a
<1>. DEFINE x == LongOf(a, b)
<1>1. x \in 0 .. LongValues - 1 /\ x \div WordValues = a /\ x % WordValues = b
  BY LongFacts DEF LongOf
<1>2. /\ WordValues \in Nat \ {0} /\ LongValues = WordValues * WordValues
      /\ LongValues \div 2 \in Nat /\ LongValues = 2 * (LongValues \div 2)
  BY WidthFacts
<1>3. a \in 0 .. WordValues - 1 /\ b \in 0 .. WordValues - 1 /\ a % WordValues = a
  BY WordFacts DEF Word
<1>4. x - LongValues = WordValues * (a - WordValues) + b
  BY <1>2, <1>3 DEF LongOf
<1>. HIDE DEF x
<1>5. ToSigned(x, LongValues) \in Signed(LongValues)
  BY <1>1, <1>2 DEF ToSigned, Signed
<1>6. (x - LongValues) \div WordValues = a - WordValues /\ (x - LongValues) % WordValues = b
  <2>1. a - WordValues \in Int
    BY <1>2, <1>3
  <2>2. \A q \in Int : (WordValues * q + b) \div WordValues = q /\ (WordValues * q + b) % WordValues = b
    BY <1>2, <1>3, DivUnique
  <2>. QED
    BY <1>4, <2>1, <2>2
<1>7. (a - WordValues) % WordValues = a
  <2>1. a - WordValues = WordValues * (-1) + a
    BY <1>2, <1>3
  <2>2. (WordValues * (-1) + a) % WordValues = a
    BY <1>2, <1>3, DivUnique
  <2>. QED
    BY <2>1, <2>2
<1>8. ToSigned(x, LongValues) = x \/ ToSigned(x, LongValues) = x - LongValues
  BY DEF ToSigned
<1>9. CASE ToSigned(x, LongValues) = x
  BY <1>1, <1>3, <1>5, <1>9 DEF x
<1>10. CASE ToSigned(x, LongValues) = x - LongValues
  BY <1>5, <1>6, <1>7, <1>10 DEF x
<1>. QED
  BY <1>8, <1>9, <1>10

(* The value of some words of an entry, one or two.                        *)
LEMMA SeedOne ==
  ASSUME NEW words \in Seq(Word), Len(words) = 1
  PROVE  words[1] \in Word /\ SeedValue(words) = words[1]
<1>1. words \in [1 .. 1 -> Word]
  BY SeqIsFunction
<1>2. words[1] \in Word
  BY <1>1
<1>3. \A n \in Nat : words \in [1 .. n -> Word] => (n = 1 => SeedValue(words) = words[1])
  BY SeedValueFacts
<1>. QED
  BY <1>1, <1>2, <1>3

(* A seed of two words is the number they are the words of.                *)
LEMMA SeedTwo ==
  ASSUME NEW words \in Seq(Word), Len(words) = 2
  PROVE  words[1] \in Word /\ words[2] \in Word /\ SeedValue(words) = LongOf(words[1], words[2])
<1>1. words \in [1 .. 2 -> Word]
  BY SeqIsFunction
<1>2. words[1] \in Word /\ words[2] \in Word
  BY <1>1
<1>3. \A n \in Nat : words \in [1 .. n -> Word]
        => (n = 2 => SeedValue(words) = LongOf(words[1], words[2]))
  BY SeedValueFacts DEF LongOf
<1>. QED
  BY <1>1, <1>2, <1>3

(* The cast of a seed is in the type's range and keeps the words.          *)
LEMMA CastFacts ==
  ASSUME NEW type \in NumberTypes, NEW words \in Seq(Word),
         Len(words) = (IF type \in { "int16", "uint16" } THEN 1 ELSE 2)
  PROVE  LET t == CastTo(type, SeedValue(words)) IN
         /\ t \in RangeOf(type)
         /\ \A i \in 1 .. Len(words) : WordAt(t, Len(words) - i) = words[i]
<1>. DEFINE t == CastTo(type, SeedValue(words))
<1>1. CASE type \in { "int16", "uint16" }
  <2>1. Len(words) = 1 /\ words[1] \in Word /\ SeedValue(words) = words[1]
    BY <1>1, SeedOne
  <2>2. words[1] % WordValues = words[1]
    BY <2>1, WordFacts
  <2>3. t \in RangeOf(type) /\ t % WordValues = words[1]
    <3>1. CASE type = "int16"
      <4>1. t = ToSigned(words[1], WordValues)
        BY <2>1, <2>2, <3>1 DEF CastTo
      <4>2. RangeOf(type) = Signed(WordValues)
        BY <3>1 DEF RangeOf, ValuesOf, IsSigned
      <4>. QED
        BY <2>1, <4>1, <4>2, SignedWord
    <3>2. CASE type = "uint16"
      <4>1. t = words[1]
        BY <2>1, <2>2, <3>2 DEF CastTo
      <4>2. RangeOf(type) = Word
        BY <3>2 DEF RangeOf, ValuesOf, IsSigned, Unsigned, Word
      <4>. QED
        BY <2>1, <2>2, <4>1, <4>2
    <3>. QED
      BY <1>1, <3>1, <3>2
  <2>4. t \in Int
    BY <2>3, RangeFacts
  <2>5. WordAt(t, 0) = words[1]
    BY <2>3, <2>4, WordAtEnds
  <2>. HIDE DEF t
  <2>6. \A i \in 1 .. Len(words) : i = 1 /\ Len(words) - i = 0
    BY <2>1
  <2>. QED
    BY <2>3, <2>5, <2>6 DEF t
<1>2. CASE type \in { "int32", "uint32" }
  <2>1. /\ Len(words) = 2 /\ words[1] \in Word /\ words[2] \in Word
        /\ SeedValue(words) = LongOf(words[1], words[2])
    BY <1>2, SeedTwo
  <2>2. t \in RangeOf(type) /\ t % WordValues = words[2] /\ (t \div WordValues) % WordValues = words[1]
    <3>1. CASE type = "int32"
      <4>1. t = ToSigned(LongOf(words[1], words[2]), LongValues)
        BY <2>1, <3>1 DEF CastTo
      <4>2. RangeOf(type) = Signed(LongValues)
        BY <3>1 DEF RangeOf, ValuesOf, IsSigned
      <4>. QED
        BY <2>1, <4>1, <4>2, SignedLong
    <3>2. CASE type = "uint32"
      <4>1. t = LongOf(words[1], words[2])
        BY <2>1, <3>2 DEF CastTo
      <4>2. RangeOf(type) = 0 .. LongValues - 1
        BY <3>2 DEF RangeOf, ValuesOf, IsSigned, Unsigned
      <4>. QED
        BY <2>1, <4>1, <4>2, LongFacts DEF LongOf
    <3>. QED
      BY <1>2, <3>1, <3>2
  <2>3. t \in Int
    BY <2>2, RangeFacts
  <2>4. WordAt(t, 0) = words[2] /\ WordAt(t, 1) = words[1]
    BY <2>2, <2>3, WordAtEnds
  <2>. HIDE DEF t
  <2>5. \A i \in 1 .. Len(words) :
          (i = 1 /\ Len(words) - i = 1) \/ (i = 2 /\ Len(words) - i = 0)
    BY <2>1
  <2>. QED
    BY <2>2, <2>4, <2>5 DEF t
<1>. QED
  BY <1>1, <1>2 DEF NumberTypes

(* A number that converts to the cast of a seed reads as its words.        *)
LEMMA NumberRead ==
  ASSUME NEW e, EntryOK(e), e.modbusType \in NumberTypes, NEW v, v # Invalid, NEW signed,
         NEW words \in Seq(Word), Len(words) = e.size,
         ConvertFromDbus(v, e.modbusType, e.scaleFactor) = { CastTo(e.modbusType, SeedValue(words)) }
  PROVE  WordsOf(v, e, signed) = { words }
<1>. DEFINE t == CastTo(e.modbusType, SeedValue(words))
<1>1. e.size = IF e.modbusType \in { "int16", "uint16" } THEN 1 ELSE 2
  BY DEF EntryOK, NumberTypes
<1>2. \A i \in 1 .. e.size : WordAt(t, e.size - i) = words[i]
  BY <1>1, CastFacts
<1>. HIDE DEF t
<1>3. ASSUME NEW i \in 1 .. e.size
      PROVE  GetValue(v, e, i - 1, signed) = { words[i] }
  <2>1. GetValue(v, e, i - 1, signed)
          = { WordAt(x, e.size - 1 - (i - 1)) : x \in ConvertFromDbus(v, e.modbusType, e.scaleFactor) }
    BY DEF GetValue, NumberTypes
  <2>2. e.size - 1 - (i - 1) = e.size - i
    BY <1>1
  <2>3. { WordAt(x, e.size - i) : x \in { t } } = { WordAt(t, e.size - i) }
    OBVIOUS
  <2>. QED
    BY <1>2, <2>1, <2>2, <2>3 DEF t
<1>4. words = [ i \in 1 .. e.size |-> words[i] ]
  OBVIOUS
<1>5. e.size \in Nat
  BY DEF EntryOK
<1>. QED
  BY <1>3, <1>4, <1>5, CertainWords

(* The words of the largest number of a type, and of the one before it.    *)
LEMMA LargestCast ==
  ASSUME NEW e, EntryOK(e), e.modbusType \in NumberTypes
  PROVE  LET largest == LargestWords(e)
             before == [ largest EXCEPT ![e.size] = @ - 1 ]
         IN  /\ largest \in Seq(Word) /\ Len(largest) = e.size
             /\ before \in Seq(Word) /\ Len(before) = e.size
             /\ CastTo(e.modbusType, SeedValue(largest)) = Largest(e.modbusType)
             /\ CastTo(e.modbusType, SeedValue(before)) = Largest(e.modbusType) - 1
<1>. DEFINE h == (IF IsSigned(e.modbusType) THEN WordValues \div 2 ELSE WordValues) - 1
            B == LargestWords(e)
            C == [ B EXCEPT ![e.size] = @ - 1 ]
<1>1. /\ WordValues \in Nat /\ WordValues >= 4
      /\ WordValues \div 2 \in Nat /\ WordValues = 2 * (WordValues \div 2)
      /\ LongValues \div 2 \in Nat /\ LongValues = 2 * (LongValues \div 2)
      /\ LongValues = WordValues * WordValues
      /\ LongValues \div 2 = WordValues * (WordValues \div 2)
  BY WidthFacts
<1>2. h \in Word /\ h - 1 \in Word /\ WordValues - 1 \in Word /\ WordValues - 2 \in Word
  BY <1>1 DEF Word
<1>3. CASE e.modbusType \in { "int16", "uint16" }
  <2>1. e.size = 1
    BY <1>3 DEF EntryOK
  <2>2. B = [ i \in 1 .. 1 |-> h ]
    BY <2>1 DEF LargestWords
  <2>3. C = [ i \in 1 .. 1 |-> h - 1 ]
    <3>. HIDE DEF h, B
    <3>. QED
      BY <2>1, <2>2
  <2>4. B \in [1 .. 1 -> Word] /\ C \in [1 .. 1 -> Word] /\ B[1] = h /\ C[1] = h - 1
    <3>. HIDE DEF h, B, C
    <3>. QED
      BY <1>2, <2>2, <2>3
  <2>. HIDE DEF B, C
  <2>5. B \in Seq(Word) /\ Len(B) = 1 /\ C \in Seq(Word) /\ Len(C) = 1
    BY <2>4, FunctionIsSeq
  <2>6. SeedValue(B) = h /\ SeedValue(C) = h - 1
    BY <2>4, <2>5, SeedOne
  <2>7. h % WordValues = h /\ (h - 1) % WordValues = h - 1
    <3>. HIDE DEF h
    <3>. QED
      BY <1>2, WordFacts
  <2>8. CastTo(e.modbusType, SeedValue(B)) = Largest(e.modbusType)
        /\ CastTo(e.modbusType, SeedValue(C)) = Largest(e.modbusType) - 1
    <3>1. CASE e.modbusType = "int16"
      <4>1. h = WordValues \div 2 - 1 /\ Largest(e.modbusType) = WordValues \div 2 - 1
        BY <3>1 DEF IsSigned, Largest, ValuesOf
      <4>2. ToSigned(h, WordValues) = h /\ ToSigned(h - 1, WordValues) = h - 1
        BY <1>1, <4>1 DEF ToSigned
      <4>. HIDE DEF h
      <4>. QED
        BY <2>6, <2>7, <3>1, <4>1, <4>2 DEF CastTo
    <3>2. CASE e.modbusType = "uint16"
      <4>1. h = WordValues - 1 /\ Largest(e.modbusType) = WordValues - 1
        BY <3>2 DEF IsSigned, Largest, ValuesOf
      <4>. HIDE DEF h
      <4>. QED
        BY <2>6, <2>7, <3>2, <4>1 DEF CastTo
    <3>. QED
      BY <1>3, <3>1, <3>2
  <2>. QED
    BY <2>1, <2>5, <2>8 DEF B, C
<1>4. CASE e.modbusType \in { "int32", "uint32" }
  <2>1. e.size = 2
    BY <1>4 DEF EntryOK
  <2>2. B = [ i \in 1 .. 2 |-> IF i = 1 THEN h ELSE WordValues - 1 ]
    <3>1. \A i : (IF i = 1 /\ IsSigned(e.modbusType) THEN WordValues \div 2 ELSE WordValues) - 1
                   = IF i = 1 THEN h ELSE WordValues - 1
      OBVIOUS
    <3>. QED
      BY <2>1, <3>1 DEF LargestWords
  <2>3. C = [ i \in 1 .. 2 |-> IF i = 1 THEN h ELSE WordValues - 2 ]
    <3>. HIDE DEF h, B
    <3>. QED
      BY <1>1, <2>1, <2>2
  <2>4. B \in [1 .. 2 -> Word] /\ C \in [1 .. 2 -> Word]
        /\ B[1] = h /\ B[2] = WordValues - 1 /\ C[1] = h /\ C[2] = WordValues - 2
    <3>. HIDE DEF h, B, C
    <3>. QED
      BY <1>2, <2>2, <2>3
  <2>. HIDE DEF B, C
  <2>5. B \in Seq(Word) /\ Len(B) = 2 /\ C \in Seq(Word) /\ Len(C) = 2
    BY <2>4, FunctionIsSeq
  <2>6. SeedValue(B) = LongOf(h, WordValues - 1) /\ SeedValue(C) = LongOf(h, WordValues - 2)
    BY <2>4, <2>5, SeedTwo
  <2>7. CastTo(e.modbusType, SeedValue(B)) = Largest(e.modbusType)
        /\ CastTo(e.modbusType, SeedValue(C)) = Largest(e.modbusType) - 1
    <3>1. CASE e.modbusType = "int32"
      <4>1. h = WordValues \div 2 - 1 /\ Largest(e.modbusType) = LongValues \div 2 - 1
        BY <3>1 DEF IsSigned, Largest, ValuesOf
      <4>2. LongOf(h, WordValues - 1) = LongValues \div 2 - 1
            /\ LongOf(h, WordValues - 2) = LongValues \div 2 - 2
        BY <1>1, <4>1 DEF LongOf
      <4>3. ToSigned(LongValues \div 2 - 1, LongValues) = LongValues \div 2 - 1
            /\ ToSigned(LongValues \div 2 - 2, LongValues) = LongValues \div 2 - 2
        BY <1>1 DEF ToSigned
      <4>4. (LongValues \div 2 - 1) - 1 = LongValues \div 2 - 2
        BY <1>1
      <4>. HIDE DEF h
      <4>. QED
        BY <2>6, <3>1, <4>1, <4>2, <4>3, <4>4 DEF CastTo
    <3>2. CASE e.modbusType = "uint32"
      <4>1. h = WordValues - 1 /\ Largest(e.modbusType) = LongValues - 1
        BY <3>2 DEF IsSigned, Largest, ValuesOf
      <4>2. LongOf(h, WordValues - 1) = LongValues - 1
            /\ LongOf(h, WordValues - 2) = (LongValues - 1) - 1
        BY <1>1, <4>1 DEF LongOf
      <4>. HIDE DEF h
      <4>. QED
        BY <2>6, <3>2, <4>1, <4>2 DEF CastTo
    <3>. QED
      BY <1>4, <3>1, <3>2
  <2>. QED
    BY <2>1, <2>5, <2>7 DEF B, C
<1>. QED
  BY <1>3, <1>4 DEF NumberTypes

(* No other words make the largest number of a type.                       *)
LEMMA LargestOnly ==
  ASSUME NEW e, EntryOK(e), e.modbusType \in NumberTypes,
         NEW words \in Seq(Word), Len(words) = e.size
  PROVE  CastTo(e.modbusType, SeedValue(words)) = Largest(e.modbusType) <=> words = LargestWords(e)
<1>1. e.size = IF e.modbusType \in { "int16", "uint16" } THEN 1 ELSE 2
  BY DEF EntryOK, NumberTypes
<1>. DEFINE B == LargestWords(e)
<1>2. B \in Seq(Word) /\ Len(B) = e.size
      /\ CastTo(e.modbusType, SeedValue(B)) = Largest(e.modbusType)
  BY LargestCast
<1>. HIDE DEF B
<1>3. ASSUME CastTo(e.modbusType, SeedValue(words)) = Largest(e.modbusType) PROVE words = B
  <2>1. \A i \in 1 .. e.size :
          WordAt(CastTo(e.modbusType, SeedValue(words)), e.size - i) = words[i]
    BY <1>1, CastFacts
  <2>2. \A i \in 1 .. e.size :
          WordAt(CastTo(e.modbusType, SeedValue(B)), e.size - i) = B[i]
    BY <1>1, <1>2, CastFacts
  <2>3. \A i \in 1 .. e.size : words[i] = B[i]
    BY <1>2, <1>3, <2>1, <2>2
  <2>. QED
    BY <1>2, <2>3
<1>. QED
  BY <1>2, <1>3 DEF B

(* A number that goes to an item as a double comes back exactly; as a      *)
(* whole number, unless it is the largest one.                             *)
LEMMA DoubleRoundTrip ==
  ASSUME NEW type \in NumberTypes, NEW t \in RangeOf(type),
         NEW scale \in [ n : Int \ {0}, d : Nat \ {0} ], NEW v \in ConvertToDbus("double", t, scale)
  PROVE  v # Invalid /\ ConvertFromDbus(v, type, scale) = { t }
<1>1. t \in Int
  BY RangeFacts
<1>2. PICK n \in Int \ {0}, d \in Nat \ {0} : n = scale.n /\ d = scale.d
  OBVIOUS
<1>3. v = Fraction(t * d, n)
  BY <1>2 DEF ConvertToDbus
<1>4. v.kind = "double" /\ v.d # 0 /\ Round(v.n * n, v.d * d) = t
  <2>1. CASE n < 0
    <3>1. v = Double(-(t * d), -n)
      BY <1>3, <2>1 DEF Fraction
    <3>2. v.kind = "double" /\ v.n = -(t * d) /\ v.d = -n
      BY <3>1 DEF Double
    <3>3. PICK m \in Nat \ {0} : m = -n
      BY <2>1
    <3>4. m * d \in Nat \ {0}
      BY <3>3
    <3>5. (-(t * d)) * n = t * (m * d) /\ (-n) * d = m * d
      BY <1>1, <3>3
    <3>6. Round(t * (m * d), m * d) = t
      BY <1>1, <3>4, RoundMultiple
    <3>. QED
      BY <2>1, <3>2, <3>5, <3>6
  <2>2. CASE ~ n < 0
    <3>1. v = Double(t * d, n)
      BY <1>3, <2>2 DEF Fraction
    <3>2. v.kind = "double" /\ v.n = t * d /\ v.d = n
      BY <3>1 DEF Double
    <3>3. n \in Nat \ {0}
      BY <2>2
    <3>4. n * d \in Nat \ {0}
      BY <3>3
    <3>5. (t * d) * n = t * (n * d)
      BY <1>1
    <3>6. Round(t * (n * d), n * d) = t
      BY <1>1, <3>4, RoundMultiple
    <3>. QED
      BY <3>2, <3>3, <3>5, <3>6
  <2>. QED
    BY <2>1, <2>2
<1>5. v # Invalid
  BY <1>4 DEF Invalid
<1>. QED
  BY <1>2, <1>4, <1>5 DEF ConvertFromDbus

(* A number written to an integer item comes back, the largest too low.    *)
LEMMA WholeRoundTrip ==
  ASSUME NEW type \in NumberTypes, NEW t \in RangeOf(type),
         NEW dbusType \in { "int", "uint", "bool" }, RangeOf(type) \subseteq DBusRange(dbusType),
         NEW v \in ConvertToDbus(dbusType, t, One)
  PROVE  /\ v # Invalid
         /\ ConvertFromDbus(v, type, One)
              = { IF t = Largest(type) THEN Largest(type) - 1 ELSE t }
<1>1. /\ t \in Int /\ t \in DBusRange(dbusType) /\ Largest(type) \in Int /\ Least(type) \in Int
      /\ Least(type) <= t /\ t <= Largest(type) /\ Largest(type) >= 1 /\ Least(type) <= 0
  BY RangeFacts
<1>2. One.n = 1 /\ One.d = 1 /\ Round(t * 1, 1) = t
  BY <1>1, RoundWhole DEF One
<1>3. v.kind \in { "int", "uint" } /\ v.n = t
  <2>1. CASE dbusType \in { "int", "uint" }
    <3>1. v = Integer(dbusType, t)
      BY <1>1, <1>2, <2>1 DEF ConvertToDbus
    <3>. QED
      BY <2>1, <3>1 DEF Integer
  <2>2. CASE dbusType = "bool"
    <3>1. v = Integer("int", ToSigned(t % LongValues, LongValues))
      BY <2>2 DEF ConvertToDbus
    <3>2. t \in Signed(LongValues)
      BY <1>1, <2>2 DEF DBusRange
    <3>3. ToSigned(t % LongValues, LongValues) = t
      <4>1. PICK h \in Nat : h = LongValues \div 2 /\ LongValues = 2 * h /\ h >= 1
        BY WidthFacts
      <4>2. t \in -h .. h - 1
        BY <3>2, <4>1 DEF Signed
      <4>3. LongValues \in Nat \ {0}
        BY <4>1
      <4>4. CASE t >= 0
        <5>1. t \in 0 .. LongValues - 1
          BY <4>1, <4>2, <4>4
        <5>2. t % LongValues = t
          BY <4>3, <5>1, DivSmall
        <5>. QED
          BY <4>1, <4>2, <5>2 DEF ToSigned
      <4>5. CASE t < 0
        <5>1. t + LongValues \in 0 .. LongValues - 1 /\ t + LongValues >= h
          BY <4>1, <4>2, <4>5
        <5>2. t % LongValues = t + LongValues
          <6>1. PICK r \in 0 .. LongValues - 1 : r = t + LongValues
            BY <5>1
          <6>2. t = LongValues * (-1) + r
            BY <1>1, <4>3, <6>1
          <6>3. (LongValues * (-1) + r) % LongValues = r
            BY <4>3, DivUnique
          <6>. QED
            BY <6>1, <6>2, <6>3
        <5>3. (t + LongValues) - LongValues = t
          BY <1>1, <4>3
        <5>. QED
          BY <4>1, <5>1, <5>2, <5>3 DEF ToSigned
      <4>. QED
        BY <1>1, <4>4, <4>5
    <3>. QED
      BY <3>1, <3>3 DEF Integer
  <2>. QED
    BY <2>1, <2>2
<1>4. v # Invalid
  BY <1>3 DEF Invalid
<1>5. ConvertFromDbus(v, type, One) = Bound(type, t)
  BY <1>2, <1>3 DEF ConvertFromDbus
<1>6. Bound(type, t) = { IF t = Largest(type) THEN Largest(type) - 1 ELSE t }
  BY <1>1 DEF Bound
<1>. QED
  BY <1>4, <1>5, <1>6

(* A number that is written is read as the registers that were written, or *)
(* as ReadBack says.                                                       *)
LEMMA NumberWriteRead ==
  ASSUME NEW e, EntryOK(e), e.modbusType \in NumberTypes, Represents(e),
         NEW u, NEW signed \in BOOLEAN, NEW offset \in Nat,
         NEW data \in Seq(Word), Len(data) \in 1 .. 2, offset + Len(data) <= e.size,
         NEW before \in Seq(Word), Len(before) = e.size,
         Certain(WordsOf(u, e, signed), before) \/ Len(data) = e.size,
         NEW v \in Written(u, e, offset, data, signed)
  PROVE  /\ v # Invalid
         /\ Certain(WordsOf(v, e, signed), ReadBack(e, Overlay(before, offset, data)))
<1>. DEFINE O == Overlay(before, offset, data)
            t == CastTo(e.modbusType, SeedValue(O))
<1>1. e.size = (IF e.modbusType \in { "int16", "uint16" } THEN 1 ELSE 2) /\ e.size \in 1 .. 2
  BY DEF EntryOK, NumberTypes
<1>2. O \in Seq(Word) /\ Len(O) = e.size
  BY OverlayFacts
<1>3. Values(u, e, offset, data, signed) = { SeedValue(O) }
  <2>1. e.size \in 1 .. 2
    BY <1>1
  <2>2. Certain(Values(u, e, offset, data, signed), SeedValue(Overlay(before, offset, data)))
    BY <2>1, ValuesOfOverlay
  <2>. QED
    BY <2>2 DEF Certain
<1>4. v \in ConvertToDbus(e.dbusType, t, e.scaleFactor)
  <2>1. e.modbusType # "string"
    BY DEF NumberTypes
  <2>. HIDE DEF O
  <2>. QED
    BY <1>3, <2>1 DEF Written
<1>. HIDE DEF O
<1>5. t \in RangeOf(e.modbusType)
  BY <1>1, <1>2, CastFacts
<1>6. e.scaleFactor \in [ n : Int \ {0}, d : Nat \ {0} ]
  BY DEF EntryOK
<1>7. t = Largest(e.modbusType) <=> O = LargestWords(e)
  BY <1>2, LargestOnly
<1>8. CASE e.dbusType = "double"
  <2>1. v # Invalid /\ ConvertFromDbus(v, e.modbusType, e.scaleFactor) = { t }
    BY <1>4, <1>5, <1>6, <1>8, DoubleRoundTrip
  <2>2. WordsOf(v, e, signed) = { O }
    BY <1>2, <2>1, NumberRead
  <2>. QED
    BY <1>8, <2>1, <2>2 DEF ReadBack, O, Certain
<1>9. CASE e.dbusType # "double"
  <2>1. e.dbusType \in { "int", "uint", "bool" } /\ e.scaleFactor = One
        /\ RangeOf(e.modbusType) \subseteq DBusRange(e.dbusType)
    BY <1>9 DEF Represents
  <2>2. v # Invalid
        /\ ConvertFromDbus(v, e.modbusType, e.scaleFactor)
             = { IF t = Largest(e.modbusType) THEN Largest(e.modbusType) - 1 ELSE t }
    BY <1>4, <1>5, <2>1, WholeRoundTrip
  <2>3. CASE O = LargestWords(e)
    <3>. DEFINE C == [ LargestWords(e) EXCEPT ![e.size] = @ - 1 ]
    <3>1. C \in Seq(Word) /\ Len(C) = e.size
          /\ CastTo(e.modbusType, SeedValue(C)) = Largest(e.modbusType) - 1
      BY LargestCast
    <3>2. ReadBack(e, O) = C
      BY <1>9, <2>3 DEF ReadBack
    <3>. HIDE DEF C
    <3>3. ConvertFromDbus(v, e.modbusType, e.scaleFactor) = { CastTo(e.modbusType, SeedValue(C)) }
      BY <1>7, <2>2, <2>3, <3>1
    <3>4. WordsOf(v, e, signed) = { C }
      BY <2>2, <3>1, <3>3, NumberRead
    <3>. QED
      BY <2>2, <3>2, <3>4 DEF O, Certain
  <2>4. CASE O # LargestWords(e)
    <3>1. ConvertFromDbus(v, e.modbusType, e.scaleFactor) = { t }
      BY <1>7, <2>2, <2>4
    <3>2. WordsOf(v, e, signed) = { O }
      BY <1>2, <2>2, <3>1, NumberRead
    <3>. QED
      BY <2>2, <2>4, <3>2 DEF ReadBack, O, Certain
  <2>. QED
    BY <2>3, <2>4
<1>. QED
  BY <1>8, <1>9

-----------------------------------------------------------------------------
(* The table is what the import made of the file.                          *)
IInv == TypeOK /\ mDBusModbusMap \in { << >>, ImportCSV(file) }

(* Clients write one or two words.                                         *)
LEMMA WritingsFacts ==
  ASSUME NEW data \in Writings
  PROVE  data \in Seq(Word) /\ Len(data) \in 1 .. 2
<1>1. Samples \subseteq Word
  BY RegistersAssumption
<1>2. CASE data \in { << w >> : w \in Samples }
  <2>1. PICK w \in Samples : data = << w >>
    BY <1>2
  <2>. QED
    BY <1>1, <2>1
<1>3. CASE data \in Samples \X Samples
  <2>1. PICK w \in Samples, x \in Samples : data = << w, x >>
    BY <1>3
  <2>. QED
    BY <1>1, <2>1
<1>. QED
  BY <1>2, <1>3 DEF Writings

(* The entry that is followed.                                             *)
LEMMA EntryFacts ==
  ASSUME IInv, Following
  PROVE  /\ register \in DOMAIN ImportCSV(file) /\ Entry = ImportCSV(file)[register]
         /\ EntryOK(Entry)
         /\ Entry.operation \in { "Nop", "Reserved", "Div", "GensetErrorSummary", "Firmware" }
         /\ Entry.operation \in { "GensetErrorSummary", "Firmware" }
              => Entry.modbusType \in { "uint16", "uint32" }
         /\ Entry.operation = "Reserved" => Entry.modbusType = "reserved"
         /\ DOMAIN values = DOMAIN Entry.objectPaths
         /\ \A p \in DOMAIN values : values[p] \in ValuesFor(Entry)
         /\ Writable => Entry.operation = "Nop"
         /\ Entry.operation = "Nop" => DOMAIN values = { 1 }
<1>1. file \in Seq(Lines)
  BY RegistersAssumption DEF IInv, TypeOK
<1>2. register \in Targets[file] /\ register \in DOMAIN mDBusModbusMap /\ register # NoRegister
  BY DEF IInv, TypeOK, Following
<1>3. mDBusModbusMap = ImportCSV(file)
  <2>1. mDBusModbusMap # << >>
    BY <1>2
  <2>. QED
    BY <2>1 DEF IInv
<1>4. Entry = ImportCSV(file)[register]
  BY <1>3 DEF Entry
<1>5. register # BuiltInAt["/DateAndTime"]
  BY <1>2, RegistersAssumption DEF IInv, TypeOK
<1>6. /\ EntryOK(Entry)
      /\ Entry.accessRights = "read" \/ (DOMAIN Entry.objectPaths = { 1 }
             /\ (Entry.operation = "Nop" \/ Entry.modbusType = "reserved"))
      /\ Entry.operation \in { "Nop", "Reserved", "Div", "GensetErrorSummary", "Firmware" }
      /\ Entry.operation \in { "GensetErrorSummary", "Firmware" }
           => Entry.modbusType \in { "uint16", "uint32" }
      /\ Entry.operation = "Reserved" => Entry.modbusType = "reserved"
      /\ Entry.operation = "Nop" => DOMAIN Entry.objectPaths = { 1 }
  BY <1>1, <1>2, <1>3, <1>4, <1>5, ImportedEntries
<1>7. DOMAIN values = DOMAIN Entry.objectPaths /\ \A p \in DOMAIN values : values[p] \in ValuesFor(Entry)
  BY <1>2 DEF IInv, TypeOK, Following, ValuesFor
<1>. QED
  BY <1>2, <1>3, <1>4, <1>6, <1>7 DEF Writable

(* The Nop operation on one item takes its value.                          *)
LEMMA OneItem ==
  ASSUME NEW vals, DOMAIN vals = { 1 }
  PROVE  NopOperation(vals) = vals[1]
<1>1. CASE vals[1] = Invalid
  BY <1>1 DEF NopOperation
<1>2. CASE vals[1] # Invalid
  <2>1. { p \in DOMAIN vals : vals[p] # Invalid } = { 1 }
    BY <1>2
  <2>2. Min({ 1 }) = 1
    BY DEF Min
  <2>. QED
    BY <2>1, <2>2 DEF NopOperation
<1>. QED
  BY <1>1, <1>2

(* What is read of a value that is certain is what is read of its words.   *)
LEMMA CertainReads ==
  ASSUME NEW vals, NEW v, Certain(Calculate(Entry.operation, vals), v)
  PROVE  Reads(vals) = WordsOf(v, Entry, charSigned)
BY DEF Reads, Certain

(* The words of an entry of one item are those of its value.               *)
LEMMA NopReads ==
  ASSUME Entry.operation = "Nop", NEW vals, DOMAIN vals = { 1 }
  PROVE  Reads(vals) = WordsOf(vals[1], Entry, charSigned)
<1>1. Certain(Calculate(Entry.operation, vals), vals[1])
  BY OneItem DEF Calculate, Certain
<1>. QED
  BY <1>1, CertainReads

(* What is read of an entry is one word for each of its registers.         *)
LEMMA WordsAreWords ==
  ASSUME NEW e, EntryOK(e), NEW v \in ValuesFor(e), NEW signed \in BOOLEAN,
         NEW words \in WordsOf(v, e, signed)
  PROVE  words \in Seq(Word) /\ Len(words) = e.size
<1>1. e.size \in Nat
  BY DEF EntryOK
<1>2. words \in WordSequences(v, e, signed, e.size)
  BY <1>1, WordsOfFacts
<1>3. \A i \in 1 .. e.size : words[i] \in GetValue(v, e, i - 1, signed)
  BY <1>2 DEF WordSequences
<1>4. words = [ i \in 1 .. e.size |-> words[i] ]
  BY <1>2 DEF WordSequences
<1>5. ASSUME NEW i \in 1 .. e.size PROVE words[i] \in Word
  <2>1. i - 1 \in 0 .. e.size - 1
    BY <1>1
  <2>. QED
    BY <1>3, <2>1, GetValueWords
<1>6. words \in [1 .. e.size -> Word]
  BY <1>4, <1>5
<1>. QED
  BY <1>1, <1>6, FunctionIsSeq

(* The invariant step by step: nothing is imported at first.               *)
LEMMA InitIInv == Init => IInv
<1>. SUFFICES ASSUME Init PROVE IInv
  OBVIOUS
<1>1. DOMAIN values = {}
  BY DEF Init
<1>. QED
  BY <1>1 DEF Init, IInv, TypeOK, Following

(* The import is that of the file, and no item has a value yet.            *)
LEMMA ImportIInv == IInv /\ Import => IInv'
<1>. SUFFICES ASSUME IInv, Import PROVE IInv'
  OBVIOUS
<1>1. /\ file' = file /\ charSigned' = charSigned
      /\ mDBusModbusMap' = ImportCSV(file)
      /\ register' \in (Targets[file] \cap DOMAIN mDBusModbusMap') \cup { NoRegister }
      /\ values' = IF register' = NoRegister THEN << >>
                   ELSE [ p \in DOMAIN mDBusModbusMap'[register'].objectPaths |-> Invalid ]
  BY DEF Import
<1>2. CASE register' = NoRegister
  <2>1. DOMAIN values' = {}
    BY <1>1, <1>2
  <2>. QED
    BY <1>1, <1>2, <2>1 DEF IInv, TypeOK, Following
<1>3. CASE register' # NoRegister
  <2>1. values' = [ p \in DOMAIN Entry'.objectPaths |-> Invalid ]
    BY <1>1, <1>3 DEF Entry
  <2>2. DOMAIN values' = DOMAIN Entry'.objectPaths /\ \A p \in DOMAIN values' : values'[p] = Invalid
    BY <2>1
  <2>. QED
    BY <1>1, <1>3, <2>2 DEF IInv, TypeOK, Following
<1>. QED
  BY <1>2, <1>3

(* An item takes a new value of the entry's types.                         *)
LEMMA ItemIInv ==
  ASSUME IInv, Following, NEW p \in DOMAIN values, NEW v \in ValuesFor(Entry),
         values' = [ values EXCEPT ![p] = v ],
         UNCHANGED << file, charSigned, mDBusModbusMap, register >>
  PROVE  IInv'
<1>1. Entry' = Entry /\ (Following)'
  BY DEF Entry, Following
<1>2. DOMAIN values' = DOMAIN values /\ \A q \in DOMAIN values' : values'[q] \in ValuesFor(Entry)
  BY EntryFacts
<1>3. DOMAIN values' = DOMAIN Entry'.objectPaths
  BY <1>1, <1>2, EntryFacts
<1>. QED
  BY <1>1, <1>2, <1>3 DEF IInv, TypeOK, ValuesFor

(* A step that changes nothing.                                            *)
LEMMA NothingIInv == IInv /\ UNCHANGED vars => IInv'
<1>. SUFFICES ASSUME IInv, UNCHANGED vars PROVE IInv'
  OBVIOUS
<1>1. Entry' = Entry /\ (Following)' = Following
  BY DEF vars, Entry, Following
<1>. QED
  BY <1>1 DEF vars, IInv, TypeOK

(* A service announces a value.                                            *)
LEMMA AnnounceIInv ==
  ASSUME IInv, NEW p \in DOMAIN values, Announce(p)
  PROVE  IInv'
<1>1. Following
  BY DEF IInv, TypeOK
<1>2. PICK v \in (IF Entry.modbusType = "string" THEN {} ELSE Numbers) \cup Texts \cup { Invalid } :
        values' = [ values EXCEPT ![p] = v ]
  BY DEF Announce
<1>3. v \in ValuesFor(Entry)
  BY <1>2, RegistersAssumption DEF ValuesFor
<1>. QED
  BY <1>1, <1>2, <1>3, ItemIInv DEF Announce

(* A client writes; setValues writes values of the item's types only.      *)
LEMMA WriteIInv ==
  ASSUME IInv, NEW data \in Writings, NEW offset \in 0 .. 1, Write(offset, data)
  PROVE  IInv'
<1>1. Following /\ Entry.modbusType # "reserved" /\ offset + Len(data) <= Entry.size /\ Writable
  BY DEF Write, Writable, Fits
<1>2. 1 \in DOMAIN values /\ values[1] \in ValuesFor(Entry) /\ EntryOK(Entry)
  BY <1>1, EntryFacts
<1>3. data \in Seq(Word) /\ Len(data) \in 1 .. 2 /\ offset \in Nat
  BY WritingsFacts
<1>4. charSigned \in BOOLEAN
  BY DEF IInv, TypeOK
<1>5. Written(values[1], Entry, offset, data, charSigned) \subseteq ValuesFor(Entry)
  BY <1>1, <1>2, <1>3, <1>4, WrittenTyped
<1>6. PICK v \in Written(values[1], Entry, offset, data, charSigned) :
        values' = IF v = Invalid THEN values ELSE [ values EXCEPT ![1] = v ]
  BY DEF Write
<1>7. UNCHANGED << file, charSigned, mDBusModbusMap, register >>
  BY DEF Write
<1>8. CASE v = Invalid
  BY <1>6, <1>7, <1>8, NothingIInv DEF vars
<1>9. CASE v # Invalid
  BY <1>1, <1>2, <1>5, <1>6, <1>7, <1>9, ItemIInv
<1>. QED
  BY <1>8, <1>9

(* The invariant: the table is empty or that of the file, and every item   *)
(* has a value of the types that its entry allows.                         *)
THEOREM SpecIInv == Spec => []IInv
<1>1. IInv /\ [Next]_vars => IInv'
  <2>. SUFFICES ASSUME IInv, [Next]_vars PROVE IInv'
    OBVIOUS
  <2>1. CASE Import
    BY <2>1, ImportIInv
  <2>2. ASSUME NEW p \in DOMAIN values, Announce(p) PROVE IInv'
    BY <2>2, AnnounceIInv
  <2>3. ASSUME NEW data \in Writings, NEW offset \in 0 .. 1, Write(offset, data) PROVE IInv'
    BY <2>3, WriteIInv
  <2>4. CASE UNCHANGED vars
    BY <2>4, NothingIInv
  <2>. QED
    BY <2>1, <2>2, <2>3, <2>4 DEF Next
<1>. QED
  BY <1>1, InitIInv, PTL DEF Spec

(* Every item has a value of its types: a number fits the QVariant that    *)
(* holds it, and a text that setValues wrote has no NUL in it.             *)
THEOREM TypeCorrect == Spec => []TypeOK
<1>1. IInv => TypeOK
  BY DEF IInv
<1>. QED
  BY <1>1, SpecIInv, PTL

-----------------------------------------------------------------------------
(* In every state of the invariant, writes are overlays.                   *)
LEMMA WriteIsOverlayAlways == IInv => WriteIsOverlay
<1>. SUFFICES ASSUME IInv, Writable, Entry.modbusType \notin { "string", "uint64" }, Represents(Entry),
                     NEW before \in Reads(values), NEW data \in Writings, NEW offset \in 0 .. 1,
                     Fits(offset, data), Reads(values) = { before } \/ Len(data) = Entry.size,
                     NEW v \in Written(values[1], Entry, offset, data, charSigned)
              PROVE  Reads(<< v >>) = { ReadBack(Entry, Overlay(before, offset, data)) }
  BY DEF WriteIsOverlay
<1>1. Following /\ Entry.modbusType # "reserved" /\ offset + Len(data) <= Entry.size
  BY DEF Writable, Fits
<1>2. /\ EntryOK(Entry) /\ Entry.operation = "Nop" /\ DOMAIN values = { 1 }
      /\ values[1] \in ValuesFor(Entry)
  BY <1>1, EntryFacts
<1>3. Entry.modbusType \in NumberTypes
  BY <1>1, <1>2 DEF EntryOK, ModbusTypes, NumberTypes
<1>4. data \in Seq(Word) /\ Len(data) \in 1 .. 2 /\ offset \in Nat /\ charSigned \in BOOLEAN
  BY WritingsFacts DEF IInv, TypeOK
<1>6. Reads(values) = WordsOf(values[1], Entry, charSigned)
  BY <1>2, NopReads
<1>7. before \in Seq(Word) /\ Len(before) = Entry.size
  BY <1>2, <1>4, <1>6, WordsAreWords
<1>8. Certain(WordsOf(values[1], Entry, charSigned), before) \/ Len(data) = Entry.size
  BY <1>6 DEF Certain
<1>9. /\ v # Invalid
      /\ Certain(WordsOf(v, Entry, charSigned), ReadBack(Entry, Overlay(before, offset, data)))
  BY <1>1, <1>2, <1>3, <1>4, <1>7, <1>8, NumberWriteRead
<1>10. Reads(<< v >>) = WordsOf(v, Entry, charSigned)
  <2>1. DOMAIN << v >> = { 1 } /\ << v >>[1] = v
    OBVIOUS
  <2>. QED
    BY <1>2, <2>1, NopReads
<1>. QED
  BY <1>9, <1>10 DEF Certain

(* So are writes of texts.                                                 *)
LEMMA TextWriteIsOverlayAlways == IInv => TextWriteIsOverlay
<1>. SUFFICES ASSUME IInv, Writable, Entry.modbusType = "string",
                     values[1] # Invalid => Plain(values[1].chars),
                     NEW data \in Writings, NEW offset \in 0 .. 1,
                     Fits(offset, data), Plain(CharsOf(data)), NEW before \in Reads(values),
                     NEW v \in Written(values[1], Entry, offset, data, charSigned)
              PROVE  Reads(<< v >>) = { UpToNulWords(Overlay(before, offset, data)) }
  BY DEF TextWriteIsOverlay
<1>1. Following /\ offset + Len(data) <= Entry.size
  BY DEF Writable, Fits
<1>2. /\ EntryOK(Entry) /\ Entry.operation = "Nop" /\ DOMAIN values = { 1 }
      /\ values[1] \in ValuesFor(Entry) /\ Entry.size \in Nat
  BY <1>1, EntryFacts DEF EntryOK
<1>3. values[1] \in TextValues \cup { Invalid }
  BY <1>2 DEF ValuesFor
<1>4. data \in Seq(Word) /\ offset \in Nat /\ charSigned \in BOOLEAN
  BY WritingsFacts DEF IInv, TypeOK
<1>5. Reads(values) = WordsOf(values[1], Entry, charSigned)
  BY <1>2, NopReads
<1>6. charSigned => \A b \in DOMAIN TextOf(values[1]) : TextOf(values[1])[b] < CharValues \div 2
  <2>1. CASE values[1] = Invalid
    BY <2>1 DEF TextOf, Invalid
  <2>2. CASE values[1] # Invalid
    BY <1>3, <2>2 DEF TextOf, TextValues, Plain
  <2>. QED
    BY <2>1, <2>2
<1>7. charSigned => \A b \in DOMAIN CharsOf(data) : CharsOf(data)[b] < CharValues \div 2
  BY DEF Plain
<1>8. v = TextWritten(values[1], Entry, offset, data)
  BY DEF Written
<1>9. Certain(WordsOf(v, Entry, charSigned), UpToNulWords(Overlay(before, offset, data)))
  BY <1>1, <1>2, <1>3, <1>4, <1>5, <1>6, <1>7, <1>8, TextWriteRead
<1>10. Reads(<< v >>) = WordsOf(v, Entry, charSigned)
  <2>1. DOMAIN << v >> = { 1 } /\ << v >>[1] = v
    OBVIOUS
  <2>. QED
    BY <1>2, <2>1, NopReads
<1>. QED
  BY <1>9, <1>10 DEF Certain

(* A write changes the registers it covers and no others, as clients read  *)
(* them, for every number type, scale, value and type of the item: what    *)
(* setValues seeds, patches and converts comes back through getValue. The  *)
(* only exception is the largest number of a type.                         *)
THEOREM WritesAreOverlays == Spec => []WriteIsOverlay
BY SpecIInv, WriteIsOverlayAlways, PTL

(* A write to a text changes the characters it covers and no others, up to *)
(* the first NUL.                                                          *)
THEOREM TextWritesAreOverlays == Spec => []TextWriteIsOverlay
BY SpecIInv, TextWriteIsOverlayAlways, PTL

-----------------------------------------------------------------------------
(* Every word of a value is certain that is no double and has no negative  *)
(* char at the beginning of a register.                                    *)
LEMMA SingleValue ==
  ASSUME NEW e, EntryOK(e), NEW v, NEW offset, NEW signed,
         v = Invalid \/ v.kind \in { "int", "uint", "bool", "string" } \/ e.modbusType = "reserved",
         e.modbusType = "string" /\ v # Invalid
           => ~ (signed /\ CharAt(v.chars, 2 * offset) >= CharValues \div 2)
  PROVE  \E w : Certain(GetValue(v, e, offset, signed), w)
<1>1. CASE v = Invalid
  BY <1>1 DEF GetValue, Certain
<1>2. CASE v # Invalid /\ e.modbusType \in NumberTypes
  <2>1. v.kind \in { "int", "uint", "bool", "string" }
    BY <1>2 DEF NumberTypes
  <2>2. \E x : ConvertFromDbus(v, e.modbusType, e.scaleFactor) = { x }
    BY <2>1 DEF ConvertFromDbus, Bound
  <2>3. PICK x : ConvertFromDbus(v, e.modbusType, e.scaleFactor) = { x }
    BY <2>2
  <2>4. GetValue(v, e, offset, signed)
          = { WordAt(y, e.size - 1 - offset)
                : y \in ConvertFromDbus(v, e.modbusType, e.scaleFactor) }
    BY <1>2 DEF GetValue, NumberTypes
  <2>5. GetValue(v, e, offset, signed) = { WordAt(x, e.size - 1 - offset) }
    BY <2>3, <2>4
  <2>. QED
    BY <2>5 DEF Certain
<1>3. CASE v # Invalid /\ e.modbusType = "uint64"
  BY <1>3 DEF GetValue, Certain
<1>4. CASE v # Invalid /\ e.modbusType = "string"
  BY <1>4 DEF GetValue, TextWords, Certain
<1>5. CASE v # Invalid /\ e.modbusType = "reserved"
  BY <1>5 DEF GetValue, Certain
<1>. QED
  BY <1>1, <1>2, <1>3, <1>4, <1>5 DEF EntryOK, ModbusTypes, NumberTypes

(* In every state of the invariant, reads of such values are defined.      *)
LEMMA ReadsDefinedAlways == IInv => ReadsDefined
<1>. SUFFICES ASSUME IInv, Following, Entry.operation # "Div",
                     \A p \in DOMAIN values : values[p].kind # "double",
                     Entry.modbusType = "string" /\ values[1] # Invalid
                       => PlainAbove(values[1].chars),
                     Entry.operation = "Firmware" => ShiftsLeft(ToInt(values[1]))
              PROVE  Cardinality(Reads(values)) = 1
  BY DEF ReadsDefined
<1>1. /\ EntryOK(Entry) /\ Entry.size \in Nat
      /\ Entry.operation \in { "Nop", "Reserved", "GensetErrorSummary", "Firmware" }
      /\ Entry.operation \in { "GensetErrorSummary", "Firmware" }
           => Entry.modbusType \in { "uint16", "uint32" }
      /\ Entry.operation = "Reserved" => Entry.modbusType = "reserved"
      /\ Entry.operation = "Nop" => DOMAIN values = { 1 }
      /\ \A p \in DOMAIN values : values[p] \in ValuesFor(Entry)
  BY EntryFacts DEF EntryOK
<1>2. \E v :
        /\ Certain(Calculate(Entry.operation, values), v)
        /\ v = Invalid \/ v.kind \in { "int", "uint", "bool", "string" }
             \/ Entry.modbusType = "reserved"
        /\ Entry.modbusType = "string" /\ v # Invalid
             => PlainAbove(v.chars) /\ v.chars \in Seq(Char)
  <2>1. CASE Entry.operation = "Nop"
    <3>1. Certain(Calculate(Entry.operation, values), values[1]) /\ 1 \in DOMAIN values
      BY <1>1, <2>1, OneItem DEF Calculate, Certain
    <3>2. values[1] \in ValuesFor(Entry) /\ values[1].kind # "double"
      BY <1>1, <3>1
    <3>3. values[1] = Invalid \/ values[1].kind \in { "int", "uint", "bool", "string" }
      BY <3>2 DEF ValuesFor, NumberValues, TextValues
    <3>4. Entry.modbusType = "string" /\ values[1] # Invalid => values[1].chars \in Seq(Char)
      <4>1. ASSUME Entry.modbusType = "string", values[1] # Invalid
            PROVE  values[1].chars \in Seq(Char \ {0})
        BY <3>2, <4>1 DEF ValuesFor, TextValues
      <4>. QED
        BY <4>1
    <3>. QED
      BY <3>1, <3>3, <3>4
  <2>2. CASE Entry.operation = "Reserved"
    BY <1>1, <2>2 DEF Calculate, Certain
  <2>3. CASE Entry.operation = "GensetErrorSummary"
    <3>1. Certain(Calculate(Entry.operation, values), GensetErrorSummaryOperation(values))
      BY <2>3 DEF Calculate, Certain
    <3>2. GensetErrorSummaryOperation(values).kind = "uint"
      BY DEF GensetErrorSummaryOperation, Integer
    <3>. QED
      BY <1>1, <2>3, <3>1, <3>2
  <2>4. CASE Entry.operation = "Firmware"
    <3>. DEFINE version == ToInt(values[1])
                u == Integer("uint", ((version \div CharValues) * WordValues)
                                       + (version % CharValues))
    <3>1. FirmwareOperation(values) = { u }
      BY <2>4 DEF FirmwareOperation
    <3>2. Certain(Calculate(Entry.operation, values), u)
      BY <2>4, <3>1 DEF Calculate, Certain
    <3>3. u.kind = "uint"
      BY DEF Integer
    <3>. QED
      BY <1>1, <2>4, <3>2, <3>3
  <2>. QED
    BY <1>1, <2>1, <2>2, <2>3, <2>4
<1>10. PICK v :
         /\ Certain(Calculate(Entry.operation, values), v)
         /\ v = Invalid \/ v.kind \in { "int", "uint", "bool", "string" }
              \/ Entry.modbusType = "reserved"
         /\ Entry.modbusType = "string" /\ v # Invalid
              => PlainAbove(v.chars) /\ v.chars \in Seq(Char)
  BY <1>2
<1>. DEFINE W(i) == CHOOSE w : Certain(GetValue(v, Entry, i - 1, charSigned), w)
            h == [ i \in 1 .. Entry.size |-> W(i) ]
<1>3. ASSUME NEW i \in 1 .. Entry.size
      PROVE  GetValue(v, Entry, i - 1, charSigned) = { W(i) }
  <2>3. ASSUME Entry.modbusType = "string", v # Invalid
        PROVE  ~ (charSigned /\ CharAt(v.chars, 2 * (i - 1)) >= CharValues \div 2)
    <3>1. v.chars \in Seq(Char)
      BY <1>10, <2>3
    <3>2. i - 1 \in 0 .. Entry.size - 1 /\ 2 * (i - 1) \in Nat
      BY <1>1
    <3>3. CharAt(v.chars, 2 * (i - 1)) \in Char
      BY <3>1, <3>2, CharAtFacts
    <3>. QED
      BY <1>10, <2>3, <3>2, <3>3, WidthFacts DEF PlainAbove, Char
  <2>1. \E w : Certain(GetValue(v, Entry, i - 1, charSigned), w)
    BY <1>1, <1>10, <2>3, SingleValue
  <2>2. Certain(GetValue(v, Entry, i - 1, charSigned), W(i))
    BY <2>1
  <2>. QED
    BY <2>2 DEF Certain
<1>. HIDE DEF W
<1>4. /\ h = [ i \in 1 .. Entry.size |-> h[i] ]
      /\ \A i \in 1 .. Entry.size : GetValue(v, Entry, i - 1, charSigned) = { h[i] }
  BY <1>3
<1>. HIDE DEF h
<1>5. WordsOf(v, Entry, charSigned) = { h }
  BY <1>1, <1>4, CertainWords
<1>6. Reads(values) = { h }
  BY <1>5, <1>10, CertainReads
<1>. QED
  BY <1>6, FS_Singleton

(* What a client reads is defined by the language, unless an item has a    *)
(* double, a signed char above ASCII begins a register, or the firmware    *)
(* version cannot be shifted: whole numbers are bounded before they are    *)
(* converted.                                                              *)
THEOREM ReadsAreDefined == Spec => []ReadsDefined
BY SpecIInv, ReadsDefinedAlways, PTL

-----------------------------------------------------------------------------
(* Lines of a device type have the same first column, in a regular file.   *)
LEMMA SameService ==
  ASSUME NEW line \in Lines, NEW other \in Lines, ValidRow(line), ValidRow(other),
         RegularLine(line), RegularLine(other),
         DeviceType(line.service) = DeviceType(other.service)
  PROVE  line.service = other.service
<1>1. \A l \in { line, other } :
        /\ l.service \in Seq(STRING) /\ Len(l.service) = 3
        /\ l.service[1] = "com" /\ l.service[2] = "victronenergy"
  <2>. SUFFICES ASSUME NEW l \in { line, other }
                PROVE  l.service \in Seq(STRING) /\ Len(l.service) = 3
                         /\ l.service[1] = "com" /\ l.service[2] = "victronenergy"
    OBVIOUS
  <2>1. l \in Lines /\ ValidRow(l) /\ RegularLine(l)
    OBVIOUS
  <2>2. l.service \in Seq(STRING) /\ Len(l.service) = 3
    BY <2>1 DEF Lines, RegularLine
  <2>3. SubSeq(l.service, 1, 2) = << "com", "victronenergy" >>
    BY <2>1 DEF ValidRow
  <2>. DEFINE t == l.service
  <2>4. t \in Seq(STRING) /\ Len(t) = 3 /\ SubSeq(t, 1, 2) = << "com", "victronenergy" >>
    BY <2>2, <2>3
  <2>. HIDE DEF t
  <2>5. SubSeq(t, 1, 2)[1] = t[1] /\ SubSeq(t, 1, 2)[2] = t[2]
    BY <2>4
  <2>6. t[1] = "com" /\ t[2] = "victronenergy"
    <3>. DEFINE u == SubSeq(t, 1, 2)
    <3>1. u = << "com", "victronenergy" >> /\ u[1] = t[1] /\ u[2] = t[2]
      BY <2>4, <2>5
    <3>. HIDE DEF u
    <3>2. u[1] = "com" /\ u[2] = "victronenergy"
      BY <3>1
    <3>. QED
      BY <3>1, <3>2
  <2>. QED
    BY <2>2, <2>6 DEF t
<1>2. line.service[3] = other.service[3]
  BY <1>1 DEF DeviceType
<1>3. \A i \in 1 .. 3 : line.service[i] = other.service[i]
  BY <1>1, <1>2
<1>. QED
  BY <1>1, <1>3

(* An accepted file, and what its lines become.                            *)
LEMMA AcceptedLine ==
  ASSUME NEW line \in Lines, ValidRow(line), RegularLine(line)
  PROVE  /\ RegistersCount(line.modbusType) \in Nat \ {0}
         /\ line.register # << >> /\ FirstOf(line) = RegisterOf(line) /\ FirstOf(line) \in Int
         /\ ~ Placeholder(line) =>
              /\ Imported(line) \/ ~ InOnePiece(line)
              /\ ItemSize(line.modbusType) = RegistersCount(line.modbusType)
              /\ line.modbusType.name # "uint64"
         /\ Imported(line) => ~ Placeholder(line)
<1>. DEFINE type == line.modbusType
<1>1. type \in [ name : STRING, count : Optional(Nat) ]
  BY DEF Lines
<1>2. type.count # << >> => type.count[1] \in Nat \ {0} /\ ConvertSize(type) = type.count[1]
  <2>1. type.count \in Seq(Nat) /\ Len(type.count) <= 1
    BY <1>1 DEF Optional
  <2>2. ASSUME type.count # << >> PROVE type.count[1] \in Nat /\ type.count = << type.count[1] >>
    BY <2>1, <2>2
  <2>3. type.count # << 0 >> /\ (type.count # << >> => FitsInt(type.count))
    BY DEF RegularLine
  <2>. HIDE DEF type
  <2>. QED
    BY <2>2, <2>3 DEF ConvertSize, ToIntOf
<1>3. /\ ValidModbusType(type) /\ line.register # << >> /\ FitsInt(line.register)
      /\ "modbusType" \notin line.quoted /\ "register" \notin line.quoted
      /\ type # [ name |-> "reserved", count |-> << >> ]
  BY DEF ValidRow, RegularLine
<1>4. type.name = "reserved" => type.count # << >>
  BY <1>1, <1>3
<1>. HIDE DEF type
<1>5. RegistersCount(type) \in Nat \ {0}
  BY <1>2 DEF RegistersCount
<1>6. line.register[1] \in Int
  <2>1. line.register \in Seq(Int)
    BY DEF Lines, Optional
  <2>. QED
    BY <1>3, <2>1, SeqHead
<1>9. RegisterOf(line) = line.register[1]
  BY <1>3 DEF RegisterOf, Seen, ToIntOf
<1>7. CASE type.count = << >>
  <2>1. type.name \in { "uint16", "int16", "uint32", "int32", "RESERVED" }
    BY <1>3, <1>4, <1>7 DEF ValidModbusType
  <2>2. Imported(line) <=> InOnePiece(line) /\ type.name # "RESERVED"
    BY <1>3, <2>1 DEF Imported, ConvertModbusType, ModbusTypes, type
  <2>3. type.name # "RESERVED" => ItemSize(type) = RegistersCount(type)
    BY <2>1 DEF ItemSize, RegistersCount
  <2>. QED
    BY <1>3, <1>5, <1>6, <1>9, <2>1, <2>2, <2>3 DEF Placeholder, FirstOf, type
<1>8. CASE type.count # << >>
  <2>1. type.name \in { "string", "reserved", "RESERVED", "INTERNAL" }
    BY <1>3, <1>8 DEF ValidModbusType
  <2>2. Imported(line) <=> InOnePiece(line) /\ type.name \in { "string", "reserved" }
    BY <1>3, <2>1 DEF Imported, ConvertModbusType, ModbusTypes, type
  <2>3. type.name \in { "string", "reserved" } => ItemSize(type) = RegistersCount(type)
    BY <1>2, <1>8, <2>1 DEF ItemSize, RegistersCount
  <2>. QED
    BY <1>3, <1>5, <1>6, <1>9, <2>1, <2>2, <2>3 DEF Placeholder, FirstOf, type
<1>. QED
  BY <1>7, <1>8

(* Every entry of the table stands for a line of its device type, register *)
(* and size; a writable one for a line that the program imports.           *)
LEMMA EntriesHaveLines ==
  ASSUME file \in Seq(Lines), Accepted(file), Regular,
         NEW r \in DOMAIN ImportCSV(file)
  PROVE  LET e == ImportCSV(file)[r] IN
         \E i \in 1 .. Len(file) :
           /\ DeviceType(file[i].service) = e.deviceType /\ FirstOf(file[i]) = r
           /\ RegistersCount(file[i].modbusType) = e.size
           /\ e.accessRights = "write" => e.modbusType # "uint64"
<1>. DEFINE e == ImportCSV(file)[r]
<1>1. CASE r \in DOMAIN BuiltIns /\ e = BuiltIns[r]
  <2>1. PICK i \in DOMAIN file :
          /\ DeviceType(file[i].service) = BuiltIns[r].deviceType /\ file[i].register = << r >>
          /\ file[i].modbusType = [ name |-> "INTERNAL", count |-> << BuiltIns[r].size >> ]
    BY <1>1 DEF Regular
  <2>2. e.accessRights = "read"
    BY <1>1, BuiltInFacts
  <2>3. FirstOf(file[i]) = r
    BY <2>1 DEF FirstOf
  <2>4. RegistersCount(file[i].modbusType) = BuiltIns[r].size
    BY <2>1 DEF RegistersCount
  <2>5. DOMAIN file = 1 .. Len(file)
    OBVIOUS
  <2>. QED
    BY <1>1, <2>1, <2>2, <2>3, <2>4, <2>5
<1>2. ASSUME NEW i \in 1 .. Len(file), Imported(file[i]), RegisterOf(file[i]) = r,
             e = EntryOf(file[i])
      PROVE  /\ DeviceType(file[i].service) = e.deviceType /\ FirstOf(file[i]) = r
             /\ RegistersCount(file[i].modbusType) = e.size
             /\ e.accessRights = "write" => e.modbusType # "uint64"
  <2>1. file[i] \in Lines /\ ValidRow(file[i]) /\ RegularLine(file[i])
    BY DEF Accepted, Regular
  <2>2. /\ FirstOf(file[i]) = RegisterOf(file[i]) /\ ~ Placeholder(file[i])
        /\ ItemSize(file[i].modbusType) = RegistersCount(file[i].modbusType)
        /\ file[i].modbusType.name # "uint64"
    BY <1>2, <2>1, AcceptedLine
  <2>3. ConvertModbusType(file[i].modbusType) # "uint64"
    BY <2>2 DEF ConvertModbusType
  <2>. HIDE DEF e
  <2>. QED
    BY <1>2, <2>2, <2>3 DEF EntryOf
<1>3. \/ r \in DOMAIN BuiltIns /\ e = BuiltIns[r]
      \/ \E i \in 1 .. Len(file) :
           Imported(file[i]) /\ RegisterOf(file[i]) = r /\ e = EntryOf(file[i])
  BY TableEntries
<1>. HIDE DEF e
<1>. QED
  BY <1>1, <1>2, <1>3 DEF e

(* Entries of a device type do not overlap, as the lines they stand for.   *)
LEMMA EntriesApart ==
  ASSUME file \in Seq(Lines), Accepted(file), Regular,
         NEW r \in DOMAIN ImportCSV(file), NEW q \in DOMAIN ImportCSV(file),
         ImportCSV(file)[r].deviceType = ImportCSV(file)[q].deviceType, r < q
  PROVE  r + ImportCSV(file)[r].size <= q
<1>1. PICK i \in 1 .. Len(file) :
        /\ DeviceType(file[i].service) = ImportCSV(file)[r].deviceType /\ FirstOf(file[i]) = r
        /\ RegistersCount(file[i].modbusType) = ImportCSV(file)[r].size
  BY EntriesHaveLines
<1>2. PICK j \in 1 .. Len(file) :
        /\ DeviceType(file[j].service) = ImportCSV(file)[q].deviceType /\ FirstOf(file[j]) = q
        /\ RegistersCount(file[j].modbusType) = ImportCSV(file)[q].size
  BY EntriesHaveLines
<1>3. \A k \in 1 .. Len(file) : RegistersCount(file[k].modbusType) \in Nat \ {0}
  BY AcceptedLine DEF Accepted, Regular
<1>4. r \in Int /\ q \in Int
  BY ImportedEntries
<1>5. i # j /\ file[i].service = file[j].service
  <2>1. \A k \in 1 .. Len(file) : file[k] \in Lines /\ ValidRow(file[k]) /\ RegularLine(file[k])
    BY DEF Accepted, Regular
  <2>2. DeviceType(file[i].service) = DeviceType(file[j].service)
    BY <1>1, <1>2
  <2>. QED
    BY <1>1, <1>2, <1>4, <2>1, <2>2, SameService
<1>6. LastOf(file[i]) < FirstOf(file[j]) \/ LastOf(file[j]) < FirstOf(file[i])
  BY <1>5 DEF Accepted, OverlapFree
<1>7. PICK m \in Nat \ {0}, n \in Nat \ {0} :
        m = ImportCSV(file)[r].size /\ n = ImportCSV(file)[q].size
  BY <1>1, <1>2, <1>3
<1>8. LastOf(file[i]) = r + m - 1 /\ LastOf(file[j]) = q + n - 1
  BY <1>1, <1>2, <1>7 DEF LastOf
<1>9. r + m - 1 < q \/ q + n - 1 < r
  BY <1>1, <1>2, <1>6, <1>8
<1>10. r + m <= q
  BY <1>4, <1>7, <1>9
<1>. QED
  BY <1>7, <1>10

(* A line is a placeholder, or cut, or in the table, or lost to a built-in *)
(* entry or to a later line of another type.                               *)
LEMMA LinesHaveEntries ==
  ASSUME file \in Seq(Lines), Accepted(file), Regular, NEW i \in 1 .. Len(file),
         ~ Placeholder(file[i]), InOnePiece(file[i]),
         RegisterOf(file[i]) \notin DOMAIN BuiltIns
  PROVE  LET r == RegisterOf(file[i])
             map == ImportCSV(file)
         IN  \/ /\ r \in DOMAIN map /\ map[r] = EntryOf(file[i])
                /\ map[r].size = RegistersCount(file[i].modbusType)
             \/ \E j \in 1 .. Len(file) :
                  /\ j > i /\ RegisterOf(file[j]) = r
                  /\ DeviceType(file[j].service) # DeviceType(file[i].service)
<1>. DEFINE r == RegisterOf(file[i])
            map == ImportCSV(file)
<1>1. ASSUME NEW k \in 1 .. Len(file)
      PROVE  file[k] \in Lines /\ ValidRow(file[k]) /\ RegularLine(file[k])
  BY DEF Accepted, Regular
<1>2. /\ Imported(file[i])
      /\ ItemSize(file[i].modbusType) = RegistersCount(file[i].modbusType)
  BY <1>1, AcceptedLine
<1>3. r \in DOMAIN map
  BY <1>2, ImportedAreInTable
<1>4. PICK j \in 1 .. Len(file) :
        /\ Imported(file[j]) /\ RegisterOf(file[j]) = r /\ map[r] = EntryOf(file[j])
        /\ \A k \in 1 .. Len(file) : Imported(file[k]) /\ RegisterOf(file[k]) = r => k <= j
  BY <1>3, TableEntries
<1>5. i <= j
  BY <1>2, <1>4
<1>6. CASE i = j
  <2>1. EntryOf(file[i]).size = ItemSize(file[i].modbusType)
    BY DEF EntryOf
  <2>2. map[r] = EntryOf(file[i])
    BY <1>4, <1>6
  <2>. HIDE DEF map
  <2>. QED
    BY <1>2, <1>3, <2>1, <2>2 DEF map
<1>7. CASE i # j
  <2>1. \A k \in 1 .. Len(file) :
          RegistersCount(file[k].modbusType) \in Nat \ {0} /\ FirstOf(file[k]) = RegisterOf(file[k])
            /\ FirstOf(file[k]) \in Int
    BY <1>1, AcceptedLine
  <2>2. LastOf(file[i]) >= r /\ LastOf(file[j]) >= r /\ FirstOf(file[i]) = r /\ FirstOf(file[j]) = r
    BY <1>4, <2>1 DEF LastOf
  <2>3. LastOf(file[i]) \in Int /\ LastOf(file[j]) \in Int
    BY <2>1 DEF LastOf
  <2>4. DeviceType(file[i].service) = DeviceType(file[j].service)
          => LastOf(file[i]) < FirstOf(file[j]) \/ LastOf(file[j]) < FirstOf(file[i])
    BY <1>1, <1>7, SameService DEF Accepted, OverlapFree
  <2>5. r \in Int
    BY <2>1
  <2>6. ~ (LastOf(file[i]) < FirstOf(file[j])) /\ ~ (LastOf(file[j]) < FirstOf(file[i]))
    <3>. HIDE DEF r
    <3>. QED
      BY <2>2, <2>3, <2>5
  <2>. QED
    BY <1>4, <1>5, <1>7, <2>4, <2>6
<1>. QED
  BY <1>6, <1>7

(* In every state of the invariant, an accepted file is imported in full.  *)
LEMMA AcceptedFileImportedAlways == IInv => AcceptedFileImported
<1>. SUFFICES ASSUME IInv, mDBusModbusMap # << >>, Accepted(file), Regular
              PROVE  AcceptedFileImported
  BY DEF AcceptedFileImported
<1>1. mDBusModbusMap = ImportCSV(file) /\ file \in Seq(Lines)
  BY RegistersAssumption DEF IInv, TypeOK
<1>2. DOMAIN file = 1 .. Len(file)
  BY <1>1
<1>. DEFINE map == ImportCSV(file)
<1>3. \A r, q \in DOMAIN map :
        map[r].deviceType = map[q].deviceType /\ r < q => r + map[r].size <= q
  BY <1>1, EntriesApart
<1>4. ASSUME NEW r \in DOMAIN map
      PROVE  map[r].size > 0 /\ (map[r].accessRights = "write" => map[r].modbusType # "uint64")
  <2>1. PICK i \in 1 .. Len(file) :
          /\ RegistersCount(file[i].modbusType) = map[r].size
          /\ map[r].accessRights = "write" => map[r].modbusType # "uint64"
    BY <1>1, EntriesHaveLines
  <2>2. RegistersCount(file[i].modbusType) \in Nat \ {0}
    BY <1>1, AcceptedLine DEF Accepted, Regular
  <2>3. map[r].size \in Nat \ {0}
    BY <2>1, <2>2
  <2>. HIDE DEF map
  <2>. QED
    BY <2>1, <2>3
<1>5. ASSUME NEW i \in 1 .. Len(file), ~ Placeholder(file[i]),
             InOnePiece(file[i]), RegisterOf(file[i]) \notin DOMAIN BuiltIns
      PROVE  \/ /\ RegisterOf(file[i]) \in DOMAIN map
                /\ map[RegisterOf(file[i])] = EntryOf(file[i])
                /\ map[RegisterOf(file[i])].size = RegistersCount(file[i].modbusType)
             \/ \E j \in 1 .. Len(file) :
                  /\ j > i /\ RegisterOf(file[j]) = RegisterOf(file[i])
                  /\ DeviceType(file[j].service) # DeviceType(file[i].service)
  BY <1>1, <1>5, LinesHaveEntries
<1>. HIDE DEF map
<1>6. mDBusModbusMap = map
  BY <1>1 DEF map
<1>. QED
  BY <1>2, <1>3, <1>4, <1>5, <1>6 DEF AcceptedFileImported

(* A regular file that the scripts accept is imported as they count it:    *)
(* entries of a device type do not overlap, every entry has a register,    *)
(* none of four registers is writable, and a line that is missing in the   *)
(* table is cut by a comma in quotes or lost its register to a built-in    *)
(* entry or to a later line of another type.                               *)
THEOREM AcceptedFilesAreImported == Spec => []AcceptedFileImported
BY SpecIInv, AcceptedFileImportedAlways, PTL
=============================================================================
