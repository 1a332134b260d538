---------------------------- MODULE MCRegisters -----------------------------
(***************************************************************************)
(* Registers of 4 bits, as characters of 2 make them; so integers of D-Bus *)
(* have 8.  The table has every combination of types and scales of the     *)
(* shipped one that the conversions tell apart, and some more; and there   *)
(* are short files with what may go wrong in a file: overlaps, registers   *)
(* of two types, the sizes the program and the scripts know differently,   *)
(* lines that are skipped.                                                 *)
(***************************************************************************)
EXTENDS Registers

Type(name) == [ name |-> name, count |-> << >> ]
Sized(name, n) == [ name |-> name, count |-> << n >> ]
Scale(n, d) == << [ n |-> n, d |-> d ] >>

Line(service, dbusType, r, type, scale, rw) ==
  [ service |-> << "com", "victronenergy", service >>, path |-> << "/Path" >>,
    unit |-> << "" >>, dbusType |-> dbusType, register |-> << r >>, modbusType |-> type,
    scale |-> scale, rw |-> rw, quoted |-> {} ]

MCBuiltInAt ==
  "/Pv/I" :> 7 @@ "genset" :> 32 @@ "dcgenset" :> 52
    @@ "/DateAndTime" :> 8 @@ "/FirmwareVersion" :> 12

Placeholders ==
  << Line("solarcharger", "d", 7, Sized("INTERNAL", 1), Scale(10, 1), "R"),
     Line("genset", "u", 32, Sized("INTERNAL", 1), Scale(1, 1), "R"),
     Line("dcgenset", "u", 52, Sized("INTERNAL", 1), Scale(1, 1), "R"),
     Line("system", "d", 8, Sized("INTERNAL", 4), Scale(1, 1), "R"),
     Line("system", "d", 12, Sized("INTERNAL", 2), Scale(1, 1), "R") >>

Columns ==
  << Line("vebus", "d", 100, Type("int16"), Scale(1, 1), "W"),
     Line("vebus", "d", 101, Type("uint16"), Scale(2, 1), "W"),
     Line("vebus", "d", 102, Type("int32"), Scale(1, 2), "W"),
     Line("vebus", "d", 104, Type("uint32"), << >>, "W"),
     Line("vebus", "i", 106, Type("uint16"), Scale(1, 1), "W"),
     Line("vebus", "i", 107, Type("int32"), Scale(1, 1), "W"),
     Line("vebus", "u", 109, Type("uint32"), Scale(1, 1), "W"),
     Line("vebus", "y", 111, Type("uint16"), Scale(2, 1), "W"),
     Line("vebus", "i", 112, Type("int16"), Scale(-2, 1), "R"),
     Line("vebus", "b", 113, Type("uint16"), Scale(1, 1), "W"),
     Line("vebus", "s", 114, Sized("string", 2), << >>, "W"),
     Line("vebus", "g", 116, Type("uint16"), << >>, "W"),
     Line("vebus", "d", 117, Sized("reserved", 2), Scale(1, 1), "W") >>

\* Only the scripts do not know this type.
Wide == << Line("vebus", "t", 119, Type("uint64"), Scale(1, 1), "R") >>

Fifteen == Line("vebus", "d", 15, Type("uint16"), << >>, "W")

Pool ==
  { Fifteen,
    Line("system", "d", 14, Sized("reserved", 2), << >>, "R"),
    Line("system", "d", 13, Type("uint16"), << >>, "R"),
    Line("vebus", "d", 12, Type("int16"), << >>, "W"),
    Line("vebus", "d", 14, Type("int32"), << >>, "W"),
    Line("vebus", "d", 16, Type("int16"), << >>, "W"),
    Line("vebus", "s", 16, Sized("string", 3), << >>, "W"),
    Line("vebus", "s", 17, Type("string"), << >>, "R"),
    Line("vebus", "d", 17, Type("reserved"), << >>, "R"),
    Line("vebus", "d", 18, Sized("RESERVED", 2), << >>, "R"),
    Line("vebus", "d", 19, Type("uint64"), << >>, "W"),
    [ Fifteen EXCEPT !.path = << "/A{B", "C}" >> ],
    [ Fifteen EXCEPT !.path = << "/A{B", "C}" >>, !.quoted = { "path" } ],
    [ Fifteen EXCEPT !.unit = << "a", "b" >>, !.quoted = { "unit", "path" } ],
    [ Fifteen EXCEPT !.service = << "com", "victronenergy", "vebus", "ttyO1" >> ],
    [ Fifteen EXCEPT !.quoted = { "register", "scale" } ],
    [ Fifteen EXCEPT !.quoted = { "modbusType" } ],
    [ Fifteen EXCEPT !.register = << 300 >> ],
    [ Fifteen EXCEPT !.register = << 400 >>, !.dbusType = "u" ],
    [ Fifteen EXCEPT !.register = << >> ] }

MCFiles ==
  { Placeholders \o Columns, Wide }
    \cup { Placeholders \o << a, b >> : a, b \in Pool }

MCTargets ==
  [ f \in MCFiles |-> 100 .. 119 \cup IF f = Placeholders \o Columns THEN { 7, 12, 32 } ELSE {} ]

MCNumbers ==
  { Integer("int", n) : n \in { -128, -9, -8, -1, 0, 1, 7, 8, 15, 127 } }
    \cup { Integer("uint", n) : n \in { 0, 7, 14, 15, 16, 128, 254, 255 } }
    \cup { Double(n, d) : n \in { -129, -17, -3, 0, 1, 7, 15, 29, 61, 255 }, d \in { 1, 2 } }
    \cup { Integer("bool", 1) }

MCTexts ==
  { Text(chars) : chars \in { << >>, << 1 >>, << 1, 1 >>, << 1, 2, 3 >>, << 1, 1, 1, 1, 1 >>,
                              << 3, 3, 3, 3 >> } }
=============================================================================
