--------------------------- MODULE MCDBusServices ---------------------------
(***************************************************************************)
(* Two services of one type that may announce the same instance, and this  *)
(* program's own service.  Unit IDs: 0 (what an unknown instance reads     *)
(* as), 5 (an instance that is also mapped) and 9 (only mapped).  The file *)
(* has a headline, a line that says nothing and one that is replaced.      *)
(***************************************************************************)
EXTENDS DBusServices

CONSTANTS vebus, modbustcp, v1, v2

MCTypeOf == [ s \in Services |-> IF s = OwnService THEN modbustcp ELSE vebus ]
Maps(unit, instance) == [ unit |-> unit, instance |-> instance ]
MCUnitIDLines ==
  << Maps(<< >>, << >>), Maps(<< 5 >>, << 5 >>), Maps(<< 9 >>, << 5 >>),
     Maps(<< 5 >>, << 0 >>), Maps(<< 9 >>, << 0 >>) >>
=============================================================================
