--------------------------- MODULE MCDiagnostics ----------------------------
(***************************************************************************)
(* Grid meters that may replace each other, as in the test replaceService, *)
(* one of which changes its instance, and a service of another type.       *)
(* Instance 0 is mapped to unit ID 100, so it shares that unit ID with     *)
(* instance 100.                                                           *)
(***************************************************************************)
EXTENDS Diagnostics

CONSTANTS grid, system, g1, g2, changing, sys

MCTypeOf == [ s \in Services |-> IF s = sys THEN system ELSE grid ]

MCInstancesOf ==
  [ s \in Services |-> CASE s = changing -> {0, 30}
                         [] s = g2 -> {100}
                         [] s \in { g1, sys } -> {0} ]

MCUnitIDMap == [ u \in {100} |-> 0 ]
MCGetUnitId == [ i \in Instances |-> IF i = 0 THEN 100 ELSE i ]
=============================================================================
