----------------------------- MODULE MCMappings -----------------------------
(***************************************************************************)
(* A register map in the style of registers 2715-2719 of attributes.csv,   *)
(* where writable registers of two services are neighbours, and requests   *)
(* that cross the border between them, end in the middle of an entry,      *)
(* start in the middle of one or run into a gap.  Further on two writable  *)
(* entries with two paths, as expandPath makes them, which share the       *)
(* items, and one without a path, like the date and time.                  *)
(***************************************************************************)
EXTENDS Mappings

CONSTANTS settings, hub4, st, h1, h2, a, b, c

Entry(type, paths, size, reserved, writable) ==
  [ deviceType |-> type, objectPaths |-> paths, size |-> size,
    reserved |-> reserved, writable |-> writable ]

MCMap ==
  [ k \in {15, 16, 18, 19, 22, 23, 24} |->
      CASE k = 15 -> Entry(settings, << a >>, 1, FALSE, TRUE)
        [] k = 16 -> Entry(hub4, << b >>, 2, FALSE, TRUE)
        [] k = 18 -> Entry(settings, << a >>, 1, TRUE, TRUE)
        [] k = 19 -> Entry(settings, << c >>, 1, FALSE, FALSE)
        [] k = 22 -> Entry(settings, << a, c >>, 1, FALSE, TRUE)
        [] k = 23 -> Entry(settings, << c, a >>, 1, FALSE, TRUE)
        [] k = 24 -> Entry(settings, << >>, 4, FALSE, FALSE) ]

Read(x, q)  == [ type |-> "ReadValues", address |-> x, quantity |-> q ]
Write(x, q) == [ type |-> "WriteValues", address |-> x, quantity |-> q ]

MCInputs ==
  { Write(15, 4), Write(17, 1), Write(18, 2), Write(22, 2), Write(19, 4),
    Read(15, 2), Read(17, 3), Read(19, 3), Read(24, 4) }

MCReplugInputs == { Write(15, 4), Read(15, 2), Write(19, 1) }

(* The registers two requests compete for.                                 *)
MCFewInputs == { Write(15, 3), Read(15, 2) }

Routes(s) == [ t \in {settings, hub4} |-> IF t = settings THEN st ELSE s ]

UnplugRoutes == { Routes(h1), Routes(NoService) }
ReplugRoutes == { Routes(h1), Routes(h2), Routes(NoService) }
=============================================================================
