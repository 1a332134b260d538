--------------------------- MODULE MCDataIterator ---------------------------
(***************************************************************************)
(* A small register map with every neighbourhood the iterator tells apart: *)
(* adjacent entries of different types (1-2, 4-5), of one type (5-6), an   *)
(* entry of several registers (2-3), a reserved one (6), a gap (8) and a   *)
(* last entry of several registers (9-11), as the shipped map ends with    *)
(* the seven reserved registers from 5813 on.                              *)
(***************************************************************************)
EXTENDS DataIterator

CONSTANTS settings, hub4, s1, s2, path

Entry(type, size, reserved) ==
  [ deviceType |-> type, objectPaths |-> << path >>, size |-> size,
    reserved |-> reserved, writable |-> TRUE ]

MCMap ==
  [ k \in {1, 2, 4, 5, 6, 9} |->
      CASE k = 1 -> Entry(settings, 1, FALSE)
        [] k = 2 -> Entry(hub4, 2, FALSE)
        [] k = 4 -> Entry(hub4, 1, FALSE)
        [] k = 5 -> Entry(settings, 1, FALSE)
        [] k = 6 -> Entry(settings, 2, TRUE)
        [] k = 9 -> Entry(hub4, 3, FALSE) ]

MCAddresses == 0 .. 13
=============================================================================
