---------------------------- MODULE MCLastError -----------------------------
(***************************************************************************)
(* Two messages, and time for three publications.                          *)
(***************************************************************************)
EXTENDS LastError

CONSTANTS m1, m2
=============================================================================
