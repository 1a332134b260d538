----------------------------- MODULE MCGateway ------------------------------
(***************************************************************************)
(* Two clients and frames of the kinds Backend tells apart: at the limits  *)
(* of the quantity, and with a byte count that does not fit it.  Clients   *)
(* number their requests, or use a number twice.                           *)
(***************************************************************************)
EXTENDS Gateway

CONSTANTS c1, c2

Numbers == { 1, 2 }

Frame(code, quantity, count) ==
  { [ transID |-> n, functionCode |-> code, quantity |-> quantity, byteCount |-> count ]
      : n \in Numbers }

MCFrames ==
  UNION { Frame("ReadHoldingRegisters", 125, 0),
          Frame("ReadInputRegisters", 126, 0),
          Frame("WriteSingleRegister", 0, 0),
          Frame("WriteMultipleRegisters", 125, 250),
          Frame("WriteMultipleRegisters", 2, 2),
          Frame("ReadCoils", 1, 0) }
=============================================================================
