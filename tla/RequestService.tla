--------------------------- MODULE RequestService ---------------------------
(***************************************************************************)
(* What Mappings promises to Backend: every MappingRequest passed to       *)
(* handleRequest is completed once, at once or after waiting, with one of  *)
(* the errors below.  Module Mappings implements this specification, and   *)
(* module Gateway relies on it.                                            *)
(***************************************************************************)
CONSTANT Requests

VARIABLES phase, error

requestVars == << phase, error >>

(* The errors Mappings reports when a request executes; permission is only *)
(* checked when it arrives.  Nothing reports QuantityError or UnitIdError. *)
ExecutionErrors == { "NoError", "StartAddressError", "AddressError", "ServiceError" }
ArrivalErrors == ExecutionErrors \cup { "PermissionError" }

Init ==
  /\ phase = [r \in Requests |-> "new"]
  /\ error = [r \in Requests |-> "NoError"]

Completed(r, e) ==
  /\ phase' = [phase EXCEPT ![r] = "completed"]
  /\ error' = [error EXCEPT ![r] = e]

(* handleRequest: requestCompleted is emitted before it returns, or later. *)
CompleteAtOnce(r, e) == phase[r] = "new" /\ e \in ArrivalErrors /\ Completed(r, e)

Wait(r) ==
  /\ phase[r] = "new"
  /\ phase' = [phase EXCEPT ![r] = "pending"]
  /\ UNCHANGED error

CompleteLater(r, e) == phase[r] = "pending" /\ e \in ExecutionErrors /\ Completed(r, e)

Next ==
  \E r \in Requests :
    \/ Wait(r)
    \/ \E e \in ArrivalErrors : CompleteAtOnce(r, e)
    \/ \E e \in ExecutionErrors : CompleteLater(r, e)

Fairness ==
  \A r \in Requests : WF_requestVars(\E e \in ExecutionErrors : CompleteLater(r, e))

Spec == Init /\ [][Next]_requestVars /\ Fairness
=============================================================================
