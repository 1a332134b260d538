------------------------------- MODULE Gateway -------------------------------
(***************************************************************************)
(* Server, Connection and Backend around Mappings: which objects a Modbus  *)
(* request consists of, who owns them, and what happens to them while the  *)
(* request waits and its client may disconnect.                            *)
(*                                                                         *)
(* An ADU is created for each frame (module Connection) with a guarded     *)
(* pointer to the client's socket; Server deletes it after the reply.  A   *)
(* BackendRequest points to its ADU and is deleted by Backend when it is   *)
(* completed.  Mappings is taken as what it implements, RequestService.    *)
(* The action of a slot includes the slots its signals call.               *)
(***************************************************************************)
EXTENDS Integers, Sequences

CONSTANTS
  Clients,         \* TCP connections
  NoClient,        \* no frame yet
  MaxRequests,     \* bound: frames in a behaviour
  Frames,          \* the frames clients send
  NoFrame

Requests == 1 .. MaxRequests

Reads == { "ReadHoldingRegisters", "ReadInputRegisters" }
Writes == { "WriteSingleRegister", "WriteMultipleRegisters" }

FrameType ==
  [ transID : 0 .. 65535, functionCode : STRING, quantity : 0 .. 65535, byteCount : 0 .. 255 ]

ASSUME GatewayAssumption ==
  /\ NoClient \notin Clients
  /\ MaxRequests \in Nat
  /\ Frames \subseteq FrameType /\ NoFrame \notin Frames

VARIABLES
  socket,          \* of each client: "open", "closing", "deleted"
  client, frame,   \* ADU: mSocket as it was created, and what was received
  adu,             \* "none", "alive" or "deleted"
  phase, error,    \* the MappingRequest of the ADU
  replies,         \* history: exception codes of the replies to a request
  sent,            \* the replies written to each client's socket, in order
  crashed          \* a null pointer was followed

Mapping == INSTANCE RequestService

aduVars == << client, frame, adu >>
gatewayVars == << socket, aduVars, phase, error, replies, sent, crashed >>

-----------------------------------------------------------------------------
(* ADU::getSocket is null.  The socket is deleted by the event loop some   *)
(* time after Connection::disconnected asked for it.                       *)
SocketIsNull(c) == socket[c] = "deleted"

(* Backend::getExceptionCode.                                              *)
GetExceptionCodeUnchanged(e) == IF e = "NoError" THEN "NoException" ELSE e
GetExceptionCode(e) ==
  CASE e = "NoError" -> "NoException"
    [] e = "QuantityError" -> "IllegalDataValue"
    [] e = "UnitIdError" -> "GatewayTargetDeviceFailedToRespond"
    [] e = "ServiceError" -> "GatewayPathUnavailable"
    [] e \in { "StartAddressError", "AddressError", "PermissionError" } -> "IllegalDataAddress"

(* What Backend::modbusRequest answers itself.                             *)
Refusal(f) ==
  CASE f.functionCode \notin Reads \cup Writes -> "IllegalFunction"
    [] f.functionCode \in Reads /\ f.quantity \notin 1 .. 125 -> "IllegalDataValue"
    [] /\ f.functionCode = "WriteMultipleRegisters"
       /\ f.quantity \notin 1 .. 125 \/ f.byteCount # 2 * f.quantity -> "IllegalDataValue"
    [] OTHER -> "NoException"

(* ADU::toQByteArray.  The identifiers are those the ADU was created with; *)
(* a reply goes out when its request is completed, whatever came before.   *)
RepliedRegisters(f) ==
  CASE f.functionCode \in Reads -> f.quantity
    [] f.functionCode = "WriteSingleRegister" -> 1
    [] f.functionCode = "WriteMultipleRegisters" -> f.byteCount \div 2
Reply(f, code) ==
  [ transID |-> f.transID, functionCode |-> f.functionCode, code |-> code,
    registers |-> IF code = "NoException" THEN RepliedRegisters(f) ELSE 0 ]
ToQByteArrayInOrder(r, c, code) ==
  LET open == { q \in Requests : client'[q] = c /\ replies[q] = << >> }
  IN  Reply(frame'[CHOOSE q \in open : \A p \in open : q <= p], code)
ToQByteArray(r, c, code) == Reply(frame'[r], code)

(* Server::modbusReply of ADU r of client c.  A socket that is closed but  *)
(* not deleted yet takes no data.                                          *)
Send(r, c, code) ==
  IF socket[c] = "open"
    THEN /\ replies' = [replies EXCEPT ![r] = Append(@, code)]
         /\ sent' = [sent EXCEPT ![c] = Append(@, ToQByteArray(r, c, code))]
    ELSE UNCHANGED << replies, sent >>
ModbusReplyKeeps(r, c, code) ==
  /\ adu' = [adu EXCEPT ![r] = IF socket[c] = "open" THEN "deleted" ELSE "alive"]
  /\ Send(r, c, code)
ModbusReply(r, c, code) ==
  /\ adu' = [adu EXCEPT ![r] = IF SocketIsNull(c) THEN "alive" ELSE "deleted"]
  /\ Send(r, c, code)

(* Backend::requestCompleted; logError takes the address of the peer.      *)
RequestCompletedSilent(r, c, e) ==
  /\ UNCHANGED crashed
  /\ \/ e = "NoError" /\ ModbusReply(r, c, "NoException")
     \/ e # "NoError" /\ adu' = [adu EXCEPT ![r] = "deleted"] /\ UNCHANGED << replies, sent >>
RequestCompletedLogsLate(r, c, e) ==
  /\ ModbusReply(r, c, GetExceptionCode(e))
  /\ crashed' = (e # "NoError" /\ (SocketIsNull(c) \/ adu'[r] = "deleted"))
RequestCompletedNoException(r, c, e) ==
  \/ /\ e # "NoError" /\ SocketIsNull(c)
     /\ crashed' = TRUE
     /\ UNCHANGED << adu, replies, sent >>
  \/ /\ e = "NoError" \/ ~ SocketIsNull(c)
     /\ ModbusReply(r, c, "NoException")
     /\ UNCHANGED crashed
RequestCompleted(r, c, e) ==
  \/ /\ e # "NoError" /\ SocketIsNull(c)
     /\ crashed' = TRUE
     /\ UNCHANGED << adu, replies, sent >>
  \/ /\ e = "NoError" \/ ~ SocketIsNull(c)
     /\ ModbusReply(r, c, GetExceptionCode(e))
     /\ UNCHANGED crashed

(* Backend::modbusRequest, from Connection::readyRead; the socket that was *)
(* just read from exists.                                                  *)
RefusedFallsThrough(r, c, f) ==
  /\ Refusal(f) # "NoException"
  /\ ModbusReply(r, c, Refusal(f))
  /\ Mapping!Wait(r)
  /\ UNCHANGED crashed
Refused(r, c, f) ==
  /\ Refusal(f) # "NoException"
  /\ ModbusReply(r, c, Refusal(f))
  /\ UNCHANGED << phase, error, crashed >>

Forwarded(r, c, f) ==
  /\ Refusal(f) = "NoException"
  /\ \/ /\ Mapping!Wait(r)
        /\ adu' = [adu EXCEPT ![r] = "alive"]
        /\ UNCHANGED << replies, sent, crashed >>
     \/ \E e \in Mapping!ArrivalErrors :
          /\ Mapping!CompleteAtOnce(r, e)
          /\ RequestCompleted(r, c, e)

ModbusRequest(r, c, f) ==
  /\ ~ crashed
  /\ socket[c] = "open"
  /\ \A q \in Requests : q < r <=> adu[q] # "none"
  /\ client' = [client EXCEPT ![r] = c]
  /\ frame' = [frame EXCEPT ![r] = f]
  /\ Refused(r, c, f) \/ Forwarded(r, c, f)
  /\ UNCHANGED socket

(* Mappings emits requestCompleted for a request that waited.              *)
WaitingCompleted(r) ==
  /\ ~ crashed
  /\ UNCHANGED << socket, client, frame >>
  /\ \E e \in Mapping!ExecutionErrors :
       /\ Mapping!CompleteLater(r, e)
       /\ RequestCompleted(r, client[r], e)

(* Connection::disconnected.                                               *)
Disconnected(c) ==
  /\ ~ crashed
  /\ socket[c] = "open"
  /\ socket' = [socket EXCEPT ![c] = "closing"]
  /\ UNCHANGED << aduVars, phase, error, replies, sent, crashed >>

(* The event loop carries out deleteLater.                                 *)
SocketDeleted(c) ==
  /\ ~ crashed
  /\ socket[c] = "closing"
  /\ socket' = [socket EXCEPT ![c] = "deleted"]
  /\ UNCHANGED << aduVars, phase, error, replies, sent, crashed >>

Init ==
  /\ socket = [c \in Clients |-> "open"]
  /\ client = [r \in Requests |-> NoClient]
  /\ frame = [r \in Requests |-> NoFrame]
  /\ adu = [r \in Requests |-> "none"]
  /\ Mapping!Init
  /\ replies = [r \in Requests |-> << >>]
  /\ sent = [c \in Clients |-> << >>]
  /\ crashed = FALSE

Next ==
  \/ \E r \in Requests, c \in Clients, f \in Frames : ModbusRequest(r, c, f)
  \/ \E r \in Requests : WaitingCompleted(r)
  \/ \E c \in Clients : Disconnected(c)
  \/ \E c \in Clients : SocketDeleted(c)

(* Mappings completes what waits, see RequestService.  Clients need not    *)
(* send anything nor disconnect.                                           *)
Fairness == \A r \in Requests : WF_gatewayVars(WaitingCompleted(r))

Spec == Init /\ [][Next]_gatewayVars /\ Fairness

-----------------------------------------------------------------------------
ExceptionCodes ==
  { "NoException", "IllegalFunction", "IllegalDataAddress", "IllegalDataValue",
    "GatewayPathUnavailable" }

(* The variables have their types.                                         *)
TypeOK ==
  /\ socket \in [Clients -> { "open", "closing", "deleted" }]
  /\ client \in [Requests -> Clients \cup { NoClient }]
  /\ frame \in [Requests -> Frames \cup { NoFrame }]
  /\ adu \in [Requests -> { "none", "alive", "deleted" }]
  /\ phase \in [Requests -> { "new", "pending", "completed" }]
  /\ error \in [Requests -> Mapping!ArrivalErrors]
  /\ replies \in [Requests -> Seq(ExceptionCodes)]
  /\ \A c \in Clients : \A i \in DOMAIN sent[c] : sent[c][i].code \in ExceptionCodes
  /\ crashed \in BOOLEAN

(* A request is answered once, and the ADU that a waiting request points   *)
(* to is neither answered nor deleted, whatever the client does.           *)
OneAnswer ==
  \A r \in Requests :
    /\ Len(replies[r]) <= 1
    /\ phase[r] = "pending" => adu[r] = "alive" /\ replies[r] = << >>

(* The answer says what happened: an exception if and only if the request  *)
(* was refused or its execution reported an error.                         *)
RightAnswer ==
  \A r \in Requests : replies[r] # << >> =>
    (replies[r][1] = "NoException" <=>
       phase[r] = "completed" /\ error[r] = "NoError" /\ Refusal(frame[r]) = "NoException")

(* Replies may overtake each other, but a client that numbers its requests *)
(* can tell them apart: each reply has the number of one request of this   *)
(* client, and is the answer to that one; no number is answered twice.     *)
Numbered(c) ==
  \A q, r \in Requests :
    q # r /\ client[q] = c /\ client[r] = c => frame[q].transID # frame[r].transID
RepliesMatch ==
  \A c \in Clients : Numbered(c) =>
    /\ \A i, j \in DOMAIN sent[c] : sent[c][i].transID = sent[c][j].transID => i = j
    /\ \A i \in DOMAIN sent[c] :
         \E r \in Requests :
           /\ client[r] = c /\ frame[r].transID = sent[c][i].transID
           /\ replies[r] = << sent[c][i].code >>
           /\ sent[c][i].functionCode = frame[r].functionCode
           /\ sent[c][i].code = "NoException" /\ frame[r].functionCode # "WriteSingleRegister"
                => sent[c][i].registers = frame[r].quantity

(* The ADU of a request that is over is deleted, unless its socket was     *)
(* deleted first: then Server::modbusReply leaves it.                      *)
OnlyOrphansLeak ==
  \A r \in Requests :
    adu[r] = "alive" /\ phase[r] # "pending" => SocketIsNull(client[r])

(* The program follows the null pointer only for a request that waited,    *)
(* failed, and whose client's socket was deleted meanwhile: never because  *)
(* of a request that is answered at once.                                  *)
CrashNeedsOrphan ==
  crashed =>
    \E r \in Requests :
      /\ phase[r] = "completed" /\ error[r] # "NoError"
      /\ SocketIsNull(client[r]) /\ replies[r] = << >>

Connected(r) == client[r] # NoClient /\ socket[client[r]] = "open"

(* A client that stays connected is answered, unless the program crashes.  *)
ConnectedAnswered ==
  \A r \in Requests :
    Connected(r) ~> replies[r] # << >> \/ ~ Connected(r) \/ crashed
=============================================================================
