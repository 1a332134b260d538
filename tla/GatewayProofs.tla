---------------------------- MODULE GatewayProofs ----------------------------
(***************************************************************************)
(* Requests, replies and sockets, for any number of clients, requests and  *)
(* kinds of frames, and every order in which requests are completed,       *)
(* clients disconnect and their sockets are deleted.                       *)
(***************************************************************************)
EXTENDS Gateway, TLAPS

-----------------------------------------------------------------------------
(* What is written to a socket.                                            *)
Sent == { Reply(f, code) : f \in Frames, code \in ExceptionCodes }

(* The ADU of a request that was received knows its client and its frame;  *)
(* before that nothing has happened to it.                                 *)
Received ==
  \A r \in Requests :
    IF adu[r] = "none"
      THEN client[r] = NoClient /\ phase[r] = "new" /\ replies[r] = << >>
      ELSE client[r] \in Clients /\ frame[r] \in Frames

(* Only what Backend does not refuse reaches Mappings.                     *)
Accepted == \A r \in Requests : phase[r] # "new" => Refusal(frame[r]) = "NoException"

(* What is sent to a client answers a request of its own, and two replies  *)
(* carry the same number only if two of its requests did.                  *)
Answers(c, i, r) ==
  /\ client[r] = c /\ replies[r] = << sent[c][i].code >>
  /\ sent[c][i] = Reply(frame[r], sent[c][i].code)
AllAnswer ==
  \A c \in Clients : \A i \in DOMAIN sent[c] : \E r \in Requests : Answers(c, i, r)
NumbersDiffer ==
  \A c \in Clients : Numbered(c) =>
    \A i, j \in DOMAIN sent[c] : sent[c][i].transID = sent[c][j].transID => i = j

IInv ==
  /\ TypeOK /\ sent \in [Clients -> Seq(Sent)]
  /\ Received /\ Accepted
  /\ OneAnswer /\ RightAnswer
  /\ AllAnswer /\ NumbersDiffer
  /\ OnlyOrphansLeak /\ CrashNeedsOrphan

-----------------------------------------------------------------------------
(* What a sequence is once an element is appended.                         *)
LEMMA AppendFacts ==
  ASSUME NEW S, NEW s \in Seq(S), NEW x \in S
  PROVE  \E n \in Nat :
           /\ DOMAIN s = 1 .. n /\ DOMAIN Append(s, x) = 1 .. n + 1
           /\ \A i \in 1 .. n : Append(s, x)[i] = s[i]
           /\ Append(s, x)[n + 1] = x
<1>. DEFINE n == Len(s)
<1>1. n \in Nat /\ DOMAIN s = 1 .. n
  OBVIOUS
<1>2. Append(s, x) \in Seq(S) /\ Len(Append(s, x)) = n + 1
  OBVIOUS
<1>3. DOMAIN Append(s, x) = 1 .. n + 1
  BY <1>2
<1>4. \A i \in 1 .. n : Append(s, x)[i] = s[i]
  OBVIOUS
<1>5. Append(s, x)[n + 1] = x
  OBVIOUS
<1>. HIDE DEF n
<1>. QED
  BY <1>1, <1>3, <1>4, <1>5

(* The fields of a reply.                                                  *)
LEMMA ReplyFacts ==
  ASSUME NEW f, NEW code \in ExceptionCodes
  PROVE  /\ Reply(f, code).transID = f.transID
         /\ Reply(f, code).functionCode = f.functionCode
         /\ Reply(f, code).code = code
         /\ code = "NoException" => Reply(f, code).registers = RepliedRegisters(f)
BY DEF Reply

(* What Backend refuses is answered with an exception.                     *)
LEMMA RefusalFacts == ASSUME NEW f PROVE Refusal(f) \in ExceptionCodes
BY DEF Refusal, ExceptionCodes

(* An error of Mappings becomes an exception, and nothing else does.       *)
LEMMA ExceptionCodeFacts ==
  ASSUME NEW e \in Mapping!ArrivalErrors
  PROVE  /\ GetExceptionCode(e) \in ExceptionCodes
         /\ GetExceptionCode(e) = "NoException" <=> e = "NoError"
BY DEF GetExceptionCode, ExceptionCodes, Mapping!ArrivalErrors, Mapping!ExecutionErrors

(* A request that is executed is answered with as many registers as it     *)
(* asked for; the reply to the write of a single one says one.             *)
LEMMA QuantityFacts ==
  ASSUME NEW f \in Frames, Refusal(f) = "NoException",
         f.functionCode # "WriteSingleRegister"
  PROVE  RepliedRegisters(f) = f.quantity
<1>1. f.functionCode \in Reads \cup Writes
  BY DEF Refusal
<1>2. CASE f.functionCode \in Reads
  BY <1>2 DEF RepliedRegisters, Reads
<1>3. CASE f.functionCode = "WriteMultipleRegisters"
  <2>1. f.quantity \in 1 .. 125 /\ f.byteCount = 2 * f.quantity
    BY <1>3 DEF Refusal, Reads, Writes
  <2>2. f.byteCount \div 2 = f.quantity
    BY <2>1
  <2>3. f.functionCode \notin Reads
    BY <1>3 DEF Reads
  <2>. QED
    BY <1>3, <2>2, <2>3 DEF RepliedRegisters
<1>. QED
  BY <1>1, <1>2, <1>3 DEF Writes

(* The invariant holds initially.                                          *)
LEMMA InitIInv == Init => IInv
<1>. SUFFICES ASSUME Init PROVE IInv
  OBVIOUS
<1>1. \A c \in Clients : sent[c] = << >> /\ DOMAIN sent[c] = {}
  <2>1. DOMAIN << >> = {}
    OBVIOUS
  <2>. QED
    BY <2>1 DEF Init
<1>2. TypeOK /\ sent \in [Clients -> Seq(Sent)]
  <2>1. << >> \in Seq(Sent) /\ << >> \in Seq(ExceptionCodes)
    OBVIOUS
  <2>2. sent \in [Clients -> Seq(Sent)] /\ replies \in [Requests -> Seq(ExceptionCodes)]
    BY <2>1 DEF Init
  <2>. QED
    BY <1>1, <2>2 DEF Init, TypeOK, Mapping!Init, Mapping!ArrivalErrors, Mapping!ExecutionErrors
<1>3. AllAnswer /\ NumbersDiffer
  BY <1>1 DEF AllAnswer, NumbersDiffer
<1>. QED
  BY <1>2, <1>3 DEF Init, IInv, Mapping!Init, Received, Accepted, OneAnswer, RightAnswer,
    OnlyOrphansLeak, CrashNeedsOrphan

-----------------------------------------------------------------------------
(* The steps of request r, of client c, which has not been answered yet.   *)

(* The other requests, and what is known of this one, stay as they are.    *)
OnlyRequest(r, c) ==
  /\ ~ crashed /\ c \in Clients /\ UNCHANGED socket
  /\ adu[r] # "deleted" /\ replies[r] = << >>
  /\ IF adu[r] = "none" THEN socket[c] = "open" ELSE UNCHANGED << client, frame >>
  /\ client'[r] = c /\ frame'[r] \in Frames
  /\ client' \in [Requests -> Clients \cup { NoClient }]
  /\ frame' \in [Requests -> Frames \cup { NoFrame }]
  /\ phase' \in [Requests -> { "new", "pending", "completed" }]
  /\ error' \in [Requests -> Mapping!ArrivalErrors]
  /\ phase'[r] # "new" => Refusal(frame'[r]) = "NoException"
  /\ \A q \in Requests \ { r } :
       /\ client'[q] = client[q] /\ frame'[q] = frame[q]
       /\ phase'[q] = phase[q] /\ error'[q] = error[q]

(* A client that numbers its requests has done so before.                  *)
LEMMA NumberedBefore ==
  ASSUME IInv, NEW r \in Requests, NEW c, OnlyRequest(r, c),
         NEW d \in Clients, Numbered(d)'
  PROVE  Numbered(d)
<1>. SUFFICES ASSUME NEW p \in Requests, NEW q \in Requests,
                     p # q, client[p] = d, client[q] = d
              PROVE  frame[p].transID # frame[q].transID
  BY DEF Numbered
<1>1. \A o \in { p, q } : client'[o] = client[o] /\ frame'[o] = frame[o]
  <2>1. \A o \in { p, q } : adu[o] # "none"
    BY GatewayAssumption DEF IInv, Received
  <2>. QED
    BY <2>1 DEF OnlyRequest
<1>. QED
  BY <1>1 DEF Numbered

(* What was sent before answers the same request as before.                *)
LEMMA StillAnswers ==
  ASSUME IInv, NEW r \in Requests, NEW c, OnlyRequest(r, c),
         \A q \in Requests \ { r } : replies'[q] = replies[q],
         NEW d \in Clients, NEW i \in DOMAIN sent[d],
         i \in DOMAIN sent'[d], sent'[d][i] = sent[d][i]
  PROVE  \E q \in Requests \ { r } : Answers(d, i, q) /\ Answers(d, i, q)'
<1>1. PICK q \in Requests : Answers(d, i, q)
  BY DEF IInv, AllAnswer
<1>2. q # r
  <2>1. replies[q] # << >>
    BY <1>1 DEF Answers
  <2>2. replies[r] = << >>
    BY DEF OnlyRequest
  <2>. QED
    BY <2>1, <2>2
<1>3. Answers(d, i, q)'
  BY <1>1, <1>2 DEF Answers, OnlyRequest
<1>. QED
  BY <1>1, <1>2, <1>3

(* A request that is answered, or whose answer finds its socket closed.    *)
Concluded(r, c, code) ==
  /\ phase'[r] # "pending" /\ code \in ExceptionCodes /\ UNCHANGED crashed
  /\ code = "NoException" <=>
       phase'[r] = "completed" /\ error'[r] = "NoError" /\ Refusal(frame'[r]) = "NoException"
  /\ ModbusReply(r, c, code)

(* What modbusReply does to the ADU, and to the history of the request and *)
(* of its client's socket.                                                 *)
LEMMA ReplyEffects ==
  ASSUME IInv, NEW r \in Requests, NEW c, NEW code,
         OnlyRequest(r, c), Concluded(r, c, code)
  PROVE  /\ adu' \in [Requests -> { "none", "alive", "deleted" }]
         /\ adu'[r] = IF SocketIsNull(c) THEN "alive" ELSE "deleted"
         /\ replies' \in [Requests -> Seq(ExceptionCodes)]
         /\ replies'[r] = IF socket[c] = "open" THEN << code >> ELSE << >>
         /\ \A q \in Requests \ { r } : adu'[q] = adu[q] /\ replies'[q] = replies[q]
         /\ sent' \in [Clients -> Seq(Sent)]
         /\ \A d \in Clients \ { c } : sent'[d] = sent[d]
         /\ sent'[c] = IF socket[c] = "open" THEN Append(sent[c], Reply(frame'[r], code))
                       ELSE sent[c]
<1>1. TypeOK /\ sent \in [Clients -> Seq(Sent)] /\ c \in Clients /\ code \in ExceptionCodes
  BY DEF IInv, OnlyRequest, Concluded
<1>2. /\ adu' = [adu EXCEPT ![r] = IF SocketIsNull(c) THEN "alive" ELSE "deleted"]
      /\ Send(r, c, code)
  BY DEF Concluded, ModbusReply
<1>3. /\ adu' \in [Requests -> { "none", "alive", "deleted" }]
      /\ adu'[r] = IF SocketIsNull(c) THEN "alive" ELSE "deleted"
      /\ \A q \in Requests \ { r } : adu'[q] = adu[q]
  BY <1>1, <1>2 DEF TypeOK
<1>4. CASE socket[c] = "open"
  <2>1. /\ replies' = [replies EXCEPT ![r] = Append(replies[r], code)]
        /\ sent' = [sent EXCEPT ![c] = Append(sent[c], Reply(frame'[r], code))]
    BY <1>2, <1>4 DEF Send, ToQByteArray
  <2>2. Append(replies[r], code) = << code >> /\ << code >> \in Seq(ExceptionCodes)
    BY <1>1 DEF OnlyRequest
  <2>3. Reply(frame'[r], code) \in Sent
    BY <1>1 DEF Sent, OnlyRequest
  <2>4. Append(sent[c], Reply(frame'[r], code)) \in Seq(Sent)
    BY <1>1, <2>3
  <2>. QED
    BY <1>1, <1>3, <1>4, <2>1, <2>2, <2>4 DEF TypeOK
<1>5. CASE socket[c] # "open"
  <2>1. UNCHANGED << replies, sent >>
    BY <1>2, <1>5 DEF Send
  <2>. QED
    BY <1>1, <1>3, <1>5, <2>1 DEF TypeOK, OnlyRequest
<1>. QED
  BY <1>4, <1>5

(* The histories after a reply.                                            *)
LEMMA ReplyAnswers ==
  ASSUME IInv, NEW r \in Requests, NEW c, NEW code,
         OnlyRequest(r, c), Concluded(r, c, code)
  PROVE  AllAnswer' /\ NumbersDiffer'
<1>1. /\ c \in Clients /\ sent \in [Clients -> Seq(Sent)]
      /\ \A q \in Requests \ { r } : replies'[q] = replies[q]
      /\ \A d \in Clients \ { c } : sent'[d] = sent[d]
      /\ client'[r] = c
  BY ReplyEffects DEF IInv, OnlyRequest
<1>2. CASE UNCHANGED sent
  <2>1. AllAnswer'
    BY <1>1, <1>2, StillAnswers DEF AllAnswer
  <2>2. NumbersDiffer'
    BY <1>2, NumberedBefore DEF NumbersDiffer, IInv
  <2>. QED
    BY <2>1, <2>2
<1>3. CASE sent'[c] = Append(sent[c], Reply(frame'[r], code)) /\ replies'[r] = << code >>
  <2>1. PICK n \in Nat :
          /\ DOMAIN sent[c] = 1 .. n /\ DOMAIN sent'[c] = 1 .. n + 1
          /\ \A i \in 1 .. n : sent'[c][i] = sent[c][i]
          /\ sent'[c][n + 1] = Reply(frame'[r], code)
    <3>1. sent[c] \in Seq(Sent) /\ Reply(frame'[r], code) \in Sent
      BY <1>1 DEF Sent, OnlyRequest, Concluded
    <3>2. PICK reply \in Sent : reply = Reply(frame'[r], code)
      BY <3>1
    <3>3. \E n \in Nat :
            /\ DOMAIN sent[c] = 1 .. n /\ DOMAIN Append(sent[c], reply) = 1 .. n + 1
            /\ \A i \in 1 .. n : Append(sent[c], reply)[i] = sent[c][i]
            /\ Append(sent[c], reply)[n + 1] = reply
      BY <3>1, AppendFacts
    <3>4. sent'[c] = Append(sent[c], reply)
      BY <1>3, <3>2
    <3>. QED
      BY <3>2, <3>3, <3>4, Zenon
  <2>2. code \in ExceptionCodes
    BY DEF Concluded
  <2>3. Answers(c, n + 1, r)'
    BY <1>1, <1>3, <2>1, <2>2, ReplyFacts DEF Answers
  <2>4. ASSUME NEW i \in DOMAIN sent[c]
        PROVE  i \in DOMAIN sent'[c] /\ sent'[c][i] = sent[c][i]
    BY <2>1
  <2>5. AllAnswer'
    <3>1. ASSUME NEW i \in DOMAIN sent'[c]
          PROVE  \E q \in Requests : Answers(c, i, q)'
      <4>1. CASE i \in 1 .. n
        BY <1>1, <2>1, <2>4, <4>1, StillAnswers
      <4>2. CASE i = n + 1
        BY <2>3, <4>2
      <4>. QED
        BY <2>1, <3>1, <4>1, <4>2
    <3>2. ASSUME NEW d \in Clients \ { c }, NEW i \in DOMAIN sent'[d]
          PROVE  \E q \in Requests : Answers(d, i, q)'
      BY <1>1, StillAnswers
    <3>. QED
      BY <3>1, <3>2 DEF AllAnswer
  <2>6. NumbersDiffer'
    <3>1. ASSUME Numbered(c)', NEW i \in 1 .. n
          PROVE  sent'[c][i].transID # sent'[c][n + 1].transID
      <4>1. PICK q \in Requests \ { r } : Answers(c, i, q)'
        BY <1>1, <2>1, <2>4, StillAnswers
      <4>2. sent'[c][i].transID = frame'[q].transID /\ client'[q] = c
        BY <4>1 DEF Answers, Reply
      <4>3. sent'[c][n + 1].transID = frame'[r].transID
        BY <2>1 DEF Reply
      <4>. QED
        BY <1>1, <3>1, <4>1, <4>2, <4>3 DEF Numbered
    <3>2. ASSUME Numbered(c)', NEW i \in DOMAIN sent'[c], NEW j \in DOMAIN sent'[c],
                 sent'[c][i].transID = sent'[c][j].transID
          PROVE  i = j
      <4>1. CASE i \in 1 .. n /\ j \in 1 .. n
        <5>1. Numbered(c)
          BY <1>1, <3>2, NumberedBefore
        <5>. QED
          BY <1>1, <2>1, <3>2, <4>1, <5>1 DEF IInv, NumbersDiffer
      <4>. QED
        BY <2>1, <3>1, <3>2, <4>1
    <3>3. ASSUME NEW d \in Clients \ { c }, Numbered(d)',
                 NEW i \in DOMAIN sent'[d], NEW j \in DOMAIN sent'[d],
                 sent'[d][i].transID = sent'[d][j].transID
          PROVE  i = j
      BY <1>1, <3>3, NumberedBefore DEF IInv, NumbersDiffer
    <3>. QED
      BY <3>2, <3>3 DEF NumbersDiffer
  <2>. QED
    BY <2>5, <2>6
<1>4. UNCHANGED sent \/ (sent'[c] = Append(sent[c], Reply(frame'[r], code)) /\ replies'[r] = << code >>)
  <2>1. CASE socket[c] = "open"
    <3>1. /\ replies'[r] = IF socket[c] = "open" THEN << code >> ELSE << >>
          /\ sent'[c] = IF socket[c] = "open" THEN Append(sent[c], Reply(frame'[r], code))
                        ELSE sent[c]
      BY ReplyEffects
    <3>. QED
      BY <2>1, <3>1
  <2>2. CASE socket[c] # "open"
    BY <2>2 DEF Concluded, ModbusReply, Send
  <2>. QED
    BY <2>1, <2>2
<1>. QED
  BY <1>2, <1>3, <1>4

(* OnlyRequest, for the proofs that follow.                                *)
LEMMA OnlyRequestFacts ==
  ASSUME IInv, NEW r \in Requests, NEW c, OnlyRequest(r, c)
  PROVE  /\ c \in Clients /\ socket' = socket /\ client'[r] = c /\ frame'[r] \in Frames
         /\ TypeOK /\ crashed = FALSE /\ replies[r] = << >>
         /\ phase'[r] # "new" => Refusal(frame'[r]) = "NoException"
         /\ \A q \in Requests \ { r } :
              /\ client'[q] = client[q] /\ frame'[q] = frame[q]
              /\ phase'[q] = phase[q] /\ error'[q] = error[q]
BY DEF IInv, TypeOK, OnlyRequest

(* A request that is concluded keeps the invariant.                        *)
LEMMA ConcludedIInv ==
  ASSUME IInv, NEW r \in Requests, NEW c, NEW code,
         OnlyRequest(r, c), Concluded(r, c, code)
  PROVE  IInv'
<1>1. /\ c \in Clients /\ socket' = socket /\ client'[r] = c /\ frame'[r] \in Frames
      /\ TypeOK /\ crashed' = FALSE /\ phase'[r] # "pending"
      /\ phase'[r] # "new" => Refusal(frame'[r]) = "NoException"
      /\ \A q \in Requests \ { r } :
           /\ client'[q] = client[q] /\ frame'[q] = frame[q]
           /\ phase'[q] = phase[q] /\ error'[q] = error[q]
  BY OnlyRequestFacts DEF Concluded
<1>2. /\ adu'[r] = IF SocketIsNull(c) THEN "alive" ELSE "deleted"
      /\ \A q \in Requests \ { r } : adu'[q] = adu[q] /\ replies'[q] = replies[q]
      /\ sent' \in [Clients -> Seq(Sent)]
      /\ adu' \in [Requests -> { "none", "alive", "deleted" }]
      /\ replies' \in [Requests -> Seq(ExceptionCodes)]
  BY ReplyEffects
<1>3. Len(replies'[r]) <= 1 /\ (replies'[r] # << >> => replies'[r][1] = code)
  <2>1. replies'[r] = IF socket[c] = "open" THEN << code >> ELSE << >>
    BY ReplyEffects
  <2>2. CASE socket[c] = "open"
    <3>1. replies'[r] = << code >>
      BY <2>1, <2>2
    <3>. QED
      BY <3>1
  <2>3. CASE socket[c] # "open"
    <3>1. replies'[r] = << >>
      BY <2>1, <2>3
    <3>. QED
      BY <3>1
  <2>. QED
    BY <2>2, <2>3
<1>4. TypeOK'
  <2>1. ASSUME NEW d \in Clients, NEW i \in DOMAIN sent'[d]
        PROVE  sent'[d][i].code \in ExceptionCodes
    <3>1. sent'[d] \in Seq(Sent)
      BY <1>2
    <3>2. PICK f \in Frames, e \in ExceptionCodes : sent'[d][i] = Reply(f, e)
      BY <2>1, <3>1 DEF Sent
    <3>. QED
      BY <3>2, ReplyFacts
  <2>. QED
    BY <1>1, <1>2, <2>1 DEF TypeOK, OnlyRequest
<1>5. Received' /\ Accepted'
  BY <1>1, <1>2 DEF IInv, Received, Accepted
<1>6. OneAnswer'
  BY <1>1, <1>2, <1>3 DEF IInv, OneAnswer
<1>7. RightAnswer'
  <2>1. replies'[r] # << >> =>
          (replies'[r][1] = "NoException" <=>
             phase'[r] = "completed" /\ error'[r] = "NoError" /\ Refusal(frame'[r]) = "NoException")
    BY <1>3 DEF Concluded
  <2>2. ASSUME NEW q \in Requests \ { r }, replies'[q] # << >>
        PROVE  replies'[q][1] = "NoException" <=>
                 phase'[q] = "completed" /\ error'[q] = "NoError" /\ Refusal(frame'[q]) = "NoException"
    <3>1. /\ replies'[q] = replies[q] /\ frame'[q] = frame[q]
          /\ phase'[q] = phase[q] /\ error'[q] = error[q]
      BY <1>1, <1>2
    <3>. QED
      BY <2>2, <3>1 DEF IInv, RightAnswer
  <2>. QED
    BY <2>1, <2>2 DEF RightAnswer
<1>8. AllAnswer' /\ NumbersDiffer'
  BY ReplyAnswers
<1>9. OnlyOrphansLeak'
  <2>1. ASSUME NEW q \in Requests, adu'[q] = "alive", phase'[q] # "pending"
        PROVE  socket'[client'[q]] = "deleted"
    <3>1. CASE q = r
      BY <1>1, <1>2, <2>1, <3>1 DEF SocketIsNull
    <3>2. CASE q # r
      BY <1>1, <1>2, <2>1, <3>2 DEF IInv, OnlyOrphansLeak, SocketIsNull
    <3>. QED
      BY <3>1, <3>2
  <2>. QED
    BY <2>1 DEF OnlyOrphansLeak, SocketIsNull
<1>10. CrashNeedsOrphan'
  BY <1>1 DEF CrashNeedsOrphan
<1>. QED
  BY <1>2, <1>4, <1>5, <1>6, <1>7, <1>8, <1>9, <1>10 DEF IInv

(* A request that waits: it has an ADU, and nothing is sent.               *)
LEMMA WaitsIInv ==
  ASSUME IInv, NEW r \in Requests, NEW c, OnlyRequest(r, c),
         phase'[r] = "pending", adu' = [adu EXCEPT ![r] = "alive"],
         UNCHANGED << replies, sent, crashed >>
  PROVE  IInv'
<1>1. /\ c \in Clients /\ socket' = socket /\ client'[r] = c /\ frame'[r] \in Frames
      /\ TypeOK /\ crashed' = FALSE
      /\ replies' = replies /\ sent' = sent /\ replies[r] = << >>
      /\ Refusal(frame'[r]) = "NoException"
      /\ \A q \in Requests \ { r } :
           /\ client'[q] = client[q] /\ frame'[q] = frame[q]
           /\ phase'[q] = phase[q] /\ error'[q] = error[q]
  BY OnlyRequestFacts
<1>2. /\ adu' \in [Requests -> { "none", "alive", "deleted" }] /\ adu'[r] = "alive"
      /\ \A q \in Requests \ { r } : adu'[q] = adu[q]
  BY <1>1 DEF TypeOK
<1>3. TypeOK'
  BY <1>1, <1>2 DEF TypeOK, OnlyRequest
<1>4. Received' /\ Accepted'
  BY <1>1, <1>2 DEF IInv, Received, Accepted
<1>5. OneAnswer'
  BY <1>1, <1>2 DEF IInv, OneAnswer
<1>6. RightAnswer'
  BY <1>1, <1>2 DEF IInv, RightAnswer
<1>7. AllAnswer'
  BY <1>1, StillAnswers DEF AllAnswer
<1>8. NumbersDiffer'
  BY <1>1, NumberedBefore DEF IInv, NumbersDiffer
<1>9. OnlyOrphansLeak' /\ CrashNeedsOrphan'
  BY <1>1, <1>2 DEF IInv, OnlyOrphansLeak, CrashNeedsOrphan, SocketIsNull
<1>. QED
  BY <1>1, <1>3, <1>4, <1>5, <1>6, <1>7, <1>8, <1>9 DEF IInv

(* A request whose failure follows the null pointer.                       *)
LEMMA CrashIInv ==
  ASSUME IInv, NEW r \in Requests, NEW c, OnlyRequest(r, c),
         phase'[r] = "completed", error'[r] # "NoError", SocketIsNull(c),
         crashed' = TRUE, UNCHANGED << adu, replies, sent >>
  PROVE  IInv'
<1>1. /\ c \in Clients /\ socket' = socket /\ client'[r] = c /\ frame'[r] \in Frames
      /\ TypeOK /\ adu[r] # "none"
      /\ adu' = adu /\ replies' = replies /\ sent' = sent /\ replies[r] = << >>
      /\ Refusal(frame'[r]) = "NoException"
      /\ \A q \in Requests \ { r } :
           /\ client'[q] = client[q] /\ frame'[q] = frame[q]
           /\ phase'[q] = phase[q] /\ error'[q] = error[q]
  BY OnlyRequestFacts DEF OnlyRequest, SocketIsNull
<1>2. TypeOK'
  BY <1>1 DEF TypeOK, OnlyRequest
<1>3. Received' /\ Accepted'
  BY <1>1 DEF IInv, Received, Accepted
<1>4. OneAnswer' /\ RightAnswer'
  BY <1>1 DEF IInv, OneAnswer, RightAnswer
<1>5. AllAnswer'
  BY <1>1, StillAnswers DEF AllAnswer
<1>6. NumbersDiffer'
  BY <1>1, NumberedBefore DEF IInv, NumbersDiffer
<1>7. OnlyOrphansLeak' /\ CrashNeedsOrphan'
  BY <1>1 DEF IInv, OnlyOrphansLeak, CrashNeedsOrphan, SocketIsNull
<1>. QED
  BY <1>1, <1>2, <1>3, <1>4, <1>5, <1>6, <1>7 DEF IInv

-----------------------------------------------------------------------------
(* Mappings has completed a request, with or without an error.             *)
LEMMA CompletedIInv ==
  ASSUME IInv, NEW r \in Requests, NEW c, NEW e \in Mapping!ArrivalErrors,
         OnlyRequest(r, c), phase'[r] = "completed", error'[r] = e,
         RequestCompleted(r, c, e)
  PROVE  IInv'
<1>1. CASE e # "NoError" /\ SocketIsNull(c)
  BY <1>1, CrashIInv DEF RequestCompleted
<1>2. CASE e = "NoError" \/ ~ SocketIsNull(c)
  <2>1. Concluded(r, c, GetExceptionCode(e))
    BY <1>2, ExceptionCodeFacts DEF RequestCompleted, Concluded, OnlyRequest
  <2>. QED
    BY <2>1, ConcludedIInv, ExceptionCodeFacts
<1>. QED
  BY <1>1, <1>2

(* A frame that arrives is refused, waits, or is completed at once.        *)
LEMMA ModbusRequestIInv ==
  ASSUME IInv, NEW r \in Requests, NEW c \in Clients, NEW f \in Frames,
         ModbusRequest(r, c, f)
  PROVE  IInv'
<1>1. /\ TypeOK /\ ~ crashed /\ socket[c] = "open" /\ UNCHANGED socket
      /\ adu[r] = "none" /\ phase[r] = "new" /\ replies[r] = << >>
      /\ client' = [client EXCEPT ![r] = c] /\ frame' = [frame EXCEPT ![r] = f]
  BY DEF IInv, ModbusRequest, Received, Requests
<1>2. ASSUME phase' \in [Requests -> { "new", "pending", "completed" }],
             error' \in [Requests -> Mapping!ArrivalErrors],
             phase'[r] # "new" => Refusal(f) = "NoException",
             \A q \in Requests \ { r } : phase'[q] = phase[q] /\ error'[q] = error[q]
      PROVE  OnlyRequest(r, c)
  BY <1>1, <1>2 DEF TypeOK, OnlyRequest
<1>3. CASE Refused(r, c, f)
  <2>1. OnlyRequest(r, c)
    BY <1>1, <1>2, <1>3 DEF Refused, TypeOK
  <2>2. Concluded(r, c, Refusal(f))
    BY <1>1, <1>3, RefusalFacts DEF Refused, Concluded, TypeOK
  <2>. QED
    BY <2>1, <2>2, ConcludedIInv
<1>4. CASE Forwarded(r, c, f)
  <2>1. CASE Mapping!Wait(r) /\ adu' = [adu EXCEPT ![r] = "alive"] /\ UNCHANGED << replies, sent, crashed >>
    <3>1. phase' = [phase EXCEPT ![r] = "pending"] /\ error' = error
      BY <2>1 DEF Mapping!Wait
    <3>2. OnlyRequest(r, c)
      BY <1>1, <1>2, <1>4, <3>1 DEF Forwarded, TypeOK
    <3>. QED
      BY <1>1, <2>1, <3>1, <3>2, WaitsIInv DEF TypeOK
  <2>2. ASSUME NEW e \in Mapping!ArrivalErrors,
               Mapping!CompleteAtOnce(r, e), RequestCompleted(r, c, e)
        PROVE  IInv'
    <3>1. phase' = [phase EXCEPT ![r] = "completed"] /\ error' = [error EXCEPT ![r] = e]
      BY <2>2 DEF Mapping!CompleteAtOnce, Mapping!Completed
    <3>2. OnlyRequest(r, c)
      BY <1>1, <1>2, <1>4, <3>1 DEF Forwarded, TypeOK
    <3>. QED
      BY <1>1, <2>2, <3>1, <3>2, CompletedIInv DEF TypeOK
  <2>. QED
    BY <1>4, <2>1, <2>2 DEF Forwarded
<1>. QED
  BY <1>3, <1>4 DEF ModbusRequest

(* A request that waited is completed, whatever became of its client.      *)
LEMMA WaitingCompletedIInv ==
  ASSUME IInv, NEW r \in Requests, WaitingCompleted(r)
  PROVE  IInv'
<1>1. PICK e \in Mapping!ExecutionErrors :
        Mapping!CompleteLater(r, e) /\ RequestCompleted(r, client[r], e)
  BY DEF WaitingCompleted
<1>2. e \in Mapping!ArrivalErrors
  BY DEF Mapping!ArrivalErrors
<1>3. /\ phase[r] = "pending"
      /\ phase' = [phase EXCEPT ![r] = "completed"] /\ error' = [error EXCEPT ![r] = e]
  BY <1>1 DEF Mapping!CompleteLater, Mapping!Completed
<1>4. /\ TypeOK /\ adu[r] = "alive" /\ replies[r] = << >>
      /\ client[r] \in Clients /\ frame[r] \in Frames /\ Refusal(frame[r]) = "NoException"
  BY <1>3 DEF IInv, OneAnswer, Received, Accepted
<1>5. PICK c \in Clients : c = client[r]
  BY <1>4
<1>6. OnlyRequest(r, c)
  BY <1>2, <1>3, <1>4, <1>5 DEF OnlyRequest, WaitingCompleted, TypeOK
<1>. QED
  BY <1>1, <1>2, <1>3, <1>4, <1>5, <1>6, CompletedIInv DEF TypeOK

(* The histories are about these variables only.                           *)
LEMMA SameHistory ==
  ASSUME AllAnswer, NumbersDiffer, UNCHANGED << client, frame, replies, sent >>
  PROVE  AllAnswer' /\ NumbersDiffer'
<1>1. AllAnswer'
  <2>1. ASSUME NEW c \in Clients, NEW i, NEW r \in Requests, Answers(c, i, r)
        PROVE  Answers(c, i, r)'
    BY <2>1 DEF Answers
  <2>. QED
    BY <2>1 DEF AllAnswer
<1>2. NumbersDiffer'
  <2>1. ASSUME NEW c \in Clients, Numbered(c)'
        PROVE  Numbered(c)
    BY <2>1 DEF Numbered
  <2>. QED
    BY <2>1 DEF NumbersDiffer
<1>. QED
  BY <1>1, <1>2

(* A client leaves; its socket only changes in one direction.              *)
LEMMA SocketIInv ==
  ASSUME IInv, NEW c \in Clients, Disconnected(c) \/ SocketDeleted(c)
  PROVE  IInv'
<1>1. /\ UNCHANGED << client, frame, adu, phase, error, replies, sent, crashed >>
      /\ socket' \in [Clients -> { "open", "closing", "deleted" }]
      /\ \A d \in Clients : socket[d] = "deleted" => socket'[d] = "deleted"
      /\ crashed' = FALSE
  BY DEF IInv, TypeOK, Disconnected, SocketDeleted, aduVars
<1>2. TypeOK' /\ Received' /\ Accepted' /\ OneAnswer' /\ RightAnswer'
  BY <1>1 DEF IInv, TypeOK, Received, Accepted, OneAnswer, RightAnswer
<1>3. AllAnswer' /\ NumbersDiffer'
  BY <1>1, SameHistory DEF IInv
<1>4. OnlyOrphansLeak'
  <2>1. \A r \in Requests : adu[r] = "alive" => client[r] \in Clients
    BY DEF IInv, Received
  <2>. QED
    BY <1>1, <2>1 DEF IInv, OnlyOrphansLeak, SocketIsNull
<1>5. CrashNeedsOrphan'
  BY <1>1 DEF CrashNeedsOrphan
<1>. QED
  BY <1>1, <1>2, <1>3, <1>4, <1>5 DEF IInv

(* The invariant holds always.                                             *)
THEOREM SpecIInv == Spec => []IInv
<1>1. IInv /\ UNCHANGED gatewayVars => IInv'
  <2>. SUFFICES ASSUME IInv, UNCHANGED gatewayVars PROVE IInv'
    OBVIOUS
  <2>1. UNCHANGED << socket, client, frame, adu, phase, error, replies, sent, crashed >>
    BY DEF gatewayVars, aduVars
  <2>2. TypeOK' /\ Received' /\ Accepted' /\ OneAnswer' /\ RightAnswer'
    BY <2>1 DEF IInv, TypeOK, Received, Accepted, OneAnswer, RightAnswer
  <2>3. AllAnswer' /\ NumbersDiffer'
    BY <2>1, SameHistory DEF IInv
  <2>4. OnlyOrphansLeak' /\ CrashNeedsOrphan'
    BY <2>1 DEF IInv, OnlyOrphansLeak, CrashNeedsOrphan, SocketIsNull
  <2>. QED
    BY <2>1, <2>2, <2>3, <2>4 DEF IInv
<1>2. IInv /\ [Next]_gatewayVars => IInv'
  BY <1>1, ModbusRequestIInv, WaitingCompletedIInv, SocketIInv DEF Next
<1>. QED
  BY <1>2, InitIInv, PTL DEF Spec

(* The variables keep their types.                                         *)
THEOREM TypeCorrect == Spec => []TypeOK
BY SpecIInv, PTL DEF IInv

(* No request is answered twice, and the ADU a waiting request points to   *)
(* is there.                                                               *)
THEOREM AnsweredOnce == Spec => []OneAnswer
BY SpecIInv, PTL DEF IInv

(* An answer says what became of the request.                              *)
THEOREM AnswersAreRight == Spec => []RightAnswer
BY SpecIInv, PTL DEF IInv

(* A client that numbers its requests can tell the replies apart, in       *)
(* whatever order they come.                                               *)
THEOREM RepliesAreMatched == Spec => []RepliesMatch
<1>1. IInv => RepliesMatch
  <2>. SUFFICES ASSUME IInv, NEW c \in Clients, NEW i \in DOMAIN sent[c]
                PROVE  \E r \in Requests :
                         /\ client[r] = c /\ frame[r].transID = sent[c][i].transID
                         /\ replies[r] = << sent[c][i].code >>
                         /\ sent[c][i].functionCode = frame[r].functionCode
                         /\ sent[c][i].code = "NoException" /\ frame[r].functionCode # "WriteSingleRegister"
                              => sent[c][i].registers = frame[r].quantity
    BY DEF IInv, NumbersDiffer, RepliesMatch
  <2>1. PICK r \in Requests : Answers(c, i, r)
    BY DEF IInv, AllAnswer
  <2>2. PICK code \in ExceptionCodes : code = sent[c][i].code
    BY DEF IInv, TypeOK
  <2>3. frame[r] \in Frames
    <3>1. replies[r] # << >>
      BY <2>1 DEF Answers
    <3>. QED
      BY <3>1 DEF IInv, Received
  <2>4. code = "NoException" => Refusal(frame[r]) = "NoException"
    <3>1. replies[r] = << code >> /\ replies[r] # << >> /\ replies[r][1] = code
      BY <2>1, <2>2 DEF Answers
    <3>. QED
      BY <3>1 DEF IInv, RightAnswer
  <2>5. code = "NoException" /\ frame[r].functionCode # "WriteSingleRegister"
          => sent[c][i].registers = frame[r].quantity
    BY <2>1, <2>2, <2>3, <2>4, ReplyFacts, QuantityFacts DEF Answers
  <2>. QED
    BY <2>1, <2>2, <2>5, ReplyFacts DEF Answers
<1>. QED
  BY <1>1, SpecIInv, PTL

(* Only the ADU of a request whose socket was deleted is left behind.      *)
THEOREM OnlyOrphansAreLeft == Spec => []OnlyOrphansLeak
BY SpecIInv, PTL DEF IInv

(* A null pointer is followed only for a request that waited, failed, and  *)
(* whose client's socket had been deleted.                                 *)
THEOREM CrashesAreOrphans == Spec => []CrashNeedsOrphan
BY SpecIInv, PTL DEF IInv
=============================================================================
