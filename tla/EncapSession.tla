---------------------------- MODULE EncapSession ----------------------------
(***************************************************************************)
(* Explicit messaging: client operations over pkg/session and              *)
(* pkg/transport, and the connection loop of pkg/server with the router    *)
(* and the assembly object behind it.                                      *)
(*                                                                         *)
(* A Session has one TCP connection and no lock. An operation writes a     *)
(* header and, if the packet has data, the data, in two writes, and then   *)
(* reads the first header, and its data, that come back: requests carry a  *)
(* zero sender context, and nothing else tells whose reply it is. The      *)
(* server runs a goroutine per connection; all of them get and set the     *)
(* same attribute. Sessions are those NewClient has registered.            *)
(*                                                                         *)
(* A stream is a sequence of headers and data parts. When a reader finds   *)
(* something else than the part it expects, it reads bytes of one as the   *)
(* other; what it makes of them is not modelled (it stops here).           *)
(***************************************************************************)
EXTENDS Sequences, Integers

CONSTANTS
  Users,      \* goroutines that call client operations
  Sessions,   \* *Session values, each with its TCP connection
  SessionOf,  \* the session each user has
  OpsOf,      \* the operations each user calls
  Values,     \* values of the attribute
  NoValue,    \* no result
  NoOp        \* no operation

ASSUME SessionAssumption == SessionOf \in [Users -> Sessions]
ASSUME ValueAssumption == NoValue \notin Values

\* Get or set the attribute; a set of the wrong length, which the object
\* refuses; a command the server does not know and that has no data; a request
\* longer than the server's MaxPacketSize.
Kinds == {"get", "set", "refused", "list", "oversize"}
Ops   == [kind : Kinds \ {"set"}, val : {NoValue}] \union [kind : {"set"}, val : Values]

ASSUME NoOpAssumption == NoOp \notin Ops
ASSUME OpsAssumption == OpsOf \in [Users -> SUBSET Ops]

VARIABLES
  up,         \* the TCP connection of a session is established
  toServer,   \* parts sent and not read by the server
  toClient,   \* parts sent and not read by the client
  pc,         \* where each user is in its call
  op,         \* the operation it has called, or NoOp
  result,     \* the value its last call set or got; NoValue if it failed
  spc,        \* where the server goroutine of each connection is
  request,    \* the packet it has read
  answer,     \* what the object has answered
  value,      \* the attribute
  (* History, read by no action: *)
  effect,     \* the value the user's present call has set or got at the server
  late,       \* a call that has failed while its request was on the way, or NoOp
  from        \* whose request was answered by the last reply the user took

clientVars == <<pc, op, result>>
serverVars == <<spc, request, answer>>
streams == <<up, toServer, toClient>>
histVars == <<effect, late, from>>
vars == <<streams, clientVars, serverVars, value, histVars>>

Requests == [user : Users, op : Ops]
NoRequest == [user |-> "none", op |-> NoOp]
Unregister == [user |-> "none", op |-> [kind |-> "unregister", val |-> NoValue]]
Parts   == {"header", "data"}
Answers == Values \union {"refused", "fail"}

Part(p, packet) == [part |-> p, packet |-> packet]

\* What is on the way. A reply that reports a failure has no data.
RequestPart == [part : Parts, packet : Requests \union {Unregister}]
ReplyPart ==
  [part : {"header"}, packet : [user : Users, answer : Answers]] \union
  [part : {"data"}, packet : [user : Users, answer : Answers \ {"fail"}]]

TypeOK ==
  /\ up \in [Sessions -> BOOLEAN]
  /\ toServer \in [Sessions -> Seq(RequestPart)]
  /\ toClient \in [Sessions -> Seq(ReplyPart)]
  /\ pc \in [Users -> {"idle", "sendHeader", "sendData", "recvHeader", "recvData"}]
  /\ op \in [Users -> Ops \union {NoOp}]
  /\ result \in [Users -> Values \union {NoValue}]
  /\ spc \in [Sessions -> {"header", "data", "dispatch", "reply", "closed"}]
  /\ request \in [Sessions -> Requests \union {NoRequest}]
  /\ answer \in [Sessions -> Answers \union {NoValue}]
  /\ value \in Values
  /\ effect \in [Users -> Values \union {NoValue}]
  /\ late \in [Users -> Ops \union {NoOp}]
  /\ from \in [Users -> Users]

Init ==
  /\ up = [s \in Sessions |-> TRUE]
  /\ toServer = [s \in Sessions |-> <<>>]
  /\ toClient = [s \in Sessions |-> <<>>]
  /\ pc = [u \in Users |-> "idle"]
  /\ op = [u \in Users |-> NoOp]
  /\ result = [u \in Users |-> NoValue]
  /\ spc = [s \in Sessions |-> "header"]
  /\ request = [s \in Sessions |-> NoRequest]
  /\ answer = [s \in Sessions |-> NoValue]
  /\ value \in Values
  /\ effect = [u \in Users |-> NoValue]
  /\ late = [u \in Users |-> NoOp]
  /\ from = [u \in Users |-> u]

HasData(o) == o.kind # "list"
Request(u) == [user |-> u, op |-> op[u]]

-----------------------------------------------------------------------------
(* The client: Session.SendRRData (or ListIdentity) over TCPTransport.     *)

Call(u) ==
  /\ pc[u] = "idle"
  /\ pc' = [pc EXCEPT ![u] = "sendHeader"]
  /\ \E o \in OpsOf[u] : op' = [op EXCEPT ![u] = o]
  /\ result' = [result EXCEPT ![u] = NoValue]
  /\ effect' = [effect EXCEPT ![u] = NoValue]
  /\ UNCHANGED <<streams, serverVars, value, late, from>>

Unregistered(s) == \E i \in DOMAIN toServer[s] : toServer[s][i].packet = Unregister

\* A write on a connection that is down may fail or vanish. What is written behind
\* an Unregister the server never gets to.
Send(u, part) ==
  LET s == SessionOf[u] IN
  /\ toServer' = IF up[s] /\ ~Unregistered(s)
       THEN [toServer EXCEPT ![s] = Append(@, Part(part, Request(u)))] ELSE toServer
  /\ UNCHANGED <<up, toClient, op, result, serverVars, value, histVars>>

SendHeader(u) ==
  /\ pc[u] = "sendHeader"
  /\ pc' = [pc EXCEPT ![u] = IF HasData(op[u]) THEN "sendData" ELSE "recvHeader"]
  /\ Send(u, "header")

SendData(u) ==
  /\ pc[u] = "sendData"
  /\ pc' = [pc EXCEPT ![u] = "recvHeader"]
  /\ Send(u, "data")

\* The call returns a value, or an error.
Return(u, val) ==
  /\ pc' = [pc EXCEPT ![u] = "idle"]
  /\ op' = [op EXCEPT ![u] = NoOp]
  /\ result' = [result EXCEPT ![u] = val]
  /\ effect' = [effect EXCEPT ![u] = NoValue]

\* The request of u, or a part of it, is on its way to the object.
OnTheWay(u) ==
  LET s == SessionOf[u] IN
  \/ spc[s] \in {"data", "dispatch"} /\ request[s] = Request(u)
  \/ \E i \in DOMAIN toServer[s] : toServer[s][i].packet = Request(u)

Error(u) ==
  /\ Return(u, NoValue)
  /\ late' = IF late[u] = NoOp /\ effect[u] = NoValue /\ OnTheWay(u)
               THEN [late EXCEPT ![u] = op[u]] ELSE late

\* A write or a read returns an error.
ConnectionError(u) ==
  LET s == SessionOf[u] IN
  /\ ~up[s]
  /\ \/ pc[u] \in {"sendHeader", "sendData"}
     \/ pc[u] \in {"recvHeader", "recvData"} /\ toClient[s] = <<>>
  /\ Error(u)
  /\ UNCHANGED <<streams, serverVars, value, from>>

\* The next part of the reply.
Receive(u, part) ==
  LET s == SessionOf[u] IN
  /\ toClient[s] # <<>> /\ Head(toClient[s]).part = part
  /\ toClient' = [toClient EXCEPT ![s] = Tail(@)]
  /\ from' = [from EXCEPT ![u] = Head(toClient[s]).packet.user]
  /\ UNCHANGED <<up, toServer, serverVars, value>>

\* Variant: the data of a reply stays in the stream if the answer is an error.
RecvHeaderOnly(u) ==
  LET reply == Head(toClient[SessionOf[u]]).packet IN
  /\ pc[u] = "recvHeader"
  /\ Receive(u, "header")
  /\ IF reply.answer \in {"fail", "refused"}
       THEN Error(u)
       ELSE /\ pc' = [pc EXCEPT ![u] = "recvData"]
            /\ UNCHANGED <<op, result, effect, late>>

\* A header without data, which is how the server reports a failure, ends the
\* call with an error.
RecvHeader(u) ==
  LET reply == Head(toClient[SessionOf[u]]).packet IN
  /\ pc[u] = "recvHeader"
  /\ Receive(u, "header")
  /\ IF reply.answer = "fail"
       THEN Error(u)
       ELSE /\ pc' = [pc EXCEPT ![u] = "recvData"]
            /\ UNCHANGED <<op, result, effect, late>>

\* Variant: the status of the object is not looked at.
RecvDataUnchecked(u) ==
  LET reply == Head(toClient[SessionOf[u]]).packet IN
  /\ pc[u] = "recvData"
  /\ Receive(u, "data")
  /\ Return(u, reply.answer)
  /\ UNCHANGED late

\* The data, with the status of the object.
RecvData(u) ==
  LET reply == Head(toClient[SessionOf[u]]).packet IN
  /\ pc[u] = "recvData"
  /\ Receive(u, "data")
  /\ IF reply.answer = "refused"
       THEN Error(u)
       ELSE Return(u, reply.answer) /\ UNCHANGED late

-----------------------------------------------------------------------------
(* The connection, and Client.Close.                                       *)

\* Some first part of what is on the way still arrives.
CutShort(stream, s) ==
  \E n \in 0 .. Len(stream[s]) : stream' = [stream EXCEPT ![s] = SubSeq(@, 1, n)]

\* The network or the other end breaks the connection.
Disconnect(s) ==
  /\ up[s] /\ up' = [up EXCEPT ![s] = FALSE]
  /\ CutShort(toServer, s) /\ CutShort(toClient, s)
  /\ UNCHANGED <<clientVars, serverVars, value, histVars>>

\* Client.Close, whatever calls are in progress: Session.Unregister writes a header,
CloseUnregister(s) ==
  /\ up[s] /\ ~Unregistered(s)
  /\ toServer' = [toServer EXCEPT ![s] = Append(@, Part("header", Unregister))]
  /\ UNCHANGED <<up, toClient, clientVars, serverVars, value, histVars>>

\* and Session.Close closes the transport: what the client has not read is lost, and
\* what it has sent may be. (On a connection that is down already, Client.Close
\* only loses what the break may have lost.)
CloseTransport(s) ==
  /\ up[s] /\ Unregistered(s)
  /\ up' = [up EXCEPT ![s] = FALSE]
  /\ toClient' = [toClient EXCEPT ![s] = <<>>]
  /\ CutShort(toServer, s)
  /\ UNCHANGED <<clientVars, serverVars, value, histVars>>

-----------------------------------------------------------------------------
(* The server goroutine of a connection (handleConnection).                *)

\* handleConnection returns, and its deferred conn.Close.
ServerReturns(s) ==
  /\ spc' = [spc EXCEPT ![s] = "closed"]
  /\ request' = [request EXCEPT ![s] = NoRequest]
  /\ answer' = [answer EXCEPT ![s] = NoValue]
  /\ up' = [up EXCEPT ![s] = FALSE]
  /\ CutShort(toClient, s)

Reads(s, part) ==
  /\ toServer[s] # <<>> /\ Head(toServer[s]).part = part
  /\ toServer' = [toServer EXCEPT ![s] = Tail(@)]

\* Variant: an unsupported command is skipped without an answer.
ServerHeaderSilent(s) ==
  LET packet == Head(toServer[s]).packet IN
  /\ spc[s] = "header"
  /\ Reads(s, "header")
  /\ \/ /\ packet.op.kind \in {"unregister", "oversize"}
        /\ ServerReturns(s)
     \/ /\ packet.op.kind = "list"
        /\ UNCHANGED <<up, toClient, spc, request, answer>>
     \/ /\ packet.op.kind \in {"set", "get", "refused"}
        /\ spc' = [spc EXCEPT ![s] = "data"]
        /\ request' = [request EXCEPT ![s] = packet]
        /\ UNCHANGED <<up, toClient, answer>>
  /\ UNCHANGED <<clientVars, value, histVars>>

\* A header: Unregister and an oversize packet end the connection; what comes
\* without data is a command the server does not support.
ServerHeader(s) ==
  LET packet == Head(toServer[s]).packet IN
  /\ spc[s] = "header"
  /\ Reads(s, "header")
  /\ \/ /\ packet.op.kind \in {"unregister", "oversize"}
        /\ ServerReturns(s)
     \/ /\ packet.op.kind = "list"
        /\ spc' = [spc EXCEPT ![s] = "reply"]
        /\ request' = [request EXCEPT ![s] = packet]
        /\ answer' = [answer EXCEPT ![s] = "fail"]
        /\ UNCHANGED <<up, toClient>>
     \/ /\ packet.op.kind \in {"set", "get", "refused"}
        /\ spc' = [spc EXCEPT ![s] = "data"]
        /\ request' = [request EXCEPT ![s] = packet]
        /\ UNCHANGED <<up, toClient, answer>>
  /\ UNCHANGED <<clientVars, value, histVars>>

ServerData(s) ==
  /\ spc[s] = "data"
  /\ Reads(s, "data")
  /\ spc' = [spc EXCEPT ![s] = "dispatch"]
  /\ UNCHANGED <<up, toClient, clientVars, request, answer, value, histVars>>

\* What the object does to its data; a set of the wrong length does nothing.
Handle(o) == IF o.kind = "set" THEN o.val ELSE value

\* What the router answers: the object's data, or the status of its error.
Dispatch(o) == IF o.kind = "refused" THEN "refused" ELSE Handle(o)

\* handleSendRRData: the object is found, and acts under its lock.
ServerDispatch(s) ==
  LET o == request[s].op
      u == request[s].user
  IN
  /\ spc[s] = "dispatch"
  /\ spc' = [spc EXCEPT ![s] = "reply"]
  /\ value' = Handle(o)
  /\ answer' = [answer EXCEPT ![s] = Dispatch(o)]
  /\ IF late[u] # NoOp
       THEN late' = [late EXCEPT ![u] = NoOp] /\ UNCHANGED effect
       ELSE /\ effect' = IF o.kind = "refused" THEN effect
                                               ELSE [effect EXCEPT ![u] = Handle(o)]
            /\ UNCHANGED late
  /\ UNCHANGED <<streams, clientVars, request, from>>

\* The reply: a header, with data unless it reports a failure.
ServerReply(s) ==
  LET packet == [user |-> request[s].user, answer |-> answer[s]] IN
  /\ spc[s] = "reply" /\ up[s]
  /\ spc' = [spc EXCEPT ![s] = "header"]
  /\ toClient' = [toClient EXCEPT ![s] =
       @ \o <<Part("header", packet)>>
         \o IF answer[s] = "fail" THEN <<>> ELSE <<Part("data", packet)>>]
  /\ request' = [request EXCEPT ![s] = NoRequest]
  /\ answer' = [answer EXCEPT ![s] = NoValue]
  /\ UNCHANGED <<up, toServer, clientVars, value, histVars>>

\* Variant: a reply that cannot be written is worked out again.
ServerErrorAgain(s) ==
  /\ ~up[s] /\ spc[s] = "reply"
  /\ spc' = [spc EXCEPT ![s] = "dispatch"]
  /\ UNCHANGED <<streams, clientVars, request, answer, value, histVars>>

\* A read finds the end of the stream, or the reply cannot be written. The read of
\* a request's data takes for data what it finds instead, the header of another packet.
ServerError(s) ==
  /\ ~up[s]
  /\ \/ spc[s] \in {"header", "data"} /\ toServer[s] = <<>>
     \/ spc[s] = "data" /\ toServer[s] # <<>> /\ Head(toServer[s]).part = "header"
     \/ spc[s] = "reply"
  /\ ServerReturns(s)
  /\ UNCHANGED <<toServer, clientVars, value, histVars>>

Operation(u) == SendHeader(u) \/ SendData(u) \/ ConnectionError(u)
                  \/ RecvHeader(u) \/ RecvData(u)
Server(s) == ServerHeader(s) \/ ServerData(s) \/ ServerDispatch(s)
               \/ ServerReply(s) \/ ServerError(s)

Next ==
  \/ \E u \in Users : Call(u) \/ Operation(u)
  \/ \E s \in Sessions :
       Server(s) \/ Disconnect(s) \/ CloseUnregister(s) \/ CloseTransport(s)

Spec == Init /\ [][Next]_vars

\* A call or a Close that has begun and the server's goroutines go on; none need
\* begin and no connection break.
FairSpec ==
  /\ Spec
  /\ \A u \in Users : WF_vars(Operation(u))
  /\ \A s \in Sessions : WF_vars(Server(s)) /\ WF_vars(CloseTransport(s))

-----------------------------------------------------------------------------
(* Properties.                                                             *)

\* A user never takes a part of one packet for another: it finds at the head of the
\* stream the part it waits for, which answers the call it is in. The server finds
\* a header where it expects one, and after it the data of that request, unless
\* Client.Close has come between the two writes: then it finds an Unregister.
InFrame ==
  /\ \A s \in Sessions : toServer[s] # <<>> =>
       LET next == Head(toServer[s]) IN
       /\ spc[s] = "header" => next.part = "header"
       /\ spc[s] = "data" => next \in {Part("data", request[s]), Part("header", Unregister)}
  /\ \A u \in Users : toClient[SessionOf[u]] # <<>> =>
       LET next == Head(toClient[SessionOf[u]]) IN
       /\ pc[u] \in {"recvHeader", "recvData"}
       /\ next.part = IF pc[u] = "recvHeader" THEN "header" ELSE "data"
       /\ next.packet.user = u

\* Gets and sets through any number of sessions act on one atomic attribute, and
\* each takes effect at most once; only one that has failed may do so late.
Attribute == INSTANCE AttributeService WITH call <- op
AttributeSpec == Attribute!Spec

\* A call returns: the server answers every request or closes the connection.
CallReturns == \A u \in Users : pc[u] # "idle" ~> pc[u] = "idle"

\* docs/tag_monitor.md:3-5: a monitor reads one or more tags through one client,
\* which its subscriptions do concurrently. What a read returns is the answer to
\* that read.
OwnReply == \A u \in Users : result[u] # NoValue => from[u] = u
=============================================================================
