------------------------- MODULE EncapSessionProofs -------------------------
(***************************************************************************)
(* Proofs about EncapSession, for any number of users and sessions.        *)
(***************************************************************************)
EXTENDS EncapSession, SequenceTheorems, TLAPS

-----------------------------------------------------------------------------
(* The invariant.                                                          *)

\* What the server holds while it works on a request, and what a reply holds.
HeldInv ==
  \A s \in Sessions :
    /\ spc[s] \in {"data", "dispatch", "reply"} => request[s] \in Requests
    /\ spc[s] = "reply" => answer[s] \in Answers
CalledInv == \A u \in Users : pc[u] # "idle" => op[u] \in Ops

TypeInv == TypeOK /\ HeldInv /\ CalledInv

-----------------------------------------------------------------------------
(* What the operators keep within their types.                             *)

\* The object answers an operation of a user with a value of the attribute, or
\* refuses it.
LEMMA HandleType ==
  ASSUME NEW o \in Ops, value \in Values
  PROVE  Handle(o) \in Values /\ Dispatch(o) \in Answers
<1>1. o.kind = "set" => o.val \in Values
  BY DEF Ops
<1> QED BY <1>1 DEF Handle, Dispatch, Answers

\* Only Client.Close sends a packet that is nobody's request.
LEMMA RequestKinds ==
  ASSUME NEW packet \in Requests \union {Unregister}, packet.op.kind # "unregister"
  PROVE  packet \in Requests
BY DEF Unregister

\* What arrives of a stream that is cut short.
LEMMA FirstPart ==
  ASSUME NEW S, NEW stream \in Seq(S), NEW n \in 0 .. Len(stream)
  PROVE  /\ SubSeq(stream, 1, n) \in Seq(S)
         /\ Len(SubSeq(stream, 1, n)) = n
         /\ \A i \in 1 .. n : SubSeq(stream, 1, n)[i] = stream[i]
<1>1. Len(stream) \in Nat /\ n \in Int
  BY LenProperties
<1>2. \A i \in 1 .. n : stream[i] \in S
  BY <1>1, ElementOfSeq
<1>3. /\ SubSeq(stream, 1, n) \in Seq(S)
      /\ Len(SubSeq(stream, 1, n)) = IF 1 <= n THEN n - 1 + 1 ELSE 0
      /\ \A i \in 1 .. n - 1 + 1 : SubSeq(stream, 1, n)[i] = stream[1 + i - 1]
  BY <1>1, <1>2, SubSeqProperties
<1> QED BY <1>1, <1>3

\* A stream that is cut short holds parts of the same kind.
LEMMA CutShortType ==
  ASSUME NEW S, NEW stream \in [Sessions -> Seq(S)], NEW s \in Sessions,
         NEW n \in 0 .. Len(stream[s])
  PROVE  [stream EXCEPT ![s] = SubSeq(@, 1, n)] \in [Sessions -> Seq(S)]
<1>1. stream[s] \in Seq(S)
  OBVIOUS
<1>2. SubSeq(stream[s], 1, n) \in Seq(S)
  BY <1>1, FirstPart
<1> QED BY <1>2

\* And so does one whose head is taken.
LEMMA TailType ==
  ASSUME NEW S, NEW stream \in [Sessions -> Seq(S)], NEW s \in Sessions, stream[s] # <<>>
  PROVE  /\ Head(stream[s]) \in S
         /\ [stream EXCEPT ![s] = Tail(@)] \in [Sessions -> Seq(S)]
<1>1. stream[s] \in Seq(S)
  OBVIOUS
<1>2. Head(stream[s]) \in S /\ Tail(stream[s]) \in Seq(S)
  BY <1>1, HeadTailProperties
<1> QED BY <1>2

\* Or that gets one part more.
LEMMA AppendType ==
  ASSUME NEW S, NEW stream \in [Sessions -> Seq(S)], NEW s \in Sessions, NEW e \in S
  PROVE  [stream EXCEPT ![s] = Append(@, e)] \in [Sessions -> Seq(S)]
<1>1. Append(stream[s], e) \in Seq(S)
  BY AppendProperties
<1> QED BY <1>1

-----------------------------------------------------------------------------
(* The invariant is inductive.                                             *)

\* The invariant holds of the types at first.
LEMMA TypeInit == Init => TypeInv
<1> SUFFICES ASSUME Init PROVE TypeInv
  OBVIOUS
<1>1. \A S : <<>> \in Seq(S)
  BY EmptySeq
<1>2. toServer \in [Sessions -> Seq(RequestPart)] /\ toClient \in [Sessions -> Seq(ReplyPart)]
  BY <1>1 DEF Init
<1>3. TypeOK
  BY <1>2 DEF Init, TypeOK
<1>4. HeldInv /\ CalledInv
  BY DEF Init, HeldInv, CalledInv
<1> QED BY <1>3, <1>4 DEF TypeInv

\* The steps of a user.
LEMMA TypeClient ==
  ASSUME TypeInv, NEW u \in Users, Call(u) \/ Operation(u)
  PROVE  TypeInv'
<1> DEFINE s == SessionOf[u]
<1>1. s \in Sessions
  BY SessionAssumption
<1>3. CASE Call(u)
  <2>1. PICK o \in OpsOf[u] : op' = [op EXCEPT ![u] = o]
    BY <1>3 DEF Call
  <2>2. o \in Ops
    BY <2>1, OpsAssumption
  <2> QED BY <1>3, <2>1, <2>2
          DEF TypeInv, TypeOK, HeldInv, CalledInv, Call, streams, serverVars
<1>4. ASSUME NEW part \in Parts, Send(u, part), pc[u] # "idle",
             NEW next \in {"sendData", "recvHeader"}, pc' = [pc EXCEPT ![u] = next]
      PROVE  TypeInv'
  <2>1. Part(part, Request(u)) \in RequestPart
    BY <1>4 DEF TypeInv, CalledInv, Part, Request, RequestPart, Requests
  <2>2. toServer' \in [Sessions -> Seq(RequestPart)]
    BY <1>1, <1>4, <2>1, AppendType DEF TypeInv, TypeOK, Send
  <2> QED BY <1>4, <2>2 DEF TypeInv, TypeOK, HeldInv, CalledInv, Send, serverVars, histVars
<1>5. CASE SendHeader(u)
  <2>1. "header" \in Parts /\ pc[u] # "idle" /\ Send(u, "header")
    BY <1>5 DEF SendHeader, Parts
  <2>2. CASE HasData(op[u])
    <3>1. pc' = [pc EXCEPT ![u] = "sendData"]
      BY <1>5, <2>2 DEF SendHeader
    <3> QED BY <1>4, <2>1, <3>1
  <2>3. CASE ~HasData(op[u])
    <3>1. pc' = [pc EXCEPT ![u] = "recvHeader"]
      BY <1>5, <2>3 DEF SendHeader
    <3> QED BY <1>4, <2>1, <3>1
  <2> QED BY <2>2, <2>3
<1>6. CASE SendData(u)
  <2>1. /\ "data" \in Parts /\ pc[u] # "idle" /\ Send(u, "data")
        /\ pc' = [pc EXCEPT ![u] = "recvHeader"]
    BY <1>6 DEF SendData, Parts
  <2> QED BY <1>4, <2>1
<1>7. ASSUME Error(u), pc[u] # "idle",
             toClient' \in [Sessions -> Seq(ReplyPart)], from' \in [Users -> Users],
             UNCHANGED <<up, toServer, serverVars, value>>
      PROVE  TypeInv'
  <2>1. op[u] \in Ops
    BY <1>7 DEF TypeInv, CalledInv
  <2>2. late' \in [Users -> Ops \union {NoOp}]
    BY <1>7, <2>1, Zenon DEF Error, TypeInv, TypeOK
  <2> QED BY <1>7, <2>2 DEF Error, Return, TypeInv, TypeOK, HeldInv, CalledInv, serverVars
<1>8. CASE ConnectionError(u)
  <2>1. Error(u) /\ pc[u] # "idle" /\ UNCHANGED <<streams, serverVars, value, from>>
    BY <1>8 DEF ConnectionError
  <2> QED BY <1>7, <2>1 DEF streams, TypeInv, TypeOK
<1>9. ASSUME NEW part \in Parts, Receive(u, part)
      PROVE  /\ Head(toClient[s]) \in ReplyPart /\ Head(toClient[s]).part = part
             /\ toClient' \in [Sessions -> Seq(ReplyPart)]
             /\ from' \in [Users -> Users]
             /\ UNCHANGED <<up, toServer, serverVars, value>>
  <2>1. /\ toClient \in [Sessions -> Seq(ReplyPart)] /\ toClient[s] # <<>>
        /\ from \in [Users -> Users] /\ Head(toClient[s]).part = part
        /\ toClient' = [toClient EXCEPT ![s] = Tail(@)]
        /\ from' = [from EXCEPT ![u] = Head(toClient[s]).packet.user]
        /\ UNCHANGED <<up, toServer, serverVars, value>>
    BY <1>9 DEF TypeInv, TypeOK, Receive
  <2>2. Head(toClient[s]) \in ReplyPart /\ toClient' \in [Sessions -> Seq(ReplyPart)]
    BY <1>1, <2>1, TailType
  <2>3. Head(toClient[s]).packet.user \in Users
    BY <2>2 DEF ReplyPart
  <2> QED BY <2>1, <2>2, <2>3
<1>10. CASE RecvHeader(u)
  <2>1. Receive(u, "header") /\ "header" \in Parts /\ pc[u] # "idle"
    BY <1>10 DEF RecvHeader, Parts
  <2>2. CASE Error(u)
    BY <1>7, <1>9, <2>1, <2>2
  <2>3. CASE ~Error(u)
    <3>1. pc' = [pc EXCEPT ![u] = "recvData"] /\ UNCHANGED <<op, result, effect, late>>
      BY <1>10, <2>3 DEF RecvHeader
    <3> QED BY <1>9, <2>1, <3>1 DEF TypeInv, TypeOK, HeldInv, CalledInv, serverVars
  <2> QED BY <2>2, <2>3
<1>11. CASE RecvData(u)
  <2>1. Receive(u, "data") /\ "data" \in Parts /\ pc[u] # "idle"
    BY <1>11 DEF RecvData, Parts
  <2>2. CASE Error(u)
    BY <1>7, <1>9, <2>1, <2>2
  <2>3. CASE ~Error(u)
    <3> DEFINE reply == Head(toClient[s]).packet
    <3>1. reply.answer # "refused" /\ Return(u, reply.answer) /\ UNCHANGED late
      BY <1>11, <2>3 DEF RecvData
    <3>2. reply.answer \in Values
      BY <1>9, <2>1, <3>1 DEF ReplyPart, Answers
    <3> QED BY <1>9, <2>1, <3>1, <3>2
            DEF Return, TypeInv, TypeOK, HeldInv, CalledInv, serverVars
  <2> QED BY <2>2, <2>3
<1> QED BY <1>3, <1>5, <1>6, <1>8, <1>10, <1>11 DEF Operation

\* The steps of a server's goroutine, and of the connection.
LEMMA TypeServer ==
  ASSUME TypeInv, NEW s \in Sessions,
         Server(s) \/ Disconnect(s) \/ CloseUnregister(s) \/ CloseTransport(s)
  PROVE  TypeInv'
<1>1. /\ toServer \in [Sessions -> Seq(RequestPart)]
      /\ toClient \in [Sessions -> Seq(ReplyPart)]
  BY DEF TypeInv, TypeOK
<1>2. CutShort(toServer, s) => toServer' \in [Sessions -> Seq(RequestPart)]
  BY <1>1, CutShortType DEF CutShort
<1>3. CutShort(toClient, s) => toClient' \in [Sessions -> Seq(ReplyPart)]
  BY <1>1, CutShortType DEF CutShort
<1>4. CASE Disconnect(s)
  BY <1>2, <1>3, <1>4
     DEF Disconnect, clientVars, serverVars, histVars, TypeInv, TypeOK, HeldInv, CalledInv
<1>5. CASE CloseUnregister(s)
  <2>1. Part("header", Unregister) \in RequestPart
    BY DEF Part, RequestPart, Parts
  <2>2. toServer' \in [Sessions -> Seq(RequestPart)]
    BY <1>1, <1>5, <2>1, AppendType DEF CloseUnregister
  <2> QED BY <1>5, <2>2 DEF CloseUnregister, clientVars, serverVars, histVars,
                            TypeInv, TypeOK, HeldInv, CalledInv
<1>13. CASE CloseTransport(s)
  <2>1. toClient' \in [Sessions -> Seq(ReplyPart)]
    BY <1>1, <1>13, EmptySeq DEF CloseTransport
  <2> QED BY <1>2, <1>13, <2>1 DEF CloseTransport, clientVars, serverVars, histVars,
                                   TypeInv, TypeOK, HeldInv, CalledInv
<1>6. ASSUME ServerReturns(s), toServer' \in [Sessions -> Seq(RequestPart)],
             UNCHANGED <<clientVars, value, histVars>>
      PROVE  TypeInv'
  BY <1>3, <1>6
     DEF ServerReturns, clientVars, histVars, TypeInv, TypeOK, HeldInv, CalledInv
<1>7. ASSUME NEW part \in Parts, Reads(s, part)
      PROVE  /\ Head(toServer[s]) \in RequestPart
             /\ toServer' \in [Sessions -> Seq(RequestPart)]
  BY <1>1, <1>7, TailType DEF Reads
<1>8. CASE ServerHeader(s)
  <2> DEFINE packet == Head(toServer[s]).packet
  <2>1. Reads(s, "header") /\ "header" \in Parts /\ UNCHANGED <<clientVars, value, histVars>>
    BY <1>8 DEF ServerHeader, Parts
  <2>2. /\ packet \in Requests \union {Unregister}
        /\ toServer' \in [Sessions -> Seq(RequestPart)]
    BY <1>7, <2>1 DEF RequestPart
  <2>3. CASE ServerReturns(s)
    BY <1>6, <2>1, <2>2, <2>3
  <2>4. ASSUME packet.op.kind \in Kinds, request' = [request EXCEPT ![s] = packet],
               \/ /\ spc' = [spc EXCEPT ![s] = "reply"]
                  /\ answer' = [answer EXCEPT ![s] = "fail"]
               \/ spc' = [spc EXCEPT ![s] = "data"] /\ UNCHANGED answer,
               UNCHANGED <<up, toClient>>
        PROVE  TypeInv'
    <3>1. packet \in Requests
      BY <2>2, <2>4, RequestKinds DEF Kinds
    <3>2. /\ request' \in [Sessions -> Requests \union {NoRequest}]
          /\ spc' \in [Sessions -> {"header", "data", "dispatch", "reply", "closed"}]
          /\ answer' \in [Sessions -> Answers \union {NoValue}]
      BY <2>4, <3>1 DEF Answers, TypeInv, TypeOK
    <3>3. TypeOK'
      BY <2>1, <2>2, <2>4, <3>2 DEF clientVars, histVars, TypeInv, TypeOK
    <3>4. HeldInv'
      BY <2>4, <3>1 DEF Answers, TypeInv, TypeOK, HeldInv
    <3> QED BY <2>1, <3>3, <3>4 DEF clientVars, TypeInv, CalledInv
  <2>5. CASE ~ServerReturns(s)
    BY <1>8, <2>4, <2>5 DEF ServerHeader, Kinds
  <2> QED BY <2>3, <2>5
<1>9. CASE ServerData(s)
  <2>1. Reads(s, "data") /\ "data" \in Parts
    BY <1>9 DEF ServerData, Parts
  <2> QED BY <1>7, <1>9, <2>1
          DEF ServerData, clientVars, histVars, TypeInv, TypeOK, HeldInv, CalledInv
<1>10. CASE ServerDispatch(s)
  <2> DEFINE o == request[s].op
  <2>1. request[s] \in Requests /\ request[s].user \in Users /\ o \in Ops
    BY <1>10 DEF ServerDispatch, TypeInv, HeldInv, Requests
  <2>2. Handle(o) \in Values /\ Dispatch(o) \in Answers
    BY <2>1, HandleType DEF TypeInv, TypeOK
  <2>3. value' \in Values /\ answer' \in [Sessions -> Answers \union {NoValue}]
    BY <1>10, <2>2 DEF ServerDispatch, TypeInv, TypeOK
  <2>4. /\ effect' \in [Users -> Values \union {NoValue}]
        /\ late' \in [Users -> Ops \union {NoOp}]
    BY <1>10, <2>1, <2>2 DEF ServerDispatch, TypeInv, TypeOK
  <2>5. TypeOK'
    BY <1>10, <2>3, <2>4 DEF ServerDispatch, streams, clientVars, TypeInv, TypeOK
  <2>6. HeldInv' /\ CalledInv'
    BY <1>10, <2>1, <2>2
       DEF ServerDispatch, streams, clientVars, TypeInv, TypeOK, HeldInv, CalledInv
  <2> QED BY <2>5, <2>6 DEF TypeInv
<1>11. CASE ServerReply(s)
  <2> DEFINE packet == [user |-> request[s].user, answer |-> answer[s]]
             header == <<Part("header", packet)>>
             data   == IF answer[s] = "fail" THEN <<>> ELSE <<Part("data", packet)>>
  <2>1. packet.user \in Users /\ packet.answer \in Answers
    BY <1>11 DEF ServerReply, TypeInv, HeldInv, Requests
  <2>2. Part("header", packet) \in ReplyPart
    BY <2>1 DEF Part, ReplyPart
  <2>3. answer[s] # "fail" => Part("data", packet) \in ReplyPart
    BY <2>1 DEF Part, ReplyPart
  <2>4. header \in Seq(ReplyPart) /\ data \in Seq(ReplyPart)
    BY <2>2, <2>3, EmptySeq
  <2>5. toClient[s] \o header \o data \in Seq(ReplyPart)
    BY <1>1, <2>4, ConcatProperties
  <2>6. toClient' \in [Sessions -> Seq(ReplyPart)]
    BY <1>1, <1>11, <2>5 DEF ServerReply
  <2> QED BY <1>11, <2>6
          DEF ServerReply, clientVars, histVars, TypeInv, TypeOK, HeldInv, CalledInv
<1>12. CASE ServerError(s)
  BY <1>1, <1>6, <1>12 DEF ServerError
<1> QED BY <1>4, <1>5, <1>8, <1>9, <1>10, <1>11, <1>12, <1>13 DEF Server

\* And every step keeps it.
LEMMA TypeStep == TypeInv /\ [Next]_vars => TypeInv'
<1> SUFFICES ASSUME TypeInv, [Next]_vars PROVE TypeInv'
  OBVIOUS
<1>1. CASE UNCHANGED vars
  BY <1>1 DEF TypeInv, TypeOK, HeldInv, CalledInv,
              vars, streams, clientVars, serverVars, histVars
<1>2. CASE Next
  BY <1>2, TypeClient, TypeServer DEF Next
<1> QED BY <1>1, <1>2

\* In every behaviour of any number of users and sessions, with any values, the
\* state is well-typed: no call ever takes what reports a failure for the value of
\* the attribute, and the server works on nothing but requests of users.
THEOREM TypeCorrect == Spec => []TypeOK
<1>1. TypeInv => TypeOK
  BY DEF TypeInv
<1> QED BY TypeInit, TypeStep, <1>1, PTL DEF Spec

-----------------------------------------------------------------------------
(* A session that one user has stays in frame.                             *)

\* A session has one user at most.
Alone == \A u, v \in Users : SessionOf[u] = SessionOf[v] => u = v

\* What is on the way belongs to the user of the session.
RequestPartOf(s) == {p \in RequestPart : p.packet \in Requests => SessionOf[p.packet.user] = s}
ReplyPartOf(s)   == {p \in ReplyPart : SessionOf[p.packet.user] = s}

OwnAt(s) ==
  /\ toServer[s] \in Seq(RequestPartOf(s))
  /\ toClient[s] \in Seq(ReplyPartOf(s))
  /\ spc[s] \in {"data", "dispatch", "reply"} => SessionOf[request[s].user] = s

\* A stream has n parts at most, and behind them perhaps an Unregister.
AtMost(stream, n) ==
  \/ Len(stream) <= n
  \/ Len(stream) = n + 1 /\ stream[n + 1] = Part("header", Unregister)

\* The requests on the way are one packet or a first part of it: a header, and its
\* data; or the data of the request the server is at.
RequestFirst(stream) ==
  \/ AtMost(stream, 0)
  \/ Len(stream) >= 1 /\ stream[1].part = "header" /\ AtMost(stream, 1)
  \/ /\ Len(stream) >= 2 /\ stream[1].part = "header" /\ AtMost(stream, 2)
     /\ stream[2] = Part("data", stream[1].packet) /\ HasData(stream[1].packet.op)

DataFirst(stream, packet) ==
  \/ AtMost(stream, 0)
  \/ Len(stream) >= 1 /\ stream[1] = Part("data", packet) /\ AtMost(stream, 1)

ServerAt(s) ==
  /\ spc[s] = "header" => RequestFirst(toServer[s])
  /\ spc[s] = "data" => DataFirst(toServer[s], request[s])
  /\ spc[s] \in {"dispatch", "reply"} => AtMost(toServer[s], 0)
  /\ spc[s] = "closed" => ~up[s]

\* So is the reply the user waits for.
Packet(stream) ==
  /\ Len(stream) <= 2
  /\ Len(stream) >= 1 => stream[1].part = "header"
  /\ Len(stream) = 2 => stream[2] = Part("data", stream[1].packet)

Rest(stream) == Len(stream) <= 1 /\ (Len(stream) = 1 => stream[1].part = "data")

ClientAt(s, u) ==
  /\ pc[u] = "recvHeader" => Packet(toClient[s])
  /\ pc[u] = "recvData" => Rest(toClient[s])
  /\ pc[u] \in {"idle", "sendHeader", "sendData"} => Len(toClient[s]) = 0
  /\ pc[u] = "sendData" => HasData(op[u])

\* While the connection is up, user and server take turns.
Quiet(s) == AtMost(toServer[s], 0) /\ Len(toClient[s]) = 0 /\ spc[s] = "header"

HalfSent(s, u) ==
  \/ /\ spc[s] = "header" /\ Len(toServer[s]) >= 1 /\ AtMost(toServer[s], 1)
     /\ toServer[s][1] = Part("header", Request(u))
  \/ spc[s] = "data" /\ AtMost(toServer[s], 0) /\ request[s] = Request(u)
  \/ spc[s] = "header" /\ AtMost(toServer[s], 0) /\ Unregistered(s)

TurnAt(s, u) ==
  /\ pc[u] = "sendData" => HalfSent(s, u)
  /\ pc[u] = "recvHeader" =>
       Len(toClient[s]) = 0 \/ (AtMost(toServer[s], 0) /\ spc[s] = "header")
  /\ pc[u] = "recvData" => AtMost(toServer[s], 0) /\ spc[s] = "header"

UserOf(s) == {u \in Users : SessionOf[u] = s}

FrameAt(s) ==
  /\ OwnAt(s) /\ ServerAt(s)
  /\ \A u \in UserOf(s) : ClientAt(s, u)
  /\ up[s] => /\ (\A u \in UserOf(s) : pc[u] \in {"idle", "sendHeader"}) => Quiet(s)
              /\ \A u \in UserOf(s) : TurnAt(s, u)

FrameInv == \A s \in Sessions : FrameAt(s)

\* Reading a stream of packets: its first part, and what is left.
LEMMA ReadPart ==
  ASSUME NEW S, NEW stream \in Seq(S), stream # <<>>
  PROVE  /\ Head(stream) = stream[1] /\ Head(stream) \in S
         /\ Len(stream) \in Nat \ {0}
         /\ Tail(stream) \in Seq(S) /\ Len(Tail(stream)) = Len(stream) - 1
         /\ Len(stream) = 2 => Tail(stream)[1] = stream[2]
<1>1. Len(stream) \in Nat \ {0}
  BY EmptySeq
<1>2. /\ Head(stream) \in S /\ Tail(stream) \in Seq(S)
      /\ Len(Tail(stream)) = Len(stream) - 1
      /\ \A i \in 1 .. Len(Tail(stream)) : Tail(stream)[i] = stream[i + 1]
  BY HeadTailProperties
<1>3. Head(stream) = stream[1]
  OBVIOUS
<1> QED BY <1>1, <1>2, <1>3

\* The first part of a packet, or of the rest of one.
LEMMA FirstOfPacket ==
  ASSUME NEW stream, NEW cut, Len(stream) \in Nat, Len(cut) \in Nat, Len(cut) <= Len(stream),
         \A i \in 1 .. Len(cut) : cut[i] = stream[i]
  PROVE  /\ Packet(stream) => Packet(cut)
         /\ Rest(stream) => Rest(cut)
<1>1. Len(cut) >= 1 => cut[1] = stream[1]
  OBVIOUS
<1>2. Len(cut) = 2 => cut[2] = stream[2]
  OBVIOUS
<1> QED BY <1>1, <1>2 DEF Packet, Rest

\* The same of requests, with an Unregister behind them or not.
LEMMA FirstOfRequest ==
  ASSUME NEW stream, NEW cut, Len(stream) \in Nat, Len(cut) \in Nat, Len(cut) <= Len(stream),
         \A i \in 1 .. Len(cut) : cut[i] = stream[i]
  PROVE  /\ \A n \in Nat : AtMost(stream, n) => AtMost(cut, n)
         /\ RequestFirst(stream) => RequestFirst(cut)
         /\ \A packet : DataFirst(stream, packet) => DataFirst(cut, packet)
<1>1. ASSUME NEW n \in Nat, AtMost(stream, n) PROVE AtMost(cut, n)
  BY <1>1 DEF AtMost
<1>2. Len(cut) >= 1 => cut[1] = stream[1]
  OBVIOUS
<1>3. Len(cut) >= 2 => cut[2] = stream[2]
  OBVIOUS
<1>4. /\ Len(cut) >= 1 \/ AtMost(cut, 0)
      /\ Len(cut) >= 2 \/ AtMost(cut, 1)
  BY DEF AtMost
<1>5. RequestFirst(stream) => RequestFirst(cut)
  BY <1>1, <1>2, <1>3, <1>4 DEF RequestFirst
<1>6. \A packet : DataFirst(stream, packet) => DataFirst(cut, packet)
  BY <1>1, <1>2, <1>4 DEF DataFirst
<1> QED BY <1>1, <1>5, <1>6

\* An Unregister behind requests that had none.
LEMMA WithUnregister ==
  ASSUME NEW S, NEW stream \in Seq(S), NEW longer, Part("header", Unregister) \in S,
         longer = Append(stream, Part("header", Unregister)),
         \A i \in DOMAIN stream : stream[i].packet # Unregister
  PROVE  /\ longer \in Seq(S) /\ Len(longer) = Len(stream) + 1
         /\ Len(stream) >= 1 => longer[1] = stream[1]
         /\ \A n \in Nat : AtMost(stream, n) => AtMost(longer, n)
         /\ RequestFirst(stream) => RequestFirst(longer)
         /\ \A packet : DataFirst(stream, packet) => DataFirst(longer, packet)
<1>1. /\ longer \in Seq(S) /\ Len(longer) = Len(stream) + 1
      /\ \A i \in 1 .. Len(stream) : longer[i] = stream[i]
      /\ longer[Len(stream) + 1] = Part("header", Unregister)
  BY AppendProperties
<1>2. Len(stream) \in Nat /\ DOMAIN stream = 1 .. Len(stream)
  BY LenProperties
<1>3. ASSUME NEW n \in Nat, AtMost(stream, n) PROVE AtMost(longer, n)
  <2>1. Len(stream) <= n
    <3>1. ASSUME Len(stream) = n + 1 PROVE stream[n + 1] # Part("header", Unregister)
      <4>1. n + 1 \in DOMAIN stream
        BY <1>2, <3>1
      <4>2. stream[n + 1].packet # Unregister
        BY <4>1
      <4> QED BY <4>2 DEF Part
    <3> QED BY <1>3, <3>1 DEF AtMost
  <2>2. \A k \in Nat : k <= n => k + 1 <= n \/ k + 1 = n + 1
    OBVIOUS
  <2> QED BY <1>1, <1>2, <2>1, <2>2 DEF AtMost
<1>4. /\ Len(stream) >= 1 => longer[1] = stream[1] /\ Len(longer) >= 1
      /\ Len(stream) >= 2 => longer[2] = stream[2] /\ Len(longer) >= 2
  BY <1>1, <1>2
<1>5. RequestFirst(stream) => RequestFirst(longer)
  BY <1>3, <1>4 DEF RequestFirst
<1>6. \A packet : DataFirst(stream, packet) => DataFirst(longer, packet)
  BY <1>3, <1>4 DEF DataFirst
<1> QED BY <1>1, <1>3, <1>4, <1>5, <1>6

\* What is left of the requests when a part is read.
LEMMA RestOfRequest ==
  ASSUME NEW S, NEW stream \in Seq(S), stream # <<>>
  PROVE  /\ AtMost(stream, 1) => AtMost(Tail(stream), 0)
         /\ RequestFirst(stream) /\ stream[1].packet # Unregister =>
              DataFirst(Tail(stream), stream[1].packet)
         /\ RequestFirst(stream) /\ stream[1].packet # Unregister
              /\ ~HasData(stream[1].packet.op) => AtMost(Tail(stream), 0)
         /\ \A packet : DataFirst(stream, packet) /\ stream[1].part = "data" =>
              AtMost(Tail(stream), 0)
<1>1. Len(stream) \in Nat \ {0} /\ Len(Tail(stream)) = Len(stream) - 1
  BY ReadPart
<1>2. \A i \in 1 .. Len(stream) - 1 : Tail(stream)[i] = stream[i + 1]
  BY <1>1, HeadTailProperties
<1>3. ASSUME NEW n \in {0, 1}, AtMost(stream, n + 1) PROVE AtMost(Tail(stream), n)
  <2>1. CASE Len(stream) <= n + 1
    <3>1. \A k \in Nat \ {0} : k <= n + 1 => k - 1 <= n
      OBVIOUS
    <3> QED BY <1>1, <2>1, <3>1 DEF AtMost
  <2>2. CASE Len(stream) = n + 2 /\ stream[n + 2] = Part("header", Unregister)
    <3>1. Tail(stream)[n + 1] = stream[n + 2]
      BY <1>1, <1>2, <2>2
    <3> QED BY <1>1, <2>2, <3>1 DEF AtMost
  <2> QED BY <1>3, <2>1, <2>2 DEF AtMost
<1>4. /\ AtMost(stream, 1) => AtMost(Tail(stream), 0)
      /\ AtMost(stream, 2) => AtMost(Tail(stream), 1)
  BY <1>3
<1>5. AtMost(stream, 0) => stream[1] = Part("header", Unregister)
  BY <1>1 DEF AtMost
<1>6. Len(stream) >= 2 => Tail(stream)[1] = stream[2] /\ Len(Tail(stream)) >= 1
  BY <1>1, <1>2
<1>7. Part("header", Unregister).packet = Unregister /\ Part("header", Unregister).part = "header"
  BY DEF Part
<1>8. RequestFirst(stream) /\ stream[1].packet # Unregister =>
        DataFirst(Tail(stream), stream[1].packet)
  BY <1>4, <1>5, <1>6, <1>7 DEF RequestFirst, DataFirst
<1>9. RequestFirst(stream) /\ stream[1].packet # Unregister
        /\ ~HasData(stream[1].packet.op) => AtMost(Tail(stream), 0)
  BY <1>4, <1>5, <1>7 DEF RequestFirst
<1>10. \A packet : DataFirst(stream, packet) /\ stream[1].part = "data" =>
         AtMost(Tail(stream), 0)
  BY <1>4, <1>5, <1>7 DEF DataFirst
<1> QED BY <1>4, <1>8, <1>9, <1>10

\* A session on which nothing happens stays in frame.
LEMMA Elsewhere ==
  ASSUME NEW s \in Sessions, FrameAt(s),
         up'[s] = up[s], toServer'[s] = toServer[s], toClient'[s] = toClient[s],
         spc'[s] = spc[s], request'[s] = request[s],
         \A u \in UserOf(s) : pc'[u] = pc[u] /\ op'[u] = op[u]
  PROVE  FrameAt(s)'
BY DEF FrameAt, OwnAt, RequestPartOf, ReplyPartOf, ServerAt, ClientAt, TurnAt, Quiet, HalfSent,
       Unregistered, Request, UserOf

\* What is to show about a session, and about the session of a user who has it alone.
LEMMA OneUser ==
  ASSUME Alone, NEW u \in Users, NEW s, s = SessionOf[u]
  PROVE  /\ u \in UserOf(s)
         /\ \A t \in Sessions \ {s} : u \notin UserOf(t)
         /\ (OwnAt(s) /\ ServerAt(s) /\ ClientAt(s, u)
              /\ (up[s] => (pc[u] \in {"idle", "sendHeader"} => Quiet(s)) /\ TurnAt(s, u)))'
            => FrameAt(s)'
<1>1. UserOf(s) = {u}
  BY DEF Alone, UserOf
<1>2. UserOf(s)' = {u}
  BY DEF Alone, UserOf
<1>3. \A t \in Sessions \ {s} : u \notin UserOf(t)
  BY DEF UserOf
<1> QED BY <1>1, <1>2, <1>3 DEF FrameAt

\* A user calls an operation, and sends its request.
LEMMA FrameSend ==
  ASSUME Alone, TypeInv, FrameInv, NEW u \in Users, Call(u) \/ SendHeader(u) \/ SendData(u)
  PROVE  FrameInv'
<1> DEFINE s == SessionOf[u]
<1>1. s \in Sessions /\ FrameAt(s) /\ u \in UserOf(s)
  BY SessionAssumption, OneUser DEF FrameInv
<1>2. /\ toServer[s] \in Seq(RequestPart) /\ Len(toServer[s]) \in Nat
      /\ toServer \in [Sessions -> Seq(RequestPart)] /\ DOMAIN pc = Users
      /\ toClient[s] \in Seq(ReplyPart) /\ Len(toClient[s]) \in Nat
  <2>1. /\ toServer[s] \in Seq(RequestPart) /\ toClient[s] \in Seq(ReplyPart)
        /\ toServer \in [Sessions -> Seq(RequestPart)] /\ DOMAIN pc = Users
    BY <1>1 DEF TypeInv, TypeOK
  <2> QED BY <2>1, LenProperties
<1>3. UNCHANGED <<up, toClient, spc, request>>
  BY DEF Call, SendHeader, SendData, Send, streams, serverVars
<1>4. ASSUME NEW t \in Sessions \ {s} PROVE FrameAt(t)'
  <2>1. toServer'[t] = toServer[t]
    BY <1>1, <1>2 DEF Call, SendHeader, SendData, Send, streams
  <2>2. \A v \in UserOf(t) : pc'[v] = pc[v] /\ op'[v] = op[v]
    BY OneUser DEF Call, SendHeader, SendData, Send, UserOf, TypeInv, TypeOK
  <2> QED BY <1>3, <2>1, <2>2, Elsewhere DEF FrameInv
<1>5. /\ OwnAt(s) /\ ServerAt(s) /\ ClientAt(s, u)
      /\ up[s] => TurnAt(s, u)
  BY <1>1 DEF FrameAt
<1>6. CASE Call(u)
  <2>1. /\ pc[u] = "idle" /\ pc'[u] = "sendHeader" /\ toServer' = toServer
    BY <1>2, <1>6 DEF Call, streams
  <2>2. up[s] => Quiet(s)
    BY <1>1, <2>1, OneUser DEF FrameAt, Alone, UserOf
  <2>3. OwnAt(s)' /\ ServerAt(s)' /\ (up[s] => Quiet(s))'
    BY <1>3, <1>5, <2>1, <2>2 DEF OwnAt, RequestPartOf, ReplyPartOf, ServerAt, Quiet
  <2>4. ClientAt(s, u)' /\ TurnAt(s, u)'
    BY <1>3, <1>5, <2>1 DEF ClientAt, TurnAt
  <2> QED BY <1>1, <1>4, <2>3, <2>4, OneUser DEF FrameInv
<1> DEFINE heard == up[s] /\ ~Unregistered(s)
<1>7. ASSUME NEW part \in Parts, Send(u, part), pc[u] # "idle", heard
      PROVE  /\ OwnAt(s)' /\ Len(toServer'[s]) = Len(toServer[s]) + 1
             /\ \A i \in 1 .. Len(toServer[s]) : toServer'[s][i] = toServer[s][i]
             /\ toServer'[s][Len(toServer[s]) + 1] = Part(part, Request(u))
             /\ \A n \in Nat : AtMost(toServer[s], n) => Len(toServer[s]) <= n
  <2>1. Part(part, Request(u)) \in RequestPartOf(s)
    BY <1>7 DEF TypeInv, CalledInv, Part, Request, RequestPart, Requests, RequestPartOf
  <2>2. toServer[s] \in Seq(RequestPartOf(s)) /\ toServer'[s] = Append(toServer[s], Part(part, Request(u)))
    BY <1>1, <1>2, <1>5, <1>7 DEF OwnAt, Send
  <2>3. /\ toServer'[s] \in Seq(RequestPartOf(s))
        /\ Len(toServer'[s]) = Len(toServer[s]) + 1
        /\ \A i \in 1 .. Len(toServer[s]) : toServer'[s][i] = toServer[s][i]
        /\ toServer'[s][Len(toServer[s]) + 1] = Part(part, Request(u))
    BY <2>1, <2>2, AppendProperties
  <2>4. RequestPartOf(s)' = RequestPartOf(s) /\ ReplyPartOf(s)' = ReplyPartOf(s)
    BY DEF RequestPartOf, ReplyPartOf
  <2>5. ASSUME NEW n \in Nat, AtMost(toServer[s], n) PROVE Len(toServer[s]) <= n
    <3>1. toServer[s][n + 1] = Part("header", Unregister) => Len(toServer[s]) # n + 1
      BY <1>2, <1>7 DEF Unregistered, Part
    <3> QED BY <2>5, <3>1 DEF AtMost
  <2> QED BY <1>3, <1>5, <2>3, <2>4, <2>5 DEF OwnAt
<1>8. ASSUME NEW part \in Parts, Send(u, part), ~heard
      PROVE  /\ OwnAt(s)' /\ ServerAt(s)' /\ up'[s] = up[s]
             /\ toServer'[s] = toServer[s] /\ toClient'[s] = toClient[s]
             /\ up[s] => Unregistered(s) /\ Unregistered(s)'
  BY <1>3, <1>5, <1>8 DEF Send, OwnAt, RequestPartOf, ReplyPartOf, ServerAt, Unregistered
<1>9. "header" \in Parts /\ "data" \in Parts
  BY DEF Parts
<1>10. CASE SendHeader(u)
  <2>1. /\ pc[u] = "sendHeader" /\ Send(u, "header") /\ op'[u] = op[u]
        /\ pc'[u] = IF HasData(op[u]) THEN "sendData" ELSE "recvHeader"
    BY <1>2, <1>10 DEF SendHeader, Send
  <2>2. Len(toClient[s]) = 0
    BY <1>5, <2>1 DEF ClientAt
  <2>3. ClientAt(s, u)'
    BY <1>3, <2>1, <2>2 DEF ClientAt, Packet, HasData
  <2>4. up[s] => Quiet(s)
    BY <1>1, <2>1 DEF FrameAt, Alone, UserOf
  <2>5. CASE heard
    <3>1. Quiet(s)
      BY <2>4, <2>5
    <3>2. /\ Len(toServer'[s]) = 1 /\ spc'[s] = "header"
          /\ toServer'[s][1] = Part("header", Request(u))
      <4>1. /\ Len(toServer'[s]) = Len(toServer[s]) + 1
            /\ toServer'[s][Len(toServer[s]) + 1] = Part("header", Request(u))
            /\ AtMost(toServer[s], 0) => Len(toServer[s]) <= 0
        BY <1>7, <1>9, <2>1, <2>5
      <4>2. Len(toServer[s]) = 0
        BY <1>2, <3>1, <4>1 DEF Quiet
      <4> QED BY <1>3, <3>1, <4>1, <4>2 DEF Quiet
    <3>3. ServerAt(s)'
      BY <3>2 DEF ServerAt, RequestFirst, AtMost, Part
    <3>4. TurnAt(s, u)'
      BY <1>3, <2>1, <2>2, <3>2 DEF TurnAt, HalfSent, AtMost, Request
    <3> QED BY <1>1, <1>4, <1>7, <1>9, <2>1, <2>3, <2>5, <3>3, <3>4, OneUser DEF FrameInv
  <2>6. CASE ~heard
    <3>1. up[s] => TurnAt(s, u)'
      BY <1>3, <1>8, <1>9, <2>4, <2>1, <2>2, <2>6 DEF TurnAt, HalfSent, Quiet
    <3> QED BY <1>1, <1>4, <1>8, <1>9, <2>1, <2>3, <2>6, <3>1, OneUser DEF FrameInv
  <2> QED BY <2>5, <2>6
<1>11. CASE SendData(u)
  <2>1. /\ pc[u] = "sendData" /\ Send(u, "data") /\ op'[u] = op[u]
        /\ pc'[u] = "recvHeader"
    BY <1>2, <1>11 DEF SendData, Send
  <2>2. Len(toClient[s]) = 0 /\ HasData(op[u])
    BY <1>5, <2>1 DEF ClientAt
  <2>3. ClientAt(s, u)'
    BY <1>3, <2>1, <2>2 DEF ClientAt, Packet
  <2>4. CASE heard
    <3>1. /\ HalfSent(s, u)
          /\ spc[s] = "header" => Len(toServer[s]) = 1 /\ toServer[s][1] = Part("header", Request(u))
          /\ spc[s] = "data" => Len(toServer[s]) = 0
      <4>1. HalfSent(s, u)
        BY <1>5, <2>1, <2>4 DEF TurnAt
      <4>2. ~(AtMost(toServer[s], 0) /\ Unregistered(s))
        BY <2>4
      <4>3. /\ AtMost(toServer[s], 0) => Len(toServer[s]) <= 0
            /\ AtMost(toServer[s], 1) => Len(toServer[s]) <= 1
        BY <1>7, <1>9, <2>1, <2>4
      <4>4. /\ Len(toServer[s]) <= 0 => Len(toServer[s]) = 0
            /\ Len(toServer[s]) >= 1 /\ Len(toServer[s]) <= 1 => Len(toServer[s]) = 1
        <5>1. \A k \in Nat : (k <= 0 => k = 0) /\ (k >= 1 /\ k <= 1 => k = 1)
          OBVIOUS
        <5> QED BY <1>2, <5>1, Zenon
      <4> QED BY <4>1, <4>2, <4>3, <4>4, Zenon DEF HalfSent
    <3>2. ServerAt(s)'
      <4> DEFINE n == Len(toServer[s])
      <4>0. /\ Len(toServer'[s]) = n + 1 /\ toServer'[s][n + 1] = Part("data", Request(u))
            /\ n = 1 => toServer'[s][1] = toServer[s][1]
        BY <1>7, <1>9, <2>1, <2>4
      <4>1. CASE spc[s] = "header"
        <5>0. n = 1 /\ toServer[s][1] = Part("header", Request(u))
          BY <3>1, <4>1
        <5>1. /\ Len(toServer'[s]) = 2 /\ spc'[s] = "header"
              /\ toServer'[s][1] = Part("header", Request(u))
              /\ toServer'[s][2] = Part("data", Request(u))
          <6> HIDE DEF n
          <6> QED BY <1>3, <4>0, <4>1, <5>0
        <5> QED BY <2>2, <5>1 DEF ServerAt, RequestFirst, AtMost, Part, Request
      <4>2. CASE spc[s] = "data"
        <5>1. /\ Len(toServer'[s]) = 1 /\ spc'[s] = "data"
              /\ toServer'[s][1] = Part("data", Request(u)) /\ request'[s] = Request(u)
          BY <1>3, <3>1, <4>0, <4>2 DEF HalfSent
        <5> QED BY <5>1 DEF ServerAt, DataFirst, AtMost
      <4> QED BY <3>1, <4>1, <4>2 DEF HalfSent
    <3>3. TurnAt(s, u)'
      BY <1>3, <2>1, <2>2 DEF TurnAt
    <3> QED BY <1>1, <1>4, <1>7, <1>9, <2>1, <2>3, <2>4, <3>2, <3>3, OneUser DEF FrameInv
  <2>5. CASE ~heard
    <3>1. TurnAt(s, u)'
      BY <1>3, <2>1, <2>2 DEF TurnAt
    <3> QED BY <1>1, <1>4, <1>8, <1>9, <2>1, <2>3, <2>5, <3>1, OneUser DEF FrameInv
  <2> QED BY <2>4, <2>5
<1> QED BY <1>6, <1>10, <1>11

\* A user's call takes a part of a reply, or fails.
LEMMA FrameReceive ==
  ASSUME Alone, TypeInv, FrameInv, NEW u \in Users,
         ConnectionError(u) \/ RecvHeader(u) \/ RecvData(u)
  PROVE  FrameInv'
<1> DEFINE s == SessionOf[u]
           replies == toClient[s]
<1>1. s \in Sessions /\ FrameAt(s) /\ u \in UserOf(s)
  BY SessionAssumption, OneUser DEF FrameInv
<1>2. /\ replies \in Seq(ReplyPart) /\ Len(replies) \in Nat
      /\ toClient \in [Sessions -> Seq(ReplyPart)] /\ DOMAIN pc = Users /\ DOMAIN op = Users
      /\ op[u] \in Ops \union {NoOp}
  <2>1. /\ replies \in Seq(ReplyPart) /\ DOMAIN pc = Users /\ DOMAIN op = Users
        /\ toClient \in [Sessions -> Seq(ReplyPart)] /\ op[u] \in Ops \union {NoOp}
    BY <1>1 DEF TypeInv, TypeOK
  <2> QED BY <2>1, LenProperties
<1>3. UNCHANGED <<up, toServer, spc, request>>
  BY DEF ConnectionError, RecvHeader, RecvData, Receive, streams, serverVars
<1>4. /\ \A v \in Users \ {u} : pc'[v] = pc[v] /\ op'[v] = op[v]
      /\ pc'[u] \in {"idle", "recvData"}
  BY <1>2 DEF ConnectionError, RecvHeader, RecvData, Error, Return
<1>5. ASSUME NEW t \in Sessions \ {s} PROVE FrameAt(t)'
  <2>1. toClient'[t] = toClient[t]
    BY <1>1, <1>2 DEF ConnectionError, RecvHeader, RecvData, Receive, streams
  <2>2. \A v \in UserOf(t) : pc'[v] = pc[v] /\ op'[v] = op[v]
    BY <1>4, OneUser DEF UserOf
  <2> QED BY <1>3, <2>1, <2>2, Elsewhere DEF FrameInv
<1>6. OwnAt(s) /\ ServerAt(s) /\ ClientAt(s, u) /\ (up[s] => TurnAt(s, u))
  BY <1>1 DEF FrameAt
<1>7. ServerAt(s)'
  BY <1>3, <1>6 DEF ServerAt
<1>8. RequestPartOf(s)' = RequestPartOf(s) /\ ReplyPartOf(s)' = ReplyPartOf(s)
  BY DEF RequestPartOf, ReplyPartOf
<1>9. CASE ConnectionError(u)
  <2>1. /\ ~up[s] /\ pc'[u] = "idle" /\ toClient' = toClient
        /\ Len(toClient[s]) = 0
    BY <1>2, <1>6, <1>9, EmptySeq DEF ConnectionError, Error, Return, streams, ClientAt
  <2>2. OwnAt(s)' /\ ClientAt(s, u)'
    BY <1>3, <1>6, <1>8, <2>1 DEF OwnAt, ClientAt
  <2> QED BY <1>1, <1>3, <1>5, <1>7, <2>1, <2>2, OneUser DEF FrameInv
<1>10. ASSUME NEW part \in Parts, Receive(u, part)
       PROVE  /\ OwnAt(s)' /\ Len(replies) \in Nat \ {0} /\ Len(toClient'[s]) = Len(replies) - 1
              /\ replies[1] = Head(replies) /\ Head(replies).part = part
              /\ Len(replies) = 2 => toClient'[s][1] = replies[2]
  <2>1. /\ replies # <<>> /\ Head(replies).part = part /\ toClient'[s] = Tail(replies)
        /\ replies \in Seq(ReplyPartOf(s))
    BY <1>1, <1>2, <1>6, <1>10 DEF Receive, OwnAt
  <2>2. /\ Head(replies) = replies[1] /\ Len(replies) \in Nat \ {0}
        /\ toClient'[s] \in Seq(ReplyPartOf(s)) /\ Len(toClient'[s]) = Len(replies) - 1
        /\ Len(replies) = 2 => toClient'[s][1] = replies[2]
    BY <2>1, ReadPart
  <2> QED BY <1>3, <1>6, <1>8, <2>1, <2>2 DEF OwnAt
<1>11. "header" \in Parts /\ "data" \in Parts
  BY DEF Parts
\* The server waits for the next request while the reply is read.
<1>12. ASSUME pc[u] \in {"recvHeader", "recvData"}, Len(replies) # 0, up[s],
              Len(toClient'[s]) = 0 \/ pc'[u] = "recvData",
              pc'[u] = "idle" => Len(toClient'[s]) = 0
       PROVE  (pc'[u] \in {"idle", "sendHeader"} => Quiet(s)') /\ TurnAt(s, u)'
  BY <1>3, <1>4, <1>6, <1>12 DEF TurnAt, Quiet
<1>13. CASE RecvHeader(u)
  <2>1. pc[u] = "recvHeader" /\ Receive(u, "header")
    BY <1>13 DEF RecvHeader
  <2>2. /\ OwnAt(s)' /\ Len(replies) \in Nat \ {0} /\ Len(toClient'[s]) = Len(replies) - 1
        /\ replies[1] = Head(replies)
        /\ Len(replies) = 2 => toClient'[s][1] = replies[2]
    BY <1>10, <1>11, <2>1
  <2>3. Packet(replies)
    BY <1>6, <2>1 DEF ClientAt
  <2>4. CASE Head(replies).packet.answer = "fail"
    <3>1. pc'[u] = "idle"
      BY <1>2, <1>13, <2>4 DEF RecvHeader, Error, Return
    <3>2. Len(replies) # 2
      <4> SUFFICES ASSUME Len(replies) = 2 PROVE FALSE
        OBVIOUS
      <4>1. replies[2] \in ReplyPart
        BY <1>2, ElementOfSeq
      <4>2. replies[2].part = "data" /\ replies[2].packet.answer = "fail"
        BY <2>2, <2>3, <2>4 DEF Packet, Part
      <4> QED BY <4>1, <4>2 DEF ReplyPart
    <3>3. Len(toClient'[s]) = 0
      <4>1. Len(replies) <= 2
        BY <2>3 DEF Packet
      <4>2. \A k \in Nat \ {0} : k <= 2 /\ k # 2 => k - 1 = 0
        OBVIOUS
      <4> QED BY <2>2, <3>2, <4>1, <4>2
    <3>4. ClientAt(s, u)'
      BY <3>1, <3>3 DEF ClientAt
    <3>5. up[s] => (pc'[u] \in {"idle", "sendHeader"} => Quiet(s)') /\ TurnAt(s, u)'
      BY <1>12, <2>1, <2>2, <3>1, <3>3
    <3> QED BY <1>1, <1>3, <1>5, <1>7, <2>1, <2>2, <3>4, <3>5, OneUser DEF FrameInv
  <2>5. CASE Head(replies).packet.answer # "fail"
    <3>1. pc'[u] = "recvData"
      BY <1>2, <1>13, <2>5 DEF RecvHeader
    <3>2. Rest(toClient'[s])
      BY <2>2, <2>3 DEF Packet, Rest, Part
    <3>3. ClientAt(s, u)'
      BY <3>1, <3>2 DEF ClientAt, Rest
    <3>4. up[s] => (pc'[u] \in {"idle", "sendHeader"} => Quiet(s)') /\ TurnAt(s, u)'
      BY <1>12, <2>1, <2>2, <3>1
    <3> QED BY <1>1, <1>3, <1>5, <1>7, <2>1, <2>2, <3>3, <3>4, OneUser DEF FrameInv
  <2> QED BY <2>4, <2>5
<1>14. CASE RecvData(u)
  <2>1. pc[u] = "recvData" /\ Receive(u, "data") /\ pc'[u] = "idle"
    BY <1>2, <1>14 DEF RecvData, Error, Return
  <2>2. OwnAt(s)' /\ Len(replies) \in Nat \ {0} /\ Len(toClient'[s]) = Len(replies) - 1
    BY <1>10, <1>11, <2>1
  <2>3. Len(toClient'[s]) = 0
    <3>1. Len(replies) <= 1
      BY <1>6, <2>1 DEF ClientAt, Rest
    <3>2. \A k \in Nat \ {0} : k <= 1 => k - 1 = 0
      OBVIOUS
    <3> QED BY <2>2, <3>1, <3>2
  <2>4. ClientAt(s, u)'
    BY <2>1, <2>3 DEF ClientAt
  <2> QED BY <1>1, <1>3, <1>5, <1>7, <1>12, <2>1, <2>2, <2>3, <2>4, OneUser DEF FrameInv
<1> QED BY <1>9, <1>13, <1>14

\* The connection breaks or is closed, or the server's goroutine returns.
LEMMA FrameBreak ==
  ASSUME Alone, TypeInv, FrameInv, NEW s \in Sessions,
         Disconnect(s) \/ CloseTransport(s) \/ ServerReturns(s),
         toServer' = [toServer EXCEPT ![s] = toServer'[s]],
         spc'[s] = "closed" => toServer'[s] \in Seq(RequestPartOf(s)),
         UNCHANGED clientVars
  PROVE  FrameInv'
<1>1. /\ FrameAt(s) /\ DOMAIN toClient = Sessions /\ DOMAIN toServer = Sessions
      /\ DOMAIN spc = Sessions /\ DOMAIN request = Sessions /\ DOMAIN up = Sessions
  BY DEF FrameInv, TypeInv, TypeOK
<1>2. /\ OwnAt(s) /\ ServerAt(s) /\ \A u \in UserOf(s) : ClientAt(s, u)
      /\ toServer[s] \in Seq(RequestPartOf(s)) /\ Len(toServer[s]) \in Nat
      /\ toClient[s] \in Seq(ReplyPartOf(s)) /\ Len(toClient[s]) \in Nat
  <2>1. /\ OwnAt(s) /\ ServerAt(s) /\ \A u \in UserOf(s) : ClientAt(s, u)
        /\ toServer[s] \in Seq(RequestPartOf(s)) /\ toClient[s] \in Seq(ReplyPartOf(s))
    BY <1>1 DEF FrameAt, OwnAt
  <2> QED BY <2>1, LenProperties
<1>3. ASSUME NEW t \in Sessions \ {s} PROVE FrameAt(t)'
  <2>1. /\ up'[t] = up[t] /\ toServer'[t] = toServer[t] /\ toClient'[t] = toClient[t]
        /\ spc'[t] = spc[t] /\ request'[t] = request[t] /\ pc' = pc /\ op' = op
    BY <1>1 DEF Disconnect, CloseTransport, ServerReturns, CutShort, clientVars, serverVars
  <2> QED BY <2>1, Elsewhere DEF FrameInv
<1>4. ~up'[s] /\ pc' = pc /\ op' = op
  BY <1>1 DEF Disconnect, CloseTransport, ServerReturns, clientVars
<1>5. /\ RequestPartOf(s)' = RequestPartOf(s) /\ ReplyPartOf(s)' = ReplyPartOf(s)
      /\ UserOf(s)' = UserOf(s)
  BY DEF RequestPartOf, ReplyPartOf, UserOf
<1>6. ASSUME CutShort(toClient, s)
      PROVE  /\ toClient'[s] \in Seq(ReplyPartOf(s))
             /\ \A u \in UserOf(s) : ClientAt(s, u)'
  <2>1. PICK n \in 0 .. Len(toClient[s]) : toClient' = [toClient EXCEPT ![s] = SubSeq(@, 1, n)]
    BY <1>6 DEF CutShort
  <2>2. toClient'[s] = SubSeq(toClient[s], 1, n)
    BY <1>1, <2>1
  <2>3. /\ toClient'[s] \in Seq(ReplyPartOf(s)) /\ Len(toClient'[s]) = n
        /\ \A i \in 1 .. n : toClient'[s][i] = toClient[s][i]
    BY <1>2, <2>2, FirstPart
  <2>4. n \in Nat /\ n <= Len(toClient[s])
    BY <1>2
  <2>5. /\ Packet(toClient[s]) => Packet(toClient'[s])
        /\ Rest(toClient[s]) => Rest(toClient'[s])
    BY <1>2, <2>3, <2>4, FirstOfPacket
  <2>6. Len(toClient[s]) = 0 => Len(toClient'[s]) = 0
    BY <1>2, <2>3, <2>4
  <2> QED BY <1>2, <1>4, <2>3, <2>5, <2>6 DEF ClientAt
<1>7. ASSUME toClient'[s] = <<>>
      PROVE  /\ toClient'[s] \in Seq(ReplyPartOf(s))
             /\ \A u \in UserOf(s) : ClientAt(s, u)'
  <2>1. toClient'[s] \in Seq(ReplyPartOf(s)) /\ Len(toClient'[s]) = 0
    BY <1>7, EmptySeq
  <2> QED BY <1>2, <1>4, <2>1 DEF ClientAt, Packet, Rest
<1>8. CASE Disconnect(s) \/ CloseTransport(s)
  <2>1. PICK n \in 0 .. Len(toServer[s]) : toServer' = [toServer EXCEPT ![s] = SubSeq(@, 1, n)]
    BY <1>8 DEF Disconnect, CloseTransport, CutShort
  <2>2. toServer'[s] = SubSeq(toServer[s], 1, n)
    BY <1>1, <2>1
  <2>3. /\ toServer'[s] \in Seq(RequestPartOf(s)) /\ Len(toServer'[s]) = n
        /\ \A i \in 1 .. n : toServer'[s][i] = toServer[s][i]
    BY <1>2, <2>2, FirstPart
  <2>4. n \in Nat /\ n <= Len(toServer[s])
    BY <1>2
  <2>5. /\ AtMost(toServer[s], 0) => AtMost(toServer'[s], 0)
        /\ RequestFirst(toServer[s]) => RequestFirst(toServer'[s])
        /\ \A packet : DataFirst(toServer[s], packet) => DataFirst(toServer'[s], packet)
    BY <1>2, <2>3, <2>4, FirstOfRequest
  <2>6. /\ spc'[s] = spc[s] /\ request'[s] = request[s]
        /\ CutShort(toClient, s) \/ toClient'[s] = <<>>
    BY <1>1, <1>8 DEF Disconnect, CloseTransport, serverVars
  <2>7. ServerAt(s)'
    BY <1>2, <1>4, <2>5, <2>6 DEF ServerAt
  <2>8. OwnAt(s)'
    BY <1>2, <1>5, <1>6, <1>7, <2>3, <2>6 DEF OwnAt
  <2> QED BY <1>3, <1>4, <1>5, <1>6, <1>7, <2>6, <2>7, <2>8 DEF FrameInv, FrameAt
<1>9. CASE ServerReturns(s)
  <2>1. spc'[s] = "closed" /\ CutShort(toClient, s)
    BY <1>1, <1>9 DEF ServerReturns
  <2>2. OwnAt(s)' /\ ServerAt(s)'
    BY <1>4, <1>5, <1>6, <2>1 DEF OwnAt, ServerAt
  <2> QED BY <1>3, <1>4, <1>5, <1>6, <2>1, <2>2 DEF FrameInv, FrameAt
<1> QED BY <1>8, <1>9

\* The client sends an Unregister, at any moment of the user's call.
LEMMA FrameUnregister ==
  ASSUME TypeInv, FrameInv, NEW s \in Sessions, CloseUnregister(s)
  PROVE  FrameInv'
<1>1. /\ up[s] /\ ~Unregistered(s) /\ toServer'[s] = Append(toServer[s], Part("header", Unregister))
      /\ \A t \in Sessions \ {s} : toServer'[t] = toServer[t]
      /\ UNCHANGED <<up, toClient, spc, request, pc, op>>
  BY DEF CloseUnregister, TypeInv, TypeOK, clientVars, serverVars
<1>2. /\ OwnAt(s) /\ ServerAt(s) /\ \A u \in UserOf(s) : ClientAt(s, u) /\ TurnAt(s, u)
      /\ (\A u \in UserOf(s) : pc[u] \in {"idle", "sendHeader"}) => Quiet(s)
      /\ toServer[s] \in Seq(RequestPartOf(s))
  BY <1>1 DEF FrameInv, FrameAt, OwnAt
<1>3. Part("header", Unregister) \in RequestPartOf(s)
  <2>1. Unregister \notin Requests
    BY DEF Unregister, Requests, Ops, Kinds
  <2> QED BY <2>1 DEF Part, RequestPart, Parts, RequestPartOf
<1>4. /\ toServer'[s] \in Seq(RequestPartOf(s)) /\ Len(toServer'[s]) = Len(toServer[s]) + 1
      /\ Len(toServer[s]) >= 1 => toServer'[s][1] = toServer[s][1]
      /\ \A n \in Nat : AtMost(toServer[s], n) => AtMost(toServer'[s], n)
      /\ RequestFirst(toServer[s]) => RequestFirst(toServer'[s])
      /\ \A packet : DataFirst(toServer[s], packet) => DataFirst(toServer'[s], packet)
  <2>1. \A i \in DOMAIN toServer[s] : toServer[s][i].packet # Unregister
    BY <1>1 DEF Unregistered
  <2> QED BY <1>1, <1>2, <1>3, <2>1, WithUnregister
<1>5. /\ AtMost(toServer[s], 0) => AtMost(toServer'[s], 0)
      /\ AtMost(toServer[s], 1) => AtMost(toServer'[s], 1)
      /\ Len(toServer[s]) >= 1 => Len(toServer'[s]) >= 1
  <2>1. Len(toServer[s]) \in Nat
    BY <1>2, LenProperties
  <2> QED BY <1>4, <2>1
<1>6. OwnAt(s)' /\ ServerAt(s)' /\ (Quiet(s) => Quiet(s)')
  BY <1>1, <1>2, <1>4, <1>5 DEF OwnAt, RequestPartOf, ReplyPartOf, ServerAt, Quiet
<1>7. ASSUME NEW u \in UserOf(s) PROVE ClientAt(s, u)' /\ TurnAt(s, u)'
  <2>1. ClientAt(s, u) /\ TurnAt(s, u)
    BY <1>2, <1>7
  <2>2. HalfSent(s, u) => HalfSent(s, u)'
    BY <1>1, <1>4, <1>5 DEF HalfSent, Unregistered, Request
  <2>3. TurnAt(s, u)'
    BY <1>1, <1>5, <2>1, <2>2 DEF TurnAt
  <2>4. ClientAt(s, u)'
    BY <1>1, <2>1 DEF ClientAt
  <2> QED BY <2>3, <2>4
<1>8. FrameAt(s)'
  <2>1. UserOf(s)' = UserOf(s)
    BY DEF UserOf
  <2> QED BY <1>1, <1>2, <1>6, <1>7, <2>1 DEF FrameAt
<1>9. \A t \in Sessions \ {s} : FrameAt(t)'
  BY <1>1, Elsewhere DEF FrameInv
<1> QED BY <1>8, <1>9 DEF FrameInv

\* The server reads a part of a request, or works on one.
LEMMA FrameServer ==
  ASSUME Alone, TypeInv, FrameInv, NEW s \in Sessions,
         ServerHeader(s) \/ ServerData(s) \/ ServerDispatch(s) \/ ServerError(s)
  PROVE  FrameInv'
<1> DEFINE packet == Head(toServer[s]).packet
<1>1. /\ FrameAt(s) /\ DOMAIN toServer = Sessions /\ DOMAIN spc = Sessions
      /\ DOMAIN request = Sessions /\ DOMAIN up = Sessions
  BY DEF FrameInv, TypeInv, TypeOK
<1>2. /\ OwnAt(s) /\ ServerAt(s) /\ \A u \in UserOf(s) : ClientAt(s, u)
      /\ toServer[s] \in Seq(RequestPartOf(s))
  BY <1>1 DEF FrameAt, OwnAt
<1>3. UNCHANGED clientVars /\ pc' = pc /\ op' = op /\ UserOf(s)' = UserOf(s)
  BY DEF ServerHeader, ServerData, ServerDispatch, ServerError, clientVars, UserOf
<1>4. /\ RequestPartOf(s)' = RequestPartOf(s) /\ ReplyPartOf(s)' = ReplyPartOf(s)
  BY DEF RequestPartOf, ReplyPartOf
<1>5. ASSUME UNCHANGED <<up, toClient>>,
             \A t \in Sessions \ {s} :
               toServer'[t] = toServer[t] /\ spc'[t] = spc[t] /\ request'[t] = request[t],
             FrameAt(s)'
      PROVE  FrameInv'
  <2>1. ASSUME NEW t \in Sessions \ {s} PROVE FrameAt(t)'
    BY <1>3, <1>5, Elsewhere DEF FrameInv
  <2> QED BY <1>5, <2>1 DEF FrameInv
<1>6. ASSUME NEW part \in Parts, Reads(s, part)
      PROVE  /\ Head(toServer[s]) = toServer[s][1] /\ toServer[s][1].part = part
             /\ toServer[s][1] \in RequestPartOf(s)
             /\ toServer[s] # <<>> /\ toServer'[s] = Tail(toServer[s])
             /\ toServer'[s] \in Seq(RequestPartOf(s))
             /\ \A t \in Sessions \ {s} : toServer'[t] = toServer[t]
             /\ toServer' = [toServer EXCEPT ![s] = toServer'[s]]
  <2>1. /\ toServer[s] # <<>> /\ Head(toServer[s]).part = part
        /\ toServer'[s] = Tail(toServer[s])
        /\ toServer' = [toServer EXCEPT ![s] = Tail(@)]
    BY <1>1, <1>6 DEF Reads
  <2>2. /\ Head(toServer[s]) = toServer[s][1] /\ Head(toServer[s]) \in RequestPartOf(s)
        /\ Tail(toServer[s]) \in Seq(RequestPartOf(s))
    BY <1>2, <2>1, ReadPart
  <2> QED BY <2>1, <2>2
<1>7. ASSUME toServer[s] # <<>>
      PROVE  /\ AtMost(toServer[s], 1) => AtMost(Tail(toServer[s]), 0)
             /\ RequestFirst(toServer[s]) /\ toServer[s][1].packet # Unregister =>
                  DataFirst(Tail(toServer[s]), toServer[s][1].packet)
             /\ RequestFirst(toServer[s]) /\ toServer[s][1].packet # Unregister
                  /\ ~HasData(toServer[s][1].packet.op) => AtMost(Tail(toServer[s]), 0)
             /\ \A p : DataFirst(toServer[s], p) /\ toServer[s][1].part = "data" =>
                  AtMost(Tail(toServer[s]), 0)
             /\ AtMost(toServer[s], 0) => toServer[s][1] = Part("header", Unregister)
  <2>1. Len(toServer[s]) \in Nat \ {0}
    BY <1>2, <1>7, ReadPart
  <2>2. AtMost(toServer[s], 0) => toServer[s][1] = Part("header", Unregister)
    BY <2>1 DEF AtMost
  <2> QED BY <1>2, <1>7, <2>2, RestOfRequest
<1>8. "header" \in Parts /\ "data" \in Parts
  BY DEF Parts
\* The user has sent a part at least, and waits for the reply or has data to send.
<1>9. ASSUME ~AtMost(toServer[s], 0) \/ spc[s] # "header", up[s]
      PROVE  /\ \E u \in UserOf(s) : pc[u] \notin {"idle", "sendHeader"}
             /\ \A u \in UserOf(s) : TurnAt(s, u)
             /\ \A u \in UserOf(s) : pc[u] # "recvData" /\ (pc[u] = "recvHeader" => Len(toClient[s]) = 0)
  <2>1. \A u \in UserOf(s) : TurnAt(s, u)
    BY <1>1, <1>9 DEF FrameAt
  <2> QED BY <1>1, <1>9, <2>1 DEF FrameAt, Quiet, TurnAt
<1>10. CASE ServerHeader(s)
  <2>1. spc[s] = "header" /\ Reads(s, "header")
    BY <1>10 DEF ServerHeader
  <2>2. RequestFirst(toServer[s])
    BY <1>2, <2>1 DEF ServerAt
  <2>3. CASE ServerReturns(s)
    BY <1>3, <1>6, <1>8, <2>1, <2>3, FrameBreak
  <2>4. CASE ~ServerReturns(s)
    <3>1. /\ UNCHANGED <<up, toClient>> /\ request' = [request EXCEPT ![s] = packet]
          /\ \/ packet.op.kind = "list" /\ spc' = [spc EXCEPT ![s] = "reply"]
             \/ /\ packet.op.kind \in {"set", "get", "refused"}
                /\ spc' = [spc EXCEPT ![s] = "data"]
      BY <1>10, <2>4 DEF ServerHeader
    <3>2. /\ packet = toServer[s][1].packet /\ packet \in Requests /\ SessionOf[packet.user] = s
          /\ request'[s] = packet /\ packet # Unregister
      <4>1. packet \in Requests \union {Unregister} /\ packet.op.kind # "unregister"
        BY <1>6, <1>8, <2>1, <3>1 DEF RequestPartOf, RequestPart
      <4>2. packet \in Requests /\ packet # Unregister
        BY <4>1, RequestKinds DEF Unregister
      <4> QED BY <1>1, <1>6, <1>8, <2>1, <3>1, <4>2 DEF RequestPartOf
    <3>3. OwnAt(s)'
      BY <1>2, <1>4, <1>6, <1>8, <2>1, <3>1, <3>2 DEF OwnAt
    <3>4. /\ DataFirst(toServer'[s], packet)
          /\ packet.op.kind = "list" => AtMost(toServer'[s], 0)
      BY <1>6, <1>7, <1>8, <2>1, <2>2, <3>2 DEF HasData
    <3>5. ~AtMost(toServer[s], 0)
      BY <1>6, <1>7, <1>8, <2>1, <3>2 DEF Part
    <3>6. ServerAt(s)'
      BY <1>1, <3>1, <3>2, <3>4 DEF ServerAt
    <3>7. \A u \in UserOf(s) : ClientAt(s, u)'
      BY <1>2, <1>3, <3>1 DEF ClientAt
    <3>8. ASSUME up[s], NEW u \in UserOf(s) PROVE TurnAt(s, u)'
      <4>1. /\ TurnAt(s, u) /\ pc[u] # "recvData" /\ (pc[u] = "recvHeader" => Len(toClient[s]) = 0)
        BY <1>9, <3>5, <3>8
      <4>2. ASSUME pc[u] = "sendData" PROVE HalfSent(s, u)'
        <5>1. /\ AtMost(toServer[s], 1) /\ toServer[s][1] = Part("header", Request(u))
              /\ HasData(op[u])
          BY <1>2, <2>1, <3>5, <4>1, <4>2 DEF TurnAt, HalfSent, ClientAt
        <5>2. packet = Request(u) /\ packet.op.kind # "list"
          BY <3>2, <5>1 DEF Part, Request, HasData
        <5>3. AtMost(toServer'[s], 0)
          BY <1>6, <1>7, <1>8, <2>1, <5>1
        <5> QED BY <1>1, <1>3, <3>1, <3>2, <5>2, <5>3 DEF HalfSent, Request
      <4> QED BY <1>3, <3>1, <4>1, <4>2 DEF TurnAt
    <3>9. FrameAt(s)'
      BY <1>3, <1>9, <3>1, <3>3, <3>5, <3>6, <3>7, <3>8 DEF FrameAt
    <3> QED BY <1>1, <1>5, <1>6, <1>8, <2>1, <3>1, <3>9
  <2> QED BY <2>3, <2>4
<1>11. CASE ServerData(s)
  <2>1. /\ spc[s] = "data" /\ Reads(s, "data") /\ spc' = [spc EXCEPT ![s] = "dispatch"]
        /\ UNCHANGED <<up, toClient, request>>
    BY <1>11 DEF ServerData
  <2>2. AtMost(toServer'[s], 0) /\ toServer'[s] \in Seq(RequestPartOf(s))
    BY <1>2, <1>6, <1>7, <1>8, <2>1 DEF ServerAt
  <2>3. ~AtMost(toServer[s], 0)
    BY <1>6, <1>7, <1>8, <2>1 DEF Part
  <2>4. OwnAt(s)' /\ ServerAt(s)'
    BY <1>1, <1>2, <1>4, <2>1, <2>2 DEF OwnAt, ServerAt
  <2>5. \A u \in UserOf(s) : ClientAt(s, u)'
    BY <1>2, <1>3, <2>1 DEF ClientAt
  <2>6. up[s] => \A u \in UserOf(s) : TurnAt(s, u)'
    BY <1>3, <1>9, <2>1, <2>3 DEF TurnAt, HalfSent
  <2>7. FrameAt(s)'
    BY <1>3, <1>9, <2>1, <2>4, <2>5, <2>6 DEF FrameAt
  <2> QED BY <1>1, <1>5, <1>6, <1>8, <2>1, <2>7
<1>12. CASE ServerDispatch(s)
  <2>1. /\ spc[s] = "dispatch" /\ spc' = [spc EXCEPT ![s] = "reply"]
        /\ UNCHANGED <<up, toServer, toClient, request>>
    BY <1>12 DEF ServerDispatch, streams
  <2>2. OwnAt(s)' /\ ServerAt(s)'
    BY <1>1, <1>2, <1>4, <2>1 DEF OwnAt, ServerAt
  <2>3. \A u \in UserOf(s) : ClientAt(s, u)'
    BY <1>2, <1>3, <2>1 DEF ClientAt
  <2>4. up[s] => \A u \in UserOf(s) : TurnAt(s, u)'
    BY <1>3, <1>9, <2>1 DEF TurnAt, HalfSent
  <2>5. FrameAt(s)'
    BY <1>3, <1>9, <2>1, <2>2, <2>3, <2>4 DEF FrameAt
  <2> QED BY <1>1, <1>5, <2>1, <2>5
<1>13. CASE ServerError(s)
  <2>1. ServerReturns(s) /\ toServer' = toServer
    BY <1>13 DEF ServerError
  <2>2. toServer' = [toServer EXCEPT ![s] = toServer'[s]] /\ toServer'[s] \in Seq(RequestPartOf(s))
    BY <1>2, <2>1 DEF TypeInv, TypeOK
  <2> QED BY <1>3, <2>1, <2>2, FrameBreak
<1> QED BY <1>10, <1>11, <1>12, <1>13

\* A header and data, one behind the other.
LEMMA PairOfParts ==
  ASSUME NEW S, NEW h \in Seq(S), NEW d \in Seq(S), Len(h) = 1, Len(d) = 1
  PROVE  h \o d \in Seq(S) /\ Len(h \o d) = 2 /\ (h \o d)[1] = h[1] /\ (h \o d)[2] = d[1]
BY ConcatProperties

\* The server answers the request of a user that waits for the reply.
LEMMA FrameReply ==
  ASSUME Alone, TypeInv, FrameInv, NEW s \in Sessions, ServerReply(s)
  PROVE  FrameInv'
<1> DEFINE packet == [user |-> request[s].user, answer |-> answer[s]]
           header == <<Part("header", packet)>>
           data   == IF answer[s] = "fail" THEN <<>> ELSE <<Part("data", packet)>>
<1>1. /\ FrameAt(s) /\ DOMAIN toClient = Sessions /\ DOMAIN spc = Sessions
      /\ DOMAIN request = Sessions /\ toClient[s] \in Seq(ReplyPart)
  BY DEF FrameInv, TypeInv, TypeOK
<1>2. OwnAt(s) /\ ServerAt(s) /\ (\A u \in UserOf(s) : ClientAt(s, u) /\ TurnAt(s, u))
  BY <1>1 DEF ServerReply, FrameAt
<1>3. /\ spc[s] = "reply" /\ up[s] /\ UNCHANGED <<up, toServer, pc, op>>
      /\ spc' = [spc EXCEPT ![s] = "header"] /\ request' = [request EXCEPT ![s] = NoRequest]
      /\ toClient' = [toClient EXCEPT ![s] = @ \o header \o data]
  BY DEF ServerReply, clientVars
<1>4. PICK u \in UserOf(s) : pc[u] \notin {"idle", "sendHeader"}
  BY <1>1, <1>3 DEF FrameAt, Quiet
<1>5. u \in Users /\ SessionOf[u] = s /\ pc[u] = "recvHeader" /\ Len(toClient[s]) = 0
  <2>1. pc[u] \in {"idle", "sendHeader", "sendData", "recvHeader", "recvData"}
    BY <1>4 DEF TypeInv, TypeOK, UserOf
  <2> QED BY <1>2, <1>3, <1>4, <2>1 DEF TurnAt, HalfSent, UserOf
<1>6. request[s] \in Requests /\ answer[s] \in Answers /\ SessionOf[request[s].user] = s
  BY <1>2, <1>3 DEF TypeInv, HeldInv, OwnAt
<1>7. /\ Part("header", packet) \in ReplyPartOf(s)
      /\ answer[s] # "fail" => Part("data", packet) \in ReplyPartOf(s)
  BY <1>6 DEF Part, ReplyPart, ReplyPartOf, Requests
<1>8. toClient'[s] = header \o data
  <2>1. toClient[s] = <<>>
    BY <1>1, <1>5, EmptySeq
  <2> QED BY <1>1, <1>3, <2>1
<1>9. toClient'[s] \in Seq(ReplyPartOf(s)) /\ Packet(toClient'[s])
  <2>1. CASE answer[s] = "fail"
    <3>1. toClient'[s] = header
      BY <1>8, <2>1
    <3>2. header \in Seq(ReplyPartOf(s)) /\ Len(header) = 1
      BY <1>7
    <3> QED BY <3>1, <3>2 DEF Packet, Part
  <2>2. CASE answer[s] # "fail"
    <3>1. data = <<Part("data", packet)>>
      BY <2>2
    <3>2. /\ header \in Seq(ReplyPartOf(s)) /\ Len(header) = 1 /\ header[1] = Part("header", packet)
          /\ data \in Seq(ReplyPartOf(s)) /\ Len(data) = 1 /\ data[1] = Part("data", packet)
      BY <1>7, <2>2, <3>1
    <3> HIDE DEF header, data, packet
    <3>3. /\ header \o data \in Seq(ReplyPartOf(s)) /\ Len(header \o data) = 2
          /\ (header \o data)[1] = header[1] /\ (header \o data)[2] = data[1]
      BY <3>2, PairOfParts
    <3> QED BY <1>8, <3>2, <3>3 DEF Packet, Part
  <2> QED BY <2>1, <2>2
<1>10. OwnAt(s)' /\ ServerAt(s)'
  <2>1. AtMost(toServer'[s], 0) /\ spc'[s] = "header"
    BY <1>1, <1>2, <1>3 DEF ServerAt
  <2>2. /\ RequestPartOf(s)' = RequestPartOf(s) /\ ReplyPartOf(s)' = ReplyPartOf(s)
    BY DEF RequestPartOf, ReplyPartOf
  <2> QED BY <1>2, <1>3, <1>9, <2>1, <2>2 DEF OwnAt, ServerAt, RequestFirst
<1>11. ClientAt(s, u)' /\ TurnAt(s, u)' /\ pc'[u] \notin {"idle", "sendHeader"}
  <2>1. pc'[u] = "recvHeader" /\ AtMost(toServer'[s], 0) /\ spc'[s] = "header"
    BY <1>1, <1>2, <1>3, <1>5 DEF ServerAt
  <2> QED BY <1>9, <2>1 DEF ClientAt, TurnAt
<1>12. ASSUME NEW t \in Sessions \ {s} PROVE FrameAt(t)'
  <2>1. /\ up'[t] = up[t] /\ toServer'[t] = toServer[t] /\ toClient'[t] = toClient[t]
        /\ spc'[t] = spc[t] /\ request'[t] = request[t] /\ pc' = pc /\ op' = op
    BY <1>1, <1>3
  <2> QED BY <2>1, Elsewhere DEF FrameInv
<1> QED BY <1>5, <1>10, <1>11, <1>12, OneUser DEF FrameInv

\* Fresh sessions are in frame.
LEMMA FrameInit == Init => FrameInv
<1> SUFFICES ASSUME Init, NEW s \in Sessions PROVE FrameAt(s)
  BY DEF FrameInv
<1>1. /\ toServer[s] = <<>> /\ toClient[s] = <<>> /\ spc[s] = "header"
      /\ AtMost(toServer[s], 0) /\ Len(toClient[s]) = 0
  BY EmptySeq DEF Init, AtMost
<1>2. OwnAt(s) /\ ServerAt(s)
  BY <1>1, EmptySeq DEF OwnAt, ServerAt, RequestFirst
<1>3. \A u \in UserOf(s) : ClientAt(s, u) /\ TurnAt(s, u)
  BY <1>1 DEF Init, ClientAt, TurnAt, UserOf
<1> QED BY <1>1, <1>2, <1>3 DEF FrameAt, Quiet

\* And no step loses it.
LEMMA FrameStep == ASSUME Alone PROVE TypeInv /\ FrameInv /\ [Next]_vars => FrameInv'
<1> SUFFICES ASSUME TypeInv, FrameInv, [Next]_vars PROVE FrameInv'
  OBVIOUS
<1>1. CASE UNCHANGED vars
  <2>1. UNCHANGED <<up, toServer, toClient, pc, op, spc, request>>
    BY <1>1 DEF vars, streams, clientVars, serverVars
  <2> QED BY <2>1, Elsewhere DEF FrameInv
<1>2. CASE \E u \in Users : Call(u) \/ Operation(u)
  BY <1>2, FrameSend, FrameReceive DEF Operation
<1>3. ASSUME NEW s \in Sessions, Server(s) PROVE FrameInv'
  BY <1>3, FrameServer, FrameReply DEF Server
<1>4. ASSUME NEW s \in Sessions, Disconnect(s) \/ CloseTransport(s) PROVE FrameInv'
  <2>1. toServer' = [toServer EXCEPT ![s] = toServer'[s]] /\ UNCHANGED clientVars
    BY <1>4 DEF Disconnect, CloseTransport, CutShort, TypeInv, TypeOK
  <2>2. spc'[s] # "closed" \/ toServer'[s] \in Seq(RequestPartOf(s))
    BY <1>4 DEF Disconnect, CloseTransport, CutShort, serverVars, FrameInv, FrameAt, ServerAt
  <2> QED BY <1>4, <2>1, <2>2, FrameBreak
<1> QED BY <1>1, <1>2, <1>3, <1>4, FrameUnregister DEF Next

\* A session no two users share stays in frame: whatever breaks a connection and
\* whenever, a user finds the part of its own reply that it waits for, although no
\* packet says whose it is, and the server finds the data of the request it is at.
\* One thing can come there instead: the Unregister of a Client.Close under the call,
\* as the retry wrapper's are; then no part of any request is read again.
THEOREM StaysInFrame == ASSUME Alone PROVE Spec => []InFrame
<1>1. TypeInv /\ FrameInv => InFrame
  <2> SUFFICES ASSUME TypeInv, FrameInv PROVE InFrame
    OBVIOUS
  <2>1. ASSUME NEW s \in Sessions, toServer[s] # <<>>
        PROVE  /\ spc[s] = "header" => Head(toServer[s]).part = "header"
               /\ spc[s] = "data" =>
                    Head(toServer[s]) \in {Part("data", request[s]), Part("header", Unregister)}
    <3>1. /\ toServer[s] \in Seq(RequestPart) /\ ServerAt(s)
      BY DEF TypeInv, TypeOK, FrameInv, FrameAt
    <3>2. /\ Head(toServer[s]) = toServer[s][1] /\ Len(toServer[s]) \in Nat \ {0}
      BY <2>1, <3>1, ReadPart
    <3>3. AtMost(toServer[s], 0) => toServer[s][1] = Part("header", Unregister)
      BY <3>2 DEF AtMost
    <3>4. spc[s] = "header" => Head(toServer[s]).part = "header"
      BY <3>1, <3>2, <3>3 DEF ServerAt, RequestFirst, Part
    <3>5. spc[s] = "data" =>
            Head(toServer[s]) \in {Part("data", request[s]), Part("header", Unregister)}
      BY <3>1, <3>2, <3>3 DEF ServerAt, DataFirst
    <3> QED BY <3>4, <3>5
  <2>2. ASSUME NEW u \in Users, toClient[SessionOf[u]] # <<>>
        PROVE  LET next == Head(toClient[SessionOf[u]]) IN
               /\ pc[u] \in {"recvHeader", "recvData"}
               /\ next.part = IF pc[u] = "recvHeader" THEN "header" ELSE "data"
               /\ next.packet.user = u
    <3> DEFINE s == SessionOf[u]
    <3>1. /\ s \in Sessions /\ toClient[s] \in Seq(ReplyPartOf(s)) /\ ClientAt(s, u)
          /\ pc[u] \in {"idle", "sendHeader", "sendData", "recvHeader", "recvData"}
      BY SessionAssumption DEF TypeInv, TypeOK, FrameInv, FrameAt, OwnAt, UserOf
    <3>2. /\ Head(toClient[s]) = toClient[s][1] /\ Head(toClient[s]) \in ReplyPartOf(s)
          /\ Len(toClient[s]) \in Nat \ {0}
      BY <2>2, <3>1, ReadPart
    <3>3. Head(toClient[s]).packet.user = u
      BY <3>2 DEF Alone, ReplyPartOf, ReplyPart
    <3>4. pc[u] \in {"recvHeader", "recvData"}
      BY <3>1, <3>2 DEF ClientAt
    <3>5. pc[u] = "recvHeader" => toClient[s][1].part = "header"
      BY <3>1, <3>2 DEF ClientAt, Packet
    <3>6. ASSUME pc[u] = "recvData" PROVE toClient[s][1].part = "data"
      <4>1. Len(toClient[s]) <= 1 /\ (Len(toClient[s]) = 1 => toClient[s][1].part = "data")
        BY <3>1, <3>6 DEF ClientAt, Rest
      <4>2. \A k \in Nat \ {0} : k <= 1 => k = 1
        OBVIOUS
      <4> QED BY <3>2, <4>1, <4>2, Zenon
    <3> QED BY <3>2, <3>3, <3>4, <3>5, <3>6
  <2> QED BY <2>1, <2>2 DEF InFrame
<1> QED BY TypeInit, TypeStep, FrameInit, FrameStep, <1>1, PTL DEF Spec

\* Then what an operation returns is the answer to that operation: what a session
\* with several users breaks (OwnReply) holds for one that each user has alone.
THEOREM OwnReplyAlone == ASSUME Alone PROVE Spec => []OwnReply
<1>1. Init => OwnReply
  BY DEF Init, OwnReply
<1>2. TypeOK /\ InFrame /\ OwnReply /\ [Next]_vars => OwnReply'
  <2> SUFFICES ASSUME TypeOK, InFrame, OwnReply, [Next]_vars PROVE OwnReply'
    OBVIOUS
  <2>1. result \in [Users -> Values \union {NoValue}] /\ from \in [Users -> Users]
    BY DEF TypeOK
  <2>2. CASE UNCHANGED <<result, from>>
    BY <2>2 DEF OwnReply
  <2>3. ASSUME NEW u \in Users, result' = [result EXCEPT ![u] = NoValue], from' = from
        PROVE  OwnReply'
    BY <2>1, <2>3 DEF OwnReply
  <2>4. ASSUME NEW u \in Users, NEW part, Receive(u, part),
               \A v \in Users \ {u} : result'[v] = result[v]
        PROVE  OwnReply'
    <3>1. from' = [from EXCEPT ![u] = u]
      BY <2>4 DEF Receive, InFrame
    <3> QED BY <2>1, <2>4, <3>1 DEF OwnReply
  <2>5. ASSUME NEW u \in Users, Call(u) \/ ConnectionError(u) PROVE OwnReply'
    BY <2>3, <2>5 DEF Call, ConnectionError, Error, Return, histVars
  <2>6. ASSUME NEW u \in Users, SendHeader(u) \/ SendData(u) PROVE OwnReply'
    BY <2>2, <2>6 DEF SendHeader, SendData, Send, histVars
  <2>7. ASSUME NEW u \in Users, RecvHeader(u) \/ RecvData(u) PROVE OwnReply'
    BY <2>1, <2>4, <2>7 DEF RecvHeader, RecvData, Error, Return
  <2>8. ASSUME NEW s \in Sessions,
               Server(s) \/ Disconnect(s) \/ CloseUnregister(s) \/ CloseTransport(s)
        PROVE  OwnReply'
    BY <2>2, <2>8 DEF Server, ServerHeader, ServerData, ServerDispatch, ServerReply,
                     ServerError, Disconnect, CloseUnregister, CloseTransport,
                     clientVars, histVars
  <2>9. CASE UNCHANGED vars
    BY <2>2, <2>9 DEF vars, clientVars, histVars
  <2> QED BY <2>5, <2>6, <2>7, <2>8, <2>9 DEF Next, Operation
<1> QED BY <1>1, <1>2, TypeCorrect, StaysInFrame, PTL DEF Spec

-----------------------------------------------------------------------------
(* The refinement: for any number of users that have a session each,       *)
(* EncapSession implements AttributeService.                               *)

\* A request that may still reach the object: the server is at it, or its header is
\* what the server reads next.
Pending(s) ==
  {r \in Requests : \/ spc[s] \in {"data", "dispatch"} /\ r = request[s]
                    \/ spc[s] = "header" /\ Len(toServer[s]) >= 1 /\ r = toServer[s][1].packet}

\* It is the one of the present call, which has had no effect, or of a failed call.
Owed(u, r) ==
  IF late[u] = NoOp THEN op[u] = r.op /\ effect[u] = NoValue ELSE late[u] = r.op

\* An answer that ends the present call with an error, or the value of its effect.
Answering(u) == {"fail", "refused", effect[u]}
AnsweringPart(u) == {p \in ReplyPart : p.packet.answer \in Answering(u)}

CallAt(u) ==
  LET s == SessionOf[u] IN
  /\ pc[u] = "idle" => op[u] = NoOp
  /\ pc[u] # "idle" => result[u] = NoValue
  /\ late[u] # NoOp => ~up[s]
  /\ up[s] /\ pc[u] = "sendHeader" => effect[u] = NoValue
  /\ \A r \in Pending(s) : Owed(u, r)
  /\ up[s] /\ spc[s] = "reply" => answer[s] \in Answering(u)
  /\ toClient[s] \in Seq(AnsweringPart(u))

\* Nothing is on the way to the object while a reply is on its way back.
OneWay(s) ==
  Len(toClient[s]) # 0 => spc[s] = "closed" \/ (AtMost(toServer[s], 0) /\ spc[s] = "header")

EffectInv == (\A u \in Users : CallAt(u)) /\ \A s \in Sessions : OneWay(s)

Inv == TypeInv /\ FrameInv /\ EffectInv

-----------------------------------------------------------------------------

\* An empty stream holds answers of any kind.
LEMMA EmptyStream ==
  ASSUME NEW stream, NEW S, stream \in Seq(S), Len(stream) = 0, NEW T
  PROVE  stream \in Seq(T)
BY EmptySeq

\* An Unregister is nobody's request.
LEMMA NoRequestLeft ==
  ASSUME NEW S, NEW stream \in Seq(S)
  PROVE  /\ Unregister \notin Requests
         /\ \A u \in Users : op[u] \in Ops => Request(u) # Unregister
         /\ AtMost(stream, 0) => \A i \in DOMAIN stream : stream[i].packet = Unregister
         /\ Len(stream) \in Nat /\ DOMAIN stream = 1 .. Len(stream)
<1>1. Len(stream) \in Nat /\ DOMAIN stream = 1 .. Len(stream)
  BY LenProperties
<1>2. AtMost(stream, 0) => \A i \in DOMAIN stream : stream[i].packet = Unregister
  BY <1>1 DEF AtMost, Part
<1>3. Unregister \notin Requests
  BY DEF Unregister, Requests, Ops, Kinds
<1>4. \A u \in Users : op[u] \in Ops => Request(u) # Unregister
  BY DEF Unregister, Request, Ops, Kinds
<1> QED BY <1>1, <1>2, <1>3, <1>4

\* Then no request is pending.
LEMMA NothingPending ==
  ASSUME NEW s, NEW S, toServer[s] \in Seq(S), AtMost(toServer[s], 0),
         spc[s] \notin {"data", "dispatch"}
  PROVE  Pending(s) = {}
<1>1. ASSUME Len(toServer[s]) >= 1 PROVE toServer[s][1].packet \notin Requests
  BY <1>1, NoRequestLeft
<1> QED BY <1>1 DEF Pending

\* A user on whose session nothing happens.
LEMMA CallElsewhere ==
  ASSUME NEW u \in Users, CallAt(u), NEW s, s = SessionOf[u],
         pc'[u] = pc[u], op'[u] = op[u], result'[u] = result[u],
         effect'[u] = effect[u], late'[u] = late[u],
         up'[s] = up[s], toServer'[s] = toServer[s], toClient'[s] = toClient[s],
         spc'[s] = spc[s], request'[s] = request[s], answer'[s] = answer[s]
  PROVE  CallAt(u)'
BY DEF CallAt, Pending, Owed, Answering, AnsweringPart

\* The state of a user and its session, as the invariant gives it.
LEMMA AtUser ==
  ASSUME Alone, Inv, NEW u \in Users, NEW s, s = SessionOf[u]
  PROVE  /\ s \in Sessions /\ CallAt(u) /\ OneWay(s)
         /\ OwnAt(s) /\ ServerAt(s) /\ ClientAt(s, u)
         /\ up[s] => TurnAt(s, u) /\ (pc[u] \in {"idle", "sendHeader"} => Quiet(s))
         /\ pc[u] # "idle" => op[u] \in Ops /\ op[u] # NoOp
         /\ toServer[s] \in Seq(RequestPart) /\ toClient[s] \in Seq(ReplyPart)
         /\ Len(toServer[s]) \in Nat /\ Len(toClient[s]) \in Nat
         /\ \A v \in Users \ {u} : SessionOf[v] # s
<1>1. s \in Sessions /\ u \in UserOf(s) /\ UserOf(s) = {u}
  BY SessionAssumption DEF UserOf, Alone
<1>2. FrameAt(s) /\ CallAt(u) /\ OneWay(s)
  BY <1>1 DEF Inv, FrameInv, EffectInv
<1>3. /\ OwnAt(s) /\ ServerAt(s) /\ ClientAt(s, u)
      /\ up[s] => TurnAt(s, u) /\ (pc[u] \in {"idle", "sendHeader"} => Quiet(s))
  BY <1>1, <1>2 DEF FrameAt
<1>4. pc[u] # "idle" => op[u] \in Ops /\ op[u] # NoOp
  BY NoOpAssumption DEF Inv, TypeInv, CalledInv
<1>5. toServer[s] \in Seq(RequestPart) /\ toClient[s] \in Seq(ReplyPart)
  BY <1>1 DEF Inv, TypeInv, TypeOK
<1>6. Len(toServer[s]) \in Nat /\ Len(toClient[s]) \in Nat
  BY <1>5, LenProperties
<1>7. \A v \in Users \ {u} : SessionOf[v] # s
  BY DEF Alone
<1> QED BY <1>1, <1>2, <1>3, <1>4, <1>5, <1>6, <1>7

\* A user calls an operation, and sends its request.
LEMMA EffectSend ==
  ASSUME Alone, Inv, NEW u \in Users, Call(u) \/ SendHeader(u) \/ SendData(u)
  PROVE  EffectInv' /\ [Attribute!Next]_(Attribute!vars)
<1> DEFINE s == SessionOf[u]
<1>1. /\ s \in Sessions /\ CallAt(u) /\ ClientAt(s, u)
      /\ up[s] => TurnAt(s, u) /\ (pc[u] \in {"idle", "sendHeader"} => Quiet(s))
      /\ toServer[s] \in Seq(RequestPart) /\ toClient[s] \in Seq(ReplyPart)
      /\ \A v \in Users \ {u} : SessionOf[v] # s
  BY AtUser
<1>2. UNCHANGED <<up, toClient, spc, request, answer, value, late>>
  BY DEF Call, SendHeader, SendData, Send, streams, serverVars, histVars
<1>3. /\ DOMAIN toServer = Sessions /\ DOMAIN pc = Users /\ DOMAIN op = Users
      /\ DOMAIN result = Users /\ DOMAIN effect = Users
  BY DEF Inv, TypeInv, TypeOK
<1>4. ASSUME NEW v \in Users \ {u} PROVE CallAt(v)'
  <2> DEFINE t == SessionOf[v]
  <2>1. t # s /\ t \in Sessions /\ CallAt(v)
    BY <1>1, SessionAssumption DEF Inv, EffectInv
  <2>2. toServer'[t] = toServer[t]
    BY <1>1, <1>3, <2>1 DEF Call, SendHeader, SendData, Send, streams
  <2>3. /\ pc'[v] = pc[v] /\ op'[v] = op[v] /\ result'[v] = result[v]
        /\ effect'[v] = effect[v]
    BY <1>3 DEF Call, SendHeader, SendData, Send, histVars
  <2> QED BY <1>2, <2>1, <2>2, <2>3, CallElsewhere
<1>5. Len(toClient[s]) = 0
  BY <1>1 DEF ClientAt, Call, SendHeader, SendData
<1>6. \A t \in Sessions : OneWay(t)'
  <2>1. ASSUME NEW t \in Sessions \ {s} PROVE OneWay(t)'
    <3>1. toServer'[t] = toServer[t] /\ OneWay(t)
      BY <1>1, <1>3, <2>1 DEF Call, SendHeader, SendData, Send, streams, Inv, EffectInv
    <3> QED BY <1>2, <3>1 DEF OneWay
  <2>2. OneWay(s)'
    BY <1>2, <1>5 DEF OneWay
  <2> QED BY <2>1, <2>2
<1>7. toClient'[s] \in Seq(AnsweringPart(u)')
  BY <1>1, <1>2, <1>5, EmptyStream
<1>8. CASE Call(u)
  <2>1. /\ pc[u] = "idle" /\ pc'[u] = "sendHeader" /\ toServer' = toServer
        /\ effect'[u] = NoValue /\ result'[u] = NoValue
    BY <1>3, <1>8 DEF Call, streams
  <2>2. ASSUME NEW r \in Pending(s) PROVE Owed(u, r)'
    <3>1. r.op # NoOp /\ op[u] = NoOp /\ Owed(u, r)
      BY <1>1, <2>1, NoOpAssumption DEF CallAt, Pending, Requests
    <3> QED BY <1>2, <3>1 DEF Owed
  <2>3. Pending(s)' = Pending(s)
    BY <1>2, <2>1 DEF Pending
  <2>4. CallAt(u)'
    BY <1>1, <1>2, <1>7, <2>1, <2>2, <2>3 DEF CallAt, Quiet
  <2>5. op[u] = NoOp
    BY <1>1, <2>1 DEF CallAt
  <2>6. Attribute!Invoke(u)
    <3>1. PICK o \in OpsOf[u] : op' = [op EXCEPT ![u] = o]
      BY <1>8 DEF Call
    <3>2. o \in Ops
      BY <3>1, OpsAssumption
    <3> QED BY <1>2, <1>8, <2>5, <3>1, <3>2 DEF Call, Attribute!Invoke
  <2> QED BY <1>4, <1>6, <2>4, <2>6 DEF EffectInv, Attribute!Next
<1>9. CASE SendHeader(u) \/ SendData(u)
  <2>1. /\ UNCHANGED <<op, effect, result>> /\ pc[u] \in {"sendHeader", "sendData"}
        /\ pc'[u] \in {"sendData", "recvHeader"}
        /\ \E part \in Parts : Send(u, part)
    BY <1>3, <1>9 DEF SendHeader, SendData, Send, histVars, Parts
  <2>2. UNCHANGED Attribute!vars
    BY <1>2, <2>1 DEF Attribute!vars
  <2>3. ASSUME NEW r \in Pending(s)' PROVE r \in Pending(s) \/ (up[s] /\ pc[u] = "sendHeader" /\ r = Request(u))
    <3>1. CASE ~(up[s] /\ ~Unregistered(s))
      <4>1. toServer' = toServer
        BY <2>1, <3>1 DEF Send
      <4> QED BY <1>2, <2>3, <4>1 DEF Pending
    <3>2. CASE up[s] /\ ~Unregistered(s)
      <4>1. PICK part \in Parts : Send(u, part)
        BY <2>1
      <4>2. Part(part, Request(u)) \in RequestPart
        BY <2>1 DEF Inv, TypeInv, CalledInv, Part, Request, RequestPart, Requests
      <4>3. toServer'[s] = Append(toServer[s], Part(part, Request(u)))
        BY <1>1, <1>3, <3>2, <4>1 DEF Send
      <4>4. /\ Len(toServer[s]) = 0 => toServer'[s][1] = Part(part, Request(u))
            /\ Len(toServer[s]) = 1 => toServer'[s][1] = toServer[s][1]
        BY <1>1, <4>2, <4>3, AppendProperties
      <4>5. /\ Len(toServer[s]) \in Nat
            /\ AtMost(toServer[s], 0) => Len(toServer[s]) = 0
            /\ AtMost(toServer[s], 1) /\ Len(toServer[s]) >= 1 => Len(toServer[s]) = 1
        <5>1. Len(toServer[s]) \in Nat /\ DOMAIN toServer[s] = 1 .. Len(toServer[s])
          BY <1>1, LenProperties
        <5>2. \A i \in 1 .. Len(toServer[s]) : toServer[s][i] # Part("header", Unregister)
          BY <3>2, <5>1 DEF Unregistered, Part
        <5>3. ASSUME NEW n \in Nat, AtMost(toServer[s], n) PROVE Len(toServer[s]) <= n
          <6>1. Len(toServer[s]) = n + 1 => toServer[s][n + 1] # Part("header", Unregister)
            BY <5>1, <5>2
          <6> QED BY <5>3, <6>1 DEF AtMost
        <5>4. \A k \in Nat : (k <= 0 => k = 0) /\ (k <= 1 /\ k >= 1 => k = 1)
          OBVIOUS
        <5> QED BY <5>1, <5>3, <5>4
      <4>6. CASE pc[u] = "sendHeader"
        <5>1. Len(toServer[s]) = 0 /\ spc[s] = "header"
          BY <1>1, <3>2, <4>6, <4>5 DEF Quiet
        <5>2. toServer'[s][1].packet = Request(u)
          BY <4>4, <5>1 DEF Part
        <5> QED BY <1>2, <2>3, <3>2, <4>6, <5>1, <5>2 DEF Pending
      <4>7. CASE pc[u] = "sendData"
        <5>1. HalfSent(s, u)
          BY <1>1, <3>2, <4>7 DEF TurnAt
        <5>2. spc[s] = "header" => Len(toServer[s]) = 1
          BY <3>2, <4>5, <5>1 DEF HalfSent
        <5> QED BY <1>2, <2>3, <4>4, <5>2 DEF Pending
      <4> QED BY <2>1, <4>6, <4>7
    <3> QED BY <3>1, <3>2
  <2>4. ASSUME NEW r \in Pending(s)' PROVE Owed(u, r)'
    <3>1. CASE r \in Pending(s)
      BY <1>1, <1>2, <2>1, <3>1 DEF CallAt, Owed
    <3>2. CASE up[s] /\ pc[u] = "sendHeader" /\ r = Request(u)
      BY <1>1, <1>2, <2>1, <3>2 DEF CallAt, Owed, Request
    <3> QED BY <2>3, <2>4, <3>1, <3>2
  <2>5. CallAt(u)'
    BY <1>1, <1>2, <1>7, <2>1, <2>4 DEF CallAt, Answering
  <2> QED BY <1>4, <1>6, <2>2, <2>5 DEF EffectInv
<1> QED BY <1>8, <1>9

\* A user's call takes a part of a reply, or fails.
LEMMA EffectReceive ==
  ASSUME Alone, Inv, FrameInv', TypeInv', NEW u \in Users,
         ConnectionError(u) \/ RecvHeader(u) \/ RecvData(u)
  PROVE  EffectInv' /\ [Attribute!Next]_(Attribute!vars)
<1> DEFINE s == SessionOf[u]
           replies == toClient[s]
<1>1. /\ s \in Sessions /\ CallAt(u) /\ OneWay(s) /\ OwnAt(s) /\ ClientAt(s, u)
      /\ up[s] => TurnAt(s, u)
      /\ pc[u] # "idle" => op[u] \in Ops /\ op[u] # NoOp
      /\ toServer[s] \in Seq(RequestPart) /\ Len(toServer[s]) \in Nat
      /\ replies \in Seq(ReplyPart) /\ replies \in Seq(AnsweringPart(u))
      /\ \A v \in Users \ {u} : SessionOf[v] # s
  BY AtUser DEF CallAt
<1>2. UNCHANGED <<up, toServer, spc, request, answer, value>>
  BY DEF ConnectionError, RecvHeader, RecvData, Receive, streams, serverVars
<1>3. /\ DOMAIN toClient = Sessions /\ DOMAIN pc = Users /\ DOMAIN op = Users
      /\ DOMAIN result = Users /\ DOMAIN effect = Users /\ DOMAIN late = Users
      /\ result \in [Users -> Values \union {NoValue}]
  BY DEF Inv, TypeInv, TypeOK
<1>4. /\ pc[u] \in {"sendHeader", "sendData", "recvHeader", "recvData"}
      /\ pc'[u] \in {"idle", "recvData"}
  BY <1>3 DEF ConnectionError, RecvHeader, RecvData, Error, Return
<1>5. ASSUME NEW v \in Users \ {u} PROVE CallAt(v)'
  <2> DEFINE t == SessionOf[v]
  <2>1. t # s /\ t \in Sessions /\ CallAt(v)
    BY <1>1, SessionAssumption DEF Inv, EffectInv
  <2>2. toClient'[t] = toClient[t]
    BY <1>1, <1>3, <2>1 DEF ConnectionError, RecvHeader, RecvData, Receive, streams
  <2>3. /\ pc'[v] = pc[v] /\ op'[v] = op[v] /\ result'[v] = result[v]
        /\ effect'[v] = effect[v] /\ late'[v] = late[v]
    BY <1>3 DEF ConnectionError, RecvHeader, RecvData, Error, Return
  <2> QED BY <1>2, <2>1, <2>2, <2>3, CallElsewhere
\* While a reply is there, nothing is on the way to the object.
<1>6. ASSUME replies # <<>>
      PROVE  /\ Len(replies) # 0 /\ (spc[s] = "closed" \/ (AtMost(toServer[s], 0) /\ spc[s] = "header"))
             /\ Pending(s) = {} /\ Pending(s)' = {}
  <2>1. Len(replies) # 0
    BY <1>1, <1>6, EmptySeq
  <2>2. spc[s] = "closed" \/ (AtMost(toServer[s], 0) /\ spc[s] = "header")
    BY <1>1, <2>1 DEF OneWay
  <2>3. Pending(s) = {}
    <3>1. CASE spc[s] = "closed"
      BY <3>1 DEF Pending
    <3>2. CASE AtMost(toServer[s], 0) /\ spc[s] = "header"
      BY <1>1, <3>2, NothingPending
    <3> QED BY <2>2, <3>1, <3>2
  <2> QED BY <1>2, <2>1, <2>2, <2>3 DEF Pending
<1>7. \A t \in Sessions : OneWay(t)'
  <2>1. ASSUME NEW t \in Sessions, toClient'[t] = toClient[t] PROVE OneWay(t)'
    BY <1>2, <2>1 DEF OneWay, Inv, EffectInv
  <2>2. ASSUME NEW t \in Sessions, toClient'[t] # toClient[t] PROVE OneWay(t)'
    <3>1. t = s /\ replies # <<>>
      BY <1>3, <2>2 DEF ConnectionError, RecvHeader, RecvData, Receive, streams
    <3> QED BY <1>2, <1>6, <3>1 DEF OneWay
  <2> QED BY <2>1, <2>2
<1>8. \/ toClient' = toClient /\ ~up[s]
      \/ replies # <<>> /\ toClient' = [toClient EXCEPT ![s] = Tail(replies)]
  BY <1>3 DEF ConnectionError, RecvHeader, RecvData, Receive, streams
<1>9. toClient'[s] \in Seq(AnsweringPart(u))
  <2>1. toClient'[s] = replies \/ (replies # <<>> /\ toClient'[s] = Tail(replies))
    BY <1>1, <1>3, <1>8
  <2>2. replies # <<>> => Tail(replies) \in Seq(AnsweringPart(u))
    BY <1>1, HeadTailProperties
  <2> QED BY <1>1, <2>1, <2>2
\* A call that is over has taken all there is of its reply.
<1>10. ASSUME pc'[u] = "idle"
       PROVE  toClient'[s] \in Seq(AnsweringPart(u)') /\ (up'[s] => spc'[s] = "header")
  <2>1. FrameAt(s)' /\ UserOf(s)' = {u} /\ toClient'[s] \in Seq(ReplyPart)
    <3>1. UserOf(s)' = {u}
      BY <1>1 DEF UserOf
    <3>2. toClient'[s] \in Seq(ReplyPart)
      BY <1>1 DEF TypeInv, TypeOK
    <3> QED BY <1>1, <3>1, <3>2 DEF FrameInv
  <2>2. Len(toClient'[s]) = 0
    BY <1>10, <2>1 DEF FrameAt, ClientAt
  <2>3. up'[s] => spc'[s] = "header"
    BY <1>10, <2>1 DEF FrameAt, Quiet
  <2> QED BY <2>1, <2>2, <2>3, EmptyStream
<1>11. ASSUME NEW r \in Pending(s)
       PROVE  (late[u] = NoOp => OnTheWay(u)) /\ Owed(u, r) /\ r.op \in Ops
  <2>1. r \in Requests /\ Owed(u, r)
    BY <1>1 DEF CallAt, Pending
  <2>2. SessionOf[r.user] = s => r.user = u
    BY <1>1, <2>1 DEF Requests
  <2>3. late[u] = NoOp /\ r.user = u => r = Request(u)
    BY <2>1 DEF Owed, Requests, Request
  <2>4. CASE spc[s] \in {"data", "dispatch"} /\ r = request[s]
    BY <1>1, <2>1, <2>2, <2>3, <2>4 DEF OwnAt, OnTheWay, Requests
  <2>5. CASE spc[s] = "header" /\ Len(toServer[s]) >= 1 /\ r = toServer[s][1].packet
    <3>1. 1 \in 1 .. Len(toServer[s]) /\ toServer[s] \in Seq(RequestPartOf(s))
      BY <1>1, <2>5 DEF OwnAt
    <3>2. toServer[s][1] \in RequestPartOf(s) /\ 1 \in DOMAIN toServer[s]
      BY <1>1, <3>1, ElementOfSeq, LenProperties
    <3> QED BY <2>1, <2>2, <2>3, <2>5, <3>2 DEF RequestPartOf, OnTheWay, Requests
  <2> QED BY <2>1, <2>4, <2>5 DEF Pending, Requests
<1>12. ASSUME Error(u) PROVE EffectInv' /\ [Attribute!Next]_(Attribute!vars)
  <2>1. /\ pc'[u] = "idle" /\ op'[u] = NoOp /\ effect'[u] = NoValue /\ result'[u] = NoValue
        /\ late'[u] = IF late[u] = NoOp /\ effect[u] = NoValue /\ OnTheWay(u)
                        THEN op[u] ELSE late[u]
    BY <1>3, <1>12 DEF Error, Return
  <2>2. late'[u] # NoOp => ~up'[s]
    <3>1. up[s] => ~OnTheWay(u)
      <4>1. up[s] => AtMost(toServer[s], 0) /\ spc[s] = "header"
        BY <1>6, <1>8, <1>1, <1>4 DEF TurnAt, ServerAt, OneWay, ClientAt
      <4>2. AtMost(toServer[s], 0) =>
              \A i \in DOMAIN toServer[s] : toServer[s][i].packet # Request(u)
        BY <1>1, <1>4, NoRequestLeft
      <4> QED BY <4>1, <4>2 DEF OnTheWay
    <3> QED BY <1>1, <1>2, <2>1, <3>1 DEF CallAt
  <2>3. ASSUME NEW r \in Pending(s)' PROVE Owed(u, r)'
    <3>1. r \in Pending(s)
      BY <1>2, <2>3 DEF Pending
    <3>2. late'[u] = r.op /\ r.op # NoOp
      BY <1>11, <2>1, <3>1, NoOpAssumption DEF Owed
    <3> QED BY <3>2 DEF Owed
  <2>4. CallAt(u)'
    BY <1>10, <2>1, <2>2, <2>3 DEF CallAt
  <2>5. Attribute!Fail(u)
    <3>1. result' = result
      <4>1. result[u] = NoValue
        BY <1>1, <1>4 DEF CallAt
      <4> QED BY <1>3, <1>12, <4>1 DEF Error, Return
    <3>2. late' \in {late, [late EXCEPT ![u] = IF effect[u] = NoValue THEN op[u] ELSE @]}
      BY <1>3, <1>12 DEF Error
    <3> QED BY <1>1, <1>2, <1>4, <1>12, <3>1, <3>2 DEF Error, Return, Attribute!Fail
  <2> QED BY <1>5, <1>7, <2>4, <2>5 DEF EffectInv, Attribute!Next
<1>13. CASE ConnectionError(u)
  BY <1>12, <1>13 DEF ConnectionError
<1>14. CASE RecvHeader(u) /\ ~Error(u)
  <2>1. /\ pc'[u] = "recvData" /\ UNCHANGED <<op, result, effect, late>> /\ replies # <<>>
    BY <1>3, <1>14 DEF RecvHeader, Receive
  <2>2. CallAt(u)'
    BY <1>1, <1>2, <1>4, <1>6, <1>9, <2>1 DEF CallAt, Answering, AnsweringPart
  <2>3. UNCHANGED Attribute!vars
    BY <1>2, <2>1 DEF Attribute!vars
  <2> QED BY <1>5, <1>7, <2>2, <2>3 DEF EffectInv
<1>15. CASE RecvData(u) /\ ~Error(u)
  <2> DEFINE reply == Head(replies).packet
  <2>1. /\ replies # <<>> /\ Head(replies).part = "data" /\ reply.answer # "refused"
        /\ Return(u, reply.answer) /\ UNCHANGED late
    BY <1>15 DEF RecvData, Receive
  <2>2. Head(replies) \in AnsweringPart(u) /\ Head(replies) \in ReplyPart
    BY <1>1, <2>1, HeadTailProperties
  <2>3. reply.answer = effect[u] /\ effect[u] # NoValue
    BY <2>1, <2>2, ValueAssumption DEF AnsweringPart, Answering, ReplyPart, Answers
  <2>4. /\ pc'[u] = "idle" /\ op'[u] = NoOp /\ effect'[u] = NoValue
    BY <1>3, <2>1 DEF Return
  <2>5. CallAt(u)'
    <3>1. pc'[u] # "idle" => result'[u] = NoValue
      BY <2>4
    <3> QED BY <1>1, <1>2, <1>6, <1>10, <2>1, <2>4, <3>1 DEF CallAt
  <2>6. Attribute!Succeed(u)
    BY <1>1, <1>2, <1>4, <2>1, <2>3 DEF Return, Attribute!Succeed
  <2> QED BY <1>5, <1>7, <2>5, <2>6 DEF EffectInv, Attribute!Next
<1> QED BY <1>12, <1>13, <1>14, <1>15

\* A step of the connection or the server that does not reach the object.
LEMMA EffectElsewhere ==
  ASSUME Alone, Inv, NEW s \in Sessions,
         UNCHANGED <<clientVars, value, histVars>>,
         \A t \in Sessions \ {s} :
           /\ up'[t] = up[t] /\ toServer'[t] = toServer[t] /\ toClient'[t] = toClient[t]
           /\ spc'[t] = spc[t] /\ request'[t] = request[t] /\ answer'[t] = answer[t],
         up'[s] => up[s],
         \A r \in Pending(s)' : r \in Pending(s),
         up'[s] /\ spc'[s] = "reply" =>
           answer'[s] = "fail" \/ (spc[s] = "reply" /\ answer'[s] = answer[s]),
         \A u \in UserOf(s) : toClient'[s] \in Seq(AnsweringPart(u)),
         OneWay(s)'
  PROVE  EffectInv' /\ [Attribute!Next]_(Attribute!vars)
<1>1. UNCHANGED <<pc, op, result, value, effect, late>>
  BY DEF clientVars, histVars
<1>2. ASSUME NEW u \in Users PROVE CallAt(u)'
  <2>1. CallAt(u) /\ SessionOf[u] \in Sessions
    BY SessionAssumption DEF Inv, EffectInv
  <2>2. CASE SessionOf[u] # s
    BY <1>1, <2>1, <2>2, CallElsewhere
  <2>3. CASE SessionOf[u] = s
    <3>1. toClient'[s] \in Seq(AnsweringPart(u)')
      <4>1. AnsweringPart(u)' = AnsweringPart(u)
        BY <1>1 DEF AnsweringPart, Answering
      <4> QED BY <2>3, <4>1 DEF UserOf
    <3>2. \A r \in Pending(s)' : Owed(u, r)'
      BY <1>1, <2>1, <2>3 DEF CallAt, Owed
    <3>3. up'[s] /\ spc'[s] = "reply" => answer'[s] \in Answering(u)'
      BY <1>1, <2>1, <2>3 DEF CallAt, Answering
    <3> QED BY <1>1, <2>1, <2>3, <3>1, <3>2, <3>3 DEF CallAt
  <2> QED BY <2>2, <2>3
<1>3. \A t \in Sessions : OneWay(t)'
  BY DEF OneWay, Inv, EffectInv
<1>4. UNCHANGED Attribute!vars
  BY <1>1 DEF Attribute!vars
<1> QED BY <1>2, <1>3, <1>4 DEF EffectInv

\* What the invariant says of a session.
LEMMA AtSession ==
  ASSUME Inv, NEW s \in Sessions
  PROVE  /\ OneWay(s) /\ OwnAt(s) /\ ServerAt(s)
         /\ toServer[s] \in Seq(RequestPart) /\ toClient[s] \in Seq(ReplyPart)
         /\ Len(toServer[s]) \in Nat /\ Len(toClient[s]) \in Nat
         /\ DOMAIN up = Sessions /\ DOMAIN toServer = Sessions /\ DOMAIN toClient = Sessions
         /\ DOMAIN spc = Sessions /\ DOMAIN request = Sessions /\ DOMAIN answer = Sessions
         /\ \A u \in UserOf(s) : toClient[s] \in Seq(AnsweringPart(u))
<1>1. OneWay(s) /\ OwnAt(s) /\ ServerAt(s)
  BY DEF Inv, EffectInv, FrameInv, FrameAt
<1>2. /\ toServer[s] \in Seq(RequestPart) /\ toClient[s] \in Seq(ReplyPart)
      /\ DOMAIN up = Sessions /\ DOMAIN toServer = Sessions /\ DOMAIN toClient = Sessions
      /\ DOMAIN spc = Sessions /\ DOMAIN request = Sessions /\ DOMAIN answer = Sessions
  BY DEF Inv, TypeInv, TypeOK
<1>3. Len(toServer[s]) \in Nat /\ Len(toClient[s]) \in Nat
  BY <1>2, LenProperties
<1>4. \A u \in UserOf(s) : toClient[s] \in Seq(AnsweringPart(u))
  BY DEF Inv, EffectInv, CallAt, UserOf
<1> QED BY <1>1, <1>2, <1>3, <1>4

\* Of a reply that is cut short some first part arrives.
LEMMA CutReply ==
  ASSUME Inv, NEW s \in Sessions, CutShort(toClient, s)
  PROVE  /\ \A u \in UserOf(s) : toClient'[s] \in Seq(AnsweringPart(u))
         /\ Len(toClient[s]) = 0 => Len(toClient'[s]) = 0
         /\ \A t \in Sessions \ {s} : toClient'[t] = toClient[t]
<1>1. PICK n \in 0 .. Len(toClient[s]) : toClient' = [toClient EXCEPT ![s] = SubSeq(@, 1, n)]
  BY DEF CutShort
<1>2. /\ toClient'[s] = SubSeq(toClient[s], 1, n)
      /\ \A t \in Sessions \ {s} : toClient'[t] = toClient[t]
  BY <1>1, AtSession
<1>3. Len(toClient'[s]) = n /\ Len(toClient[s]) \in Nat
  BY <1>2, AtSession, FirstPart
<1>4. \A u \in UserOf(s) : toClient'[s] \in Seq(AnsweringPart(u))
  BY <1>2, AtSession, FirstPart
<1> QED BY <1>2, <1>3, <1>4

\* The server's goroutine returns.
LEMMA EffectReturns ==
  ASSUME Alone, Inv, NEW s \in Sessions, ServerReturns(s),
         \A t \in Sessions \ {s} : toServer'[t] = toServer[t],
         UNCHANGED <<clientVars, value, histVars>>
  PROVE  EffectInv' /\ [Attribute!Next]_(Attribute!vars)
<1>1. /\ spc'[s] = "closed" /\ ~up'[s] /\ CutShort(toClient, s)
      /\ \A t \in Sessions \ {s} : /\ up'[t] = up[t] /\ spc'[t] = spc[t]
                                  /\ request'[t] = request[t] /\ answer'[t] = answer[t]
  BY AtSession DEF ServerReturns
<1>2. Pending(s)' = {} /\ OneWay(s)'
  BY <1>1 DEF Pending, OneWay
<1> QED BY <1>1, <1>2, CutReply, EffectElsewhere

\* The server reads a part of a request.
LEMMA EffectRead ==
  ASSUME Alone, Inv, NEW s \in Sessions, ServerHeader(s) \/ ServerData(s)
  PROVE  EffectInv' /\ [Attribute!Next]_(Attribute!vars)
<1>1. /\ OneWay(s) /\ toServer[s] \in Seq(RequestPart) /\ Len(toServer[s]) \in Nat
      /\ DOMAIN up = Sessions /\ DOMAIN toServer = Sessions /\ DOMAIN toClient = Sessions
      /\ DOMAIN spc = Sessions /\ DOMAIN request = Sessions /\ DOMAIN answer = Sessions
      /\ \A u \in UserOf(s) : toClient[s] \in Seq(AnsweringPart(u))
  BY AtSession
<1>2. /\ spc[s] \in {"header", "data"} /\ toServer[s] # <<>>
      /\ \A t \in Sessions \ {s} : toServer'[t] = toServer[t]
      /\ UNCHANGED <<clientVars, value, histVars>>
  BY <1>1 DEF ServerHeader, ServerData, Reads
<1>3. Head(toServer[s]) = toServer[s][1] /\ Len(toServer[s]) >= 1
  <2>2. Head(toServer[s]) = toServer[s][1] /\ Len(toServer[s]) \in Nat \ {0}
    BY <1>1, <1>2, ReadPart
  <2> QED BY <2>2
<1>4. ASSUME toServer[s][1].packet # Unregister PROVE ~AtMost(toServer[s], 0)
  BY <1>1, <1>3, <1>4, NoRequestLeft
<1>5. CASE ServerReturns(s)
  BY <1>2, <1>5, EffectReturns
<1>6. CASE ~ServerReturns(s)
  <2>1. Len(toClient[s]) = 0
    <3>1. spc[s] = "header" => toServer[s][1].packet # Unregister
      BY <1>3, <1>6 DEF ServerHeader, ServerData, Unregister
    <3> QED BY <1>1, <1>2, <1>4, <3>1 DEF OneWay
  <2>2. UNCHANGED <<up, toClient>> /\ OneWay(s)'
    BY <2>1, <1>6 DEF ServerHeader, ServerData, OneWay
  <2>3. \A t \in Sessions \ {s} :
          /\ spc'[t] = spc[t] /\ request'[t] = request[t] /\ answer'[t] = answer[t]
    BY <1>1, <1>6 DEF ServerHeader, ServerData
  <2>4. ASSUME NEW r \in Pending(s)' PROVE r \in Pending(s)
    <3>1. CASE ServerHeader(s)
      BY <1>1, <1>3, <1>6, <2>4, <3>1 DEF ServerHeader, Pending
    <3>2. CASE ServerData(s)
      BY <1>1, <2>4, <3>2 DEF ServerData, Pending
    <3> QED BY <3>1, <3>2
  <2>5. spc'[s] = "reply" => answer'[s] = "fail"
    BY <1>1, <1>6 DEF ServerHeader, ServerData
  <2> QED BY <1>1, <1>2, <2>2, <2>3, <2>4, <2>5, EffectElsewhere
<1> QED BY <1>5, <1>6

\* The server answers.
LEMMA EffectReply ==
  ASSUME Alone, Inv, NEW s \in Sessions, ServerReply(s)
  PROVE  EffectInv' /\ [Attribute!Next]_(Attribute!vars)
<1> DEFINE packet == [user |-> request[s].user, answer |-> answer[s]]
           header == <<Part("header", packet)>>
           data   == IF answer[s] = "fail" THEN <<>> ELSE <<Part("data", packet)>>
<1>1. /\ spc[s] = "reply" /\ up[s] /\ UNCHANGED <<up, toServer, clientVars, value, histVars>>
      /\ spc' = [spc EXCEPT ![s] = "header"] /\ request' = [request EXCEPT ![s] = NoRequest]
      /\ answer' = [answer EXCEPT ![s] = NoValue]
      /\ toClient' = [toClient EXCEPT ![s] = @ \o header \o data]
  BY DEF ServerReply
<1>2. /\ DOMAIN toClient = Sessions /\ DOMAIN spc = Sessions
      /\ DOMAIN request = Sessions /\ DOMAIN answer = Sessions
      /\ \A u \in UserOf(s) : toClient[s] \in Seq(AnsweringPart(u))
  BY AtSession
<1>3. spc'[s] = "header" /\ toServer' = toServer /\ AtMost(toServer[s], 0)
  BY <1>1, <1>2, AtSession DEF ServerAt
<1>4. Pending(s)' = {} /\ OneWay(s)'
  <2>1. Len(toServer[s]) >= 1 => toServer[s][1].packet \notin Requests
    BY <1>3, AtSession, NoRequestLeft
  <2>2. Pending(s)' = {}
    BY <1>3, <2>1 DEF Pending
  <2> QED BY <1>3, <2>2 DEF OneWay, AtMost
<1>5. ASSUME NEW u \in UserOf(s) PROVE toClient'[s] \in Seq(AnsweringPart(u))
  <2>1. packet.user \in Users /\ packet.answer \in Answers
    BY <1>1 DEF Inv, TypeInv, HeldInv, Requests
  <2>2. packet.answer \in Answering(u)
    BY <1>1 DEF Inv, EffectInv, CallAt, UserOf
  <2>3. Part("header", packet) \in AnsweringPart(u)
    BY <2>1, <2>2 DEF Part, ReplyPart, AnsweringPart
  <2>4. answer[s] # "fail" => Part("data", packet) \in AnsweringPart(u)
    BY <2>1, <2>2 DEF Part, ReplyPart, AnsweringPart
  <2>5. header \in Seq(AnsweringPart(u)) /\ data \in Seq(AnsweringPart(u))
    BY <2>3, <2>4, EmptySeq
  <2>6. toClient[s] \o header \o data \in Seq(AnsweringPart(u))
    BY <1>2, <2>5, ConcatProperties
  <2> QED BY <1>1, <1>2, <2>6
<1>6. \A t \in Sessions \ {s} :
        /\ toClient'[t] = toClient[t] /\ spc'[t] = spc[t]
        /\ request'[t] = request[t] /\ answer'[t] = answer[t]
  BY <1>1, <1>2
<1> QED BY <1>1, <1>3, <1>4, <1>5, <1>6, EffectElsewhere

\* The connection breaks, or is closed by the client.
LEMMA EffectBreak ==
  ASSUME Alone, Inv, NEW s \in Sessions, Disconnect(s) \/ CloseTransport(s)
  PROVE  EffectInv' /\ [Attribute!Next]_(Attribute!vars)
<1>1. /\ OneWay(s) /\ toServer[s] \in Seq(RequestPart) /\ Len(toServer[s]) \in Nat
      /\ DOMAIN up = Sessions /\ DOMAIN toServer = Sessions /\ DOMAIN toClient = Sessions
  BY AtSession
<1>2. /\ UNCHANGED <<spc, request, answer>> /\ UNCHANGED <<clientVars, value, histVars>>
      /\ ~up'[s] /\ \A t \in Sessions \ {s} : up'[t] = up[t] /\ toServer'[t] = toServer[t]
  BY <1>1 DEF Disconnect, CloseTransport, CutShort, serverVars
<1>3. PICK n \in 0 .. Len(toServer[s]) : toServer' = [toServer EXCEPT ![s] = SubSeq(@, 1, n)]
  BY DEF Disconnect, CloseTransport, CutShort
<1>4. toServer'[s] = SubSeq(toServer[s], 1, n)
  BY <1>1, <1>3
<1>5. Len(toServer'[s]) = n /\ \A i \in 1 .. n : toServer'[s][i] = toServer[s][i]
  BY <1>1, <1>4, FirstPart
<1>6. n \in Nat /\ n <= Len(toServer[s])
  BY <1>1
<1>7. Len(toServer'[s]) >= 1 => Len(toServer[s]) >= 1 /\ toServer'[s][1] = toServer[s][1]
  BY <1>1, <1>5, <1>6
<1>8. AtMost(toServer[s], 0) => AtMost(toServer'[s], 0)
  BY <1>1, <1>5, <1>6, FirstOfRequest
<1>9. \A r \in Pending(s)' : r \in Pending(s)
  BY <1>2, <1>7 DEF Pending
<1>10. /\ \A u \in UserOf(s) : toClient'[s] \in Seq(AnsweringPart(u))
       /\ Len(toClient[s]) = 0 => Len(toClient'[s]) = 0
       /\ \A t \in Sessions \ {s} : toClient'[t] = toClient[t]
  <2>1. CASE Disconnect(s)
    BY <2>1, CutReply DEF Disconnect
  <2>2. CASE CloseTransport(s)
    <3>1. toClient'[s] = <<>> /\ \A t \in Sessions \ {s} : toClient'[t] = toClient[t]
      BY <1>1, <2>2 DEF CloseTransport
    <3> QED BY <3>1, EmptySeq
  <2> QED BY <2>1, <2>2
<1>11. OneWay(s)'
  BY <1>1, <1>2, <1>8, <1>10 DEF OneWay, AtMost
<1> QED BY <1>2, <1>9, <1>10, <1>11, EffectElsewhere

\* The client sends an Unregister, which is no request.
LEMMA EffectUnregister ==
  ASSUME Alone, Inv, NEW s \in Sessions, CloseUnregister(s)
  PROVE  EffectInv' /\ [Attribute!Next]_(Attribute!vars)
<1>1. /\ OneWay(s) /\ toServer[s] \in Seq(RequestPart) /\ Len(toServer[s]) \in Nat
      /\ \A u \in UserOf(s) : toClient[s] \in Seq(AnsweringPart(u))
      /\ spc[s] = "reply" => AtMost(toServer[s], 0)
      /\ DOMAIN toServer = Sessions
  BY AtSession DEF ServerAt
<1>2. /\ UNCHANGED <<up, toClient, clientVars, serverVars, value, histVars>>
      /\ toServer' = [toServer EXCEPT ![s] = Append(@, Part("header", Unregister))]
      /\ \A i \in DOMAIN toServer[s] : toServer[s][i].packet # Unregister
  BY DEF CloseUnregister, Unregistered
<1>3. /\ toServer'[s] = Append(toServer[s], Part("header", Unregister))
      /\ \A t \in Sessions \ {s} : toServer'[t] = toServer[t]
  BY <1>1, <1>2
<1>4. Part("header", Unregister) \in RequestPart
  BY DEF Part, RequestPart, Parts
<1>5. /\ Len(toServer'[s]) = Len(toServer[s]) + 1
      /\ Len(toServer[s]) >= 1 => toServer'[s][1] = toServer[s][1]
      /\ \A n \in Nat : AtMost(toServer[s], n) => AtMost(toServer'[s], n)
  <2>1. \A i \in DOMAIN toServer[s] : toServer[s][i].packet # Unregister
    BY <1>2
  <2>2. toServer[s] \in Seq(RequestPart) /\ toServer'[s] = Append(toServer[s], Part("header", Unregister))
    BY <1>1, <1>3
  <2> QED BY <1>4, <2>1, <2>2, WithUnregister
<1>6. Len(toServer[s]) = 0 => toServer'[s][1] = Part("header", Unregister)
  BY <1>1, <1>3, <1>4, AppendProperties
<1>7. \A r \in Pending(s)' : r \in Pending(s)
  <2>1. UNCHANGED <<spc, request>> /\ Requests' = Requests
    BY <1>2 DEF serverVars, Requests
  <2>2. Unregister \notin Requests
    BY <1>1, NoRequestLeft
  <2>3. Len(toServer[s]) >= 1 \/ Len(toServer[s]) = 0
    BY <1>1
  <2> QED BY <1>5, <1>6, <2>1, <2>2, <2>3 DEF Pending, Part
<1>8. AtMost(toServer[s], 0) => AtMost(toServer'[s], 0)
  BY <1>5
<1>9. OneWay(s)'
  BY <1>1, <1>2, <1>8 DEF OneWay, AtMost, serverVars
<1> QED BY <1>1, <1>2, <1>3, <1>7, <1>9, EffectElsewhere DEF serverVars

\* A request reaches the object: the one of the present call, which has no effect
\* before, or that of a call that has failed.
LEMMA EffectDispatch ==
  ASSUME Alone, Inv, NEW s \in Sessions, ServerDispatch(s)
  PROVE  EffectInv' /\ [Attribute!Next]_(Attribute!vars)
<1> DEFINE r == request[s]
<1>0. PICK u \in Users, o \in Ops : r = [user |-> u, op |-> o]
  BY DEF ServerDispatch, Inv, TypeInv, HeldInv, Requests
<1>1. /\ spc[s] = "dispatch" /\ spc' = [spc EXCEPT ![s] = "reply"]
      /\ value' = Handle(o) /\ answer' = [answer EXCEPT ![s] = Dispatch(o)]
      /\ UNCHANGED <<up, toServer, toClient, pc, op, result, request>>
      /\ late[u] # NoOp => late' = [late EXCEPT ![u] = NoOp] /\ effect' = effect
      /\ late[u] = NoOp =>
           /\ late' = late
           /\ effect' = IF o.kind = "refused" THEN effect ELSE [effect EXCEPT ![u] = Handle(o)]
  BY <1>0 DEF ServerDispatch, streams, clientVars
<1>2. /\ r \in Requests /\ r.op = o /\ SessionOf[u] = s
      /\ o # NoOp
  BY <1>0, <1>1, AtSession, NoOpAssumption DEF Inv, TypeInv, HeldInv, OwnAt, Requests
<1>3. /\ CallAt(u) /\ OneWay(s) /\ toClient[s] \in Seq(ReplyPart)
      /\ up[s] => (pc[u] \in {"idle", "sendHeader"} => Quiet(s))
      /\ \A v \in Users \ {u} : SessionOf[v] # s
  BY <1>2, AtUser
<1>4. Owed(u, r)
  BY <1>1, <1>2, <1>3 DEF CallAt, Pending
<1>5. /\ DOMAIN spc = Sessions /\ DOMAIN answer = Sessions
      /\ DOMAIN late = Users /\ DOMAIN effect = Users
  BY DEF Inv, TypeInv, TypeOK
<1>6. ASSUME NEW v \in Users \ {u} PROVE CallAt(v)'
  <2>1. SessionOf[v] # s /\ SessionOf[v] \in Sessions /\ CallAt(v)
    BY <1>3, SessionAssumption DEF Inv, EffectInv
  <2>2. late'[v] = late[v] /\ effect'[v] = effect[v]
    BY <1>1, <1>2, <1>5
  <2>3. spc'[SessionOf[v]] = spc[SessionOf[v]] /\ answer'[SessionOf[v]] = answer[SessionOf[v]]
    BY <1>1, <1>5, <2>1
  <2> QED BY <1>1, <2>1, <2>2, <2>3, CallElsewhere
<1>7. Len(toClient[s]) = 0
  BY <1>1, <1>3 DEF OneWay
<1>8. \A t \in Sessions : OneWay(t)'
  <2>1. OneWay(s)'
    BY <1>1, <1>7 DEF OneWay
  <2>2. ASSUME NEW t \in Sessions \ {s} PROVE OneWay(t)'
    BY <1>1, <1>5, <2>2 DEF OneWay, Inv, EffectInv
  <2> QED BY <2>1, <2>2
<1>9. spc'[s] = "reply" /\ answer'[s] = Dispatch(o)
  BY <1>1, <1>5
<1>10. CallAt(u)'
  <2>1. toClient'[s] \in Seq(AnsweringPart(u)')
    BY <1>1, <1>3, <1>7, EmptyStream
  <2>2. Pending(s)' = {}
    BY <1>9 DEF Pending
  <2>3. late'[u] # NoOp => ~up'[s]
    BY <1>1, <1>2, <1>3 DEF CallAt
  <2>4. up'[s] => pc'[u] # "sendHeader"
    BY <1>1, <1>3 DEF Quiet
  <2>5. up'[s] => answer'[s] \in Answering(u)'
    <3> SUFFICES ASSUME up[s] PROVE answer'[s] \in Answering(u)'
      BY <1>1
    <3>1. late[u] = NoOp
      BY <1>2, <1>3 DEF CallAt
    <3>2. CASE o.kind = "refused"
      BY <1>9, <3>2 DEF Dispatch, Answering
    <3>3. CASE o.kind # "refused"
      BY <1>1, <1>2, <1>5, <1>9, <3>1, <3>3 DEF Dispatch, Answering
    <3> QED BY <3>2, <3>3
  <2> QED BY <1>1, <1>2, <1>3, <2>1, <2>2, <2>3, <2>4, <2>5 DEF CallAt
<1>11. [Attribute!Next]_(Attribute!vars)
  <2>1. CASE late[u] # NoOp
    <3>1. late[u] = o
      BY <1>2, <1>4, <2>1 DEF Owed
    <3>2. Attribute!ApplyLate(u)
      BY <1>1, <2>1, <3>1 DEF Handle, Attribute!ApplyLate, Attribute!ValueAfter
    <3> QED BY <1>2, <3>2 DEF Attribute!Next
  <2>2. CASE late[u] = NoOp /\ o.kind = "refused"
    BY <1>1, <2>2 DEF Handle, Attribute!vars
  <2>3. CASE late[u] = NoOp /\ o.kind # "refused"
    <3>1. op[u] = o /\ effect[u] = NoValue
      BY <1>2, <1>4, <2>3 DEF Owed
    <3>2. Attribute!Apply(u)
      BY <1>1, <1>2, <2>3, <3>1 DEF Handle, Attribute!Apply, Attribute!ValueAfter
    <3> QED BY <1>2, <3>2 DEF Attribute!Next
  <2> QED BY <2>1, <2>2, <2>3
<1>12. EffectInv'
  <2>1. ASSUME NEW v \in Users PROVE CallAt(v)'
    <3>1. CASE v = u
      BY <1>10, <3>1
    <3>2. CASE v # u
      BY <1>6, <3>2
    <3> QED BY <3>1, <3>2
  <2> QED BY <1>8, <2>1 DEF EffectInv
<1> QED BY <1>11, <1>12

-----------------------------------------------------------------------------

\* Gets and sets of any number of users, each with a session of its own, act on one
\* atomic attribute: through broken connections, lost requests and lost replies, each
\* takes effect at most once, and a get returns what was current when it did.
THEOREM Implements == ASSUME Alone PROVE Spec => AttributeSpec
<1>1. Init => EffectInv
  <2> SUFFICES ASSUME Init PROVE EffectInv
    OBVIOUS
  <2>1. \A S : <<>> \in Seq(S) /\ Len(<<>>) = 0
    BY EmptySeq
  <2>2. ASSUME NEW u \in Users PROVE CallAt(u)
    <3>1. SessionOf[u] \in Sessions
      BY SessionAssumption
    <3> QED BY <2>1, <3>1 DEF Init, CallAt, Pending
  <2>3. \A s \in Sessions : OneWay(s)
    BY <2>1 DEF Init, OneWay
  <2> QED BY <2>2, <2>3 DEF EffectInv
<1>2. Inv /\ TypeInv' /\ FrameInv' /\ [Next]_vars
        => EffectInv' /\ [Attribute!Next]_(Attribute!vars)
  <2> SUFFICES ASSUME Inv, TypeInv', FrameInv', [Next]_vars
               PROVE  EffectInv' /\ [Attribute!Next]_(Attribute!vars)
    OBVIOUS
  <2>1. CASE UNCHANGED vars
    <3>1. UNCHANGED <<up, toServer, toClient, pc, op, result, spc, request, answer,
                      value, effect, late>>
      BY <2>1 DEF vars, streams, clientVars, serverVars, histVars
    <3>2. \A u \in Users : CallAt(u)'
      BY <3>1, CallElsewhere DEF Inv, EffectInv
    <3>3. \A s \in Sessions : OneWay(s)'
      BY <3>1 DEF OneWay, Inv, EffectInv
    <3> QED BY <3>1, <3>2, <3>3 DEF EffectInv, Attribute!vars
  <2>2. CASE \E u \in Users : Call(u) \/ Operation(u)
    BY <2>2, EffectSend, EffectReceive DEF Operation
  <2>3. ASSUME NEW s \in Sessions, Server(s)
        PROVE  EffectInv' /\ [Attribute!Next]_(Attribute!vars)
    <3>1. CASE ServerError(s)
      BY <3>1, EffectReturns DEF ServerError
    <3> QED BY <2>3, <3>1, EffectRead, EffectDispatch, EffectReply DEF Server
  <2>4. ASSUME NEW s \in Sessions,
               Disconnect(s) \/ CloseUnregister(s) \/ CloseTransport(s)
        PROVE  EffectInv' /\ [Attribute!Next]_(Attribute!vars)
    BY <2>4, EffectBreak, EffectUnregister
  <2> QED BY <2>1, <2>2, <2>3, <2>4 DEF Next
<1>3. Init => Attribute!Init
  BY DEF Init, Attribute!Init
<1>4. Inv <=> TypeInv /\ FrameInv /\ EffectInv
  BY DEF Inv
<1> QED BY TypeInit, TypeStep, FrameInit, FrameStep, <1>1, <1>2, <1>3, <1>4, PTL
        DEF Spec, AttributeSpec, Attribute!Spec

=============================================================================
