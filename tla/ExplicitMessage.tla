-------------------------- MODULE ExplicitMessage --------------------------
(***************************************************************************)
(* What is in explicit messages, from a call at a client to the object at  *)
(* the other end and back.                                                 *)
(*                                                                         *)
(* At one end are a goeip session (pkg/session, pkg/client) and, as any    *)
(* scanner may be, a peer that sends connected messages; at the other the  *)
(* adapter of cmd/adapter (pkg/server, router, assembly object, connection *)
(* manager) or a Logix controller, which is external. EncapSession has the *)
(* streams below: who gets whose reply, and in how many pieces. Here a     *)
(* user has a connection of its own, with at most one packet on it.        *)
(***************************************************************************)
EXTENDS CipCodec, TLC, FiniteSets

CONSTANTS
  Users,        \* goroutines with a session each, and peers
  Peers,        \* those that send connected messages (external)
  Connected,    \* which users have a connection at the start: any of these sets
  AtController, \* users whose device is the controller, not the adapter
  CallsOf,      \* the calls each user makes
  Assemblies,   \* instance ids of the application's assemblies
  Contents,     \* data they may be registered with
  Tags,         \* the controller's tags at the start, each with its type and value
  PlcValues,    \* values its program gives them
  Identities,   \* what the controller answers to ListIdentity
  Services,     \* and to ListServices, as values
  SymbolTable,  \* the instances of its Symbol object at the start
  Symbols,      \* symbols they may become
  MaxEdits,     \* bound: how often the controller's symbols are edited
  MaxOpened,    \* bound: connections opened at the adapter
  NoCall, NoPacket

ASSUME UsersAssumption ==
  /\ AtController \subseteq Users
  /\ Peers \subseteq Users \ AtController /\ Connected \subseteq SUBSET Users
  /\ MaxEdits \in Nat /\ MaxOpened \in Nat

VARIABLES
  assemblies,  \* AssemblyObject.instances: id -> data
  opened,      \* O->T ids of the connection manager's connections, in order
  memory,      \* the controller's tags
  symbols,     \* the symbol of each instance, or NoSymbol
  up,          \* the users with a connection
  pc,          \* whether a user is in a call
  call,        \* its latest call
  toDevice,    \* the packet the device has not handled
  toClient,    \* the packet the client has not read
  result,      \* what the latest call returned, unless it was ListTags
  listing,     \* ListTags: the instance it is at, the largest, what it has found
  (* History, except that edits bounds their number: *)
  edits,
  steady,      \* the symbols that have been the same since ListTags began
  seen,        \* all there have been since then
  failed,      \* instances whose exchange has failed
  due          \* what the call will make of the packet in toClient

deviceVars == <<assemblies, opened, memory, symbols, edits>>
wireVars   == <<up, toDevice, toClient>>
clientVars == <<pc, call, result, listing>>
listVars   == <<steady, seen, failed, due>>
vars == <<deviceVars, wireVars, clientVars, listVars>>

MaxSymbol == Len(SymbolTable)
NoSymbol  == [name |-> <<>>, type |-> 0]
NoOutcome == [ok |-> FALSE, val |-> <<0>>]
Failed    == [ok |-> FALSE, val |-> <<>>]
Returns(val) == [ok |-> TRUE, val |-> val]

\* What a call names.
Attribute(class, instance, attribute) ==
  [class |-> class, instance |-> instance, attribute |-> attribute, name |-> <<>>]
Tag(name) == [class |-> 0, instance |-> 0, attribute |-> 0, name |-> name]
ConnMgr   == Attribute(6, 1, 0)
Lists(device, what) == [class |-> 0, instance |-> device, attribute |-> what, name |-> <<>>]
IdentityList == Lists(1, 1)
ServiceList  == Lists(1, 2)

\* kind: "get", "set", another service, "open", "list", or a request that is cut
\* short; bytes of an assembly have the type "bytes", the answers to ListIdentity
\* and ListServices are got as "identities" and "services".
Call(kind, target, type, val) ==
  [kind |-> kind, target |-> target, type |-> type, val |-> val]
Calls == UNION {CallsOf[u] : u \in Users}

\* What can be called where: ids are not negative, and a name fits into a path.
TagTypes == {"int16", "int32", "Timer", "Counter"}
AttributeCall(c) ==
  /\ c.kind \in {"get", "set", "other"} /\ c.type = "bytes" /\ c.val \in Bytes
  /\ c.target \in [class : Nat, instance : Nat, attribute : Nat, name : {<<>>}]
TagCall(c) ==
  /\ c.target.name \in Bytes /\ 1 <= Len(c.target.name) /\ Len(c.target.name) <= 255
  /\ \/ /\ c.kind = "get" /\ c.type \in TagTypes
     \/ /\ c.kind = "set" /\ c.type \in TagTypes \union {"int", "string"}
        /\ CanWrite(c.type) => c.val[1] \in Int
ListCall(c) == c.kind = "get" /\ c.type \in {"identities", "services"}
OpenCall(c) == c.kind = "open" /\ c.type = "connections" /\ c.val[1] \in Nat
PeerCall(c) ==
  /\ c.kind \in {"get", "set", "cut"} /\ c.type = "bytes" /\ c.val \in Bytes
  /\ c.target \in [class : Nat, instance : Nat, attribute : Nat, name : {<<>>}]

ASSUME CallsAssumption ==
  /\ NoCall \notin Calls
  /\ \A u \in Peers : \A c \in CallsOf[u] : PeerCall(c)
  /\ \A u \in Users \ (Peers \union AtController) : \A c \in CallsOf[u] :
       AttributeCall(c) \/ ListCall(c) \/ OpenCall(c)
  /\ \A u \in AtController : \A c \in CallsOf[u] :
       TagCall(c) \/ ListCall(c) \/ (c.kind = "list" /\ c.type = "symbols")

IsList(u) == call[u] # NoCall /\ call[u].kind = "list"

Ids   == 0 .. MaxSymbol
Begun == [id |-> 0, max |-> 0, found |-> <<>>, done |-> FALSE]
InType(type, val) ==
  CASE type = "int16" -> -32768 <= val[1] /\ val[1] <= 32767
    [] OTHER -> Len(val) > 0

\* What the devices have. Numbers and lengths on the wire have 16 bits: an answer
\* with a name has 18 bytes besides.
SymbolType ==
  [name : {n \in Bytes : 1 <= Len(n) /\ Len(n) <= 65517}, type : {n \in Nat : n <= 65535}]
TagType == [type : TagTypes, val : Seq(Int)]

ASSUME DataAssumption ==
  /\ Contents \subseteq Bytes
  /\ \A n \in DOMAIN Tags : Tags[n] \in TagType /\ InType(Tags[n].type, Tags[n].val)
  /\ \A n \in DOMAIN Tags : \A val \in PlcValues[n] :
       val \in Seq(Int) /\ InType(Tags[n].type, val)
  /\ SymbolTable \in Seq(SymbolType \union {NoSymbol}) /\ MaxSymbol <= 65535
  /\ Symbols \subseteq SymbolType

TypeOK ==
  /\ DOMAIN assemblies \subseteq Assemblies
  /\ \A i \in DOMAIN assemblies : assemblies[i] \in Bytes
  /\ opened \in Seq(Nat)
  /\ DOMAIN memory = DOMAIN Tags
  /\ \A n \in DOMAIN Tags : memory[n].type = Tags[n].type
                              /\ InType(memory[n].type, memory[n].val)
  /\ symbols \in [1 .. MaxSymbol -> Symbols \union {NoSymbol} \union ToSet(SymbolTable)]
  /\ edits \in 0 .. MaxEdits
  /\ up \subseteq Users /\ pc \in [Users -> {"idle", "waiting"}]
  /\ call \in [Users -> Calls \union {NoCall}]
  /\ \A u \in Users : /\ result[u].ok \in BOOLEAN
                      /\ listing[u].id \in Ids /\ listing[u].max \in Ids
                      /\ Len(listing[u].found) <= listing[u].id
                      /\ DOMAIN steady[u] \subseteq Ids /\ failed[u] \subseteq Ids

Init ==
  /\ assemblies \in [Assemblies -> Contents]
  /\ opened = <<>> /\ memory = Tags
  /\ symbols = SymbolTable /\ edits = 0
  /\ up \in Connected
  /\ pc = [u \in Users |-> "idle"] /\ call = [u \in Users |-> NoCall]
  /\ toDevice = [u \in Users |-> NoPacket] /\ toClient = [u \in Users |-> NoPacket]
  /\ result = [u \in Users |-> NoOutcome] /\ listing = [u \in Users |-> Begun]
  /\ steady = [u \in Users |-> <<>>] /\ seen = [u \in Users |-> {}]
  /\ failed = [u \in Users |-> {}] /\ due = [u \in Users |-> NoOutcome]

-----------------------------------------------------------------------------
(* Encapsulation: six bytes of interface handle and timeout, and items. An *)
(* answer has the command of its request.                                  *)

Zeros(n) == [i \in 1 .. n |-> 0]
Packet(command, status, data) == [command |-> command, status |-> status, data |-> data]
Items(command, items) == Packet(command, 0, Zeros(6) \o EncodeItems(items))

\* An item of the packet; a packet must have its first six bytes.
Item(packet, type) ==
  IF Len(packet.data) < 6 THEN [ok |-> FALSE, data |-> <<>>]
                          ELSE FindItemByType(From(packet.data, 7), type)

\* Session.SendRRData, and the server's answer to it.
Unconnected(message) == Items("SendRRData", <<CPFItem(0, <<>>), CPFItem(178, message)>>)

\* A connected message: connection id, and sequence count before the message.
ConnId == <<1, 0, 0, 16>>
Connect(count, message) ==
  Items("SendUnitData", <<CPFItem(161, ConnId), CPFItem(177, count \o message)>>)
Count == <<7, 1>>

-----------------------------------------------------------------------------
(* Requests.                                                               *)

\* The scanner's encodeForwardOpen, with the path of two assemblies. RPIs, the
\* vendor and the serial numbers are constants of the program.
ForwardOpen(ot) ==
  LET rpi  == Le32(100000)
      path == <<32, 4, 36, 150, 44, 100>>
  IN  Request(84, <<32, 6, 36, 1>>,
              <<10, 249>> \o Le32(ot) \o Le32(0) \o Le16(1234) \o Le16(4919) \o Le32(5678)
                \o <<1, 0, 0, 0>> \o rpi \o Le16(16932) \o rpi \o Le16(16932)
                \o <<1, Len(path) \div 2>> \o path)

\* The request of a call; t is what it names.
RequestOf(c) ==
  LET t == c.target IN
  CASE c.kind = "get" /\ t.name = <<>> ->
         NewGetAttributeSingleRequest(BuildPath(t.class, t.instance, t.attribute))
    [] c.kind = "set" /\ t.name = <<>> ->
         NewSetAttributeSingleRequest(BuildPath(t.class, t.instance, t.attribute), c.val)
    [] c.kind = "other" -> Request(1, BuildPath(t.class, t.instance, t.attribute), <<>>)
    [] c.kind = "get" /\ t.name # <<>> ->
         NewReadTagRequest(AddSymbolicSegment(<<>>, t.name), 1)
    [] c.kind = "set" /\ t.name # <<>> ->
         NewWriteTagRequest(AddSymbolicSegment(<<>>, t.name),
                            GoTypeToCIPType(c.type), 1, Marshal(c.type, c.val))
    [] c.kind = "open" -> ForwardOpen(c.val[1])

\* A peer gives ids in 16 bits, whatever they are.
WidePath(t) == <<33, 0>> \o Le16(t.class) \o <<37, 0>> \o Le16(t.instance)
                 \o <<49, 0>> \o Le16(t.attribute)

PeerMessage(c) ==
  CASE c.kind = "get" -> EncodeRequest(Request(14, WidePath(c.target), <<>>))
    [] c.kind = "set" -> EncodeRequest(Request(16, WidePath(c.target), c.val))
    [] c.kind = "cut" -> c.val

FirstPacket(u, c) ==
  CASE u \in Peers -> Connect(Count, PeerMessage(c))
    [] c.type = "identities" -> Packet("ListIdentity", 0, <<>>)
    [] c.type = "services" -> Packet("ListServices", 0, <<>>)
    [] c.kind = "list" -> Unconnected(EncodeRequest(NewGetSymbolClassAttributesRequest))
    [] OTHER -> Unconnected(EncodeRequest(RequestOf(c)))

-----------------------------------------------------------------------------
(* Responses.                                                              *)

\* SendCIPRequest: the packet's status, the item, and the response in it; a peer
\* also looks at the sequence count. ListIdentity and ListServices have no item.
NoResponse == [ok |-> FALSE]

Response(u, packet) ==
  LET item == Item(packet, IF u \in Peers THEN 177 ELSE 178) IN
  IF packet.status # 0 THEN NoResponse
  ELSE IF packet.command \in {"ListIdentity", "ListServices"}
    THEN [ok |-> TRUE, status |-> 0, data |-> packet.data]
  ELSE IF ~item.ok THEN NoResponse
  ELSE IF u \notin Peers THEN DecodeResponse(item.data)
  ELSE IF SubSeq(item.data, 1, 2) = Count THEN DecodeResponse(From(item.data, 3))
  ELSE NoResponse

Succeeds(resp) == resp.ok /\ resp.status = 0

\* What a call makes of the response: ReadTagInto and ReadTimer skip the type code.
OutcomeOf(c, resp) ==
  IF ~Succeeds(resp) THEN Failed
  ELSE IF c.kind # "get" THEN Returns(<<>>)
  ELSE IF c.type = "identities" THEN DecodeListIdentityResponse(resp.data)
  ELSE IF c.type = "services" THEN DecodeListServicesResponse(resp.data)
  ELSE IF c.target.name = <<>> THEN Returns(resp.data)
  ELSE IF Len(resp.data) < 2 THEN Failed
  ELSE Unmarshal(c.type, From(resp.data, 3))

-----------------------------------------------------------------------------
(* The adapter.                                                            *)

\* Someone is in a call. The devices change only then: a change that comes earlier
\* is the same to the next call as one that comes right after its start.
UnderWay(users) == \E u \in users : pc[u] = "waiting"

\* The application calls RegisterAssembly, also for an id that is registered.
RegisterAssembly(i, data) ==
  /\ UnderWay(Users \ AtController)
  /\ assemblies' = [j \in DOMAIN assemblies \union {i} |->
                      IF j = i THEN data ELSE assemblies[j]]
  /\ UNCHANGED <<opened, memory, symbols, edits, wireVars, clientVars, listVars>>

\* An attribute segment, if there is one.
AttributeOf(path) ==
  IF path = <<>> \/ path[1] \notin {48, 49}
    THEN [ok |-> TRUE, id |-> 0]
    ELSE ParseSegment(path, 48)

\* AssemblyObject.HandleRequest, and the attribute services: the first check that
\* fails gives the status.
AssemblyStatus(service, path, data) ==
  LET instance  == ParseSegment(path, 36)
      attribute == AttributeOf(instance.rest)
  IN  IF ~instance.ok \/ ~attribute.ok THEN 4
      ELSE IF service \notin {14, 16} THEN 8
      ELSE IF attribute.id = 0 THEN 4
      ELSE IF instance.id \notin DOMAIN assemblies THEN 22
      ELSE IF attribute.id # 3 THEN 20
      ELSE IF service = 16 /\ Len(data) # Len(assemblies[instance.id]) THEN 9
      ELSE 0

\* What it returns, and what a set does.
HandleAssembly(service, path, data) ==
  LET id     == ParseSegment(path, 36).id
      status == AssemblyStatus(service, path, data)
  IN  [status |-> status,
       data   |-> IF status = 0 /\ service = 14 THEN assemblies[id] ELSE <<>>,
       assemblies |-> IF status = 0 /\ service = 16
                        THEN [assemblies EXCEPT ![id] = data] ELSE assemblies,
       opened |-> opened]

\* ConnectionManager.HandleForwardOpen: all fields and something of the path must
\* be there. (Its other services and its response are ConnectionManager's; any
\* error it returns has become status 8.)
HandleConnMgr(service, data) ==
  LET opens == service = 84 /\ Len(data) > 36 IN
  [status |-> IF opens THEN 0 ELSE 8, data |-> <<>>, assemblies |-> assemblies,
   opened |-> IF opens THEN Append(opened, U32(SubSeq(data, 3, 6))) ELSE opened]

\* MessageRouter.Dispatch to the objects of cmd/adapter. A request whose path has
\* no class fails as a whole, without a response.
Dispatch(request) ==
  LET class == ParseSegment(request.path, 32)
      Unchanged(status) == [status |-> status, data |-> <<>>,
                            assemblies |-> assemblies, opened |-> opened]
      handled == CASE class.id = 4 ->
                        HandleAssembly(request.service, class.rest, request.data)
                   [] class.id = 6 -> HandleConnMgr(request.service, request.data)
                   [] OTHER -> Unchanged(22)
  IN  [ok |-> class.ok,
       after |-> IF class.ok THEN handled ELSE Unchanged(0),
       response |-> EncodeResponse(request.service, handled.status, <<>>, handled.data)]

\* handleSendRRData, and handleSendUnitData, which echoes connection id and
\* sequence count. What cannot be read, and any other command, is answered with a
\* status and no data.
Served(packet) ==
  LET unit  == packet.command = "SendUnitData"
      addr  == Item(packet, 161)
      item  == Item(packet, IF unit THEN 177 ELSE 178)
      req   == DecodeRequest(IF unit THEN From(item.data, 3) ELSE item.data)
      done  == Dispatch(req.request)
      short == unit /\ (~addr.ok \/ Len(addr.data) < 4 \/ Len(item.data) < 2)
  IN  IF packet.command \notin {"SendRRData", "SendUnitData"}
           \/ ~item.ok \/ short \/ ~req.ok \/ ~done.ok
        THEN [packet |-> Packet(packet.command, 1, <<>>),
              assemblies |-> assemblies, opened |-> opened]
        ELSE [packet |-> IF unit THEN Connect(SubSeq(item.data, 1, 2), done.response)
                                 ELSE Unconnected(done.response),
              assemblies |-> done.after.assemblies, opened |-> done.after.opened]

\* A reply is lost when the connection is gone.
Reply(u, packet) ==
  /\ toDevice' = [toDevice EXCEPT ![u] = NoPacket]
  /\ toClient' = IF u \in up THEN [toClient EXCEPT ![u] = packet] ELSE toClient
  /\ due' = IF u \in up /\ ~IsList(u)
              THEN [due EXCEPT ![u] = OutcomeOf(call[u], Response(u, packet))]
              ELSE due
  /\ UNCHANGED <<up, clientVars, steady, seen, failed>>

AdapterServes(u) ==
  LET served == Served(toDevice[u]) IN
  /\ u \notin AtController /\ toDevice[u] # NoPacket
  /\ assemblies' = served.assemblies /\ opened' = served.opened
  /\ Reply(u, served.packet)
  /\ UNCHANGED <<memory, symbols, edits>>

-----------------------------------------------------------------------------
(* The controller (external): tags by symbolic path, and the Symbol object.*)

TypeCode(type) == CASE type = "int16" -> 195 [] type = "int32" -> 196 [] OTHER -> 672

\* Status, extended status and data of its answer.
Answer(status, ext, data) == [status |-> status, ext |-> ext, data |-> data]

SymbolName(path) == SubSeq(path, 3, 2 + path[2])

\* A write is taken if it is one value of the tag's type.
Writes(req) ==
  /\ req.service = 77 /\ SymbolName(req.path) \in DOMAIN memory
  /\ SubSeq(req.data, 1, 4) = Le16(TypeCode(memory[SymbolName(req.path)].type)) \o Le16(1)

TagAnswer(req) ==
  LET name == SymbolName(req.path) IN
  CASE name \notin DOMAIN memory -> Answer(5, <<0>>, <<>>)
    [] name \in DOMAIN memory /\ req.service = 76 ->
         Answer(0, <<>>, Le16(TypeCode(memory[name].type))
                           \o Marshal(memory[name].type, memory[name].val))
    [] OTHER -> IF Writes(req) THEN Answer(0, <<>>, <<>>) ELSE Answer(255, <<8455>>, <<>>)

MaxInstance ==
  CHOOSE n \in Ids : /\ n # 0 => symbols[n] # NoSymbol
                     /\ \A i \in n + 1 .. MaxSymbol : symbols[i] = NoSymbol

\* Both attributes asked for, each with its id and status.
SymbolAnswer(req) ==
  LET id == ParseSegment(ParseSegment(req.path, 32).rest, 36).id IN
  IF id = 0
    THEN Answer(0, <<>>, Le16(2) \o Le16(1) \o Le16(0) \o Le16(1)
                                \o Le16(2) \o Le16(0) \o Le16(MaxInstance))
    ELSE IF id > MaxSymbol \/ symbols[id] = NoSymbol
    THEN Answer(22, <<>>, <<>>)
    ELSE Answer(0, <<>>, Le16(2)
                  \o Le16(1) \o Le16(0) \o Le16(Len(symbols[id].name)) \o symbols[id].name
                  \o Le16(2) \o Le16(0) \o Le16(symbols[id].type))

\* Identities behind an item of another type, and services, their names filled up.
ListAnswer(command) ==
  LET Named(service) == SubSeq(service.name \o Zeros(16), 1, 16) IN
  IF command = "ListIdentity"
    THEN Le16(Len(Identities) + 1) \o Le16(0) \o Le16(1) \o <<12>>
           \o FlattenSeq([i \in DOMAIN Identities |->
                EncodeItem(CPFItem(12, Identities[i]))])
    ELSE Le16(Len(Services))
           \o FlattenSeq([i \in DOMAIN Services |->
                EncodeItem(CPFItem(Services[i].type,
                                   Services[i].head \o Named(Services[i])))])

ControllerServes(u) ==
  LET packet == toDevice[u]
      lists  == packet.command # "SendRRData"
      req    == DecodeRequest(Item(packet, 178).data).request
      name   == SymbolName(req.path)
      answer == IF req.service = 3 THEN SymbolAnswer(req) ELSE TagAnswer(req)
  IN
  /\ u \in AtController /\ packet # NoPacket
  /\ memory' =
       IF ~lists /\ Writes(req)
         THEN [memory EXCEPT ![name].val = Unmarshal(memory[name].type, From(req.data, 5)).val]
         ELSE memory
  /\ Reply(u, IF lists THEN Packet(packet.command, 0, ListAnswer(packet.command))
              ELSE Unconnected(EncodeResponse(req.service, answer.status,
                                              answer.ext, answer.data)))
  /\ UNCHANGED <<assemblies, opened, symbols, edits>>

\* Its program changes a tag.
PlcSets(n) ==
  /\ UnderWay({u \in AtController : ~IsList(u)})
  /\ \E val \in PlcValues[n] : memory' = [memory EXCEPT ![n].val = val]
  /\ UNCHANGED <<assemblies, opened, symbols, edits, wireVars, clientVars, listVars>>

Listing(u) == pc[u] = "waiting" /\ IsList(u)

\* A programmer adds, renames or deletes a symbol.
EditSymbol(i) ==
  /\ UnderWay({u \in AtController : IsList(u)})
  /\ edits < MaxEdits /\ edits' = edits + 1
  /\ \E s \in (Symbols \union {NoSymbol}) \ {symbols[i]} : symbols' = [symbols EXCEPT ![i] = s]
  /\ steady' = [u \in Users |-> IF Listing(u)
                                  THEN [j \in DOMAIN steady[u] \ {i} |-> steady[u][j]]
                                  ELSE steady[u]]
  /\ seen' = [u \in Users |-> IF Listing(u) THEN seen[u] \union {<<i, symbols'[i]>>}
                                            ELSE seen[u]]
  /\ UNCHANGED <<assemblies, opened, memory, failed, due, wireVars, clientVars>>

-----------------------------------------------------------------------------
(* The client.                                                             *)

\* A call begins. What WriteTag cannot encode is refused before anything is sent.
\* (On a connection that is gone a call fails at once; that is left out.)
Begin(u, c) ==
  LET refused == c.kind = "set" /\ c.target.name # <<>> /\ ~CanWrite(c.type) IN
  /\ pc[u] = "idle" /\ u \in up
  /\ c.kind = "open" => Len(opened) < MaxOpened
  /\ call' = [call EXCEPT ![u] = c]
  /\ pc' = [pc EXCEPT ![u] = IF refused THEN "idle" ELSE "waiting"]
  /\ toDevice' = IF refused THEN toDevice ELSE [toDevice EXCEPT ![u] = FirstPacket(u, c)]
  /\ result' = [result EXCEPT ![u] = IF refused THEN Failed ELSE NoOutcome]
  /\ listing' = [listing EXCEPT ![u] = Begun]
  /\ steady' = [steady EXCEPT ![u] = symbols]
  /\ seen' = [seen EXCEPT ![u] = {<<i, symbols[i]>> : i \in 1 .. MaxSymbol}]
  /\ failed' = [failed EXCEPT ![u] = {}]
  /\ UNCHANGED <<deviceVars, up, toClient, due>>

Return(u) == pc' = [pc EXCEPT ![u] = "idle"] /\ UNCHANGED toDevice

AskFor(u, id) ==
  toDevice' = IF u \in up
                THEN [toDevice EXCEPT ![u] =
                        Unconnected(EncodeRequest(NewGetSymbolAttributesRequest(id)))]
                ELSE toDevice

\* Variant: the last instance is left out.
NextInstanceButLast(u, max, found) ==
  LET id == listing[u].id + 1 IN
  IF id >= max
    THEN /\ listing' = [listing EXCEPT ![u].max = max, ![u].found = found, ![u].done = TRUE]
         /\ Return(u)
    ELSE /\ listing' = [listing EXCEPT ![u] =
                          [id |-> id, max |-> max, found |-> found, done |-> FALSE]]
         /\ AskFor(u, id) /\ UNCHANGED pc

\* Variant: one instance too many.
NextInstanceOneMore(u, max, found) ==
  LET id == listing[u].id + 1 IN
  IF id > max + 1
    THEN /\ listing' = [listing EXCEPT ![u].max = max, ![u].found = found, ![u].done = TRUE]
         /\ Return(u)
    ELSE /\ listing' = [listing EXCEPT ![u] =
                          [id |-> id, max |-> max, found |-> found, done |-> FALSE]]
         /\ AskFor(u, id) /\ UNCHANGED pc

\* The exchange of ListTags for the next instance, unless it was the last.
NextInstance(u, max, found) ==
  LET id == listing[u].id + 1 IN
  IF id > max
    THEN /\ listing' = [listing EXCEPT ![u].max = max, ![u].found = found, ![u].done = TRUE]
         /\ Return(u)
    ELSE /\ listing' = [listing EXCEPT ![u] =
                          [id |-> id, max |-> max, found |-> found, done |-> FALSE]]
         /\ AskFor(u, id) /\ UNCHANGED pc

\* First the largest instance.
ListClass(u, resp) ==
  LET class == DecodeSymbolClassAttributesResponse(resp.data) IN
  /\ listing[u].id = 0
  /\ IF Succeeds(resp) /\ class.ok
       THEN NextInstance(u, class.max, <<>>) /\ UNCHANGED result
       ELSE /\ result' = [result EXCEPT ![u] = Failed]
            /\ Return(u) /\ UNCHANGED listing
  /\ UNCHANGED failed

\* Then one instance after the other. One that cannot be had is passed over,
\* whatever the reason.
ListInstance(u, resp) ==
  LET id      == listing[u].id
      decoded == DecodeSymbolAttributesResponse(resp.data)
      has     == Succeeds(resp) /\ decoded.ok /\ decoded.symbol.name # <<>>
      absent  == resp.ok /\ resp.status \in {5, 22}
  IN
  /\ id # 0
  /\ NextInstance(u, listing[u].max,
       IF has THEN Append(listing[u].found, [id |-> id, symbol |-> decoded.symbol])
              ELSE listing[u].found)
  /\ failed' = IF has \/ absent THEN failed ELSE [failed EXCEPT ![u] = @ \union {id}]
  /\ UNCHANGED result

\* The call goes on with a response or without.
Proceed(u, resp) ==
  /\ pc[u] = "waiting"
  /\ toClient' = [toClient EXCEPT ![u] = NoPacket]
  /\ IF IsList(u)
       THEN ListClass(u, resp) \/ ListInstance(u, resp)
       ELSE /\ result' = [result EXCEPT ![u] = OutcomeOf(call[u], resp)]
            /\ Return(u) /\ UNCHANGED <<listing, failed>>
  /\ due' = [due EXCEPT ![u] = NoOutcome]
  /\ UNCHANGED <<deviceVars, up, call, steady, seen>>

Receive(u) == toClient[u] # NoPacket /\ Proceed(u, Response(u, toClient[u]))

\* A write or a read finds the connection gone.
ExchangeFails(u) == u \notin up /\ Proceed(u, NoResponse)

\* The connection breaks; a request may still arrive.
Disconnect(u) ==
  /\ u \in up /\ up' = up \ {u}
  /\ toDevice' \in {toDevice, [toDevice EXCEPT ![u] = NoPacket]}
  /\ UNCHANGED <<deviceVars, toClient, clientVars, listVars>>

Serves(u) == AdapterServes(u) \/ ControllerServes(u)

Next ==
  \/ \E u \in Users : \/ Serves(u) \/ Receive(u) \/ ExchangeFails(u) \/ Disconnect(u)
                       \/ \E c \in CallsOf[u] : Begin(u, c)
  \/ \E i \in Assemblies, data \in Contents : RegisterAssembly(i, data)
  \/ \E n \in DOMAIN memory : PlcSets(n)
  \/ \E i \in 1 .. MaxSymbol : EditSymbol(i)

Spec == Init /\ [][Next]_vars

-----------------------------------------------------------------------------
(* Properties.                                                             *)

Accessors == {u \in Users : \A c \in CallsOf[u] : c.kind # "list"}

\* The values the two devices hold, by what names them.
Store ==
  LET attributes == {Attribute(4, i, 3) : i \in DOMAIN assemblies}
      tags       == {Tag(n) : n \in DOMAIN memory}
      service(s) == Le16(s.type) \o s.head \o <<Len(s.name)>> \o s.name
      lists      == {IdentityList, ServiceList}
  IN  [t \in attributes \union tags \union lists \union {ConnMgr} |->
         CASE t \in attributes -> [type |-> "bytes", val |-> assemblies[t.instance]]
           [] t \in tags -> memory[t.name]
           [] t = IdentityList -> [type |-> "identities", val |-> FlattenSeq(Identities)]
           [] t = ServiceList ->
                [type |-> "services",
                 val |-> FlattenSeq([i \in DOMAIN Services |-> service(Services[i])])]
           [] t = ConnMgr -> [type |-> "connections", val |-> opened]]

\* Whatever the widths of the ids, a get, set or open acts on what its caller has
\* named, and only on that, at one moment although others access it too and
\* assemblies are registered anew, and returns what was there.
Access == INSTANCE ObjectAccess WITH
  Users   <- Accessors,
  store   <- Store,
  up      <- up \intersect Accessors,
  pending <- [u \in Accessors |-> IF toDevice[u] = NoPacket THEN NoCall ELSE call[u]],
  outcome <- [u \in Accessors |-> IF toClient[u] = NoPacket THEN result[u] ELSE due[u]],
  Unsendable <- {"int", "string", "Timer", "Counter"}
AccessSpec == Access!Spec

\* The list ListTags returns is in the order of the instances, each at most once,
\* with symbols there have been since the call began; and of those that have been
\* there all the time it lacks only such as could not be asked for, which takes a
\* broken connection.
ListIsRight ==
  \A u \in Users : listing[u].done =>
    LET found == listing[u].found IN
    /\ \A i, j \in DOMAIN found : i < j => found[i].id < found[j].id
    /\ \A i \in DOMAIN found : <<found[i].id, found[i].symbol>> \in seen[u]
    /\ \A id \in DOMAIN steady[u] :
         steady[u][id] # NoSymbol /\ id \notin failed[u] =>
           \E i \in DOMAIN found : found[i] = [id |-> id, symbol |-> steady[u][id]]
    /\ failed[u] # {} => u \notin up
=============================================================================
