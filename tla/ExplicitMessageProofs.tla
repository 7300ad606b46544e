----------------------- MODULE ExplicitMessageProofs -----------------------
(***************************************************************************)
(* Proofs about ExplicitMessage: that its variables have their types,      *)
(* whatever calls are made and whatever arrives, and that ListTags returns *)
(* the right list while the controller's symbols are edited. That a call   *)
(* arrives as it was made, and an answer as it was given, is taken from    *)
(* CipCodecProofs.                                                         *)
(***************************************************************************)
EXTENDS ExplicitMessage, CipCodecProofs

-----------------------------------------------------------------------------
(* The inductive invariant.                                                *)

\* What ListTags asks for when it is at an instance.
ListRequest(id) ==
  Unconnected(EncodeRequest(IF id = 0 THEN NewGetSymbolClassAttributesRequest
                                      ELSE NewGetSymbolAttributesRequest(id)))

\* What the client refuses itself.
Refused(c) == c.kind = "set" /\ c.target.name # <<>> /\ ~CanWrite(c.type)

\* The variables are functions of the users.
Shape ==
  /\ DOMAIN toDevice = Users /\ DOMAIN toClient = Users /\ DOMAIN result = Users
  /\ DOMAIN listing = Users /\ DOMAIN steady = Users /\ DOMAIN seen = Users
  /\ DOMAIN failed = Users
  /\ pc \in [Users -> {"idle", "waiting"}] /\ call \in [Users -> Calls \union {NoCall}]
  /\ up \subseteq Users
  /\ symbols \in [1 .. MaxSymbol -> Symbols \union {NoSymbol} \union ToSet(SymbolTable)]

Found == Seq([id : Ids, symbol : SymbolType])

\* A user's own call, and no packet left over.
Exchange(u) ==
  /\ call[u] = NoCall \/ call[u] \in CallsOf[u]
  /\ pc[u] = "waiting" => call[u] # NoCall
  /\ pc[u] = "idle" => toClient[u] = NoPacket
  /\ u \in up /\ toDevice[u] # NoPacket => pc[u] = "waiting" /\ toClient[u] = NoPacket
  /\ result[u].ok \in BOOLEAN

\* What the device has not handled is what the call has sent.
Sent(u) ==
  toDevice[u] # NoPacket =>
    IF IsList(u)
      THEN \E id \in Ids : /\ toDevice[u] = ListRequest(id)
                           /\ u \in up => id = listing[u].id
      ELSE call[u] # NoCall /\ ~Refused(call[u]) /\ toDevice[u] = FirstPacket(u, call[u])

\* An answer to ListTags is about the instance it is at.
ClassAnswer(u, resp) ==
  \E max \in Ids : /\ resp = [ok |-> TRUE, status |-> 0, data |-> ClassAttributes(max)]
                   /\ \A i \in DOMAIN steady[u] : steady[u][i] # NoSymbol => i <= max

InstanceAnswer(u, id, resp) ==
  \/ \E s \in {x[2] : x \in seen[u]} \intersect SymbolType :
       /\ <<id, s>> \in seen[u] /\ (id \in DOMAIN steady[u] => steady[u][id] = s)
       /\ resp = [ok |-> TRUE, status |-> 0, data |-> SymbolAttributes(s)]
  \/ /\ id \in DOMAIN steady[u] => steady[u][id] = NoSymbol
     /\ resp = [ok |-> TRUE, status |-> 22, data |-> <<>>]

Answered(u) ==
  Listing(u) /\ toClient[u] # NoPacket =>
    LET resp == Response(u, toClient[u]) IN
    IF listing[u].id = 0 THEN ClassAnswer(u, resp) ELSE InstanceAnswer(u, listing[u].id, resp)

\* The history that goes on while ListTags does.
History(u) ==
  /\ DOMAIN steady[u] \subseteq 1 .. MaxSymbol /\ failed[u] \subseteq Ids
  /\ Listing(u) => /\ \A i \in DOMAIN steady[u] : steady[u][i] = symbols[i]
                   /\ \A i \in 1 .. MaxSymbol : <<i, symbols[i]>> \in seen[u]

\* Where ListTags is.
Position(u) ==
  LET l == listing[u] IN
  /\ l \in [id : Ids, max : Ids, found : Found, done : BOOLEAN]
  /\ l.done => pc[u] = "idle"
  /\ Len(l.found) <= l.id
  /\ Listing(u) => /\ \A i \in DOMAIN l.found : l.found[i].id < l.id
                   /\ l.id = 0 \/ Len(l.found) < l.id
                   /\ l.id = 0 => failed[u] = {} /\ l.found = <<>>
                   /\ l.id # 0 => /\ l.id <= l.max
                                  /\ \A i \in DOMAIN steady[u] :
                                       steady[u][i] # NoSymbol => i <= l.max

\* What it has found so far.
Complete(u, ids) ==
  \A id \in DOMAIN steady[u] :
    id \in ids /\ steady[u][id] # NoSymbol /\ id \notin failed[u] =>
      \E i \in DOMAIN listing[u].found :
        listing[u].found[i] = [id |-> id, symbol |-> steady[u][id]]

Collected(u) ==
  LET found == listing[u].found IN
  /\ \A i, j \in DOMAIN found : i < j => found[i].id < found[j].id
  /\ Listing(u) \/ listing[u].done =>
       \A i \in DOMAIN found : <<found[i].id, found[i].symbol>> \in seen[u]
  /\ failed[u] # {} => u \notin up
  /\ Listing(u) => Complete(u, 0 .. listing[u].id - 1)
  /\ listing[u].done => Complete(u, Ids)

UserInv(u) == Exchange(u) /\ Sent(u) /\ Answered(u) /\ History(u) /\ Position(u) /\ Collected(u)

Inv == Shape /\ \A u \in Users : UserInv(u)

-----------------------------------------------------------------------------
(* Packets.                                                                *)

\* Behind the six bytes of a packet are its items.
LEMMA BehindZeros ==
  ASSUME NEW items \in Bytes
  PROVE  /\ Zeros(6) \o items \in Bytes /\ ~(Len(Zeros(6) \o items) < 6)
         /\ From(Zeros(6) \o items, 7) = items
<1>1. AreBytes(Zeros(6), 6)
  <2>1. PICK f : f = [i \in 1 .. 6 |-> 0]
    BY Zenon
  <2>2. f \in [1 .. 6 -> Byte]
    BY <2>1 DEF Byte
  <2>3. f \in Bytes /\ Len(f) = 6
    BY <2>2, FunctionBytes
  <2> QED BY <2>1, <2>3 DEF Zeros, AreBytes
<1>2. PICK p : p = Zeros(6) \o items
  OBVIOUS
<1>3. Begins(p, Zeros(6), 6, items)
  BY <1>1, <1>2, Behind
<1>4. p \in Bytes /\ Len(p) \in Nat /\ Len(p) >= 6 /\ From(p, 6 + 1) = items
  BY <1>3 DEF Begins
<1>5. ~(Len(p) < 6) /\ From(p, 7) = items
  BY <1>4
<1> QED BY <1>2, <1>4, <1>5

\* Two items.
LEMMA TwoItems ==
  ASSUME NEW type1, Is16(type1), NEW data1 \in Bytes, Is16(Len(data1)),
         NEW type2, Is16(type2), NEW data2 \in Bytes
  PROVE  AreItems(<<CPFItem(type1, data1), CPFItem(type2, data2)>>, 2)
<1>1. PICK items : items = <<CPFItem(type1, data1), CPFItem(type2, data2)>>
  OBVIOUS
<1>2. items[1] = CPFItem(type1, data1) /\ items[2] = CPFItem(type2, data2)
  BY <1>1
<1>3. Len(items) = 2 /\ DOMAIN items = 1 .. 2
  BY <1>1
<1>4. IsItem(items[1]) /\ IsItem(items[2]) /\ Is16(Len(items[1].data))
  BY <1>2 DEF CPFItem, IsItem
<1>5. \A i \in 1 .. 2 : i = 1 \/ i = 2
  OBVIOUS
<1>6. \A i \in 1 .. 2 - 1 : i = 1
  OBVIOUS
<1>7. Is16(2) /\ 1 <= 2
  BY DEF Is16
<1> QED BY <1>1, <1>3, <1>4, <1>5, <1>6, <1>7, Zenon DEF AreItems

\* Small numbers.
LEMMA ItemTypes == Is16(0) /\ Is16(161) /\ Is16(177) /\ Is16(178)
BY DEF Is16

LEMMA NoBytes == <<>> \in Bytes /\ Len(<<>>) = 0 /\ Is16(Len(<<>>))
BY DEF Bytes, Is16

\* A message without a connection.
LEMMA UnconnectedType ==
  ASSUME NEW message \in Bytes
  PROVE  /\ Unconnected(message).command = "SendRRData" /\ Unconnected(message).status = 0
         /\ Unconnected(message).data \in Bytes
         /\ Is16(Len(message)) =>
              Item(Unconnected(message), 178) = [ok |-> TRUE, data |-> message]
<1>1. PICK items : items = <<CPFItem(0, <<>>), CPFItem(178, message)>>
  OBVIOUS
<1>2. AreItems(items, 2)
  BY <1>1, TwoItems, ItemTypes, NoBytes
<1>3. EncodeItems(items) \in Bytes
  BY <1>2, ItemsHeld DEF HasItems
<1>4. /\ Zeros(6) \o EncodeItems(items) \in Bytes /\ ~(Len(Zeros(6) \o EncodeItems(items)) < 6)
      /\ From(Zeros(6) \o EncodeItems(items), 7) = EncodeItems(items)
  BY <1>3, BehindZeros, Zenon
<1>5. PICK data : data = Zeros(6) \o EncodeItems(items)
  OBVIOUS
<1>6. Unconnected(message) = [command |-> "SendRRData", status |-> 0, data |-> data]
  BY <1>1, <1>5, Zenon DEF Unconnected, Items, Packet
<1>7. PICK packet : packet = Unconnected(message)
  OBVIOUS
<1>8. packet.command = "SendRRData" /\ packet.status = 0 /\ packet.data = data
  BY <1>6, <1>7
<1>9. ASSUME Is16(Len(message)) PROVE Item(packet, 178) = [ok |-> TRUE, data |-> message]
  <2>1. items[1].type = 0 /\ items[2].type = 178 /\ items[2].data = message
    BY <1>1 DEF CPFItem
  <2>2. \A i \in 1 .. 2 : items[i].type = items[2].type => 2 <= i
    <3>1. \A i \in 1 .. 2 : i = 1 \/ i = 2
      OBVIOUS
    <3>2. 0 # 178
      OBVIOUS
    <3> QED BY <2>1, <3>1, <3>2
  <2>3. 2 \in 1 .. 2
    OBVIOUS
  <2>4. FindItemByType(EncodeItems(items), items[2].type)
          = [ok |-> TRUE, data |-> SubSeq(items[2].data, 1, Low16(Len(items[2].data)))]
    BY <1>2, <2>2, <2>3, ItemIsFound
  <2>5. Low16(Len(message)) = Len(message)
    BY <1>9, BytesType, Fits16
  <2>6. SubSeq(message, 1, Len(message)) = message
    <3>1. Holds(message, 1, message)
      BY HoldsAll
    <3>2. SubSeq(message, 1, 1 + Len(message) - 1) = message
      BY <3>1, HoldsCut
    <3>3. 1 + Len(message) - 1 = Len(message)
      BY BytesType
    <3> QED BY <3>2, <3>3
  <2>7. FindItemByType(EncodeItems(items), 178) = [ok |-> TRUE, data |-> message]
    BY <2>1, <2>4, <2>5, <2>6
  <2>8. From(data, 7) = EncodeItems(items) /\ ~(Len(data) < 6)
    BY <1>4, <1>5
  <2> QED BY <1>8, <2>7, <2>8 DEF Item
<1> QED BY <1>4, <1>5, <1>7, <1>8, <1>9

\* A message on a connection.
LEMMA ConnectType ==
  ASSUME NEW count \in Bytes, NEW message \in Bytes
  PROVE  Connect(count, message).data \in Bytes
<1>1. PICK data2 : data2 = count \o message
  OBVIOUS
<1>2. data2 \in Bytes
  BY <1>1, BytesConcat
<1>3. ConnId \in Bytes /\ Is16(Len(ConnId))
  <2>1. 1 \in Byte /\ 0 \in Byte /\ 16 \in Byte
    BY DEF Byte
  <2>2. ConnId \in Bytes
    BY <2>1 DEF ConnId, Bytes
  <2>3. Len(ConnId) = 4
    BY DEF ConnId
  <2> QED BY <2>2, <2>3 DEF Is16
<1>4. PICK items : items = <<CPFItem(161, ConnId), CPFItem(177, data2)>>
  OBVIOUS
<1>5. AreItems(items, 2)
  BY <1>2, <1>3, <1>4, TwoItems, ItemTypes
<1>6. EncodeItems(items) \in Bytes
  BY <1>5, ItemsHeld DEF HasItems
<1>7. Zeros(6) \o EncodeItems(items) \in Bytes
  BY <1>6, BehindZeros
<1>8. Connect(count, message)
        = [command |-> "SendUnitData", status |-> 0, data |-> Zeros(6) \o EncodeItems(items)]
  BY <1>1, <1>4, Zenon DEF Connect, Items, Packet
<1> QED BY <1>7, <1>8

-----------------------------------------------------------------------------
(* What calls send.                                                        *)

\* A peer's path.
LEMMA WidePathType ==
  ASSUME NEW t, t.class \in Nat, t.instance \in Nat, t.attribute \in Nat
  PROVE  WidePath(t) \in Bytes
<1>1. 33 \in Byte /\ 37 \in Byte /\ 49 \in Byte /\ 0 \in Byte
  BY DEF Byte
<1>2. <<33, 0>> \in Bytes /\ <<37, 0>> \in Bytes /\ <<49, 0>> \in Bytes
  BY <1>1, FewBytes
<1>3. Le16(t.class) \in Bytes /\ Le16(t.instance) \in Bytes /\ Le16(t.attribute) \in Bytes
  BY Le16Type
<1>4. \A s, r \in Bytes : s \o r \in Bytes
  BY BytesConcat
<1> QED BY <1>2, <1>3, <1>4, Zenon DEF WidePath

\* The scanner's Forward_Open.
LEMMA ForwardOpenType ==
  ASSUME NEW ot \in Nat
  PROVE  \E data \in Bytes : ForwardOpen(ot) = Request(84, <<32, 6, 36, 1>>, data)
<1> DEFINE d0 == <<10, 249>>  d1 == Le16(1234)  d2 == Le16(4919)  d3 == Le32(5678)
           d4 == <<1, 0, 0, 0>>  d5 == Le32(100000)  d6 == Le16(16932)
           path == <<32, 4, 36, 150, 44, 100>>  d7 == <<1, Len(path) \div 2>>
           o == Le32(ot)  z == Le32(0)
<1>1. d1 \in Bytes /\ d2 \in Bytes /\ d6 \in Bytes
  BY Le16Type
<1>2. d3 \in Bytes /\ d5 \in Bytes /\ o \in Bytes /\ z \in Bytes
  BY Le32Type
<1>3. d0 \in Bytes /\ d4 \in Bytes /\ d7 \in Bytes /\ path \in Bytes
  <2>1. d0 \in Bytes /\ d4 \in Bytes /\ path \in Bytes /\ Len(path) = 6
    BY DEF Bytes, Byte
  <2>2. d7 = <<1, 3>>
    BY <2>1
  <2>3. <<1, 3>> \in Bytes
    BY DEF Bytes, Byte
  <2> QED BY <2>1, <2>2, <2>3
<1>4. \A s, r \in Bytes : s \o r \in Bytes
  BY BytesConcat
<1>5. d0 \o o \o z \o d1 \o d2 \o d3 \o d4 \o d5 \o d6 \o d5 \o d6 \o d7 \o path \in Bytes
  <2> HIDE DEF d0, d1, d2, d3, d4, d5, d6, d7, path, o, z
  <2> QED BY <1>1, <1>2, <1>3, <1>4, Zenon
<1>6. ForwardOpen(ot)
        = Request(84, <<32, 6, 36, 1>>,
                  d0 \o o \o z \o d1 \o d2 \o d3 \o d4 \o d5 \o d6 \o d5 \o d6 \o d7 \o path)
  BY DEF ForwardOpen
<1> HIDE DEF d0, d1, d2, d3, d4, d5, d6, d7, path, o, z
<1> QED BY <1>5, <1>6, Zenon

\* Requests for bytes are bytes.
LEMMA ServiceBytes ==
  /\ 1 \in Byte /\ 3 \in Byte /\ 14 \in Byte /\ 16 \in Byte /\ 76 \in Byte /\ 77 \in Byte
  /\ 84 \in Byte /\ 32 \in Byte /\ 6 \in Byte /\ 36 \in Byte
BY DEF Byte

\* What a peer sends are bytes.
LEMMA PeerMessageType ==
  ASSUME NEW c, PeerCall(c)
  PROVE  PeerMessage(c) \in Bytes
<1>1. c.val \in Bytes
  BY DEF PeerCall
<1>2. WidePath(c.target) \in Bytes
  BY WidePathType DEF PeerCall
<1>3. EncodeRequest(Request(14, WidePath(c.target), <<>>)) \in Bytes
  BY <1>2, EncodeRequestType, ServiceBytes, NoBytes
<1>4. EncodeRequest(Request(16, WidePath(c.target), c.val)) \in Bytes
  BY <1>1, <1>2, EncodeRequestType, ServiceBytes
<1>5. c.kind = "get" \/ c.kind = "set" \/ c.kind = "cut"
  BY DEF PeerCall
<1> QED BY <1>1, <1>3, <1>4, <1>5 DEF PeerMessage

\* And what a session sends to the adapter.
LEMMA AdapterRequestType ==
  ASSUME NEW c, AttributeCall(c) \/ OpenCall(c)
  PROVE  EncodeRequest(RequestOf(c)) \in Bytes
<1>1. CASE AttributeCall(c)
  <2>1. PICK path : path = BuildPath(c.target.class, c.target.instance, c.target.attribute)
    OBVIOUS
  <2>2. path \in Bytes
    BY <1>1, <2>1, BuildPathWords DEF AttributeCall, HasWords
  <2>3. c.val \in Bytes
    BY <1>1 DEF AttributeCall
  <2>4. /\ EncodeRequest(Request(14, path, <<>>)) \in Bytes
        /\ EncodeRequest(Request(16, path, c.val)) \in Bytes
        /\ EncodeRequest(Request(1, path, <<>>)) \in Bytes
    BY <2>2, <2>3, EncodeRequestType, ServiceBytes, NoBytes
  <2>5. c.target.name = <<>> /\ (c.kind = "get" \/ c.kind = "set" \/ c.kind = "other")
    BY <1>1 DEF AttributeCall
  <2>6. \/ RequestOf(c) = Request(14, path, <<>>)
        \/ RequestOf(c) = Request(16, path, c.val)
        \/ RequestOf(c) = Request(1, path, <<>>)
    BY <2>1, <2>5 DEF RequestOf, NewGetAttributeSingleRequest, NewSetAttributeSingleRequest
  <2> QED BY <2>4, <2>6, Zenon
<1>2. CASE OpenCall(c)
  <2>1. RequestOf(c) = ForwardOpen(c.val[1])
    BY <1>2 DEF RequestOf, OpenCall
  <2>2. PICK data \in Bytes : ForwardOpen(c.val[1]) = Request(84, <<32, 6, 36, 1>>, data)
    BY <1>2, ForwardOpenType DEF OpenCall
  <2>3. <<32, 6, 36, 1>> \in Bytes
    BY DEF Bytes, Byte
  <2>4. EncodeRequest(Request(84, <<32, 6, 36, 1>>, data)) \in Bytes
    BY <2>3, EncodeRequestType, ServiceBytes, Zenon
  <2> QED BY <2>1, <2>2, <2>4, Zenon
<1> QED BY <1>1, <1>2

\* So packets to the adapter have bytes.
LEMMA AdapterPacketType ==
  ASSUME NEW u \in Users \ AtController, NEW c \in CallsOf[u]
  PROVE  FirstPacket(u, c).data \in Bytes /\ c.kind # "list"
<1>1. CASE u \in Peers
  <2>1. PeerCall(c)
    BY <1>1, CallsAssumption
  <2>2. Count \in Bytes
    BY DEF Count, Bytes, Byte
  <2>3. Connect(Count, PeerMessage(c)).data \in Bytes
    BY <2>1, <2>2, PeerMessageType, ConnectType
  <2>4. FirstPacket(u, c) = Connect(Count, PeerMessage(c))
    BY <1>1, <2>1 DEF FirstPacket, PeerCall
  <2>5. c.kind # "list"
    BY <2>1 DEF PeerCall
  <2> QED BY <2>3, <2>4, <2>5
<1>2. CASE u \notin Peers
  <2>1. AttributeCall(c) \/ ListCall(c) \/ OpenCall(c)
    BY <1>2, CallsAssumption
  <2>2. CASE AttributeCall(c) \/ OpenCall(c)
    <3>1. c.type # "identities" /\ c.type # "services" /\ c.kind # "list"
      BY <2>2 DEF AttributeCall, OpenCall
    <3>2. FirstPacket(u, c) = Unconnected(EncodeRequest(RequestOf(c)))
      BY <1>2, <3>1 DEF FirstPacket
    <3> QED BY <2>2, <3>1, <3>2, AdapterRequestType, UnconnectedType
  <2>3. CASE ListCall(c)
    <3>1. c.kind # "list" /\ (c.type = "identities" \/ c.type = "services")
      BY <2>3 DEF ListCall
    <3>2. \/ FirstPacket(u, c) = Packet("ListIdentity", 0, <<>>)
          \/ FirstPacket(u, c) = Packet("ListServices", 0, <<>>)
      BY <1>2, <3>1 DEF FirstPacket
    <3> QED BY <3>1, <3>2, NoBytes DEF Packet
  <2> QED BY <2>1, <2>2, <2>3
<1> QED BY <1>1, <1>2

-----------------------------------------------------------------------------
(* What the controller is sent.                                            *)

\* A request that fits into an item arrives as it is.
LEMMA RequestArrives ==
  ASSUME NEW service \in Byte, NEW path, NEW n \in Nat, n <= 129, HasWords(path, n),
         NEW data \in Bytes, Len(data) <= 1000
  PROVE  /\ Unconnected(EncodeRequest(Request(service, path, data))).command = "SendRRData"
         /\ DecodeRequest(Item(Unconnected(EncodeRequest(Request(service, path, data))), 178).data).request
              = Request(service, path, data)
<1>1. PICK k \in 1 .. n : path \in Bytes /\ Len(path) = 2 * k
  BY DEF HasWords
<1>2. PICK message : message = EncodeRequest(Request(service, path, data))
  OBVIOUS
<1>3. message \in Bytes /\ Len(message) = 2 + Len(path) + Len(data)
  BY <1>1, <1>2, EncodeRequestType
<1>4. Is16(Len(message))
  <2>1. Len(data) \in Nat /\ Len(data) <= 1000
    BY BytesType
  <2> QED BY <1>1, <1>3, <2>1 DEF Is16
<1>5. /\ Unconnected(message).command = "SendRRData"
      /\ Item(Unconnected(message), 178) = [ok |-> TRUE, data |-> message]
  BY <1>3, <1>4, UnconnectedType
<1>6. DecodeRequest(message) = [ok |-> TRUE, request |-> Request(service, path, data)]
  <2>1. PICK j \in 0 .. 255 : Len(path) = 2 * j
    BY <1>1
  <2>2. path # <<>> \/ data # <<>>
    BY <1>1
  <2>3. DecodeRequest(EncodeRequest(Request(service, path, data)))
          = [ok |-> TRUE, request |-> Request(service, path, data)]
    <3>1. path \in Bytes
      BY <1>1
    <3> QED BY <2>1, <2>2, <3>1, RequestIsRead, Zenon
  <2> QED BY <1>2, <2>3
<1>7. Item(Unconnected(message), 178).data = message
  BY <1>5
<1> QED BY <1>2, <1>5, <1>6, <1>7

\* What is behind the type and the count of a write, and before it.
LEMMA WriteParts ==
  ASSUME NEW code \in Nat, NEW value \in Bytes, NEW data,
         data = Le16(code) \o Le16(1) \o value
  PROVE  /\ data \in Bytes /\ Len(data) = 4 + Len(value)
         /\ From(data, 5) = value /\ SubSeq(data, 1, 4) = Le16(code) \o Le16(1)
<1>1. PICK head : head = Le16(code) \o Le16(1)
  OBVIOUS
<1>2. AreBytes(head, 4)
  <2>1. AreBytes(Le16(code), 2)
    BY Le16Type DEF AreBytes
  <2>2. AreBytes(head, 2 + 2)
    BY <1>1, <2>1, TwoMore
  <2> QED BY <2>2
<1>3. data = head \o value
  BY <1>1
<1>4. Begins(data, head, 4, value)
  BY <1>2, <1>3, Behind
<1>5. head \in Bytes /\ Len(head) = 4
  BY <1>2 DEF AreBytes
<1>6. data \in Bytes /\ Len(data) = Len(head) + Len(value)
  <2>1. head \o value \in Bytes /\ Len(head \o value) = Len(head) + Len(value)
    BY <1>5, BytesConcat, Zenon
  <2> QED BY <1>3, <2>1, Zenon
<1>7. From(data, 5) = value
  BY <1>4 DEF Begins
<1>8. SubSeq(data, 1, 4) = head
  <2>0. Holds(data, 1, head \o value)
    BY <1>3, <1>6, HoldsAll
  <2>1. Holds(data, 1, head)
    BY <1>5, <1>6, <2>0, HoldsParts
  <2>2. SubSeq(data, 1, 1 + Len(head) - 1) = head
    BY <1>5, <1>6, <2>1, HoldsCut
  <2>3. 1 + Len(head) - 1 = 4
    BY <1>5
  <2> QED BY <2>2, <2>3
<1> QED BY <1>1, <1>5, <1>6, <1>7, <1>8

\* Numbers are marshalled to two or four bytes.
LEMMA MarshalType ==
  ASSUME NEW type, CanWrite(type), NEW val, val[1] \in Int
  PROVE  Marshal(type, val) \in Bytes /\ Len(Marshal(type, val)) <= 4
<1>1. type = "int16" \/ type = "int32"
  BY DEF CanWrite
<1>2. CASE type = "int16"
  <2>1. Le16(val[1]) \in Bytes /\ Len(Le16(val[1])) = 2
    BY Le16Type
  <2>2. Marshal(type, val) = Le16(val[1])
    BY <1>2 DEF Marshal
  <2>3. Len(Le16(val[1])) <= 4
    BY <2>1
  <2> QED BY <2>1, <2>2, <2>3, Zenon
<1>3. CASE type = "int32"
  <2>1. Le32(val[1]) \in Bytes /\ Len(Le32(val[1])) = 4
    BY Le32Type
  <2>2. Marshal(type, val) = Le32(val[1])
    BY <1>3 DEF Marshal
  <2>3. Len(Le32(val[1])) <= 4
    BY <2>1
  <2> QED BY <2>1, <2>2, <2>3, Zenon
<1> QED BY <1>1, <1>2, <1>3

\* What a controller gets of a read or a write.
TagArrived(c, packet, req) ==
  /\ packet.command = "SendRRData" /\ SymbolName(req.path) = c.target.name
  /\ c.kind = "get" => req.service = 76
  /\ c.kind = "set" =>
       /\ req.service = 77 /\ CanWrite(c.type) /\ c.val[1] \in Int
       /\ req.data = Le16(GoTypeToCIPType(c.type)) \o Le16(1) \o Marshal(c.type, c.val)
  /\ c.kind = "get" \/ c.kind = "set"

\* A read or write of a tag arrives as it is.
LEMMA TagRequestArrives ==
  ASSUME NEW c, TagCall(c), ~Refused(c),
         NEW packet, packet = Unconnected(EncodeRequest(RequestOf(c))),
         NEW req, req = DecodeRequest(Item(packet, 178).data).request
  PROVE  TagArrived(c, packet, req)
<1>1. PICK name : name = c.target.name
  OBVIOUS
<1>2. name \in Bytes /\ Len(name) >= 1 /\ Len(name) <= 255 /\ name # <<>>
  <2>1. name \in Bytes /\ 1 <= Len(name) /\ Len(name) <= 255
    BY <1>1 DEF TagCall
  <2>2. Len(name) >= 1
    BY <2>1, BytesType
  <2>3. name # <<>>
    <3>1. ASSUME name = <<>> PROVE FALSE
      <4>1. Len(name) = 0
        BY <3>1, NoBytes, Zenon
      <4> QED BY <2>2, <4>1
    <3> QED BY <3>1
  <2> QED BY <2>1, <2>2, <2>3
<1>3. PICK path : path = AddSymbolicSegment(<<>>, name)
  OBVIOUS
<1>4. HasWords(path, 129) /\ SymbolName(path) = name
  BY <1>2, <1>3, NameIsRead DEF SymbolName
<1>5. c.kind = "get" \/ c.kind = "set"
  BY DEF TagCall
<1>6. 129 \in Nat /\ 129 <= 129
  OBVIOUS
<1>7. CASE c.kind = "get"
  <2>1. RequestOf(c) = Request(76, path, Le16(1))
    BY <1>1, <1>2, <1>3, <1>7 DEF RequestOf, NewReadTagRequest
  <2>2. Le16(1) \in Bytes /\ Len(Le16(1)) <= 1000
    <3>1. PICK n \in Int : n = 1
      OBVIOUS
    <3>2. Le16(n) \in Bytes /\ Len(Le16(n)) = 2
      BY Le16Type
    <3>3. Len(Le16(n)) <= 1000
      BY <3>2
    <3> QED BY <3>1, <3>2, <3>3
  <2>3. packet.command = "SendRRData" /\ req = Request(76, path, Le16(1))
    BY <1>4, <1>6, <2>1, <2>2, ServiceBytes, RequestArrives
  <2>4. req.service = 76 /\ req.path = path
    BY <2>3 DEF Request
  <2> QED BY <1>1, <1>4, <1>7, <2>3, <2>4 DEF TagArrived
<1>8. CASE c.kind = "set"
  <2>1. CanWrite(c.type) /\ c.val[1] \in Int
    <3>1. CanWrite(c.type)
      BY <1>1, <1>2, <1>8 DEF Refused
    <3>2. c.kind # "get"
      BY <1>8
    <3> QED BY <3>1, <3>2 DEF TagCall
  <2>2. PICK value : value = Marshal(c.type, c.val)
    OBVIOUS
  <2>3. value \in Bytes /\ Len(value) <= 4
    BY <2>1, <2>2, MarshalType
  <2>4. PICK code \in Nat : code = GoTypeToCIPType(c.type)
    <3>1. c.type = "int16" \/ c.type = "int32"
      BY <2>1 DEF CanWrite
    <3>2. GoTypeToCIPType(c.type) \in Nat
      BY <3>1 DEF GoTypeToCIPType
    <3> QED BY <3>2
  <2>5. PICK data : data = Le16(code) \o Le16(1) \o value
    OBVIOUS
  <2>6. data \in Bytes /\ Len(data) <= 1000
    <3>1. data \in Bytes /\ Len(data) = 4 + Len(value)
      BY <2>3, <2>5, WriteParts
    <3>2. Len(value) \in Nat
      BY <2>3, BytesType
    <3> QED BY <2>3, <3>1, <3>2
  <2>7. RequestOf(c) = Request(77, path, data)
    BY <1>1, <1>2, <1>3, <1>8, <2>2, <2>4, <2>5 DEF RequestOf, NewWriteTagRequest
  <2>8. packet.command = "SendRRData" /\ req = Request(77, path, data)
    BY <1>4, <1>6, <2>6, <2>7, ServiceBytes, RequestArrives
  <2>9. req.service = 77 /\ req.path = path /\ req.data = data
    BY <2>8 DEF Request
  <2> QED BY <1>1, <1>4, <1>8, <2>1, <2>2, <2>4, <2>5, <2>8, <2>9 DEF TagArrived
<1> QED BY <1>5, <1>7, <1>8

\* The type codes differ.
LEMMA CodesDiffer ==
  ASSUME NEW type \in TagTypes, NEW written, CanWrite(written),
         Le16(GoTypeToCIPType(written)) \o Le16(1) = Le16(TypeCode(type)) \o Le16(1)
  PROVE  type = written
<1>1. written = "int16" \/ written = "int32"
  BY DEF CanWrite
<1>2. PICK x \in Nat : x = GoTypeToCIPType(written)
  <2>1. GoTypeToCIPType(written) \in Nat
    BY <1>1 DEF GoTypeToCIPType
  <2> QED BY <2>1
<1>3. PICK y \in Nat : y = TypeCode(type)
  <2>1. TypeCode(type) \in Nat
    BY DEF TypeCode
  <2> QED BY <2>1
<1>4. x % 256 = y % 256
  <2>1. /\ Le16(x) \in Bytes /\ Len(Le16(x)) = 2 /\ Le16(x)[1] = x % 256
        /\ Le16(y) \in Bytes /\ Len(Le16(y)) = 2 /\ Le16(y)[1] = y % 256
    <3>1. x \in Int /\ y \in Int
      BY <1>2, <1>3
    <3>2. Le16(x) \in Bytes /\ Len(Le16(x)) = 2 /\ Le16(x)[1] = x % 256
      BY <3>1, Le16Type
    <3>3. Le16(y) \in Bytes /\ Len(Le16(y)) = 2 /\ Le16(y)[1] = y % 256
      BY <3>1, Le16Type
    <3> QED BY <3>2, <3>3
  <2>2. Le16(1) \in Bytes /\ 1 \in 1 .. 2
    BY Le16Type
  <2>3. (Le16(x) \o Le16(1))[1] = Le16(x)[1] /\ (Le16(y) \o Le16(1))[1] = Le16(y)[1]
    <3>1. /\ \A i \in 1 .. Len(Le16(x)) : (Le16(x) \o Le16(1))[i] = Le16(x)[i]
          /\ \A i \in 1 .. Len(Le16(y)) : (Le16(y) \o Le16(1))[i] = Le16(y)[i]
      <4> HIDE <1>2, <1>3
      <4>1. PICK s, t, r : s = Le16(x) /\ t = Le16(y) /\ r = Le16(1)
        OBVIOUS
      <4>2. s \in Bytes /\ t \in Bytes /\ r \in Bytes
        BY <2>1, <2>2, <4>1
      <4>3. \A i \in 1 .. Len(s) : (s \o r)[i] = s[i]
        BY <4>2, BytesConcat
      <4>4. \A i \in 1 .. Len(t) : (t \o r)[i] = t[i]
        BY <4>2, BytesConcat
      <4> QED BY <4>1, <4>3, <4>4, Zenon
    <3> QED BY <2>1, <2>2, <3>1
  <2> QED BY <1>2, <1>3, <2>1, <2>3
<1>5. (written = "int16" /\ x = 195) \/ (written = "int32" /\ x = 196)
  <2>1. CASE written = "int16"
    <3>1. GoTypeToCIPType(written) = 195
      BY <2>1 DEF GoTypeToCIPType
    <3> QED BY <1>2, <2>1, <3>1
  <2>2. CASE written = "int32"
    <3>1. GoTypeToCIPType(written) = 196
      BY <2>2 DEF GoTypeToCIPType
    <3> QED BY <1>2, <2>2, <3>1
  <2> QED BY <1>1, <2>1, <2>2
<1>6. (type = "int16" /\ y = 195) \/ (type = "int32" /\ y = 196) \/ y = 672
  <2>1. CASE type = "int16"
    <3>1. TypeCode(type) = 195
      BY <2>1 DEF TypeCode
    <3> QED BY <1>3, <2>1, <3>1
  <2>2. CASE type = "int32"
    <3>1. TypeCode(type) = 196
      BY <2>2 DEF TypeCode
    <3> QED BY <1>3, <2>2, <3>1
  <2>3. CASE type # "int16" /\ type # "int32"
    BY <1>3, <2>3 DEF TypeCode
  <2> QED BY <2>1, <2>2, <2>3
<1>7. 195 % 256 = 195 /\ 196 % 256 = 196 /\ 672 % 256 = 160
  OBVIOUS
<1> QED BY <1>4, <1>5, <1>6, <1>7

\* A tag that is written keeps its type.
LEMMA WriteKeepsType ==
  ASSUME NEW type \in TagTypes, NEW written, CanWrite(written), NEW val, val[1] \in Int, NEW data,
         data = Le16(GoTypeToCIPType(written)) \o Le16(1) \o Marshal(written, val),
         SubSeq(data, 1, 4) = Le16(TypeCode(type)) \o Le16(1)
  PROVE  /\ type = written
         /\ Unmarshal(type, From(data, 5)).val \in Seq(Int)
         /\ InType(type, Unmarshal(type, From(data, 5)).val)
<1>1. written = "int16" \/ written = "int32"
  BY DEF CanWrite
<1>2. GoTypeToCIPType(written) \in Nat
  BY <1>1 DEF GoTypeToCIPType
<1>3. PICK b : b = Marshal(written, val)
  OBVIOUS
<1>4. b \in Bytes
  BY <1>3, MarshalType
<1>5. /\ From(data, 5) = b
      /\ SubSeq(data, 1, 4) = Le16(GoTypeToCIPType(written)) \o Le16(1)
  BY <1>2, <1>3, <1>4, WriteParts
<1>6. type = written
  BY <1>5, CodesDiffer
<1>7. CASE written = "int16"
  <2>1. b = Le16(val[1]) /\ Len(b) = 2
    <3>1. b = Le16(val[1])
      BY <1>3, <1>7 DEF Marshal
    <3>2. Len(Le16(val[1])) = 2
      BY Le16Type
    <3> QED BY <3>1, <3>2, Zenon
  <2>2. I16(b) \in Int /\ -32768 <= I16(b) /\ I16(b) <= 32767
    <3>1. Len(b) >= 2
      BY <2>1
    <3> QED BY <1>4, <3>1, Signed16
  <2>3. ~(Len(b) < 2)
    BY <2>1
  <2>4. Unmarshal(type, b) = [ok |-> TRUE, val |-> <<I16(b)>>]
    BY <1>6, <1>7, <2>3 DEF Unmarshal
  <2>5. PICK x \in Int : x = I16(b) /\ -32768 <= x /\ x <= 32767
    BY <2>2
  <2>6. PICK v : v = <<x>>
    OBVIOUS
  <2>7. v \in Seq(Int) /\ v[1] = x
    BY <2>6
  <2>8. InType(type, v)
    <3>1. type = "int16"
      BY <1>6, <1>7
    <3>2. -32768 <= v[1] /\ v[1] <= 32767
      BY <2>5, <2>7
    <3> QED BY <3>1, <3>2 DEF InType
  <2>9. Unmarshal(type, b).val = v
    BY <2>4, <2>5, <2>6
  <2> QED BY <1>5, <1>6, <2>7, <2>8, <2>9
<1>8. CASE written = "int32"
  <2>1. b = Le32(val[1]) /\ Len(b) = 4
    <3>1. b = Le32(val[1])
      BY <1>3, <1>8 DEF Marshal
    <3>2. Len(Le32(val[1])) = 4
      BY Le32Type
    <3> QED BY <3>1, <3>2, Zenon
  <2>2. I32(b) \in Int
    <3>1. From(b, 3) \in Bytes /\ Len(From(b, 3)) >= 2
      <4>1. 3 \in Nat /\ 1 <= 3 /\ 3 <= Len(b) + 1 /\ Len(b) + 1 - 3 >= 2
        BY <2>1
      <4> QED BY <1>4, <4>1, FromType
    <3>2. I16(From(b, 3)) \in Int
      BY <3>1, Signed16
    <3>3. U16(b) \in Nat
      <4>1. Len(b) >= 2
        BY <2>1
      <4> QED BY <1>4, <4>1, NumberFirst
    <3> QED BY <3>2, <3>3 DEF I32
  <2>3. ~(Len(b) < 4)
    BY <2>1
  <2>4. Unmarshal(type, b) = [ok |-> TRUE, val |-> <<I32(b)>>]
    BY <1>6, <1>8, <2>3 DEF Unmarshal
  <2>5. PICK x \in Int : x = I32(b)
    BY <2>2
  <2>6. PICK v : v = <<x>>
    OBVIOUS
  <2>7. v \in Seq(Int) /\ Len(v) > 0
    BY <2>6
  <2>8. InType(type, v)
    BY <1>6, <1>8, <2>7 DEF InType
  <2>9. Unmarshal(type, b).val = v
    BY <2>4, <2>5, <2>6
  <2> QED BY <1>5, <1>6, <2>7, <2>8, <2>9
<1> QED BY <1>1, <1>7, <1>8

\* ListTags asks for the instance it means.
LEMMA ListRequestArrives ==
  ASSUME NEW id \in Ids, NEW packet, packet = ListRequest(id),
         NEW req, req = DecodeRequest(Item(packet, 178).data).request
  PROVE  /\ packet.command = "SendRRData" /\ req.service = 3
         /\ ParseSegment(ParseSegment(req.path, 32).rest, 36).id = id
<1>1. id \in Nat /\ Is16(id) /\ Is16(107) /\ 107 \in Nat
  BY DataAssumption DEF Ids, Is16, MaxSymbol
<1>2. PICK p : p = Segment(32, 107) \o Segment(36, id)
  OBVIOUS
<1>3. 32 \in Nat /\ 32 <= 253 /\ 36 \in Nat /\ 36 <= 253 /\ 3 + 3 = 6
  OBVIOUS
<1>4. HasWords(Segment(32, 107), 3) /\ HasWords(Segment(36, id), 3)
  BY <1>1, <1>3, SegmentWords
<1>5. HasWords(p, 6)
  <2>1. HasWords(p, 3 + 3)
    BY <1>2, <1>4, MoreWords
  <2> QED BY <1>3, <2>1
<1>6. PICK data : data = Le16(2) \o Le16(1) \o Le16(2)
  OBVIOUS
<1>7. data \in Bytes /\ Len(data) <= 1000
  <2>1. Le16(2) \in Bytes /\ Len(Le16(2)) = 2
    BY Le16Type
  <2>2. data \in Bytes /\ Len(data) = 4 + Len(Le16(2))
    <3>1. 2 \in Nat
      OBVIOUS
    <3>2. data = Le16(2) \o Le16(1) \o Le16(2)
      BY <1>6
    <3>3. PICK b : b = Le16(2) /\ b \in Bytes
      BY <2>1
    <3>4. PICK n \in Nat : n = 2
      OBVIOUS
    <3>5. data = Le16(n) \o Le16(1) \o b
      BY <3>2, <3>3, <3>4
    <3>6. data \in Bytes /\ Len(data) = 4 + Len(b)
      BY <3>3, <3>5, WriteParts
    <3> QED BY <3>3, <3>6
  <2>3. Len(data) = 6
    <3>1. Len(data) = 4 + 2
      BY <2>1, <2>2, Zenon
    <3> QED BY <3>1
  <2>4. Len(data) <= 1000
    BY <2>3
  <2> QED BY <2>2, <2>4
<1>8. packet = Unconnected(EncodeRequest(Request(3, p, data)))
  <2>1. <<>> \o Segment(32, 107) = Segment(32, 107)
    BY <1>4, NothingBefore DEF HasWords
  <2>2. CASE id = 0
    <3>1. NewGetSymbolClassAttributesRequest = Request(3, p, data)
      BY <1>2, <1>6, <2>1, <2>2 DEF NewGetSymbolClassAttributesRequest, AddInstance, AddClass
    <3> QED BY <2>2, <3>1 DEF ListRequest
  <2>3. CASE id # 0
    <3>1. NewGetSymbolAttributesRequest(id) = Request(3, p, data)
      BY <1>2, <1>6, <2>1 DEF NewGetSymbolAttributesRequest, AddInstance32, AddClass
    <3> QED BY <2>3, <3>1 DEF ListRequest
  <2> QED BY <2>2, <2>3
<1>9. packet.command = "SendRRData" /\ req = Request(3, p, data)
  <2>1. 6 \in Nat /\ 6 <= 129
    OBVIOUS
  <2> QED BY <1>5, <1>7, <1>8, <2>1, ServiceBytes, RequestArrives
<1>10. req.service = 3 /\ req.path = p
  BY <1>9 DEF Request
<1>11. ParseSegment(p, 32) = [ok |-> TRUE, id |-> 107, rest |-> Segment(36, id)]
  BY <1>1, <1>2, <1>3, <1>4, SegmentIsParsed DEF HasWords
<1>12. ParseSegment(Segment(36, id), 36).id = id
  <2>1. Segment(36, id) \o <<>> = Segment(36, id) /\ <<>> \in Bytes
    BY <1>4, NothingBefore, NoBytes DEF HasWords
  <2>2. ParseSegment(Segment(36, id) \o <<>>, 36) = [ok |-> TRUE, id |-> id, rest |-> <<>>]
    BY <1>1, <1>3, <2>1, SegmentIsParsed
  <2> QED BY <2>1, <2>2
<1> QED BY <1>9, <1>10, <1>11, <1>12

-----------------------------------------------------------------------------
(* What the controller answers to ListTags.                                *)

\* A response arrives as it is.
LEMMA ReplyIsRead ==
  ASSUME NEW u \in Users \ Peers, NEW status \in Byte, NEW data \in Bytes, Is16(4 + Len(data)),
         NEW packet, packet = Unconnected(EncodeResponse(3, status, <<>>, data))
  PROVE  Response(u, packet) = [ok |-> TRUE, status |-> status, data |-> data]
<1>1. PICK message : message = EncodeResponse(3, status, <<>>, data)
  OBVIOUS
<1>2. PICK n \in 0 .. 255 : n = 0
  OBVIOUS
<1>3. PICK ext : ext = <<>>
  OBVIOUS
<1>4. Len(ext) = n /\ DOMAIN ext = 1 .. n /\ \A i \in 1 .. n : ext[i] \in Nat
  BY <1>2, <1>3
<1>5. /\ message \in Bytes /\ Len(message) = 4 + 2 * n + Len(data)
      /\ DecodeResponse(message) = [ok |-> TRUE, status |-> status, data |-> data]
  <2>1. 3 \in Byte
    BY DEF Byte
  <2>2. PICK size : size = 4 + 2 * n + Len(data)
    OBVIOUS
  <2>3. /\ AreBytes(EncodeResponse(3, status, ext, data), size)
        /\ DecodeResponse(EncodeResponse(3, status, ext, data))
             = [ok |-> TRUE, status |-> status, data |-> data]
    BY <1>4, <2>1, <2>2, ResponseIsRead
  <2> QED BY <1>1, <1>3, <2>2, <2>3 DEF AreBytes
<1>6. Is16(Len(message))
  <2>1. 4 + 2 * n + Len(data) = 4 + Len(data)
    <3>1. Len(data) \in Nat
      BY BytesType
    <3> QED BY <1>2, <3>1
  <2> QED BY <1>5, <2>1, Zenon
<1>7. /\ packet.command = "SendRRData" /\ packet.status = 0
      /\ Item(packet, 178) = [ok |-> TRUE, data |-> message]
  BY <1>1, <1>5, <1>6, UnconnectedType
<1>8. Item(packet, 178).ok /\ Item(packet, 178).data = message
  BY <1>7
<1>9. u \notin Peers /\ packet.command \notin {"ListIdentity", "ListServices"}
  BY <1>7
<1>10. Response(u, packet) = DecodeResponse(message)
  BY <1>7, <1>8, <1>9 DEF Response
<1> QED BY <1>5, <1>10

\* The last of some.
LEMMA GreatestElement ==
  ASSUME NEW n \in Nat, NEW T, T \subseteq 1 .. n, T # {}
  PROVE  \E i \in T : \A j \in T : j <= i
<1>1. PICK S : S = {k \in 1 .. n : n + 1 - k \in T}
  BY Zenon
<1>2. S \subseteq 1 .. n /\ S # {}
  <2>1. PICK i \in T : TRUE
    OBVIOUS
  <2>2. PICK k : k = n + 1 - i
    OBVIOUS
  <2>3. k \in 1 .. n /\ n + 1 - k = i
    BY <2>2
  <2> QED BY <1>1, <2>3
<1>3. PICK k \in S : \A j \in S : k <= j
  BY <1>2, LeastElement
<1>4. PICK i : i = n + 1 - k
  OBVIOUS
<1>5. i \in T
  BY <1>1, <1>3, <1>4
<1>6. ASSUME NEW j \in T PROVE j <= i
  <2>1. PICK m : m = n + 1 - j
    OBVIOUS
  <2>2. m \in 1 .. n /\ n + 1 - m = j
    BY <2>1
  <2>3. m \in S
    BY <1>1, <2>2
  <2>4. k <= m
    BY <1>3, <2>3
  <2> QED BY <1>2, <1>4, <2>1, <2>4
<1> QED BY <1>5, <1>6

\* The largest instance is one, and there is no symbol behind it.
LEMMA MaxInstanceType ==
  ASSUME MaxSymbol \in Nat
  PROVE  /\ MaxInstance \in Ids
         /\ \A i \in 1 .. MaxSymbol : symbols[i] # NoSymbol => i <= MaxInstance
<1> DEFINE P(n) == /\ n # 0 => symbols[n] # NoSymbol
                   /\ \A i \in n + 1 .. MaxSymbol : symbols[i] = NoSymbol
<1>1. PICK T : T = {i \in 1 .. MaxSymbol : symbols[i] # NoSymbol}
  BY Zenon
<1>2. \E n \in Ids : P(n)
  <2>1. CASE T = {}
    <3>1. \A i \in 0 + 1 .. MaxSymbol : symbols[i] = NoSymbol
      BY <1>1, <2>1
    <3>2. 0 \in Ids
      BY DEF Ids
    <3> QED BY <3>1, <3>2
  <2>2. CASE T # {}
    <3>1. PICK n \in T : \A j \in T : j <= n
      BY <1>1, <2>2, GreatestElement
    <3>2. n \in Ids /\ n \in 1 .. MaxSymbol
      BY <1>1, <3>1 DEF Ids
    <3>3. symbols[n] # NoSymbol
      BY <1>1, <3>1
    <3>4. ASSUME NEW i \in n + 1 .. MaxSymbol PROVE symbols[i] = NoSymbol
      <4>1. i \in 1 .. MaxSymbol /\ ~(i <= n)
        BY <3>2
      <4>2. i \notin T
        BY <3>1, <4>1
      <4> QED BY <1>1, <4>1, <4>2
    <3> QED BY <3>2, <3>3, <3>4
  <2> QED BY <2>1, <2>2
<1>3. MaxInstance = CHOOSE n \in Ids : P(n)
  BY Zenon DEF MaxInstance
<1>4. MaxInstance \in Ids /\ P(MaxInstance)
  <2> HIDE DEF P
  <2> QED BY <1>2, <1>3
<1>5. ASSUME NEW i \in 1 .. MaxSymbol, symbols[i] # NoSymbol PROVE i <= MaxInstance
  <2>1. PICK m \in Nat : m = MaxInstance
    BY <1>4 DEF Ids
  <2>2. \A j \in m + 1 .. MaxSymbol : symbols[j] = NoSymbol
    BY <1>4, <2>1
  <2>3. i \notin m + 1 .. MaxSymbol
    BY <1>5, <2>2
  <2>4. i <= m
    BY <2>3
  <2> QED BY <2>1, <2>4
<1> QED BY <1>4, <1>5

\* The number of instances has 16 bits.
LEMMA IdsType == MaxSymbol \in Nat /\ \A id \in Ids : id \in Nat /\ Is16(id)
<1>1. MaxSymbol \in Nat /\ MaxSymbol <= 65535
  BY DataAssumption DEF MaxSymbol
<1> QED BY <1>1 DEF Ids, Is16

\* A symbol fits into an answer.
LEMMA SymbolFits ==
  ASSUME NEW s \in SymbolType
  PROVE  /\ SymbolAttributes(s) \in Bytes /\ Is16(4 + Len(SymbolAttributes(s)))
         /\ DecodeSymbolAttributesResponse(SymbolAttributes(s)) = [ok |-> TRUE, symbol |-> s]
         /\ s.name # <<>> /\ s # NoSymbol
<1>1. PICK name, type : name = s.name /\ type = s.type
  OBVIOUS
<1>2. /\ name \in Bytes /\ Len(name) \in Nat /\ 1 <= Len(name) /\ Len(name) <= 65517
      /\ type \in Nat /\ type <= 65535 /\ s = [name |-> name, type |-> type]
  <2>1. name \in Bytes /\ 1 <= Len(name) /\ Len(name) <= 65517 /\ type \in Nat /\ type <= 65535
    BY <1>1 DEF SymbolType
  <2>2. s = [name |-> name, type |-> type]
    BY <1>1 DEF SymbolType
  <2> QED BY <2>1, <2>2, BytesType
<1>3. Is16(Len(name)) /\ Is16(type)
  BY <1>2 DEF Is16
<1>4. /\ AreBytes(SymbolAttributes(s), 14 + Len(name))
      /\ DecodeSymbolAttributesResponse(SymbolAttributes(s)) = [ok |-> TRUE, symbol |-> s]
  <2>1. name \in Bytes /\ s = [name |-> name, type |-> type]
    BY <1>2
  <2> QED BY <1>3, <2>1, SymbolIsDecoded, Zenon
<1>5. SymbolAttributes(s) \in Bytes /\ Len(SymbolAttributes(s)) = 14 + Len(name)
  BY <1>4 DEF AreBytes
<1>6. Is16(4 + Len(SymbolAttributes(s)))
  <2>1. PICK n \in Nat : n = Len(name) /\ n <= 65517
    BY <1>2
  <2>2. Is16(4 + (14 + n))
    BY <2>1 DEF Is16
  <2> QED BY <1>5, <2>1, <2>2
<1>7. name # <<>>
  <2>1. name = <<>> => Len(name) = 0
    BY NoBytes, Zenon
  <2> QED BY <1>2, <2>1
<1> QED BY <1>1, <1>4, <1>5, <1>6, <1>7 DEF NoSymbol

-----------------------------------------------------------------------------
(* What the controller answers, and what a step leaves as it is.           *)

\* The symbols there may be.
LEMMA SymbolsType ==
  Symbols \union {NoSymbol} \union ToSet(SymbolTable) \subseteq SymbolType \union {NoSymbol}
<1>1. SymbolTable \in Seq(SymbolType \union {NoSymbol}) /\ Symbols \subseteq SymbolType
  BY DataAssumption
<1>2. ASSUME NEW s \in ToSet(SymbolTable) PROVE s \in SymbolType \union {NoSymbol}
  <2>1. PICK i \in DOMAIN SymbolTable : s = SymbolTable[i]
    BY DEF ToSet
  <2> QED BY <1>1, <2>1
<1> QED BY <1>1, <1>2

\* The controller's answer to ListTags.
ListAnswered(id, resp) ==
  IF id = 0
    THEN resp = [ok |-> TRUE, status |-> 0, data |-> ClassAttributes(MaxInstance)]
    ELSE \/ /\ id \in 1 .. MaxSymbol /\ symbols[id] \in SymbolType
            /\ resp = [ok |-> TRUE, status |-> 0, data |-> SymbolAttributes(symbols[id])]
         \/ /\ id \in 1 .. MaxSymbol /\ symbols[id] = NoSymbol
            /\ resp = [ok |-> TRUE, status |-> 22, data |-> <<>>]

LEMMA ListServed ==
  ASSUME Shape, NEW u \in AtController, NEW id \in Ids, toDevice[u] = ListRequest(id),
         ControllerServes(u)
  PROVE  /\ memory' = memory
         /\ \E packet : Reply(u, packet) /\ ListAnswered(id, Response(u, packet))
<1>1. PICK req : req = DecodeRequest(Item(toDevice[u], 178).data).request
  OBVIOUS
<1>2. /\ toDevice[u].command = "SendRRData" /\ req.service = 3
      /\ ParseSegment(ParseSegment(req.path, 32).rest, 36).id = id
  BY <1>1, ListRequestArrives
<1>3. PICK answer : answer = SymbolAnswer(req)
  OBVIOUS
<1>4. PICK packet : packet = Unconnected(EncodeResponse(3, answer.status, answer.ext, answer.data))
  OBVIOUS
<1>5. Reply(u, packet)
  <2>1. Reply(u, Unconnected(EncodeResponse(req.service, answer.status, answer.ext, answer.data)))
    BY <1>1, <1>2, <1>3 DEF ControllerServes
  <2> QED BY <1>2, <1>4, <2>1
<1>6. memory' = memory
  <2>1. memory' = IF ~(toDevice[u].command # "SendRRData") /\ Writes(req)
                    THEN [memory EXCEPT ![SymbolName(req.path)].val =
                            Unmarshal(memory[SymbolName(req.path)].type, From(req.data, 5)).val]
                    ELSE memory
    BY <1>1, Zenon DEF ControllerServes
  <2>2. ~Writes(req)
    BY <1>2 DEF Writes
  <2> QED BY <2>1, <2>2
<1>7. u \in Users \ Peers
  BY UsersAssumption
<1>8. 0 \in Byte /\ 22 \in Byte
  BY DEF Byte
<1>9. id \in Nat /\ MaxSymbol \in Nat
  BY IdsType
<1>10. CASE id = 0
  <2>1. answer = Answer(0, <<>>, ClassAttributes(MaxInstance))
    BY <1>2, <1>3, <1>10 DEF SymbolAnswer, ClassAttributes
  <2>2. Is16(MaxInstance)
    BY <1>9, MaxInstanceType, IdsType
  <2>3. AreBytes(ClassAttributes(MaxInstance), 14)
    BY <2>2, ClassIsDecoded
  <2>4. ClassAttributes(MaxInstance) \in Bytes /\ Is16(4 + Len(ClassAttributes(MaxInstance)))
    <3>1. PICK n \in Nat : n = Len(ClassAttributes(MaxInstance)) /\ n = 14
      BY <2>3 DEF AreBytes
    <3>2. Is16(4 + n)
      BY <3>1 DEF Is16
    <3> QED BY <2>3, <3>1, <3>2 DEF AreBytes
  <2>5. packet = Unconnected(EncodeResponse(3, 0, <<>>, ClassAttributes(MaxInstance)))
    BY <1>4, <2>1 DEF Answer
  <2>6. Response(u, packet) = [ok |-> TRUE, status |-> 0, data |-> ClassAttributes(MaxInstance)]
    BY <1>7, <1>8, <2>4, <2>5, ReplyIsRead
  <2> QED BY <1>5, <1>6, <1>10, <2>6 DEF ListAnswered
<1>11. CASE id # 0
  <2>1. id \in 1 .. MaxSymbol /\ ~(id > MaxSymbol)
    BY <1>9, <1>11 DEF Ids
  <2>2. symbols[id] \in SymbolType \/ symbols[id] = NoSymbol
    BY <2>1, SymbolsType DEF Shape
  <2>3. CASE symbols[id] = NoSymbol
    <3>1. answer = Answer(22, <<>>, <<>>)
      BY <1>2, <1>3, <1>11, <2>1, <2>3 DEF SymbolAnswer
    <3>2. Is16(4 + Len(<<>>))
      <4>1. PICK n \in Nat : n = Len(<<>>) /\ n = 0
        BY NoBytes
      <4>2. Is16(4 + n)
        BY <4>1 DEF Is16
      <4> QED BY <4>1, <4>2
    <3>3. packet = Unconnected(EncodeResponse(3, 22, <<>>, <<>>))
      BY <1>4, <3>1 DEF Answer
    <3>4. Response(u, packet) = [ok |-> TRUE, status |-> 22, data |-> <<>>]
      BY <1>7, <1>8, <3>2, <3>3, NoBytes, ReplyIsRead
    <3> QED BY <1>5, <1>6, <1>11, <2>1, <2>3, <3>4 DEF ListAnswered
  <2>4. CASE symbols[id] \in SymbolType
    <3>1. PICK s \in SymbolType : s = symbols[id]
      BY <2>4
    <3>2. /\ SymbolAttributes(s) \in Bytes /\ Is16(4 + Len(SymbolAttributes(s)))
          /\ s # NoSymbol
      BY SymbolFits
    <3>3. answer = Answer(0, <<>>, SymbolAttributes(s))
      BY <1>2, <1>3, <1>11, <2>1, <3>1, <3>2 DEF SymbolAnswer, SymbolAttributes
    <3>4. packet = Unconnected(EncodeResponse(3, 0, <<>>, SymbolAttributes(s)))
      BY <1>4, <3>3 DEF Answer
    <3>5. Response(u, packet) = [ok |-> TRUE, status |-> 0, data |-> SymbolAttributes(s)]
      BY <1>7, <1>8, <3>2, <3>4, ReplyIsRead
    <3> QED BY <1>5, <1>6, <1>11, <2>1, <2>4, <3>1, <3>5 DEF ListAnswered
  <2> QED BY <2>2, <2>3, <2>4
<1> QED BY <1>10, <1>11

\* What nothing has happened to.
Same(v) ==
  /\ pc'[v] = pc[v] /\ call'[v] = call[v] /\ toDevice'[v] = toDevice[v]
  /\ toClient'[v] = toClient[v] /\ result'[v] = result[v] /\ listing'[v] = listing[v]
  /\ steady'[v] = steady[v] /\ seen'[v] = seen[v] /\ failed'[v] = failed[v]
  /\ (v \in up') = (v \in up)

LEMMA Others ==
  ASSUME NEW v \in Users, UserInv(v), Same(v), symbols' = symbols
  PROVE  UserInv(v)'
<1>1. Listing(v)' = Listing(v) /\ IsList(v)' = IsList(v)
  BY DEF Same, Listing, IsList
<1>2. Exchange(v)'
  BY DEF UserInv, Same, Exchange
<1>3. Sent(v)'
  BY <1>1 DEF UserInv, Same, Sent
<1>4. Answered(v)'
  BY <1>1 DEF UserInv, Same, Answered, ClassAnswer, InstanceAnswer
<1>5. History(v)'
  BY <1>1 DEF UserInv, Same, History
<1>6. Position(v)'
  BY <1>1 DEF UserInv, Same, Position
<1>7. Collected(v)'
  BY <1>1 DEF UserInv, Same, Collected, Complete
<1> QED BY <1>2, <1>3, <1>4, <1>5, <1>6, <1>7 DEF UserInv

-----------------------------------------------------------------------------
(* Steps of the devices, of connections and of the programmer; a call      *)
(* begins.                                                                 *)

\* Variables that a step changes for one user.
LEMMA OneUser ==
  ASSUME Shape, NEW u \in Users, NEW f, DOMAIN f = Users, NEW x, NEW g, g = [f EXCEPT ![u] = x]
  PROVE  DOMAIN g = Users /\ g[u] = x /\ \A v \in Users : v # u => g[v] = f[v]
  OBVIOUS

\* A reply arrives, or is lost.
LEMMA ReplyKeeps ==
  ASSUME Shape, NEW u \in Users, UserInv(u), toDevice[u] # NoPacket, symbols' = symbols,
         NEW packet, Reply(u, packet),
         Listing(u) /\ u \in up => ListAnswered(listing[u].id, Response(u, packet))
  PROVE  Shape' /\ UserInv(u)' /\ \A v \in Users : v # u => Same(v)
<1>1. /\ toDevice' = [toDevice EXCEPT ![u] = NoPacket]
      /\ toClient' = IF u \in up THEN [toClient EXCEPT ![u] = packet] ELSE toClient
      /\ up' = up /\ pc' = pc /\ call' = call /\ result' = result /\ listing' = listing
      /\ steady' = steady /\ seen' = seen /\ failed' = failed
  BY DEF Reply, clientVars
<1>2. /\ DOMAIN toDevice' = Users /\ toDevice'[u] = NoPacket
      /\ \A v \in Users : v # u => toDevice'[v] = toDevice[v]
  BY <1>1, OneUser DEF Shape
<1>3. /\ DOMAIN toClient' = Users
      /\ u \in up => toClient'[u] = packet
      /\ u \notin up => toClient'[u] = toClient[u]
      /\ \A v \in Users : v # u => toClient'[v] = toClient[v]
  BY <1>1 DEF Shape
<1>4. Shape'
  BY <1>1, <1>2, <1>3 DEF Shape
<1>5. ASSUME NEW v \in Users, v # u PROVE Same(v)
  BY <1>1, <1>2, <1>3, <1>5 DEF Same
<1>6. Listing(u)' = Listing(u) /\ IsList(u)' = IsList(u)
  BY <1>1 DEF Listing, IsList
<1>7. Exchange(u)'
  BY <1>1, <1>2, <1>3 DEF UserInv, Exchange
<1>8. Sent(u)'
  BY <1>2 DEF Sent
<1>9. History(u)'
  BY <1>1, <1>6 DEF UserInv, History
<1>10. Position(u)'
  BY <1>1, <1>6 DEF UserInv, Position
<1>11. Collected(u)'
  BY <1>1, <1>6 DEF UserInv, Collected, Complete
<1>12. Answered(u)'
  <2>1. CASE u \notin up
    BY <1>1, <1>3, <1>6, <2>1 DEF UserInv, Answered, ClassAnswer, InstanceAnswer, Response, Item
  <2>2. CASE ~Listing(u)
    BY <1>6, <2>2 DEF Answered
  <2>3. CASE Listing(u) /\ u \in up
    <3>1. PICK resp : resp = Response(u, packet)
      OBVIOUS
    <3>2. Response(u, toClient[u])' = resp
      <4>1. toClient'[u] = packet
        BY <1>3, <2>3
      <4>2. Response(u, toClient[u])' = Response(u, packet)
        BY <4>1, Zenon DEF Response, Item
      <4> QED BY <3>1, <4>2
    <3>3. ListAnswered(listing[u].id, resp)
      BY <2>3, <3>1
    <3>4. /\ DOMAIN steady[u] \subseteq 1 .. MaxSymbol
          /\ \A i \in DOMAIN steady[u] : steady[u][i] = symbols[i]
          /\ \A i \in 1 .. MaxSymbol : <<i, symbols[i]>> \in seen[u]
      BY <2>3 DEF UserInv, History
    <3>5. CASE listing[u].id = 0
      <4>1. resp = [ok |-> TRUE, status |-> 0, data |-> ClassAttributes(MaxInstance)]
        BY <3>3, <3>5 DEF ListAnswered
      <4>2. PICK max \in Ids : /\ max = MaxInstance
                               /\ \A i \in 1 .. MaxSymbol : symbols[i] # NoSymbol => i <= max
        BY IdsType, MaxInstanceType
      <4>3. \A i \in DOMAIN steady[u] : steady[u][i] # NoSymbol => i <= max
        BY <3>4, <4>2
      <4>4. ClassAnswer(u, resp)
        BY <4>1, <4>2, <4>3 DEF ClassAnswer
      <4>5. ClassAnswer(u, resp)'
        BY <1>1, <4>4 DEF ClassAnswer
      <4> QED BY <1>1, <3>1, <3>2, <3>5, <4>4 DEF Answered, ClassAnswer
    <3>6. CASE listing[u].id # 0
      <4>1. PICK id : id = listing[u].id
        OBVIOUS
      <4>2. InstanceAnswer(u, id, resp)
        <5>1. CASE symbols[id] \in SymbolType /\ id \in 1 .. MaxSymbol
                   /\ resp = [ok |-> TRUE, status |-> 0, data |-> SymbolAttributes(symbols[id])]
          <6>1. PICK s \in SymbolType : s = symbols[id]
            BY <5>1
          <6>2. <<id, s>> \in seen[u] /\ (id \in DOMAIN steady[u] => steady[u][id] = s)
            BY <3>4, <5>1, <6>1
          <6>3. s \in {x[2] : x \in seen[u]}
            BY <6>2
          <6> QED BY <5>1, <6>1, <6>2, <6>3 DEF InstanceAnswer
        <5>2. CASE symbols[id] = NoSymbol /\ resp = [ok |-> TRUE, status |-> 22, data |-> <<>>]
          BY <3>4, <5>2 DEF InstanceAnswer
        <5> QED BY <3>3, <3>6, <4>1, <5>1, <5>2 DEF ListAnswered
      <4> QED BY <1>1, <3>1, <3>2, <3>6, <4>1, <4>2 DEF Answered, InstanceAnswer
    <3> QED BY <3>5, <3>6
  <2> QED BY <2>1, <2>2, <2>3
<1> QED BY <1>4, <1>5, <1>7, <1>8, <1>9, <1>10, <1>11, <1>12 DEF UserInv

\* A device serves a user.
LEMMA ServesStep ==
  ASSUME Inv, NEW u \in Users, Serves(u)
  PROVE  symbols' = symbols /\ Shape' /\ UserInv(u)' /\ \A v \in Users : v # u => Same(v)
<1>1. Shape /\ UserInv(u)
  BY DEF Inv
<1>2. CASE AdapterServes(u)
  <2>1. /\ u \notin AtController /\ toDevice[u] # NoPacket /\ symbols' = symbols
        /\ \E packet : Reply(u, packet)
    BY <1>2 DEF AdapterServes
  <2>2. ~Listing(u)
    BY <1>1, <2>1, AdapterPacketType DEF UserInv, Exchange, Listing, IsList
  <2> QED BY <1>1, <2>1, <2>2, ReplyKeeps
<1>3. CASE ControllerServes(u)
  <2>1. /\ u \in AtController /\ toDevice[u] # NoPacket /\ symbols' = symbols
        /\ \E packet : Reply(u, packet)
    BY <1>3 DEF ControllerServes
  <2>2. CASE Listing(u) /\ u \in up
    <3>1. PICK id \in Ids : toDevice[u] = ListRequest(id) /\ id = listing[u].id
      BY <1>1, <2>1, <2>2 DEF UserInv, Sent, Listing
    <3>2. \E packet : Reply(u, packet) /\ ListAnswered(id, Response(u, packet))
      BY <1>1, <1>3, <2>1, <3>1, ListServed
    <3>3. PICK packet : Reply(u, packet) /\ ListAnswered(listing[u].id, Response(u, packet))
      BY <3>1, <3>2
    <3> QED BY <1>1, <2>1, <3>3, ReplyKeeps
  <2>3. CASE ~(Listing(u) /\ u \in up)
    BY <1>1, <2>1, <2>3, ReplyKeeps
  <2> QED BY <2>2, <2>3
<1> QED BY <1>2, <1>3 DEF Serves

\* A connection breaks.
LEMMA DisconnectStep ==
  ASSUME Inv, NEW u \in Users, Disconnect(u)
  PROVE  symbols' = symbols /\ Shape' /\ UserInv(u)' /\ \A v \in Users : v # u => Same(v)
<1>1. Shape /\ UserInv(u)
  BY DEF Inv
<1>2. /\ up' = up \ {u} /\ toClient' = toClient /\ pc' = pc /\ call' = call
      /\ result' = result /\ listing' = listing /\ steady' = steady /\ seen' = seen
      /\ failed' = failed /\ symbols' = symbols
  BY DEF Disconnect, deviceVars, clientVars, listVars
<1>3. /\ DOMAIN toDevice' = Users
      /\ toDevice'[u] = toDevice[u] \/ toDevice'[u] = NoPacket
      /\ \A v \in Users : v # u => toDevice'[v] = toDevice[v]
  BY <1>1 DEF Disconnect, Shape
<1>4. Shape'
  BY <1>1, <1>2, <1>3 DEF Shape
<1>5. ASSUME NEW v \in Users, v # u PROVE Same(v)
  BY <1>2, <1>3, <1>5 DEF Same
<1>6. Listing(u)' = Listing(u) /\ IsList(u)' = IsList(u) /\ u \notin up'
  BY <1>2 DEF Listing, IsList
<1>7. Exchange(u)'
  BY <1>1, <1>2, <1>6 DEF UserInv, Exchange
<1>8. Sent(u)'
  BY <1>1, <1>2, <1>3, <1>6 DEF UserInv, Sent
<1>9. Answered(u)'
  BY <1>1, <1>2, <1>6 DEF UserInv, Answered, ClassAnswer, InstanceAnswer, Response, Item
<1>10. History(u)'
  BY <1>1, <1>2, <1>6 DEF UserInv, History
<1>11. Position(u)'
  BY <1>1, <1>2, <1>6 DEF UserInv, Position
<1>12. Collected(u)'
  BY <1>1, <1>2, <1>6 DEF UserInv, Collected, Complete
<1> QED BY <1>2, <1>4, <1>5, <1>7, <1>8, <1>9, <1>10, <1>11, <1>12 DEF UserInv

\* A symbol is edited: what is steady becomes less, what is seen more.
LEMMA EditStep ==
  ASSUME Inv, NEW i \in 1 .. MaxSymbol, EditSymbol(i)
  PROVE  Inv'
<1>1. Shape /\ \A u \in Users : UserInv(u)
  BY DEF Inv
<1>2. /\ up' = up /\ toDevice' = toDevice /\ toClient' = toClient /\ pc' = pc /\ call' = call
      /\ result' = result /\ listing' = listing /\ failed' = failed
  BY DEF EditSymbol, wireVars, clientVars
<1>3. PICK s \in Symbols \union {NoSymbol} : symbols' = [symbols EXCEPT ![i] = s]
  BY DEF EditSymbol
<1>4. /\ symbols' \in [1 .. MaxSymbol -> Symbols \union {NoSymbol} \union ToSet(SymbolTable)]
      /\ \A j \in 1 .. MaxSymbol : j # i => symbols'[j] = symbols[j]
  BY <1>1, <1>3 DEF Shape
<1>5. /\ DOMAIN steady' = Users /\ DOMAIN seen' = Users
      /\ \A u \in Users : /\ Listing(u) => /\ DOMAIN steady'[u] = DOMAIN steady[u] \ {i}
                                           /\ \A j \in DOMAIN steady'[u] :
                                                steady'[u][j] = steady[u][j]
                                           /\ seen'[u] = seen[u] \union {<<i, symbols'[i]>>}
                          /\ ~Listing(u) => steady'[u] = steady[u] /\ seen'[u] = seen[u]
  BY DEF EditSymbol
<1>6. Shape'
  BY <1>1, <1>2, <1>4, <1>5 DEF Shape
<1>7. ASSUME NEW u \in Users PROVE UserInv(u)'
  <2>1. Listing(u)' = Listing(u) /\ IsList(u)' = IsList(u) /\ UserInv(u)
    BY <1>1, <1>2 DEF Listing, IsList
  <2>2. Exchange(u)' /\ Sent(u)'
    BY <1>2, <2>1 DEF UserInv, Exchange, Sent
  <2>3. /\ DOMAIN steady'[u] \subseteq DOMAIN steady[u] /\ seen[u] \subseteq seen'[u]
        /\ \A j \in DOMAIN steady'[u] : steady'[u][j] = steady[u][j]
    BY <1>5
  <2>4. Answered(u)'
    <3>1. CASE Listing(u) /\ toClient[u] # NoPacket
      <4>1. PICK resp : resp = Response(u, toClient[u])
        OBVIOUS
      <4>2. Response(u, toClient[u])' = resp
        BY <1>2, <4>1, Zenon DEF Response, Item
      <4>3. CASE listing[u].id = 0
        <5>1. ClassAnswer(u, resp)
          BY <2>1, <3>1, <4>1, <4>3 DEF UserInv, Answered
        <5>2. PICK max \in Ids :
                /\ resp = [ok |-> TRUE, status |-> 0, data |-> ClassAttributes(max)]
                /\ \A j \in DOMAIN steady[u] : steady[u][j] # NoSymbol => j <= max
          BY <5>1 DEF ClassAnswer
        <5>3. \A j \in DOMAIN steady'[u] : steady'[u][j] # NoSymbol => j <= max
          BY <2>3, <5>2
        <5> QED BY <1>2, <2>1, <3>1, <4>2, <4>3, <5>2, <5>3 DEF Answered, ClassAnswer
      <4>4. CASE listing[u].id # 0
        <5>1. InstanceAnswer(u, listing[u].id, resp)
          BY <2>1, <3>1, <4>1, <4>4 DEF UserInv, Answered
        <5>2. CASE \E t \in {x[2] : x \in seen[u]} \intersect SymbolType :
                /\ <<listing[u].id, t>> \in seen[u]
                /\ (listing[u].id \in DOMAIN steady[u] => steady[u][listing[u].id] = t)
                /\ resp = [ok |-> TRUE, status |-> 0, data |-> SymbolAttributes(t)]
          <6>1. PICK t \in {x[2] : x \in seen[u]} \intersect SymbolType :
                /\ <<listing[u].id, t>> \in seen[u]
                /\ (listing[u].id \in DOMAIN steady[u] => steady[u][listing[u].id] = t)
                /\ resp = [ok |-> TRUE, status |-> 0, data |-> SymbolAttributes(t)]
            BY <5>2
          <6>2. t \in {x[2] : x \in seen'[u]} \intersect SymbolType
            BY <2>3, <6>1
          <6> QED BY <1>2, <2>1, <2>3, <3>1, <4>2, <4>4, <6>1, <6>2 DEF Answered, InstanceAnswer
        <5>3. CASE /\ listing[u].id \in DOMAIN steady[u] => steady[u][listing[u].id] = NoSymbol
                   /\ resp = [ok |-> TRUE, status |-> 22, data |-> <<>>]
          BY <1>2, <2>1, <2>3, <3>1, <4>2, <4>4, <5>3 DEF Answered, InstanceAnswer
        <5> QED BY <5>1, <5>2, <5>3 DEF InstanceAnswer
      <4> QED BY <4>3, <4>4
    <3> QED BY <1>2, <2>1, <3>1 DEF Answered
  <2>5. History(u)'
    BY <1>2, <1>4, <1>5, <2>1, <2>3 DEF UserInv, History
  <2>6. Position(u)'
    BY <1>2, <2>1, <2>3 DEF UserInv, Position
  <2>7. Collected(u)'
    BY <1>2, <2>1, <2>3 DEF UserInv, Collected, Complete
  <2> QED BY <2>2, <2>4, <2>5, <2>6, <2>7 DEF UserInv
<1> QED BY <1>6, <1>7 DEF Inv

\* What a user begins with ListTags.
LEMMA ListBegins ==
  ASSUME NEW u \in Users, NEW c \in CallsOf[u], c.kind = "list"
  PROVE  FirstPacket(u, c) = ListRequest(0) /\ ~Refused(c)
<1>1. u \in AtController
  BY AdapterPacketType
<1>2. u \notin Peers /\ c.type = "symbols"
  BY <1>1, CallsAssumption, UsersAssumption DEF TagCall, ListCall
<1> QED BY <1>2 DEF FirstPacket, ListRequest, Refused

\* A call begins.
LEMMA BeginStep ==
  ASSUME Inv, NEW u \in Users, NEW c \in CallsOf[u], Begin(u, c)
  PROVE  symbols' = symbols /\ Shape' /\ UserInv(u)' /\ \A v \in Users : v # u => Same(v)
<1>1. Shape /\ UserInv(u)
  BY DEF Inv
<1>2. pc[u] = "idle" /\ u \in up
  BY DEF Begin
<1>3. /\ call' = [call EXCEPT ![u] = c]
      /\ pc' = [pc EXCEPT ![u] = IF Refused(c) THEN "idle" ELSE "waiting"]
      /\ toDevice' = IF Refused(c) THEN toDevice
                                   ELSE [toDevice EXCEPT ![u] = FirstPacket(u, c)]
      /\ result' = [result EXCEPT ![u] = IF Refused(c) THEN Failed ELSE NoOutcome]
      /\ listing' = [listing EXCEPT ![u] = Begun]
      /\ steady' = [steady EXCEPT ![u] = symbols]
      /\ seen' = [seen EXCEPT ![u] = {<<i, symbols[i]>> : i \in 1 .. MaxSymbol}]
      /\ failed' = [failed EXCEPT ![u] = {}]
  BY Zenon DEF Begin, Refused
<1>4. symbols' = symbols /\ up' = up /\ toClient' = toClient
  BY DEF Begin, deviceVars
<1>5. c \in Calls /\ c # NoCall
  BY CallsAssumption DEF Calls
<1>6. /\ call' \in [Users -> Calls \union {NoCall}] /\ call'[u] = c
      /\ \A v \in Users : v # u => call'[v] = call[v]
  BY <1>1, <1>3, <1>5 DEF Shape
<1>7. /\ pc' \in [Users -> {"idle", "waiting"}]
      /\ pc'[u] = IF Refused(c) THEN "idle" ELSE "waiting"
      /\ \A v \in Users : v # u => pc'[v] = pc[v]
  BY <1>1, <1>3 DEF Shape
<1>8. /\ DOMAIN toDevice' = Users
      /\ toDevice'[u] = IF Refused(c) THEN toDevice[u] ELSE FirstPacket(u, c)
      /\ \A v \in Users : v # u => toDevice'[v] = toDevice[v]
  BY <1>1, <1>3 DEF Shape
<1>9. /\ DOMAIN result' = Users /\ result'[u] = IF Refused(c) THEN Failed ELSE NoOutcome
      /\ \A v \in Users : v # u => result'[v] = result[v]
  BY <1>1, <1>3, Zenon, OneUser DEF Shape
<1>10. /\ DOMAIN listing' = Users /\ listing'[u] = Begun
       /\ \A v \in Users : v # u => listing'[v] = listing[v]
  BY <1>1, <1>3, OneUser DEF Shape
<1>11. /\ DOMAIN steady' = Users /\ steady'[u] = symbols
       /\ \A v \in Users : v # u => steady'[v] = steady[v]
  BY <1>1, <1>3, OneUser DEF Shape
<1>12. /\ DOMAIN seen' = Users /\ seen'[u] = {<<i, symbols[i]>> : i \in 1 .. MaxSymbol}
       /\ \A v \in Users : v # u => seen'[v] = seen[v]
  BY <1>1, <1>3, OneUser DEF Shape
<1>13. /\ DOMAIN failed' = Users /\ failed'[u] = {}
       /\ \A v \in Users : v # u => failed'[v] = failed[v]
  BY <1>1, <1>3, OneUser DEF Shape
<1>14. Shape'
  BY <1>1, <1>4, <1>6, <1>7, <1>8, <1>9, <1>10, <1>11, <1>12, <1>13 DEF Shape
<1>15. ASSUME NEW v \in Users, v # u PROVE Same(v)
  BY <1>4, <1>6, <1>7, <1>8, <1>9, <1>10, <1>11, <1>12, <1>13, <1>15 DEF Same
<1>16. /\ Begun.id = 0 /\ Begun.done = FALSE /\ Begun.found = <<>> /\ Len(<<>>) = 0
       /\ DOMAIN <<>> = {} /\ Begun \in [id : Ids, max : Ids, found : Found, done : BOOLEAN]
       /\ 0 \in Ids /\ MaxSymbol \in Nat
  BY IdsType DEF Begun, Ids, Found
<1>17. toClient[u] = NoPacket /\ toDevice[u] = NoPacket
  BY <1>1, <1>2 DEF UserInv, Exchange
<1>18. Failed.ok \in BOOLEAN /\ NoOutcome.ok \in BOOLEAN
  BY DEF Failed, NoOutcome
<1>19. Exchange(u)'
  BY <1>2, <1>4, <1>5, <1>6, <1>7, <1>8, <1>9, <1>17, <1>18 DEF Exchange
<1>20. Sent(u)'
  <2>1. CASE Refused(c)
    BY <1>8, <1>17, <2>1 DEF Sent
  <2>2. CASE ~Refused(c) /\ c.kind = "list"
    <3>1. toDevice'[u] = ListRequest(0)
      BY <1>8, <2>2, ListBegins
    <3> QED BY <1>10, <1>16, <3>1, <1>6, <1>5, <2>2 DEF Sent, IsList
  <2>3. CASE ~Refused(c) /\ c.kind # "list"
    BY <1>6, <1>8, <1>5, <2>3 DEF Sent, IsList
  <2> QED BY <2>1, <2>2, <2>3
<1>21. Answered(u)'
  BY <1>4, <1>17 DEF Answered
<1>22. History(u)'
  BY <1>1, <1>4, <1>11, <1>12, <1>13 DEF Shape, History
<1>23. Position(u)'
  <2>1. listing[u]' = Begun
    BY <1>10
  <2> QED BY <1>13, <1>16, <2>1 DEF Position
<1>24. Collected(u)'
  <2>1. Complete(u, 0 .. listing[u].id - 1)'
    <3>1. \A i \in DOMAIN steady'[u] : i \notin 0 .. 0 - 1
      BY <1>1, <1>11 DEF Shape
    <3> QED BY <1>10, <1>16, <3>1 DEF Complete
  <2> QED BY <1>10, <1>13, <1>16, <2>1 DEF Collected
<1> QED BY <1>4, <1>14, <1>15, <1>19, <1>20, <1>21, <1>22, <1>23, <1>24 DEF UserInv

-----------------------------------------------------------------------------
(* Calls go on and return.                                                 *)

\* What a call makes of a response says whether it has succeeded.
LEMMA OutcomeType ==
  ASSUME NEW u \in Users, NEW c \in CallsOf[u], NEW resp
  PROVE  OutcomeOf(c, resp).ok \in BOOLEAN
<1>1. Failed.ok \in BOOLEAN /\ \A val : Returns(val).ok \in BOOLEAN
  BY DEF Failed, Returns
<1>2. ASSUME NEW b
      PROVE  /\ DecodeListIdentityResponse(b).ok \in BOOLEAN
             /\ DecodeListServicesResponse(b).ok \in BOOLEAN
  BY Zenon DEF DecodeListIdentityResponse, DecodeListServicesResponse
<1>3. ASSUME NEW type \in TagTypes, NEW b PROVE Unmarshal(type, b).ok \in BOOLEAN
  BY DEF TagTypes, Unmarshal, DecodeTimer, DecodeCounter, DecodeStructure
<1>4. CASE c.kind = "get" /\ c.type \notin {"identities", "services"} /\ c.target.name # <<>>
  <2>1. c.type \in TagTypes
    <3>1. CASE u \in Peers
      BY <1>4, <3>1, CallsAssumption DEF PeerCall
    <3>2. CASE u \in AtController
      BY <1>4, <3>2, CallsAssumption DEF TagCall, ListCall
    <3>3. CASE u \in Users \ (Peers \union AtController)
      BY <1>4, <3>3, CallsAssumption DEF AttributeCall, ListCall, OpenCall
    <3> QED BY <3>1, <3>2, <3>3
  <2> QED BY <1>1, <1>3, <1>4, <2>1, Zenon DEF OutcomeOf
<1>5. CASE ~(c.kind = "get" /\ c.type \notin {"identities", "services"} /\ c.target.name # <<>>)
  BY <1>1, <1>2, <1>5, Zenon DEF OutcomeOf
<1> QED BY <1>4, <1>5

\* Where ListTags is once it has gone on with what it has found.
LEMMA NextInstanceStep ==
  ASSUME Shape, NEW u \in Users, pc[u] = "waiting",
         listing[u] \in [id : Ids, max : Ids, found : Found, done : BOOLEAN],
         NEW max \in Ids, NEW found \in Found, NextInstance(u, max, found)
  PROVE  /\ DOMAIN listing' = Users /\ \A v \in Users : v # u => listing'[v] = listing[v]
         /\ pc' \in [Users -> {"idle", "waiting"}] /\ \A v \in Users : v # u => pc'[v] = pc[v]
         /\ DOMAIN toDevice' = Users /\ \A v \in Users : v # u => toDevice'[v] = toDevice[v]
         /\ \/ /\ listing[u].id + 1 > max /\ pc'[u] = "idle" /\ toDevice'[u] = toDevice[u]
               /\ listing'[u] = [id |-> listing[u].id, max |-> max, found |-> found, done |-> TRUE]
            \/ /\ listing[u].id + 1 <= max /\ pc'[u] = "waiting"
               /\ listing'[u] =
                    [id |-> listing[u].id + 1, max |-> max, found |-> found, done |-> FALSE]
               /\ u \in up => toDevice'[u] = ListRequest(listing[u].id + 1)
               /\ u \notin up => toDevice'[u] = toDevice[u]
<1>1. listing[u].id \in Nat /\ max \in Nat
  BY IdsType
<1>2. CASE listing[u].id + 1 > max
  <2>1. /\ listing' = [listing EXCEPT ![u].max = max, ![u].found = found, ![u].done = TRUE]
        /\ pc' = [pc EXCEPT ![u] = "idle"] /\ toDevice' = toDevice
    BY <1>2 DEF NextInstance, Return
  <2>2. listing'[u] = [id |-> listing[u].id, max |-> max, found |-> found, done |-> TRUE]
    BY <2>1 DEF Shape
  <2> QED BY <1>2, <2>1, <2>2 DEF Shape
<1>3. CASE ~(listing[u].id + 1 > max)
  <2>1. /\ listing' = [listing EXCEPT ![u] =
                         [id |-> listing[u].id + 1, max |-> max, found |-> found, done |-> FALSE]]
        /\ AskFor(u, listing[u].id + 1) /\ pc' = pc
    BY <1>3 DEF NextInstance
  <2>2. listing[u].id + 1 # 0 /\ listing[u].id + 1 <= max
    BY <1>1, <1>3
  <2>3. ListRequest(listing[u].id + 1)
          = Unconnected(EncodeRequest(NewGetSymbolAttributesRequest(listing[u].id + 1)))
    BY <2>2 DEF ListRequest
  <2>4. /\ DOMAIN toDevice' = Users
        /\ \A v \in Users : v # u => toDevice'[v] = toDevice[v]
        /\ u \in up => toDevice'[u] = ListRequest(listing[u].id + 1)
        /\ u \notin up => toDevice'[u] = toDevice[u]
    BY <2>1, <2>3 DEF AskFor, Shape
  <2> QED BY <2>1, <2>2, <2>4 DEF Shape
<1> QED BY <1>2, <1>3

\* ListTags goes on.
LEMMA ListGoesOn ==
  ASSUME Shape, NEW u \in Users, UserInv(u), Listing(u), u \in up => toDevice[u] = NoPacket,
         NEW max \in Ids, NEW found \in Found, NextInstance(u, max, found),
         Len(found) <= listing[u].id,
         \A i \in DOMAIN found : /\ found[i].id <= listing[u].id
                                 /\ <<found[i].id, found[i].symbol>> \in seen[u],
         \A i, j \in DOMAIN found : i < j => found[i].id < found[j].id,
         \A i \in DOMAIN steady[u] : steady[u][i] # NoSymbol => i <= max,
         \A id \in DOMAIN steady[u] :
           id <= listing[u].id /\ steady[u][id] # NoSymbol /\ id \notin failed'[u] =>
             \E i \in DOMAIN found : found[i] = [id |-> id, symbol |-> steady[u][id]],
         toClient' = [toClient EXCEPT ![u] = NoPacket],
         up' = up, call' = call, steady' = steady, seen' = seen, symbols' = symbols,
         result' = result,
         DOMAIN failed' = Users, failed'[u] \subseteq Ids, failed'[u] # {} => u \notin up,
         \A v \in Users : v # u => failed'[v] = failed[v]
  PROVE  Shape' /\ UserInv(u)' /\ \A v \in Users : v # u => Same(v)
<1>1. /\ listing[u] \in [id : Ids, max : Ids, found : Found, done : BOOLEAN]
      /\ pc[u] = "waiting" /\ IsList(u)
  BY DEF UserInv, Position, Listing
<1>2. /\ DOMAIN listing' = Users /\ \A v \in Users : v # u => listing'[v] = listing[v]
      /\ pc' \in [Users -> {"idle", "waiting"}] /\ \A v \in Users : v # u => pc'[v] = pc[v]
      /\ DOMAIN toDevice' = Users /\ \A v \in Users : v # u => toDevice'[v] = toDevice[v]
  BY <1>1, NextInstanceStep
<1>3. \/ /\ listing[u].id + 1 > max /\ pc'[u] = "idle" /\ toDevice'[u] = toDevice[u]
         /\ listing'[u] = [id |-> listing[u].id, max |-> max, found |-> found, done |-> TRUE]
      \/ /\ listing[u].id + 1 <= max /\ pc'[u] = "waiting"
         /\ listing'[u] = [id |-> listing[u].id + 1, max |-> max, found |-> found, done |-> FALSE]
         /\ u \in up => toDevice'[u] = ListRequest(listing[u].id + 1)
         /\ u \notin up => toDevice'[u] = toDevice[u]
  BY <1>1, NextInstanceStep
<1>4. /\ DOMAIN toClient' = Users /\ toClient'[u] = NoPacket
      /\ \A v \in Users : v # u => toClient'[v] = toClient[v]
  BY OneUser DEF Shape
<1>5. Shape'
  BY <1>2, <1>4 DEF Shape
<1>6. ASSUME NEW v \in Users, v # u PROVE Same(v)
  BY <1>2, <1>4, <1>6 DEF Same
<1>7. IsList(u)' = IsList(u) /\ (Listing(u)' <=> pc'[u] = "waiting")
  BY <1>1 DEF Listing, IsList
<1>8. Exchange(u)'
  BY <1>1, <1>2, <1>3, <1>4 DEF UserInv, Exchange, IsList
<1>9. /\ listing[u].id \in Nat /\ max \in Nat /\ MaxSymbol \in Nat /\ max <= MaxSymbol
      /\ listing[u].id \in Ids
      /\ listing[u].id + 1 <= max => listing[u].id + 1 \in Ids
  BY <1>1, IdsType DEF Ids
<1>10. Sent(u)'
  <2>1. CASE u \in up
    BY <1>3, <1>7, <1>1, <1>9, <2>1 DEF Sent
  <2>2. CASE u \notin up
    <3>1. toDevice'[u] = toDevice[u]
      BY <1>3, <2>2
    <3> QED BY <1>1, <1>7, <2>2, <3>1 DEF UserInv, Sent
  <2> QED BY <2>1, <2>2
<1>11. Answered(u)'
  BY <1>4 DEF Answered
<1>12. History(u)'
  BY <1>1, <1>7 DEF UserInv, History, Listing
<1>13. Len(found) \in Nat /\ \A i \in DOMAIN found : found[i].id \in Ids /\ found[i].id \in Nat
  <2>1. PICK R : R = [id : Ids, symbol : SymbolType]
    OBVIOUS
  <2>2. found \in Seq(R)
    BY <2>1 DEF Found
  <2>3. \A i \in DOMAIN found : found[i] \in R
    BY <2>2
  <2>4. \A i \in DOMAIN found : found[i].id \in Ids
    BY <2>1, <2>3
  <2> QED BY <2>2, <2>4, IdsType
<1>14. \A i \in DOMAIN steady[u] : i \in 1 .. MaxSymbol
  BY DEF UserInv, History
<1>15. CASE listing[u].id + 1 > max
  <2>1. /\ pc'[u] = "idle"
        /\ listing'[u] = [id |-> listing[u].id, max |-> max, found |-> found, done |-> TRUE]
    BY <1>3, <1>9, <1>15
  <2>2. Position(u)'
    BY <1>7, <1>9, <2>1 DEF Position
  <2>3. Complete(u, Ids)'
    <3>1. \A id \in DOMAIN steady[u] : steady[u][id] # NoSymbol => id <= listing[u].id
      BY <1>9, <1>14, <1>15
    <3> QED BY <2>1, <3>1 DEF Complete
  <2>4. Collected(u)'
    BY <1>7, <2>1, <2>3 DEF Collected
  <2> QED BY <1>5, <1>6, <1>8, <1>10, <1>11, <1>12, <2>2, <2>4 DEF UserInv
<1>16. CASE listing[u].id + 1 <= max
  <2>1. /\ pc'[u] = "waiting"
        /\ listing'[u] = [id |-> listing[u].id + 1, max |-> max, found |-> found, done |-> FALSE]
    BY <1>3, <1>9, <1>16
  <2>2. PICK l : l = listing'[u]
    OBVIOUS
  <2>3. /\ l.id = listing[u].id + 1 /\ l.max = max /\ l.found = found /\ l.done = FALSE
        /\ l \in [id : Ids, max : Ids, found : Found, done : BOOLEAN]
    BY <1>9, <1>16, <2>1, <2>2
  <2>4. /\ Len(found) <= l.id /\ Len(found) < l.id /\ l.id # 0 /\ l.id <= l.max
        /\ \A i \in DOMAIN found : found[i].id < l.id
    <3>1. \A i \in DOMAIN found : found[i].id <= listing[u].id
      OBVIOUS
    <3>2. \A i \in DOMAIN found : found[i].id < l.id
      BY <1>9, <1>13, <2>3, <3>1
    <3> QED BY <1>9, <1>13, <1>16, <2>3, <3>2
  <2>5. Position(u)'
    BY <2>1, <2>2, <2>3, <2>4 DEF Position
  <2>6. Complete(u, 0 .. listing[u].id - 1)'
    <3>1. \A id \in DOMAIN steady[u] : id \in 0 .. l.id - 1 => id <= listing[u].id
      BY <1>9, <1>14, <2>3
    <3> QED BY <2>2, <2>3, <3>1 DEF Complete
  <2>7. Collected(u)'
    BY <2>1, <2>2, <2>3, <2>6 DEF Collected
  <2> QED BY <1>5, <1>6, <1>8, <1>10, <1>11, <1>12, <2>5, <2>7 DEF UserInv
<1> QED BY <1>9, <1>15, <1>16

\* What ListTags has of its response: none, or the answer to where it is.
Answers(u, resp) ==
  \/ resp = NoResponse /\ u \notin up
  \/ /\ u \in up => toDevice[u] = NoPacket
     /\ Listing(u) => IF listing[u].id = 0 THEN ClassAnswer(u, resp)
                                           ELSE InstanceAnswer(u, listing[u].id, resp)

\* The list of a user that is at an instance, with one more symbol.
OneMore(found, id, s, more) ==
  /\ more \in Found /\ Len(more) = Len(found) + 1 /\ Len(found) \in Nat
  /\ DOMAIN more = 1 .. Len(more) /\ DOMAIN found = 1 .. Len(found)
  /\ more[Len(more)] = [id |-> id, symbol |-> s]
  /\ \A i \in DOMAIN found : more[i] = found[i]
LEMMA FoundMore ==
  ASSUME NEW found \in Found, NEW id \in Ids, NEW s \in SymbolType,
         NEW more, more = Append(found, [id |-> id, symbol |-> s])
  PROVE  OneMore(found, id, s, more)
<1>1. PICK R : R = [id : Ids, symbol : SymbolType]
  OBVIOUS
<1>2. PICK x : x = [id |-> id, symbol |-> s]
  OBVIOUS
<1>3. x \in R
  BY <1>1, <1>2
<1>4. found \in Seq(R) /\ more = Append(found, x)
  BY <1>1, <1>2 DEF Found
<1>5. /\ more \in Seq(R) /\ Len(more) = Len(found) + 1 /\ Len(found) \in Nat
      /\ DOMAIN more = 1 .. Len(more) /\ DOMAIN found = 1 .. Len(found)
      /\ more[Len(more)] = x
      /\ \A i \in DOMAIN found : more[i] = found[i]
  BY <1>3, <1>4
<1> QED BY <1>1, <1>2, <1>5 DEF Found, OneMore

\* The answer about the class comes.
LEMMA ListClassStep ==
  ASSUME Shape, NEW u \in Users, UserInv(u), Listing(u), NEW resp, Answers(u, resp),
         ListClass(u, resp), toClient' = [toClient EXCEPT ![u] = NoPacket],
         up' = up, call' = call, steady' = steady, seen' = seen, symbols' = symbols
  PROVE  Shape' /\ UserInv(u)' /\ \A v \in Users : v # u => Same(v)
<1>1. PICK class : class = DecodeSymbolClassAttributesResponse(resp.data)
  OBVIOUS
<1>2. /\ listing[u].id = 0 /\ failed' = failed
      /\ \/ /\ Succeeds(resp) /\ class.ok
            /\ NextInstance(u, class.max, <<>>) /\ result' = result
         \/ /\ result' = [result EXCEPT ![u] = Failed]
            /\ pc' = [pc EXCEPT ![u] = "idle"] /\ toDevice' = toDevice /\ listing' = listing
  BY <1>1 DEF ListClass, Return
<1>3. /\ listing[u] \in [id : Ids, max : Ids, found : Found, done : BOOLEAN]
      /\ failed[u] = {} /\ pc[u] = "waiting" /\ ~listing[u].done
      /\ DOMAIN steady[u] \subseteq 1 .. MaxSymbol
      /\ u \in up => toDevice[u] = NoPacket
  BY <1>2 DEF UserInv, Position, Listing, History, Answers
<1>4. CASE Succeeds(resp) /\ class.ok /\ NextInstance(u, class.max, <<>>) /\ result' = result
  <2>1. PICK max \in Ids : /\ resp = [ok |-> TRUE, status |-> 0, data |-> ClassAttributes(max)]
                           /\ \A i \in DOMAIN steady[u] : steady[u][i] # NoSymbol => i <= max
    BY <1>2, <1>4 DEF Answers, ClassAnswer, Succeeds, NoResponse
  <2>2. Is16(max)
    BY IdsType
  <2>3. class = [ok |-> TRUE, max |-> max]
    BY <1>1, <2>1, <2>2, ClassIsDecoded
  <2>4. PICK found : found = <<>>
    OBVIOUS
  <2>5. /\ found \in Found /\ Len(found) = 0 /\ DOMAIN found = {}
    BY <2>4 DEF Found
  <2>6. NextInstance(u, max, found)
    BY <1>4, <2>3, <2>4
  <2>7. Len(found) <= listing[u].id
    BY <1>2, <2>5
  <2>8. \A id \in DOMAIN steady[u] : ~(id <= listing[u].id)
    BY <1>2, <1>3, IdsType
  <2>9. /\ DOMAIN failed' = Users /\ failed'[u] \subseteq Ids
        /\ failed'[u] # {} => u \notin up
        /\ \A v \in Users : v # u => failed'[v] = failed[v]
    BY <1>2, <1>3 DEF Shape
  <2> QED BY <1>3, <1>4, <2>1, <2>5, <2>6, <2>7, <2>8, <2>9, ListGoesOn
<1>5. CASE /\ result' = [result EXCEPT ![u] = Failed]
           /\ pc' = [pc EXCEPT ![u] = "idle"] /\ toDevice' = toDevice /\ listing' = listing
  <2>1. /\ pc' \in [Users -> {"idle", "waiting"}] /\ pc'[u] = "idle"
        /\ \A v \in Users : v # u => pc'[v] = pc[v]
    BY <1>5 DEF Shape
  <2>2. /\ DOMAIN toClient' = Users /\ toClient'[u] = NoPacket
        /\ \A v \in Users : v # u => toClient'[v] = toClient[v]
    BY OneUser DEF Shape
  <2>3. /\ DOMAIN result' = Users /\ result'[u].ok = FALSE
        /\ \A v \in Users : v # u => result'[v] = result[v]
    BY <1>5 DEF Shape, Failed
  <2>4. Shape'
    BY <1>2, <1>5, <2>1, <2>2, <2>3 DEF Shape
  <2>5. ASSUME NEW v \in Users, v # u PROVE Same(v)
    BY <1>2, <1>5, <2>1, <2>2, <2>3, <2>5 DEF Same
  <2>6. ~Listing(u)' /\ IsList(u)' = IsList(u)
    BY <2>1 DEF Listing, IsList
  <2>7. Exchange(u)'
    BY <1>3, <1>5, <2>1, <2>2, <2>3 DEF UserInv, Exchange
  <2>8. Sent(u)' /\ Answered(u)'
    BY <1>5, <2>2, <2>6 DEF UserInv, Sent, Answered
  <2>9. History(u)'
    BY <1>2, <2>6 DEF UserInv, History
  <2>10. Position(u)'
    BY <1>5, <2>1, <2>6 DEF UserInv, Position
  <2>11. Collected(u)'
    BY <1>2, <1>3, <1>5, <2>6 DEF UserInv, Collected
  <2> QED BY <2>4, <2>5, <2>7, <2>8, <2>9, <2>10, <2>11 DEF UserInv
<1> QED BY <1>2, <1>4, <1>5

\* The answer about an instance comes, or none.
LEMMA ListInstanceStep ==
  ASSUME Shape, NEW u \in Users, UserInv(u), Listing(u), NEW resp, Answers(u, resp),
         ListInstance(u, resp), toClient' = [toClient EXCEPT ![u] = NoPacket],
         up' = up, call' = call, steady' = steady, seen' = seen, symbols' = symbols
  PROVE  Shape' /\ UserInv(u)' /\ \A v \in Users : v # u => Same(v)
<1>1. PICK id : id = listing[u].id
  OBVIOUS
<1>2. PICK decoded : decoded = DecodeSymbolAttributesResponse(resp.data)
  OBVIOUS
<1> DEFINE has == Succeeds(resp) /\ decoded.ok /\ decoded.symbol.name # <<>>
<1> HIDE DEF has
<1>4. PICK found : found = listing[u].found
  OBVIOUS
<1>5. PICK max : max = listing[u].max
  OBVIOUS
<1>6. /\ id # 0 /\ result' = result
      /\ NextInstance(u, max, IF has THEN Append(found, [id |-> id, symbol |-> decoded.symbol])
                                     ELSE found)
      /\ failed' = IF has \/ (resp.ok /\ resp.status \in {5, 22})
                     THEN failed ELSE [failed EXCEPT ![u] = @ \union {id}]
  BY <1>1, <1>2, <1>4, <1>5, Zenon DEF ListInstance, has
<1>7. /\ listing[u] \in [id : Ids, max : Ids, found : Found, done : BOOLEAN]
      /\ pc[u] = "waiting" /\ id \in Ids /\ max \in Ids /\ found \in Found
      /\ DOMAIN steady[u] \subseteq 1 .. MaxSymbol /\ failed[u] \subseteq Ids
      /\ u \in up => toDevice[u] = NoPacket
      /\ failed[u] # {} => u \notin up
  BY <1>1, <1>4, <1>5 DEF UserInv, Position, Listing, History, Answers, Collected
<1>8. /\ Len(found) < id
      /\ \A i \in DOMAIN found : found[i].id < id
      /\ \A i \in DOMAIN steady[u] : steady[u][i] # NoSymbol => i <= max
      /\ \A i, j \in DOMAIN found : i < j => found[i].id < found[j].id
      /\ \A i \in DOMAIN found : <<found[i].id, found[i].symbol>> \in seen[u]
      /\ Complete(u, 0 .. id - 1)
  BY <1>1, <1>4, <1>5, <1>6 DEF UserInv, Position, Collected
<1>9. id \in Nat /\ MaxSymbol \in Nat
  BY <1>7, IdsType
<1>10. Len(found) \in Nat /\ \A i \in DOMAIN found : found[i].id \in Nat
  <2>1. PICK R : R = [id : Ids, symbol : SymbolType]
    OBVIOUS
  <2>2. found \in Seq(R)
    BY <1>7, <2>1 DEF Found
  <2>3. \A i \in DOMAIN found : found[i] \in R
    BY <2>2
  <2>4. \A i \in DOMAIN found : found[i].id \in Ids
    BY <2>1, <2>3
  <2> QED BY <2>2, <2>4, IdsType
<1>11. \A k \in DOMAIN steady[u] : k <= id /\ k # id => k \in 0 .. id - 1
  BY <1>7, <1>9
<1>12. ASSUME NEW k \in DOMAIN steady[u], k <= id, k # id, steady[u][k] # NoSymbol,
              k \notin failed[u]
       PROVE  \E i \in DOMAIN found : found[i] = [id |-> k, symbol |-> steady[u][k]]
  BY <1>4, <1>8, <1>11, <1>12 DEF Complete
<1>13. CASE has
  <2>1. PICK s \in SymbolType :
          /\ <<id, s>> \in seen[u] /\ (id \in DOMAIN steady[u] => steady[u][id] = s)
          /\ resp = [ok |-> TRUE, status |-> 0, data |-> SymbolAttributes(s)]
    <3>1. resp.ok /\ resp.status = 0
      BY <1>13 DEF has, Succeeds
    <3>2. resp # NoResponse
      BY <3>1 DEF NoResponse
    <3>3. InstanceAnswer(u, id, resp)
      BY <1>1, <1>6, <3>2 DEF Answers
    <3>4. \E s \in {x[2] : x \in seen[u]} \intersect SymbolType :
            /\ <<id, s>> \in seen[u] /\ (id \in DOMAIN steady[u] => steady[u][id] = s)
            /\ resp = [ok |-> TRUE, status |-> 0, data |-> SymbolAttributes(s)]
      <4>1. resp # [ok |-> TRUE, status |-> 22, data |-> <<>>]
        BY <3>1
      <4> QED BY <3>3, <4>1, Zenon DEF InstanceAnswer
    <3> QED BY <3>4
  <2>2. decoded.symbol = s
    BY <1>2, <2>1, SymbolFits
  <2>3. PICK more : more = Append(found, [id |-> id, symbol |-> s])
    OBVIOUS
  <2>4. /\ more \in Found /\ Len(more) = Len(found) + 1
        /\ DOMAIN more = 1 .. Len(more) /\ DOMAIN found = 1 .. Len(found)
        /\ more[Len(more)] = [id |-> id, symbol |-> s]
        /\ \A i \in DOMAIN found : more[i] = found[i]
    <3>1. OneMore(found, id, s, more)
      BY <1>7, <2>1, <2>3, FoundMore
    <3> QED BY <3>1 DEF OneMore
  <2>5. NextInstance(u, max, more) /\ failed' = failed
    BY <1>6, <1>13, <2>2, <2>3
  <2>6. \A i \in DOMAIN more : i = Len(more) \/ i \in DOMAIN found
    BY <1>10, <2>4
  <2>7. Len(more) <= id /\ Len(more) \in DOMAIN more
    BY <1>8, <1>9, <1>10, <2>4
  <2>8. \A i \in DOMAIN more : more[i].id <= id /\ <<more[i].id, more[i].symbol>> \in seen[u]
    <3>1. ASSUME NEW i \in DOMAIN found
          PROVE  more[i].id <= id /\ <<more[i].id, more[i].symbol>> \in seen[u]
      BY <1>8, <1>9, <1>10, <2>4, <3>1
    <3>2. more[Len(more)].id <= id /\ <<more[Len(more)].id, more[Len(more)].symbol>> \in seen[u]
      BY <1>9, <2>1, <2>4
    <3> QED BY <2>6, <3>1, <3>2
  <2>9. \A i, j \in DOMAIN more : i < j => more[i].id < more[j].id
    <3>1. ASSUME NEW i \in DOMAIN more, NEW j \in DOMAIN more, i < j
          PROVE  more[i].id < more[j].id
      <4>1. i \in DOMAIN found
        BY <1>10, <2>4, <2>6, <3>1
      <4>2. CASE j \in DOMAIN found
        BY <1>8, <2>4, <3>1, <4>1, <4>2
      <4>3. CASE j = Len(more)
        BY <1>8, <2>4, <4>1, <4>3
      <4> QED BY <2>6, <4>2, <4>3
    <3> QED BY <3>1
  <2>10. ASSUME NEW k \in DOMAIN steady[u], k <= id, steady[u][k] # NoSymbol, k \notin failed'[u]
         PROVE  \E i \in DOMAIN more : more[i] = [id |-> k, symbol |-> steady[u][k]]
    <3>1. CASE k = id
      BY <2>1, <2>4, <2>7, <2>10, <3>1
    <3>2. CASE k # id
      <4>1. PICK i \in DOMAIN found : found[i] = [id |-> k, symbol |-> steady[u][k]]
        BY <1>12, <2>5, <2>10, <3>2
      <4> QED BY <1>10, <2>4, <4>1
    <3> QED BY <3>1, <3>2
  <2>11. /\ DOMAIN failed' = Users /\ failed'[u] \subseteq Ids
         /\ failed'[u] # {} => u \notin up
         /\ \A v \in Users : v # u => failed'[v] = failed[v]
    BY <1>7, <2>5 DEF Shape
  <2> QED BY <1>1, <1>6, <1>7, <1>8, <2>4, <2>5, <2>7, <2>8, <2>9, <2>10, <2>11, ListGoesOn
<1>14. CASE ~has
  <2>1. NextInstance(u, max, found)
    BY <1>6, <1>14
  <2>2. \/ failed' = failed /\ (id \in DOMAIN steady[u] => steady[u][id] = NoSymbol)
        \/ failed' = [failed EXCEPT ![u] = @ \union {id}] /\ u \notin up
    <3>1. CASE resp = NoResponse /\ u \notin up
      BY <1>6, <1>14, <3>1 DEF NoResponse
    <3>2. CASE InstanceAnswer(u, id, resp)
      <4>1. CASE \E s \in {x[2] : x \in seen[u]} \intersect SymbolType :
                   resp = [ok |-> TRUE, status |-> 0, data |-> SymbolAttributes(s)]
        <5>1. PICK s \in SymbolType :
                resp = [ok |-> TRUE, status |-> 0, data |-> SymbolAttributes(s)]
          BY <4>1
        <5>2. decoded = [ok |-> TRUE, symbol |-> s] /\ s.name # <<>>
          BY <1>2, <5>1, SymbolFits
        <5>3. has
          BY <5>1, <5>2 DEF Succeeds, has
        <5> QED BY <1>14, <5>3
      <4>2. CASE /\ id \in DOMAIN steady[u] => steady[u][id] = NoSymbol
                 /\ resp = [ok |-> TRUE, status |-> 22, data |-> <<>>]
        BY <1>6, <4>2
      <4> QED BY <3>2, <4>1, <4>2 DEF InstanceAnswer
    <3> QED BY <1>1, <1>6, <3>1, <3>2 DEF Answers
  <2>3. /\ DOMAIN failed' = Users /\ failed'[u] \subseteq Ids
        /\ failed'[u] # {} => u \notin up
        /\ \A v \in Users : v # u => failed'[v] = failed[v]
        /\ failed[u] \subseteq failed'[u]
        /\ id \in failed'[u] \/ (id \in DOMAIN steady[u] => steady[u][id] = NoSymbol)
    BY <1>7, <2>2 DEF Shape
  <2>4. /\ Len(found) <= id
        /\ \A i \in DOMAIN found : found[i].id <= id /\ <<found[i].id, found[i].symbol>> \in seen[u]
    BY <1>8, <1>9, <1>10
  <2>5. ASSUME NEW k \in DOMAIN steady[u], k <= id, steady[u][k] # NoSymbol, k \notin failed'[u]
        PROVE  \E i \in DOMAIN found : found[i] = [id |-> k, symbol |-> steady[u][k]]
    BY <1>12, <2>3, <2>5
  <2>6. \A i, j \in DOMAIN found : i < j => found[i].id < found[j].id
    BY <1>8
  <2>7. \A i \in DOMAIN steady[u] : steady[u][i] # NoSymbol => i <= max
    BY <1>8
  <2>8. result' = result
    BY <1>6
  <2> QED BY <1>1, <1>7, <2>1, <2>3, <2>4, <2>5, <2>6, <2>7, <2>8, ListGoesOn
<1> QED BY <1>13, <1>14

\* A call that is not ListTags returns.
LEMMA ReturnStep ==
  ASSUME Shape, NEW u \in Users, UserInv(u), pc[u] = "waiting", ~IsList(u),
         NEW resp, Answers(u, resp),
         result' = [result EXCEPT ![u] = OutcomeOf(call[u], resp)], Return(u),
         listing' = listing, failed' = failed, toClient' = [toClient EXCEPT ![u] = NoPacket],
         up' = up, call' = call, steady' = steady, seen' = seen, symbols' = symbols
  PROVE  Shape' /\ UserInv(u)' /\ \A v \in Users : v # u => Same(v)
<1>1. /\ pc' \in [Users -> {"idle", "waiting"}] /\ pc'[u] = "idle" /\ toDevice' = toDevice
      /\ \A v \in Users : v # u => pc'[v] = pc[v]
  BY DEF Shape, Return
<1>2. /\ DOMAIN toClient' = Users /\ toClient'[u] = NoPacket
      /\ \A v \in Users : v # u => toClient'[v] = toClient[v]
  BY OneUser DEF Shape
<1>3. /\ DOMAIN result' = Users /\ result'[u] = OutcomeOf(call[u], resp)
      /\ \A v \in Users : v # u => result'[v] = result[v]
  BY DEF Shape
<1>4. u \in up => toDevice[u] = NoPacket
  BY DEF Answers
<1>5. Shape'
  BY <1>1, <1>2, <1>3 DEF Shape
<1>6. ASSUME NEW v \in Users, v # u PROVE Same(v)
  BY <1>1, <1>2, <1>3, <1>6 DEF Same
<1>7. ~Listing(u)' /\ IsList(u)' = IsList(u)
  BY <1>1 DEF Listing, IsList
<1>8. call[u] \in CallsOf[u]
  BY DEF UserInv, Exchange
<1>9. result'[u].ok \in BOOLEAN
  BY <1>3, <1>8, OutcomeType
<1>10. Exchange(u)'
  BY <1>1, <1>2, <1>4, <1>9 DEF UserInv, Exchange
<1>11. Sent(u)' /\ Answered(u)'
  BY <1>1, <1>2, <1>7 DEF UserInv, Sent, Answered
<1>12. History(u)'
  BY <1>7 DEF UserInv, History
<1>13. Position(u)'
  BY <1>1, <1>7 DEF UserInv, Position
<1>14. Collected(u)'
  BY <1>7 DEF UserInv, Collected, Complete
<1> QED BY <1>5, <1>6, <1>10, <1>11, <1>12, <1>13, <1>14 DEF UserInv

\* A call goes on, with what has come or because the connection is gone.
LEMMA ProceedStep ==
  ASSUME Inv, NEW u \in Users, Receive(u) \/ ExchangeFails(u)
  PROVE  symbols' = symbols /\ Shape' /\ UserInv(u)' /\ \A v \in Users : v # u => Same(v)
<1>1. Shape /\ UserInv(u)
  BY DEF Inv
<1>2. PICK resp : Answers(u, resp) /\ Proceed(u, resp)
  <2>1. CASE Receive(u)
    <3>1. toClient[u] # NoPacket /\ Proceed(u, Response(u, toClient[u]))
      BY <2>1 DEF Receive
    <3>2. u \in up => toDevice[u] = NoPacket
      BY <1>1, <3>1 DEF UserInv, Exchange
    <3>3. Answers(u, Response(u, toClient[u]))
      BY <1>1, <3>1, <3>2 DEF UserInv, Answered, Answers
    <3> QED BY <3>1, <3>3
  <2>2. CASE ExchangeFails(u)
    BY <2>2 DEF ExchangeFails, Answers
  <2> QED BY <2>1, <2>2
<1>3. /\ pc[u] = "waiting" /\ toClient' = [toClient EXCEPT ![u] = NoPacket]
      /\ symbols' = symbols /\ up' = up /\ call' = call /\ steady' = steady /\ seen' = seen
  BY <1>2 DEF Proceed, deviceVars
<1>4. CASE IsList(u)
  <2>1. Listing(u) /\ (ListClass(u, resp) \/ ListInstance(u, resp))
    BY <1>2, <1>3, <1>4 DEF Proceed, Listing
  <2>2. CASE ListClass(u, resp)
    BY <1>1, <1>2, <1>3, <2>1, <2>2, ListClassStep
  <2>3. CASE ListInstance(u, resp)
    BY <1>1, <1>2, <1>3, <2>1, <2>3, ListInstanceStep
  <2> QED BY <1>3, <2>1, <2>2, <2>3
<1>5. CASE ~IsList(u)
  <2>1. /\ result' = [result EXCEPT ![u] = OutcomeOf(call[u], resp)]
        /\ Return(u) /\ listing' = listing /\ failed' = failed
    BY <1>2, <1>5 DEF Proceed
  <2> QED BY <1>1, <1>2, <1>3, <1>5, <2>1, ReturnStep
<1> QED BY <1>4, <1>5

-----------------------------------------------------------------------------
(* The invariant holds, and with it the list is right.                     *)

\* At the start everyone is idle and nothing is sent.
LEMMA InitInv == Init => Inv
<1> SUFFICES ASSUME Init PROVE Inv
  OBVIOUS
<1>1. MaxSymbol \in Nat /\ 0 \in Ids
  BY IdsType DEF Ids
<1>2. symbols \in [1 .. MaxSymbol -> Symbols \union {NoSymbol} \union ToSet(SymbolTable)]
  <2>1. PICK R : SymbolTable \in Seq(R)
    BY DataAssumption
  <2>2. PICK T : T = ToSet(SymbolTable)
    OBVIOUS
  <2>3. \A i \in DOMAIN SymbolTable : SymbolTable[i] \in T
    BY <2>2 DEF ToSet
  <2>4. SymbolTable \in [1 .. MaxSymbol -> T]
    BY <2>1, <2>3 DEF MaxSymbol
  <2>5. SymbolTable \in [1 .. MaxSymbol -> Symbols \union {NoSymbol} \union T]
    BY <2>4
  <2> QED BY <2>2, <2>5 DEF Init
<1>3. up \subseteq Users
  BY UsersAssumption DEF Init
<1>4. Shape
  BY <1>2, <1>3 DEF Shape, Init
<1>5. ASSUME NEW u \in Users PROVE UserInv(u)
  <2>1. /\ pc[u] = "idle" /\ call[u] = NoCall /\ toDevice[u] = NoPacket /\ toClient[u] = NoPacket
        /\ result[u] = NoOutcome /\ listing[u] = Begun /\ steady[u] = <<>> /\ seen[u] = {}
        /\ failed[u] = {}
    BY DEF Init
  <2>2. ~Listing(u)
    BY <2>1 DEF Listing
  <2>3. /\ Begun.done = FALSE /\ Begun.found = <<>> /\ Begun.id = 0
        /\ Begun \in [id : Ids, max : Ids, found : Found, done : BOOLEAN] /\ Len(<<>>) <= 0
        /\ DOMAIN <<>> = {}
    BY <1>1 DEF Begun, Found
  <2>4. Exchange(u)
    BY <2>1 DEF Exchange, NoOutcome
  <2>5. Sent(u) /\ Answered(u)
    BY <2>1 DEF Sent, Answered
  <2>6. History(u)
    BY <2>1, <2>2, <2>3 DEF History
  <2>7. Position(u)
    BY <2>1, <2>2, <2>3 DEF Position
  <2>8. Collected(u)
    BY <2>1, <2>2, <2>3 DEF Collected
  <2> QED BY <2>4, <2>5, <2>6, <2>7, <2>8 DEF UserInv
<1> QED BY <1>4, <1>5 DEF Inv

\* Every step preserves the invariant.
LEMMA NextInv == Inv /\ [Next]_vars => Inv'
<1> SUFFICES ASSUME Inv, [Next]_vars PROVE Inv'
  OBVIOUS
<1> DEFINE Step(u) == /\ symbols' = symbols /\ Shape' /\ UserInv(u)'
                      /\ \A v \in Users : v # u => Same(v)
<1>1. Shape /\ \A u \in Users : UserInv(u)
  BY DEF Inv
<1>2. ASSUME NEW u \in Users, Step(u) PROVE Inv'
  <2>1. ASSUME NEW v \in Users PROVE UserInv(v)'
    BY <1>1, <1>2, Others
  <2> QED BY <1>2, <2>1 DEF Inv
<1>3. ASSUME /\ toDevice' = toDevice /\ toClient' = toClient /\ result' = result
             /\ listing' = listing /\ steady' = steady /\ seen' = seen /\ failed' = failed
             /\ pc' = pc /\ call' = call /\ up' = up /\ symbols' = symbols
      PROVE  Inv'
  <2>1. Shape'
    BY <1>1, <1>3 DEF Shape
  <2>2. ASSUME NEW v \in Users PROVE UserInv(v)'
    BY <1>1, <1>3, Others DEF Same
  <2> QED BY <2>1, <2>2 DEF Inv
<1>4. ASSUME NEW u \in Users, Serves(u) PROVE Inv'
  BY <1>2, <1>4, ServesStep
<1>5. ASSUME NEW u \in Users, Receive(u) \/ ExchangeFails(u) PROVE Inv'
  BY <1>2, <1>5, ProceedStep
<1>6. ASSUME NEW u \in Users, Disconnect(u) PROVE Inv'
  BY <1>2, <1>6, DisconnectStep
<1>7. ASSUME NEW u \in Users, NEW c \in CallsOf[u], Begin(u, c) PROVE Inv'
  BY <1>2, <1>7, BeginStep
<1>8. ASSUME NEW i \in Assemblies, NEW data \in Contents, RegisterAssembly(i, data) PROVE Inv'
  BY <1>3, <1>8 DEF RegisterAssembly, wireVars, clientVars, listVars
<1>9. ASSUME NEW n, PlcSets(n) PROVE Inv'
  BY <1>3, <1>9 DEF PlcSets, wireVars, clientVars, listVars
<1>10. ASSUME NEW i \in 1 .. MaxSymbol, EditSymbol(i) PROVE Inv'
  BY <1>10, EditStep
<1>11. CASE UNCHANGED vars
  BY <1>3, <1>11 DEF vars, deviceVars, wireVars, clientVars, listVars
<1> QED BY <1>4, <1>5, <1>6, <1>7, <1>8, <1>9, <1>10, <1>11 DEF Next

\* The invariant holds.
THEOREM Invariance == Spec => []Inv
<1> QED BY InitInv, NextInv, PTL DEF Spec

\* The list is right.
THEOREM ListsAreRight == Spec => []ListIsRight
<1>1. Inv => ListIsRight
  <2> SUFFICES ASSUME Inv, NEW u \in Users, listing[u].done
               PROVE  /\ \A i, j \in DOMAIN listing[u].found :
                           i < j => listing[u].found[i].id < listing[u].found[j].id
                      /\ \A i \in DOMAIN listing[u].found :
                           <<listing[u].found[i].id, listing[u].found[i].symbol>> \in seen[u]
                      /\ \A id \in DOMAIN steady[u] :
                           steady[u][id] # NoSymbol /\ id \notin failed[u] =>
                             \E i \in DOMAIN listing[u].found :
                               listing[u].found[i] = [id |-> id, symbol |-> steady[u][id]]
                      /\ failed[u] # {} => u \notin up
    BY DEF ListIsRight
  <2>1. Collected(u) /\ History(u)
    BY DEF Inv, UserInv
  <2>2. \A id \in DOMAIN steady[u] : id \in Ids
    BY <2>1, IdsType DEF History, Ids
  <2> QED BY <2>1, <2>2 DEF Collected, Complete
<1> QED BY <1>1, Invariance, PTL

-----------------------------------------------------------------------------
(* What the devices have keeps its type: bytes from any request, a tag     *)
(* only from a write of its own type.                                      *)

\* What the devices have.
Stored(store) == DOMAIN store \subseteq Assemblies /\ \A i \in DOMAIN store : store[i] \in Bytes
Held(n, tag)  == tag \in TagType /\ tag.type = Tags[n].type /\ InType(tag.type, tag.val)
Devices ==
  /\ Stored(assemblies) /\ opened \in Seq(Nat)
  /\ DOMAIN memory = DOMAIN Tags /\ \A n \in DOMAIN Tags : Held(n, memory[n])
  /\ edits \in 0 .. MaxEdits

\* The adapter's objects keep bytes and numbers.
LEMMA DispatchKeeps ==
  ASSUME Stored(assemblies), opened \in Seq(Nat), NEW request, request.data \in Bytes
  PROVE  Stored(Dispatch(request).after.assemblies) /\ Dispatch(request).after.opened \in Seq(Nat)
<1>1. PICK service : service = request.service
  OBVIOUS
<1>2. PICK data \in Bytes : data = request.data
  OBVIOUS
<1>3. ASSUME NEW path
      PROVE  /\ Stored(HandleAssembly(service, path, data).assemblies)
             /\ HandleAssembly(service, path, data).opened = opened
  <2>1. PICK id : id = ParseSegment(path, 36).id
    OBVIOUS
  <2>2. PICK after : after = HandleAssembly(service, path, data)
    OBVIOUS
  <2>3. /\ after.assemblies = assemblies \/ after.assemblies = [assemblies EXCEPT ![id] = data]
        /\ after.opened = opened
    BY <2>1, <2>2, Zenon DEF HandleAssembly
  <2>4. Stored([assemblies EXCEPT ![id] = data])
    BY <1>2 DEF Stored
  <2> QED BY <2>2, <2>3, <2>4
<1>4. /\ HandleConnMgr(service, data).assemblies = assemblies
      /\ HandleConnMgr(service, data).opened \in Seq(Nat)
  <2>1. HandleConnMgr(service, data).opened
          = IF service = 84 /\ Len(data) > 36
              THEN Append(opened, U32(SubSeq(data, 3, 6))) ELSE opened
    BY DEF HandleConnMgr
  <2>2. ASSUME Len(data) > 36 PROVE U32(SubSeq(data, 3, 6)) \in Nat
    <3>1. SubSeq(data, 3, 6) \in Bytes /\ Len(SubSeq(data, 3, 6)) >= 4
      BY <2>2, BytesSub
    <3> QED BY <3>1, WideNumber
  <2>3. PICK id : id = U32(SubSeq(data, 3, 6))
    OBVIOUS
  <2>4. HandleConnMgr(service, data).opened \in Seq(Nat)
    BY <2>1, <2>2, <2>3
  <2> QED BY <2>4 DEF HandleConnMgr
<1>5. PICK class : class = ParseSegment(request.path, 32)
  OBVIOUS
<1>6. PICK after : after = Dispatch(request).after
  OBVIOUS
<1>7. \/ after.assemblies = assemblies /\ after.opened = opened
      \/ after = HandleAssembly(service, class.rest, data)
      \/ after = HandleConnMgr(service, data)
  <2>1. Dispatch(request).after =
          LET Unchanged(status) == [status |-> status, data |-> <<>>,
                                    assemblies |-> assemblies, opened |-> opened]
          IN  IF ParseSegment(request.path, 32).ok
                THEN CASE ParseSegment(request.path, 32).id = 4 ->
                            HandleAssembly(request.service, ParseSegment(request.path, 32).rest,
                                           request.data)
                       [] ParseSegment(request.path, 32).id = 6 ->
                            HandleConnMgr(request.service, request.data)
                       [] OTHER -> Unchanged(22)
                ELSE Unchanged(0)
    BY DEF Dispatch
  <2>2. CASE ~class.ok
    BY <1>5, <1>6, <2>1, <2>2
  <2>3. CASE class.ok /\ class.id = 4
    BY <1>1, <1>2, <1>5, <1>6, <2>1, <2>3
  <2>4. CASE class.ok /\ class.id = 6
    BY <1>1, <1>2, <1>5, <1>6, <2>1, <2>4
  <2>5. CASE class.ok /\ class.id # 4 /\ class.id # 6
    BY <1>5, <1>6, <2>1, <2>5
  <2> QED BY <2>2, <2>3, <2>4, <2>5
<1> QED BY <1>3, <1>4, <1>6, <1>7

\* What the adapter makes of any packet.
LEMMA ServedKeeps ==
  ASSUME Stored(assemblies), opened \in Seq(Nat), NEW packet, packet.data \in Bytes
  PROVE  Stored(Served(packet).assemblies) /\ Served(packet).opened \in Seq(Nat)
<1>1. ASSUME NEW type PROVE Item(packet, type).data \in Bytes
  <2>1. From(packet.data, 7) \in Bytes
    BY FromType
  <2> QED BY <2>1, FindItemType, NoBytes, Zenon DEF Item
<1>2. ASSUME NEW type PROVE From(Item(packet, type).data, 3) \in Bytes
  BY <1>1, FromType
<1>3. PICK req : req = DecodeRequest(IF packet.command = "SendUnitData"
                                       THEN From(Item(packet, 177).data, 3)
                                       ELSE Item(packet, 178).data)
  OBVIOUS
<1>4. req.ok => req.request.data \in Bytes
  BY <1>1, <1>2, <1>3, DecodeRequestType
<1>5. PICK served : served = Served(packet)
  OBVIOUS
<1>6. \/ served.assemblies = assemblies /\ served.opened = opened
      \/ /\ req.ok
         /\ served.assemblies = Dispatch(req.request).after.assemblies
         /\ served.opened = Dispatch(req.request).after.opened
  BY <1>3, <1>5, Zenon DEF Served
<1> QED BY <1>4, <1>5, <1>6, DispatchKeeps

\* A device serves a user: its data keep their types.
LEMMA ServesKeeps ==
  ASSUME Inv, Devices, NEW u \in Users, Serves(u)
  PROVE  Devices'
<1>1. Exchange(u) /\ Sent(u)
  BY DEF Inv, UserInv
<1>2. CASE AdapterServes(u)
  <2>1. /\ u \notin AtController /\ toDevice[u] # NoPacket
        /\ assemblies' = Served(toDevice[u]).assemblies /\ opened' = Served(toDevice[u]).opened
        /\ memory' = memory /\ edits' = edits
    BY <1>2 DEF AdapterServes
  <2>2. toDevice[u].data \in Bytes
    <3>1. ~IsList(u)
      BY <1>1, <2>1, AdapterPacketType DEF Exchange, IsList
    <3>2. call[u] \in CallsOf[u] /\ toDevice[u] = FirstPacket(u, call[u])
      BY <1>1, <2>1, <3>1 DEF Exchange, Sent
    <3> QED BY <2>1, <3>2, AdapterPacketType
  <2> QED BY <2>1, <2>2, ServedKeeps DEF Devices
<1>3. CASE ControllerServes(u)
  <2>1. PICK req : req = DecodeRequest(Item(toDevice[u], 178).data).request
    OBVIOUS
  <2>2. /\ u \in AtController /\ toDevice[u] # NoPacket /\ assemblies' = assemblies
        /\ opened' = opened /\ edits' = edits
    BY <1>3 DEF ControllerServes
  <2>3. memory' = IF ~(toDevice[u].command # "SendRRData") /\ Writes(req)
                    THEN [memory EXCEPT ![SymbolName(req.path)].val =
                            Unmarshal(memory[SymbolName(req.path)].type, From(req.data, 5)).val]
                    ELSE memory
    BY <1>3, <2>1, Zenon DEF ControllerServes
  <2>4. CASE toDevice[u].command = "SendRRData" /\ Writes(req)
    <3>1. req.service = 77
      BY <2>4 DEF Writes
    <3>2. ~IsList(u)
      <4>1. ASSUME IsList(u) PROVE FALSE
        <5>1. PICK id \in Ids : toDevice[u] = ListRequest(id)
          BY <1>1, <2>2, <4>1 DEF Sent
        <5> QED BY <2>1, <3>1, <5>1, ListRequestArrives
      <4> QED BY <4>1
    <3>3. PICK c \in CallsOf[u] : c = call[u] /\ ~Refused(c) /\ toDevice[u] = FirstPacket(u, c)
      BY <1>1, <2>2, <3>2 DEF Exchange, Sent
    <3>4. u \notin Peers /\ c.kind # "list"
      BY <1>1, <2>2, <3>2, <3>3, UsersAssumption DEF Sent, IsList
    <3>5. TagCall(c)
      <4>1. ASSUME ListCall(c) PROVE FALSE
        <5>1. FirstPacket(u, c).command \in {"ListIdentity", "ListServices"}
          BY <3>4, <4>1 DEF ListCall, FirstPacket, Packet
        <5> QED BY <2>4, <3>3, <5>1
      <4> QED BY <2>2, <3>3, <3>4, <4>1, CallsAssumption
    <3>6. toDevice[u] = Unconnected(EncodeRequest(RequestOf(c)))
      <4>1. c.type \notin {"identities", "services"}
        BY <3>5 DEF TagCall, TagTypes
      <4> QED BY <3>3, <3>4, <4>1 DEF FirstPacket
    <3>7. /\ SymbolName(req.path) = c.target.name /\ CanWrite(c.type) /\ c.val[1] \in Int
          /\ req.data = Le16(GoTypeToCIPType(c.type)) \o Le16(1) \o Marshal(c.type, c.val)
      <4>1. PICK packet : packet = toDevice[u]
        OBVIOUS
      <4>2. /\ SymbolName(req.path) = c.target.name
            /\ c.kind = "get" => req.service = 76
            /\ c.kind = "set" =>
                 /\ req.service = 77 /\ CanWrite(c.type) /\ c.val[1] \in Int
                 /\ req.data = Le16(GoTypeToCIPType(c.type)) \o Le16(1) \o Marshal(c.type, c.val)
            /\ c.kind = "get" \/ c.kind = "set"
        <5>1. /\ packet = Unconnected(EncodeRequest(RequestOf(c)))
              /\ req = DecodeRequest(Item(packet, 178).data).request
              /\ TagCall(c) /\ ~Refused(c)
          BY <2>1, <3>3, <3>5, <3>6, <4>1
        <5>2. TagArrived(c, packet, req)
          BY <5>1, TagRequestArrives
        <5> QED BY <5>2 DEF TagArrived
      <4> QED BY <3>1, <4>2
    <3>8. PICK name \in DOMAIN Tags : name = SymbolName(req.path)
      BY <2>4 DEF Writes, Devices
    <3>9. PICK type \in TagTypes : type = memory[name].type /\ type = Tags[name].type
      BY DEF Devices, Held, TagType
    <3>10. SubSeq(req.data, 1, 4) = Le16(TypeCode(type)) \o Le16(1)
      BY <2>4, <3>8, <3>9 DEF Writes
    <3>11. PICK val : val = Unmarshal(type, From(req.data, 5)).val
      OBVIOUS
    <3>12. val \in Seq(Int) /\ InType(type, val)
      BY <3>7, <3>10, <3>11, WriteKeepsType
    <3>13. memory' = [memory EXCEPT ![name].val = val]
      BY <2>3, <2>4, <3>8, <3>9, <3>11
    <3>14. DOMAIN memory' = DOMAIN Tags /\ \A n \in DOMAIN Tags : n # name => memory'[n] = memory[n]
      BY <3>13 DEF Devices
    <3>15. PICK tag : tag = memory'[name]
      OBVIOUS
    <3>16. tag = [memory[name] EXCEPT !.val = val]
      BY <3>13, <3>15 DEF Devices
    <3>17. memory[name] \in TagType
      BY DEF Devices, Held
    <3>18. tag \in TagType /\ tag.type = type /\ tag.val = val
      BY <3>9, <3>12, <3>16, <3>17 DEF TagType
    <3>19. Held(name, tag)
      BY <3>9, <3>12, <3>18 DEF Held
    <3> QED BY <2>2, <3>14, <3>15, <3>19 DEF Devices
  <2>5. CASE ~(toDevice[u].command = "SendRRData" /\ Writes(req))
    BY <2>2, <2>3, <2>5 DEF Devices
  <2> QED BY <2>4, <2>5
<1> QED BY <1>2, <1>3 DEF Serves

\* At the start the devices have what they are given.
LEMMA InitDevices == Init => Devices
<1> SUFFICES ASSUME Init PROVE Devices
  OBVIOUS
<1>1. Stored(assemblies)
  BY DataAssumption DEF Init, Stored
<1>2. ASSUME NEW n \in DOMAIN Tags PROVE Held(n, memory[n])
  BY DataAssumption DEF Init, Held
<1>3. opened \in Seq(Nat) /\ DOMAIN memory = DOMAIN Tags /\ edits \in 0 .. MaxEdits
  BY UsersAssumption DEF Init
<1> QED BY <1>1, <1>2, <1>3 DEF Devices

\* Every step preserves what the devices have.
LEMMA NextDevices == Inv /\ Devices /\ [Next]_vars => Devices'
<1> SUFFICES ASSUME Inv, Devices, [Next]_vars PROVE Devices'
  OBVIOUS
<1>1. ASSUME UNCHANGED deviceVars PROVE Devices'
  BY <1>1 DEF deviceVars, Devices
<1>2. ASSUME NEW u \in Users, Serves(u) PROVE Devices'
  BY <1>2, ServesKeeps
<1>3. ASSUME NEW u \in Users, NEW resp, Proceed(u, resp) PROVE Devices'
  BY <1>1, <1>3 DEF Proceed
<1>4. ASSUME NEW u \in Users, Disconnect(u) PROVE Devices'
  BY <1>1, <1>4 DEF Disconnect
<1>5. ASSUME NEW u \in Users, NEW c \in CallsOf[u], Begin(u, c) PROVE Devices'
  BY <1>1, <1>5 DEF Begin
<1>6. ASSUME NEW i \in Assemblies, NEW data \in Contents, RegisterAssembly(i, data) PROVE Devices'
  <2>1. /\ assemblies' = [j \in DOMAIN assemblies \union {i} |->
                            IF j = i THEN data ELSE assemblies[j]]
        /\ opened' = opened /\ memory' = memory /\ edits' = edits
    BY <1>6 DEF RegisterAssembly
  <2>2. data \in Bytes
    BY DataAssumption
  <2>3. Stored(assemblies')
    BY <2>1, <2>2 DEF Devices, Stored
  <2> QED BY <2>1, <2>3 DEF Devices
<1>7. ASSUME NEW n \in DOMAIN memory, PlcSets(n) PROVE Devices'
  <2>1. PICK val \in PlcValues[n] : memory' = [memory EXCEPT ![n].val = val]
    BY <1>7 DEF PlcSets
  <2>2. n \in DOMAIN Tags
    BY DEF Devices
  <2>3. val \in Seq(Int) /\ InType(Tags[n].type, val)
    BY <2>2, DataAssumption
  <2>4. DOMAIN memory' = DOMAIN Tags /\ \A m \in DOMAIN Tags : m # n => memory'[m] = memory[m]
    BY <2>1 DEF Devices
  <2>5. PICK tag : tag = memory'[n]
    OBVIOUS
  <2>6. tag = [memory[n] EXCEPT !.val = val] /\ Held(n, memory[n])
    BY <2>1, <2>2, <2>5 DEF Devices
  <2>7. tag \in TagType /\ tag.type = memory[n].type /\ tag.val = val
    BY <2>3, <2>6 DEF TagType, Held
  <2>8. Held(n, tag)
    BY <2>3, <2>6, <2>7 DEF Held
  <2>9. assemblies' = assemblies /\ opened' = opened /\ edits' = edits
    BY <1>7 DEF PlcSets
  <2> QED BY <2>4, <2>5, <2>8, <2>9 DEF Devices
<1>8. ASSUME NEW i \in 1 .. MaxSymbol, EditSymbol(i) PROVE Devices'
  <2>1. /\ edits < MaxEdits /\ edits' = edits + 1
        /\ assemblies' = assemblies /\ opened' = opened /\ memory' = memory
    BY <1>8 DEF EditSymbol
  <2>2. edits' \in 0 .. MaxEdits
    BY <2>1, UsersAssumption DEF Devices
  <2> QED BY <2>1, <2>2 DEF Devices
<1>9. CASE UNCHANGED vars
  BY <1>1, <1>9 DEF vars
<1> QED BY <1>2, <1>3, <1>4, <1>5, <1>6, <1>7, <1>8, <1>9 DEF Next, Receive, ExchangeFails

\* Every variable has its type.
THEOREM TypeCorrect == Spec => []TypeOK
<1>1. Init => Devices /\ Inv
  BY InitInv, InitDevices
<1>2. Inv /\ Devices /\ [Next]_vars => (Inv /\ Devices)'
  BY NextInv, NextDevices
<1>3. Inv /\ Devices => TypeOK
  <2> SUFFICES ASSUME Inv, Devices PROVE TypeOK
    OBVIOUS
  <2>1. /\ DOMAIN assemblies \subseteq Assemblies
        /\ \A i \in DOMAIN assemblies : assemblies[i] \in Bytes
        /\ opened \in Seq(Nat) /\ DOMAIN memory = DOMAIN Tags /\ edits \in 0 .. MaxEdits
    BY DEF Devices, Stored
  <2>2. \A n \in DOMAIN Tags : /\ memory[n].type = Tags[n].type
                               /\ InType(memory[n].type, memory[n].val)
    BY DEF Devices, Held
  <2>3. /\ symbols \in [1 .. MaxSymbol -> Symbols \union {NoSymbol} \union ToSet(SymbolTable)]
        /\ up \subseteq Users /\ pc \in [Users -> {"idle", "waiting"}]
        /\ call \in [Users -> Calls \union {NoCall}]
    BY DEF Inv, Shape
  <2>4. ASSUME NEW u \in Users
        PROVE  /\ result[u].ok \in BOOLEAN
               /\ listing[u].id \in Ids /\ listing[u].max \in Ids
               /\ Len(listing[u].found) <= listing[u].id
               /\ DOMAIN steady[u] \subseteq Ids /\ failed[u] \subseteq Ids
    <3>1. Exchange(u) /\ History(u) /\ Position(u)
      BY DEF Inv, UserInv
    <3>2. DOMAIN steady[u] \subseteq Ids
      BY <3>1, IdsType DEF History, Ids
    <3> QED BY <3>1, <3>2 DEF Exchange, History, Position
  <2> QED BY <2>1, <2>2, <2>3, <2>4, Zenon DEF TypeOK
<1> QED BY <1>1, <1>2, <1>3, PTL DEF Spec
=============================================================================
