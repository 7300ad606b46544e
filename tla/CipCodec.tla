------------------------------ MODULE CipCodec ------------------------------
(***************************************************************************)
(* What pkg/cip and pkg/eip make of numbers on the wire: paths, message    *)
(* router requests and responses, common packet format items, attribute    *)
(* lists and the Logix structures. Bytes are 0 .. 255.                     *)
(*                                                                         *)
(* A decoder returns a record whose field ok says whether it succeeded.    *)
(***************************************************************************)
EXTENDS Integers, Sequences, SequencesExt

Byte  == 0 .. 255
Bytes == Seq(Byte)

From(b, n) == SubSeq(b, n, Len(b))

\* Little endian, of a given width; negative numbers in two's complement.
Le16(n) == <<n % 256, (n \div 256) % 256>>
Le32(n) == Le16(n % 65536) \o Le16(n \div 65536)
U16(b)  == b[1] + 256 * b[2]
U32(b)  == U16(b) + 65536 * U16(From(b, 3))
I16(b)  == IF b[2] < 128 THEN U16(b) ELSE U16(b) - 65536
I32(b)  == U16(b) + 65536 * I16(From(b, 3))

-----------------------------------------------------------------------------
(* Paths.                                                                  *)

\* Variant: every id goes into one byte.
SegmentOneByte(type, id) == <<type, id % 256>>

\* A logical segment in the shortest format that holds the id.
Segment(type, id) ==
  IF id <= 255 THEN <<type, id>>
  ELSE IF id <= 65535 THEN <<type + 1, 0>> \o Le16(id)
  ELSE <<type + 2, 0>> \o Le32(id)

AddClass(p, id)      == p \o Segment(32, id)
AddInstance(p, id)   == p \o Segment(36, id)
AddInstance32(p, id) == p \o Segment(36, id)
AddAttribute(p, id)  == p \o Segment(48, id)

AddSymbolicSegment(p, symbol) ==
  p \o <<145, Len(symbol) % 256>> \o symbol \o (IF Len(symbol) % 2 = 0 THEN <<>> ELSE <<0>>)

BuildPath(class, instance, attribute) ==
  LET p == AddInstance(AddClass(<<>>, class), instance)
  IN  IF attribute = 0 THEN p ELSE AddAttribute(p, attribute)

LenWords(p) == ((Len(p) + 1) \div 2) % 256

\* A segment of a type in its 8 or 16 bit format at the head of a path.
ParseSegment(p, type) ==
  CASE Len(p) >= 2 /\ p[1] = type ->
         [ok |-> TRUE, id |-> p[2], rest |-> From(p, 3)]
    [] Len(p) >= 4 /\ p[1] = type + 1 ->
         [ok |-> TRUE, id |-> U16(From(p, 3)), rest |-> From(p, 5)]
    [] OTHER -> [ok |-> FALSE, id |-> 0, rest |-> <<>>]

-----------------------------------------------------------------------------
(* Message router requests and responses.                                  *)

Request(service, path, data) == [service |-> service, path |-> path, data |-> data]

EncodeRequest(r) == <<r.service, LenWords(r.path)>> \o r.path \o r.data

\* The server's decoder: a path that is cut short is filled up with zeros, and
\* there must be something behind the path size.
DecodeRequest(b) ==
  IF Len(b) < 3
    THEN [ok |-> FALSE]
    ELSE LET n == 2 * b[2] IN
         [ok |-> TRUE,
          request |-> Request(b[1],
                              [i \in 1 .. n |-> IF i + 2 <= Len(b) THEN b[i + 2] ELSE 0],
                              From(b, n + 3))]

EncodeResponse(service, status, ext, data) ==
  <<IF service < 128 THEN service + 128 ELSE service, 0, status, Len(ext)>>
    \o FlattenSeq([i \in DOMAIN ext |-> Le16(ext[i])]) \o data

DecodeResponse(b) ==
  IF Len(b) < 4 \/ Len(b) < 4 + 2 * b[4]
    THEN [ok |-> FALSE]
    ELSE [ok |-> TRUE, status |-> b[3], data |-> From(b, 5 + 2 * b[4])]

NewGetAttributeSingleRequest(path)       == Request(14, path, <<>>)
NewSetAttributeSingleRequest(path, data) == Request(16, path, data)
NewReadTagRequest(path, elements)        == Request(76, path, Le16(elements))
NewWriteTagRequest(path, type, elements, data) ==
  Request(77, path, Le16(type) \o Le16(elements) \o data)

-----------------------------------------------------------------------------
(* The common packet format. A length has 16 bits.                         *)

CPFItem(type, data) == [type |-> type, data |-> data]

EncodeItem(item) == Le16(item.type) \o Le16(Len(item.data)) \o item.data
EncodeItems(items) ==
  Le16(Len(items)) \o FlattenSeq([i \in DOMAIN items |-> EncodeItem(items[i])])

\* The place of the next item, behind the data of the one at p.
NextItem(b, p) == p + 4 + IF p + 3 <= Len(b) THEN U16(From(b, p + 2)) ELSE 0

\* Where each item begins, and the end.
ItemsAt(b) ==
  LET at[i \in 1 .. U16(b) + 1] == IF i = 1 THEN 3 ELSE NextItem(b, at[i - 1])
  IN  at

\* All items must be there.
DecodesItems(b) == Len(b) >= 2 /\ ItemsAt(b)[U16(b) + 1] <= Len(b) + 1

\* The data of the first item of a type.
FindItemByType(b, type) ==
  LET at    == ItemsAt(b)
      typed == {i \in 1 .. U16(b) : U16(From(b, at[i])) = type}
      first == CHOOSE i \in typed : \A j \in typed : i <= j
  IN  IF ~DecodesItems(b) \/ typed = {}
        THEN [ok |-> FALSE, data |-> <<>>]
        ELSE [ok |-> TRUE, data |-> SubSeq(b, at[first] + 4, at[first + 1] - 1)]

-----------------------------------------------------------------------------
(* The Symbol object: answers to GetAttributeList.                         *)

NewGetSymbolClassAttributesRequest ==
  Request(3, AddInstance(AddClass(<<>>, 107), 0), Le16(2) \o Le16(1) \o Le16(2))

NewGetSymbolAttributesRequest(id) ==
  Request(3, AddInstance32(AddClass(<<>>, 107), id), Le16(2) \o Le16(1) \o Le16(2))

\* An answer has a count, and attributes with their status and, if that is 0, their
\* value. Those of the class have two bytes each; of an instance the name has its
\* length before it.
ValueLength(named, attr, value) ==
  CASE attr = 1 -> IF ~named \/ Len(value) < 2 THEN 2 ELSE 2 + U16(value)
    [] attr = 2 -> 2
    [] OTHER -> 0

\* Of the attribute at a place.
ValueSize(b, named, p) ==
  IF p + 3 <= Len(b) /\ U16(From(b, p + 2)) = 0
    THEN ValueLength(named, U16(From(b, p)), From(b, p + 4)) ELSE 0

NextAttribute(b, named, p) == p + 4 + ValueSize(b, named, p)

AttributesAt(b, named) ==
  LET at[i \in 1 .. U16(b) + 1] == IF i = 1 THEN 3 ELSE NextAttribute(b, named, at[i - 1])
  IN  at

\* All attributes must be there.
DecodesAttributes(b, named) ==
  Len(b) >= 2 /\ AttributesAt(b, named)[U16(b) + 1] <= Len(b) + 1

\* The value of the last attribute with an id.
AttributeValue(b, named, attr) ==
  LET at    == AttributesAt(b, named)
      given == {i \in 1 .. U16(b) : U16(From(b, at[i])) = attr /\ ValueSize(b, named, at[i]) > 0}
      last  == at[CHOOSE i \in given : \A j \in given : j <= i]
  IN  IF given = {} THEN Le16(0) ELSE SubSeq(b, last + 4, last + 3 + ValueSize(b, named, last))

\* The largest instance of the class.
DecodeSymbolClassAttributesResponse(b) ==
  IF ~DecodesAttributes(b, FALSE)
    THEN [ok |-> FALSE, max |-> 0]
    ELSE [ok |-> TRUE, max |-> U16(AttributeValue(b, FALSE, 2))]

\* The name and the type of a symbol.
DecodeSymbolAttributesResponse(b) ==
  IF ~DecodesAttributes(b, TRUE)
    THEN [ok |-> FALSE, symbol |-> [name |-> <<>>, type |-> 0]]
    ELSE [ok |-> TRUE, symbol |-> [name |-> From(AttributeValue(b, TRUE, 1), 3),
                                   type |-> U16(AttributeValue(b, TRUE, 2))]]

-----------------------------------------------------------------------------
(* Answers to ListIdentity and ListServices, the command's data itself.    *)

\* An identity is the bytes of its fields: 32 before the name, which has its length
\* before it, and the state. The item's own length counts only when it is skipped.
DecodeListIdentityResponse(b) ==
  LET count == U16(b)
      Is(p) == U16(From(b, p)) = 12
      Name(p) == IF p + 36 <= Len(b) THEN b[p + 36] ELSE 0
      at[i \in 1 .. count + 1] ==
        IF i = 1 THEN 3
        ELSE LET p == at[i - 1] IN
             p + IF p + 3 > Len(b) THEN 4
                 ELSE IF Is(p) THEN 38 + Name(p) ELSE 4 + U16(From(b, p + 2))
      Item(i) == IF Is(at[i]) THEN SubSeq(b, at[i] + 4, at[i + 1] - 1) ELSE <<>>
  IN  IF Len(b) < 2 \/ at[count + 1] > Len(b) + 1
        THEN [ok |-> FALSE, val |-> <<>>]
        ELSE [ok |-> TRUE, val |-> FlattenSeq([i \in 1 .. count |-> Item(i)])]

\* A service is its type, version, flags, and its name with the length before it.
\* The name has sixteen bytes, filled up with zeros; the item's length is ignored.
DecodeListServicesItem(b, p) ==
  LET name == SubSeq(b, p + 8, p + 23)
      used == CHOOSE n \in 0 .. 16 : /\ n # 0 => name[n] # 0
                                    /\ \A i \in n + 1 .. 16 : name[i] = 0
  IN  SubSeq(b, p, p + 1) \o SubSeq(b, p + 4, p + 7) \o <<used>> \o SubSeq(name, 1, used)

DecodeListServicesResponse(b) ==
  IF Len(b) < 2 \/ Len(b) < 2 + 24 * U16(b)
    THEN [ok |-> FALSE, val |-> <<>>]
    ELSE [ok |-> TRUE,
          val |-> FlattenSeq([i \in 1 .. U16(b) |-> DecodeListServicesItem(b, 24 * i - 21)])]

-----------------------------------------------------------------------------
(* Values. A number is a sequence of one; a Timer is its PRE, ACC, EN, TT  *)
(* and DN, a Counter PRE, ACC, CU, CD, DN, OV and UN, flags as 0 or 1.     *)

Bit(byte, n) == (byte \div 2 ^ n) % 2

\* Fourteen bytes: two reserved, the status word with the flags in its highest
\* bits, PRE and ACC.
MarshalStructure(s) ==
  LET status[i \in 2 .. Len(s)] ==
        IF i = 2 THEN 0 ELSE status[i - 1] + s[i] * 2 ^ (10 - i)
  IN  <<0, 0, 0, 0, 0, status[Len(s)]>> \o Le32(s[1]) \o Le32(s[2])

DecodeStructure(b, flags) ==
  IF Len(b) < 14
    THEN [ok |-> FALSE, val |-> <<>>]
    ELSE [ok |-> TRUE,
          val |-> <<I32(From(b, 7)), I32(From(b, 11))>>
                    \o [i \in 1 .. flags |-> Bit(b[6], 8 - i)]]

DecodeTimer(b)   == DecodeStructure(b, 3)
DecodeCounter(b) == DecodeStructure(b, 5)

\* The types of Go values, and what the code makes of them. binary.Write has no
\* encoding for an int or a string; no type code is found for a structure.
GoTypeToCIPType(type) ==
  CASE type = "int16" -> 195
    [] type \in {"int32", "int"} -> 196
    [] type = "string" -> 208

CanWrite(type) == type \in {"int16", "int32"}

Marshal(type, val) ==
  CASE type = "int16" -> Le16(val[1])
    [] type = "int32" -> Le32(val[1])
    [] type \in {"Timer", "Counter"} -> MarshalStructure(val)

\* Bytes behind the value are not looked at.
Unmarshal(type, b) ==
  CASE type = "int16" -> IF Len(b) < 2 THEN [ok |-> FALSE, val |-> <<>>]
                                       ELSE [ok |-> TRUE, val |-> <<I16(b)>>]
    [] type = "int32" -> IF Len(b) < 4 THEN [ok |-> FALSE, val |-> <<>>]
                                       ELSE [ok |-> TRUE, val |-> <<I32(b)>>]
    [] type = "Timer" -> DecodeTimer(b)
    [] type = "Counter" -> DecodeCounter(b)
=============================================================================
