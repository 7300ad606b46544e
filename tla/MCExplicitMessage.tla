------------------------- MODULE MCExplicitMessage -------------------------
(* ExplicitMessage for TLC: ids on both sides of the 8 bit boundary that    *)
(* differ in their high bytes only, tags and symbols of both kinds of length. *)
EXTENDS ExplicitMessage

Get(t, type)      == Call("get", t, type, <<>>)
Set(t, type, val) == Call("set", t, type, val)
Data(t)           == Get(t, "bytes")
Nothing           == Attribute(0, 0, 0)
Adapters(what)    == Lists(2, what)

\* u and v: sessions at the adapter; p: a peer there; t: a session at the
\* controller; l: one that lists its tags.
Groups  == {{"u"}, {"v", "p"}, {"t"}, {"l"}}
MCCalls ==
  [u |-> {Data(Attribute(4, 100, 3)), Data(Attribute(4, 356, 3)),
          Data(Attribute(4, 65636, 3)), Data(Attribute(4, 100, 259)), Data(Attribute(260, 100, 3)),
          Data(Attribute(4, 100, 0)), Call("other", Attribute(4, 100, 3), "bytes", <<>>),
          Set(Attribute(4, 356, 3), "bytes", <<9>>),
          Set(Attribute(4, 100, 3), "bytes", <<5, 6>>),
          Get(Adapters(1), "identities"), Get(Adapters(2), "services"),
          Call("open", ConnMgr, "connections", <<268435457>>)},
   v |-> {Data(Attribute(4, 100, 3)), Set(Attribute(4, 356, 3), "bytes", <<9>>)},
   p |-> {Data(Attribute(4, 356, 3)), Set(Attribute(4, 100, 3), "bytes", <<5, 6>>),
          Call("cut", Nothing, "bytes", <<16, 3, 32, 4, 36, 100>>)},
   t |-> {Get(Tag(<<84>>), "int16"), Get(Tag(<<84>>), "int32"), Get(Tag(<<84, 49>>), "Timer"),
          Get(Tag(<<67>>), "Counter"), Get(Tag(<<88>>), "int16"),
          Set(Tag(<<84>>), "int16", <<300>>), Set(Tag(<<84>>), "int32", <<-70000>>),
          Set(Tag(<<84>>), "int", <<1>>), Get(Tag(<<68>>), "int32"),
          Set(Tag(<<68>>), "int32", <<-70000>>),
          Get(IdentityList, "identities"), Get(ServiceList, "services")},
   l |-> {Call("list", Nothing, "symbols", <<>>)}]

MCContents == {<<1>>, <<2, 3>>}

Value(type, val) == [type |-> type, val |-> val]
MCTags ==
  <<84>> :> Value("int16", <<-2>>) @@ <<68>> :> Value("int32", <<2147483647>>)
    @@ <<84, 49>> :> Value("Timer", <<5000, -1, 1, 0, 1>>)
    @@ <<67>> :> Value("Counter", <<-70000, 3, 0, 1, 1, 0, 1>>)
MCPlcValues ==
  <<84>> :> {<<32767>>} @@ <<68>> :> {}
    @@ <<84, 49>> :> {<<5000, 4999, 1, 1, 0>>} @@ <<67>> :> {<<-70000, 4, 1, 0, 0, 1, 0>>}

\* Two identities with names of different lengths, and a service.
Identity(name) == [i \in 1 .. 32 |-> i] \o <<Len(name)>> \o name \o <<3>>
MCIdentities   == <<Identity(<<80, 76, 67>>), Identity(<<>>)>>
MCServices     == <<[type |-> 256, head |-> <<1, 0, 32, 0>>, name |-> <<67, 111, 109>>]>>

Symbol(name) == [name |-> name, type |-> 196]
MCSymbolTable == <<Symbol(<<65>>), NoSymbol, Symbol(<<65, 66>>)>>
MCSymbols     == {Symbol(<<67>>)}
=============================================================================
