CONSTANTS
  Users = {"u", "v", "p", "t", "l"}
  Peers = {"p"}
  AtController = {"t", "l"}
  Connected <- Groups
  CallsOf <- MCCalls
  Assemblies = {100, 356}
  Contents <- MCContents
  Tags <- MCTags
  PlcValues <- MCPlcValues
  Identities <- MCIdentities
  Services <- MCServices
  SymbolTable <- MCSymbolTable
  Symbols <- MCSymbols
  MaxEdits = 2
  MaxOpened = 2
  NoCall = NoCall
  NoPacket = NoPacket
SPECIFICATION Spec
INVARIANTS TypeOK ListIsRight
PROPERTIES AccessSpec
CHECK_DEADLOCK FALSE
