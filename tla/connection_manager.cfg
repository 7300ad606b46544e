CONSTANTS
  Handlers = {h1, h2}
  OtIds = {ot1, ot2}
  NoOt = NoOt
  IdSpace = 4
  FirstId = 2
SPECIFICATION Spec
INVARIANTS TypeOK AnswersAgree
PROPERTY EntriesKept
