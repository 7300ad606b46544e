CONSTANTS
  c = c
  b = b
  q = q
  NoIo = NoIo
  NoAssembly = NoAssembly
  NoValue = NoValue
  Ios <- ThreeIos
  Ids = {1, 2}
  IdOf <- TwoIds
  Producers <- ProducersBQ
  Consumers <- ConsumersCB
  Rpi <- UnitRpi
  TimeoutMult <- ZeroMult
  Assemblies <- AssemblyA
  AssemblyOf <- QWithout
  Values = {1}
  WatchPeriod = 1
SPECIFICATION FairSpec
INVARIANTS TypeOK SilenceBounded
PROPERTIES ProducerServed TimeoutMeansSilence LateEffectsBounded RpiKept
