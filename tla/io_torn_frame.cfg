CONSTANTS
  c = c
  b = b
  q = q
  NoIo = NoIo
  NoAssembly = NoAssembly
  NoValue = NoValue
  Ios <- SameIdIos
  Ids = {1}
  IdOf <- SameId
  Producers <- ProducersB
  Consumers <- ConsumersCB
  Rpi <- UnitRpi
  TimeoutMult <- ZeroMult
  Assemblies <- AssemblyA
  AssemblyOf <- QWithout
  Values = {1, 2}
  WatchPeriod = 2
SPECIFICATION Spec
INVARIANT NoTornFrame
