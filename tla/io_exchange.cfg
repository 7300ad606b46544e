CONSTANTS
  Rpi = 1
  TimeoutMult = 1
  SchedPeriod = 2
  WatchPeriod = 3
  MaxDelay = 2
  MaxLoss = 2
  Values = {"x", "y"}
  ProducerSize = 1
  ConsumerSize = 3
  ProducerHeader = TRUE
  ConsumerHeader = TRUE
SPECIFICATION FairSpec
INVARIANTS TypeOK FreshData
PROPERTIES LinkSpec Converges SilenceNoticed
