CONSTANTS
  Tp = 1
  Pp = 2
  Layers = 2
  KDim = 2
  Hashes = {"a", "b"}
  Keys = {"key"}
  Nonces = {1, 2, 3, 4}
  Leases = {leased, none}
  NoLease = none
  Skews = {none}
  FaultAt = {"hooks"}
  MaxMishaps = 1
  Bodies <- TestBodies
  Granted = {leased}
  PNum = 1
  PDen = 10
  FraudNum = 1
  FraudDen = 20
  OwnHash = "a"
  MiningHash = "b"
  Key = "key"
  MiningNonces <- MiningBatch
  MaxRounds = 1
  MaxOthers = 1
SPECIFICATION Spec
INVARIANTS ArtifactsAreReproducible
CHECK_DEADLOCK FALSE
