CONSTANTS
  NNodes = 2
  NGroups = 2
  Workers <- OneWorker
  BatchSize = 2
  MaxArtifacts = 3
  MaxRetries = 2
  Limit = 6
SPECIFICATION FairSpec
INVARIANTS NothingVanishes PipelineInOrder FirstSeenInOrder WorkersDisjoint
PROPERTY ArtifactsLeave
CHECK_DEADLOCK FALSE
