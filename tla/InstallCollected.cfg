CONSTANTS
  a1 = a1
  a2 = a2
  g1 = g1
  Appliers <- TwoAppliers
  Generations <- OneGeneration
  NumArtifacts = 2
  QueueMax = 1
  MayFail = FALSE
  MayCrash = FALSE

SPECIFICATION Spec

INVARIANT NothingHalfApplied
