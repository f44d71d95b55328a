SPECIFICATION FairSpec
CONSTANTS
  Paths = {1, 2, 3, 4, 5, 6}
  Drvs = {1, 2, 3}
  Root = 3
  Caches = {1, 2}
  Outputs <- MCOutputs
  Deps <- MCDeps
  Embeds <- MCEmbeds
  Declares <- MCDeclares
  Worlds <- MCWorlds
INVARIANTS
  BuildsOnInputs
  NeverBuildsWhatCachesHold
  RefusalMeansCycle
  FailureIsFinal
  RealisedMeansValid
  RealiseInv
PROPERTIES
  RealiseEnds
