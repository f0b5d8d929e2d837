\* The run against a server that may do its worst; only the client is fair.
SPECIFICATION FairSpec
CONSTANT Secrets <- MCSecrets
INVARIANTS
  TypeOK
  NoCopySuffix
  FailureIsHonest
  SuccessIsComplete
PROPERTIES
  KeepsContract
  EventuallySettles
