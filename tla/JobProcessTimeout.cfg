\* The deadline falls in the backoff after a 503.
SPECIFICATION Spec
CONSTANTS
  MaxRetries = 1
  LTTimeout = 6
  WikiRetries = 0
  WikiTimeout = 3
  BackoffBase = 5
  MayCancel = FALSE
  Langs = {"en", "fr", "pt"}
  DefaultTarget = "pt"
  Pairs <- MCPairs
  MaxTextLength = 4
  MaxQuery = 2
  Annotations <- MCAnnotations
  Kin <- MCKin
  Width <- MCWidth
  MaxResults = 3
  Queries = {"cat"}
INVARIANT ExpiredMeansTimeout
