\* Every command, every way LibreTranslate and the wiki can answer, one retry
\* of each, and a parent of the context that may be cancelled at any tick.
SPECIFICATION FairSpec
CONSTANTS
  MaxRetries = 1
  LTTimeout = 6
  WikiRetries = 1
  WikiTimeout = 3
  BackoffBase = 5
  MayCancel = TRUE
  Langs = {"en", "fr", "pt"}
  DefaultTarget = "pt"
  Pairs <- MCPairs
  MaxTextLength = 4
  MaxQuery = 2
  Annotations <- MCAnnotations
  Kin <- MCKin
  Width <- MCWidth
  MaxResults = 3
  Queries = {"cat", "pe", "dog"}
INVARIANTS TypeOK MetricsAgree TranslatedForReal SharedBudget
  RetriesAsTold NotFoundIsTheWikis WikiAnswerIsWhole EmojisAreTheBest
PROPERTIES KeepsJobLife JobEnds
