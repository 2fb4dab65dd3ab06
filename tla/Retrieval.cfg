SPECIFICATION Spec
CONSTANTS
  d1 = d1
  d2 = d2
  d3 = d3
  year = year
  tag = tag
  Docs = {d1, d2}
  Fields = {year, tag}
  Stored <- AllChunks
  Stores <- Lefts
  NumIndexes = 2
  Limit = 2
  PageSize <- Pages
  NumImages = 2
  Queries <- Orders
  Matchers <- Configs
  Metadatas <- Metas
  MaxChanges = 1
INVARIANTS TypeOK HitsAreTheFirst ScopeKept FusionAgrees ImagesWithinLimit LosesOnlyToGaps
CHECK_DEADLOCK FALSE
