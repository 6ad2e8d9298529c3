SPECIFICATION FairPaneSpec
CONSTANTS
  row = row
  several = several
  Singles <- MCSingles
  Comparisons <- MCComparisons
  MaxGeneration = 7
  MaxRevision = 2
INVARIANTS
  NoOrphanedPage
PROPERTIES
  PreviewsAreCurrent
  RequestsSettle
