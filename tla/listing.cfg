CONSTANTS
  NameChars <- MCNameChars
  Slash = 47
  Star = 42
  Namespaces <- MCNamespaces
  Objects <- MCObjects
  Queries <- MCQueries
  MaxLimit = 2
  None = None
SPECIFICATION FairSpec
INVARIANTS
  TypeOK
  PagesAscend
  ListingComplete
  ScopeRespected
PROPERTIES
  PagesAreStored
  OverviewExact
  ListingEnds
