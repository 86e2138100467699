SPECIFICATION Spec
CONSTANTS
  ann = ann
  bob = bob
  e1 = e1
  e2 = e2
  e3 = e3
  Nothing = nothing
  Free = free
  Unspecified = unspecified
  Default = spylls
  Backends = {spylls, native}
  Sources = {"addon", "system", "user"}
  Priority <- MCPriority
  LanguageOf <- MCLanguageOf
  Threads = {ann, bob}
  Locales = {"es_EC"}
  Words = {"w"}
  Plans <- MCPlans
  Removable = {"user"}
  Standings <- MCStandings
  BackendCacheSize = 1
  ResultCacheSize = 1
  Engines = {e1, e2, e3}
  MaxCandidates = 3
  MaxRevision = 5
SYMMETRY MCSymmetry
INVARIANTS
  TypeOK
  NoUnloadUnderLookup
  BreakerHolds
  KnowledgeIsCurrent
  SomeCallProceeds
  WaitsEnd
  SelectionIsByPriority
  ResolverHonest
