\* Three requests at once over two programmes that may share a slug.
CONSTANTS
  Programmes = {p1, p2}
  Slugs = {s1, s2}
  Names = {acronym}
  Clients = {c1, c2, c3}
  NULL = NULL
  Humanized = Humanized
  MaxExperiments = 2
  MaxVersions = 2
  MaxFaults = 1
SPECIFICATION Spec
SYMMETRY Symmetric
INVARIANTS
  VersionsInv
  SearchShowsLatest
  ProgrammesHaveExperiments
PROPERTIES
  ImplementsLog
