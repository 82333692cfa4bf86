\* Two sources that are migrated and archived, two only migrated; up to two
\* requests that fail or scripts that die.
CONSTANTS
  Data <- MCData
  Name <- MCName
  Began = 2
  NULL = NULL
  MaxFaults = 2
  Files = {"model", "log", "readme"}
  Dir <- MCDir
  Loose = Loose
  Torn = Torn
SPECIFICATION Spec
INVARIANTS
  ImportIsSound
  ArchiveIsSound
  CopiesHaveCause
  LinkedToItsRun
