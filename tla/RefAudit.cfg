\* Two uploads, one audit at a time beside two verifications, with changes at GitHub, on
\* the Hub and in the local clone meanwhile.
CONSTANTS
  Artifacts = {a1, a2}
  a1 = a1
  a2 = a2
  Refs = {"commit", "weights", "hidden"}
  GitRefs = {"commit"}
  OtherHosts = {}
  Private = {"commit", "hidden"}
  ExpectedSize <- MCExpectedSize
  StartUri <- MCStartUri
  HashMatch <- MCHashMatch
  EditMatch <- MCEditMatch
  NameMatch <- MCNameMatch
  Users = {u1}
  Verifiers = {v1, v2}
  v1 = v1
  v2 = v2
  FullSize = 2
  NULL = NULL
  Drive = Drive
  MaxChanges = 1
  MaxLookups = 2
SPECIFICATION Spec
SYMMETRY SymmetricVerifiers
INVARIANTS
  VerdictIsJust
  OldVerdictNeedsOverlap
  AuditIsSound
