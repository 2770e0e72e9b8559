CONSTANTS
  Keys = {k1, k2}
  Defs = {d1, d2}
  MaxVersions = 2
  MaxReviews = 2
  MaxBundle = 1
SPECIFICATION MCSpec
SYMMETRY Symmetry
INVARIANTS
  TypeOK
  ApprovalMatchesDraft
  GatedVersionsSigned
  PublishedIsServed
PROPERTIES
  VersionsImmutableUnlessImported
  ArchivedUnlessImported
