CONSTANTS
  Nil = Nil
  Blank = Blank
  Malformed = Malformed
  Addresses = {"ip"}
  Names = {"a.example", "b.example"}
  Owner <- MCOwner
  Listing <- MCListing
  Calls = {c1, c2, c3}
  Jobs <- MCJobs
SPECIFICATION Spec
INVARIANTS
  IInv
  NoNilDriver
  NoStaleClient
  RefusedOnlyBeforeInitialize
  MixedOnlyByOverlap
  DestroyedIsEmptied
  EveryRefIsReported
SYMMETRY Symmetry
CHECK_DEADLOCK FALSE
