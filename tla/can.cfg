\* No symmetry: two properties are about what happens in the end.
CONSTANTS
  Admins = {a1, a2}
  MaxRxErrors = 2
  MaxHealthFailures = 2
  MaxConnects = 2
SPECIFICATION FairSpec
INVARIANTS OneReader ReaderServes FlagsAgree StatusMirrored
PROPERTIES WellNotTornDown LossDetected
