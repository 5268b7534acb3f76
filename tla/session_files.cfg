CONSTANTS
  Sessions = {s1, s2, s3}
  Earlier = Earlier
  MaxCrashes = 1
  Absent = Absent
SPECIFICATION Spec
SYMMETRY SessionSymmetry
CHECK_DEADLOCK FALSE
INVARIANTS FreshDisk NothingLeft AccountsExact
