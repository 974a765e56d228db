SPECIFICATION Spec
CONSTANTS
  ann = ann
  bea = bea
  cat = cat
  Free = Free
  Ok = Ok
  Missing = Missing
  Names <- ThreeNames
  Registered <- Everyone
  MaxActs = 5
  MaxReloads = 1
INVARIANTS OneRival
CHECK_DEADLOCK FALSE
