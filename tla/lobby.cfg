SPECIFICATION Spec
CONSTANTS
  ann = ann
  bea = bea
  cat = cat
  Free = Free
  Ok = Ok
  Missing = Missing
  Names <- ThreeNames
  Registered <- OldUsers
  MaxActs = 5
  MaxReloads = 1
INVARIANTS TypeOK OffersAreReal RivalsAgreed ColoursDiffer SharedRoom
CHECK_DEADLOCK FALSE
