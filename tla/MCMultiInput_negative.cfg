\* Data within the bound, but negative, without an authority.
CONSTANTS
  Instances <- Negative
  AuthorityInstances = {}
  HidingInstances = {}
  MaxEpoch = 2
  MaxUses = 2
SPECIFICATION OneSpec
INVARIANTS DecryptBounded
