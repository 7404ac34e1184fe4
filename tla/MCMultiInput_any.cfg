\* All schemes of several clients and over pairings with all their instances. Clients
\* whose calls are bounded stop.
CONSTANTS
  Instances <- MCInstances
  AuthorityInstances <- MCAuthority
  HidingInstances <- MCHiding
  MaxEpoch = 2
  MaxUses = 2
SPECIFICATION OneSpec
INVARIANTS TypeOK SharesCancel DecryptCorrect AuthorityDecrypts HidingDecrypts
CHECK_DEADLOCK FALSE
