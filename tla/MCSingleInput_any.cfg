\* All schemes for single inputs with all their instances.
CONSTANTS
  Instances <- MCInstances
  PaillierInstances <- MCPaillier
  LatticeInstances <- MCLattice
  MaxEpoch = 2
  MaxHeld = 1
SPECIFICATION OneSpec
INVARIANTS TypeOK DecryptCorrect PaillierDecrypts LatticesDecrypt
