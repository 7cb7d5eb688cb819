CONSTANTS
  v1 = v1
  v2 = v2
  v3 = v3
  v4 = v4
  b1 = b1
  b2 = b2
  Nil = Nil
  Validators <- MCValidators
  Faulty <- MCFaulty
  Power <- MCPower
  Values <- MCValues
  MaxRound = 1
  Proposer <- MCProposer
SYMMETRY MCSymmetry
SPECIFICATION Spec
\* A height ends: every validator can commit and then has nothing left to do.
CHECK_DEADLOCK FALSE
INVARIANTS
  TypeOK
  Agreement
  PolkaSafety



