\* Local and remote apps, three heights, two transactions per block, three crashes:
\* enough for a crash at every step of ApplyBlock and of the handshake, a crash
\* between the two DeliverTx calls of a block, and crashes during the recovery
\* from earlier ones.
CONSTANTS
  AppModes = {"local", "remote"}
  MaxHeight = 3
  NTxs = 2
  MaxCrashes = 3
SPECIFICATION Spec
\* Behaviours end: all heights committed, or the crash budget spent while down.
CHECK_DEADLOCK FALSE
INVARIANTS
  TypeOK
  AppCommitsEachHeightOnce
  StateAgreesWithApp
  HandshakeNeverPanics
PROPERTIES
  RecoveryCompletes
