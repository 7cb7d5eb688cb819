\* Every configuration of up to two updates per height over five key
\* strings, powers 0 and 1 (removal and addition), two heights after
\* InitChain: enough for an alias of a key, a bad key before or after a
\* good one in iteration order, removing every validator, and a key whose
\* updates at two heights interact.
CONSTANTS
  s1 = s1
  s2 = s2
  s1nl = s1nl
  sshort = sshort
  sbad = sbad
  k1 = k1
  k2 = k2
  kshort = kshort
  notB64 = notB64
  KeyStrings = {s1, s2, s1nl, sshort, sbad}
  Keys = {k1, k2, kshort}
  NotBase64 = notB64
  Decode <- MCDecode
  ValidKeys = {k1, k2}
  Powers = {0, 1}
  MaxHeight = 2
  MaxEntries = 2
  Genesis <- MCGenesis
SPECIFICATION Spec
\* The node stops at MaxHeight, or when it panics or rejects an update.
CHECK_DEADLOCK FALSE
INVARIANTS
  TypeOK
  UpdatesMatchReference
