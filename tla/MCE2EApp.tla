----------------------------- MODULE MCE2EApp --------------------------------
EXTENDS E2EApp

CONSTANTS k1, k2, a, b, none

\* Four blocks: k1 := a, k2 := b, k1 := b, k2 := a.
MCTxs == << << k1, a >>, << k2, b >>, << k1, b >>, << k2, a >> >>
=============================================================================
