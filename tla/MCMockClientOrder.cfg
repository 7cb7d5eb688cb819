\* Transactions over the bytes k, a, b and "=": two that set k, one with
\* an empty key and one without "=", which CheckTx refuses; three calls,
\* enough for two background deliveries to race a third call.
CONSTANTS
  Eq = "="
  Txs <- MCTxs
  MaxCalls = 3
SPECIFICATION Spec
\* The caller stops after MaxCalls calls and every goroutine has run.
CHECK_DEADLOCK FALSE
INVARIANT DeliveredInBroadcastOrder
