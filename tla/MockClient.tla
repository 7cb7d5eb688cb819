----------------------------- MODULE MockClient -------------------------------
(***************************************************************************)
(* The RPC client mock of src/rpc/client/mock/abci.go: MSMApp sends every  *)
(* MSM-related RPC straight to an application, and MSMRecorder wraps a     *)
(* client and appends one Call per request to its Calls log.               *)
(*                                                                         *)
(* BroadcastTxCommit runs CheckTx and, if it passed, DeliverTx, in the     *)
(* caller's goroutine.  BroadcastTxAsync and BroadcastTxSync run CheckTx   *)
(* and, if it passed, start a goroutine that calls DeliverTx later; they   *)
(* return at once.  The caller (a test) also calls App.Commit directly.    *)
(*                                                                         *)
(* The application is the e2e app (src/test/e2e/app/app.go): CheckTx and   *)
(* DeliverTx parse "key=value", DeliverTx panics on a transaction CheckTx  *)
(* would have refused, Query reads the current values and height.  Its     *)
(* State serialises calls with a mutex, so the goroutines and the caller   *)
(* interleave one whole handler at a time.                                 *)
(*                                                                         *)
(* A transaction is a sequence of bytes over a small alphabet; parseTx is *)
(* modelled by what bytes.Split on "=" does.                               *)
(***************************************************************************)
EXTENDS Integers, Sequences, SequencesExt, FiniteSets

CONSTANTS
  Txs,        \* the transactions the caller may broadcast (byte sequences)
  Eq,         \* the byte "="
  MaxCalls    \* calls the caller makes

VARIABLES
  height,     \* app state.Height
  values,     \* app state.Values: key -> value, keys added by Set
  panicked,   \* an app handler panicked
  accepted,   \* <<id, tx>> of every broadcast whose CheckTx passed, in call order
  pending,    \* ids of DeliverTx goroutines started and not yet run
  delivered,  \* ids in the order DeliverTx ran
  calls       \* MSMRecorder.Calls: [name, arg]

vars == << height, values, panicked, accepted, pending, delivered, calls >>

Ids == 1..MaxCalls

(***************************************************************************)
(* parseTx: split on "=", exactly two parts, the key not empty.            *)
(***************************************************************************)
EqPositions(tx) == {i \in DOMAIN tx : tx[i] = Eq}

\* Mutant: an empty key is accepted.
ParseTxAllowingEmptyKey(tx) ==
  IF Cardinality(EqPositions(tx)) # 1 THEN [ok |-> FALSE]
  ELSE LET p == CHOOSE i \in EqPositions(tx) : TRUE IN
       [ok |-> TRUE, key |-> SubSeq(tx, 1, p - 1), value |-> SubSeq(tx, p + 1, Len(tx))]

parseTx(tx) ==
  IF Cardinality(EqPositions(tx)) # 1 THEN [ok |-> FALSE]
  ELSE LET p == CHOOSE i \in EqPositions(tx) : TRUE IN
       IF p = 1 THEN [ok |-> FALSE]
       ELSE [ok |-> TRUE, key |-> SubSeq(tx, 1, p - 1), value |-> SubSeq(tx, p + 1, Len(tx))]

\* The keys and values the transactions can set.
Keys == {parseTx(tx).key : tx \in {t \in Txs : parseTx(t).ok}}
Vals == {parseTx(tx).value : tx \in {t \in Txs : parseTx(t).ok}}

TypeOK ==
  /\ height \in 0..MaxCalls
  \* a key is a non-empty run of bytes of some transaction
  /\ DOMAIN values \subseteq UNION {{SubSeq(tx, 1, i) : i \in 1..Len(tx)} : tx \in Txs}
  /\ \A k \in DOMAIN values : values[k] \in Vals
  /\ panicked \in BOOLEAN
  /\ accepted \in Seq(Ids \X Txs) /\ pending \subseteq Ids
  /\ delivered \in Seq(Ids)
  /\ calls \in Seq([name : {"msm_info", "msm_query", "broadcast_tx_commit",
                            "broadcast_tx_sync", "broadcast_tx_async"},
                    arg : Txs \cup Keys \cup {<< >>}])

Init ==
  /\ height = 0 /\ values = << >> /\ panicked = FALSE
  /\ accepted = << >> /\ pending = {} /\ delivered = << >> /\ calls = << >>

\* The caller makes one more call; a broadcast's id is its position in the
\* log.  The caller's App.Commit calls bypass the recorder; each raises the
\* height, so recorded calls plus the height count every call made.
CallId == Len(calls) + 1
CanCall == Len(calls) + height < MaxCalls /\ ~panicked

\* CheckTx of the e2e app: OK exactly when the transaction parses.
CheckTxOK(tx) == parseTx(tx).ok

\* DeliverTx of the e2e app: state.Set(key, value), or panic.
AppDeliverTx(tx) ==
  IF parseTx(tx).ok
    THEN /\ values' = [k \in DOMAIN values \cup {parseTx(tx).key} |->
                         IF k = parseTx(tx).key THEN parseTx(tx).value ELSE values[k]]
         /\ UNCHANGED panicked
    ELSE panicked' = TRUE /\ UNCHANGED values

\* MSMRecorder.addCall; MSMApp never returns an error, so Error is nil.
addCall(name, arg) == calls' = Append(calls, [name |-> name, arg |-> arg])

\* An MSMRecorder method: the wrapped client's call, then addCall with the
\* method's name and argument, whatever the call returned.
Recorded(name, arg, call) == call /\ addCall(name, arg)

\* Mutant: BroadcastTxCommit returns after CheckTx without delivering.
BroadcastTxCommitNoDeliver(tx) ==
  /\ CanCall
  /\ IF CheckTxOK(tx)
       THEN accepted' = Append(accepted, << CallId, tx >>)
       ELSE UNCHANGED accepted
  /\ addCall("broadcast_tx_commit", tx)
  /\ UNCHANGED << height, values, panicked, pending, delivered >>

(***************************************************************************)
(* BroadcastTxCommit through the recorder.                                 *)
(***************************************************************************)
BroadcastTxCommit(tx) ==
  /\ CanCall
  /\ Recorded("broadcast_tx_commit", tx,
       IF CheckTxOK(tx)
         THEN /\ AppDeliverTx(tx)
              /\ accepted' = Append(accepted, << CallId, tx >>)
              /\ delivered' = Append(delivered, CallId)
         ELSE UNCHANGED << values, panicked, accepted, delivered >>)
  /\ UNCHANGED << height, pending >>

\* Mutant: the DeliverTx goroutine is started whatever CheckTx said.
StartDeliverUnchecked(tx) ==
  /\ accepted' = Append(accepted, << CallId, tx >>)
  /\ pending' = pending \cup {CallId}

\* The part BroadcastTxAsync and BroadcastTxSync share: CheckTx, and a
\* DeliverTx goroutine if it passed.
StartDeliver(tx) ==
  IF CheckTxOK(tx)
    THEN /\ accepted' = Append(accepted, << CallId, tx >>)
         /\ pending' = pending \cup {CallId}
    ELSE UNCHANGED << accepted, pending >>

BroadcastTxAsync(tx) ==
  /\ CanCall
  /\ Recorded("broadcast_tx_async", tx, StartDeliver(tx))
  /\ UNCHANGED << height, values, panicked, delivered >>

BroadcastTxSync(tx) ==
  /\ CanCall
  /\ Recorded("broadcast_tx_sync", tx, StartDeliver(tx))
  /\ UNCHANGED << height, values, panicked, delivered >>

\* A DeliverTx goroutine runs.
RunDeliverTx(id) ==
  LET tx == (CHOOSE a \in Range(accepted) : a[1] = id)[2] IN
  /\ id \in pending
  /\ AppDeliverTx(tx)
  /\ pending' = pending \ {id}
  /\ delivered' = Append(delivered, id)
  /\ UNCHANGED << height, accepted, calls >>

\* The caller's App.Commit, straight to the app and not recorded:
\* state.Commit advances the height.
AppCommit ==
  /\ CanCall
  /\ height' = height + 1
  /\ UNCHANGED << values, panicked, accepted, pending, delivered, calls >>

\* MSMQuery / MSMInfo through the recorder: Query and Info only read the app.
MSMQuery(k) ==
  /\ CanCall
  /\ Recorded("msm_query", k, UNCHANGED << height, values, panicked >>)
  /\ UNCHANGED << accepted, pending, delivered >>

MSMInfo ==
  /\ CanCall
  /\ Recorded("msm_info", << >>, UNCHANGED << height, values, panicked >>)
  /\ UNCHANGED << accepted, pending, delivered >>

Caller ==
  \/ \E tx \in Txs : BroadcastTxCommit(tx) \/ BroadcastTxAsync(tx) \/ BroadcastTxSync(tx)
  \/ AppCommit \/ \E k \in Keys : MSMQuery(k) \/ MSMInfo

Next == Caller \/ \E id \in Ids : RunDeliverTx(id)

\* The Go scheduler runs every runnable goroutine eventually.
Spec == Init /\ [][Next]_vars /\ \A id \in Ids : WF_vars(RunDeliverTx(id))

-----------------------------------------------------------------------------
(***************************************************************************)
(* Properties.                                                             *)
(***************************************************************************)
DeliveredIds == Range(delivered)
AcceptedIds == {a[1] : a \in Range(accepted)}

(* Only transactions that passed CheckTx reach DeliverTx, each exactly     *)
(* once, so the app never panics on one (BroadcastTx*, e2e DeliverTx).     *)
AcceptedTxsDeliveredOnce ==
  /\ ~panicked
  /\ DeliveredIds \subseteq AcceptedIds
  /\ Len(delivered) = Cardinality(DeliveredIds)
  /\ pending \cap DeliveredIds = {}

(* Every transaction a broadcast accepted is eventually delivered to the  *)
(* app, including those handed to a background goroutine.                  *)
EveryAcceptedTxDelivered ==
  \A id \in Ids : (id \in AcceptedIds) ~> (id \in DeliveredIds)

(* Transactions reach DeliverTx in the order they were broadcast, one     *)
(* after another (spec section 4.3: DeliverTx in block order).            *)
DeliveredInBroadcastOrder ==
  \A i, j \in 1..Len(delivered) : i < j => delivered[i] < delivered[j]
=============================================================================
