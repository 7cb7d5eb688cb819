# TLA+ models of augusteum

This directory holds TLA+ models of the parts of augusteum that have state and concurrency. augusteum is a Tendermint-derived BFT node. It talks to an application over MSM, its ABCI-like interface. TLC, the TLA+ model checker, checks these models. `PROJECT.json` lists:

- every component, and whether it is modelled;
- every run, with its expected result;
- the mutants that show each property can fail;
- the map from each TLA+ definition to the source lines it models;
- the findings;
- the hazards.

## The system and how its parts interact

- **MSM server** (`src/msm/server`). The app process runs a socket or gRPC server that `NewServer` builds. Its `OnStart` listens and serves. Its `OnStop` closes every connection, so each client of the node sees a transport error.
- **Proxy** (`src/proxy`). `multiAppConn` opens four MSM clients: query, snapshot, mempool and consensus. A `ClientCreator` from `client.go` builds each one. The clients are either in-process or socket/gRPC clients of a remote app. The goroutine `killTMOnClientError` kills the node when a client dies with an error. `app_conn.go` wraps each client in a typed connection.
- **Consensus and block execution.** For each height, consensus decides a block. `BlockExecutor.ApplyBlock` then runs BeginBlock, DeliverTx for each transaction, EndBlock, saving the responses, Commit on the consensus connection, and saving the State.
  - On restart, the `Handshaker` compares the app's `Info` height with the node's stores and replays the missing blocks.
  - The last block is replayed through `mockProxyApp` (`replay_stubs.go`) when the app has already committed it.
  - Of this code, only `replay_stubs.go` and `app_conn.go` are among the sources. Consensus, BlockExecutor and Handshaker are modelled from `spec.md`.
- **Validator updates.** The e2e app's `InitChain` and `EndBlock` return validator updates built by `validatorUpdates`, which ranges over a Go map. The node converts them with `PB2TM.ValidatorUpdates` (`src/types/protobuf.go`) and applies them to the validator set.
- **Results** (`src/types/results.go`). `LastResultsHash` is the Merkle hash of the deterministic fields of the DeliverTx responses.
- **The e2e application** (`src/test/e2e/app/app.go`) is a key/value app. It takes periodic snapshots, restores from a snapshot in chunks, and sets a retain height. In state sync, a serving node's copy of the app lists its snapshots (`ListSnapshots`) and serves their chunks (`LoadSnapshotChunk`). A restoring node's copy takes them through `OfferSnapshot` and `ApplySnapshotChunk`.
- **RPC client mock** (`src/rpc/client/mock/abci.go`). `MSMApp` routes broadcasts straight to an application. Its async and sync broadcasts deliver in background goroutines. `MSMRecorder` logs every call it wraps; the test calls `App.Commit` on the app directly, unlogged.

## Modules

| Module | Models | State | Actions |
|---|---|---|---|
| `AppConns` | `multi_app_conn.go`, `client.go`, `msm/server` | creator kind, service state, next client to open, each client's life-cycle, the watcher goroutine, killed, the app server's state | `Start`, `OpenClient`, `OpenClientFails` (with `stopAllClients`), `ClientCrash`, `KillTMOnClientError` (one ready select case), `OnStop`, `ServerOnStart`, `ServerOnStop` (`NewServer` in `Init`) |
| `Consensus` (+`MCConsensus`) | spec section 4.2: one height, rounds 0..MaxRound, one faulty validator | round, step, locked block and round, decision, proposals and votes as sets of messages | `Propose`, `PrevoteOnProposal`, `TimeoutPropose`, `PrecommitOnPolka`, `PrecommitOnNilPolka`, `TimeoutPrevote`, `Unlock`, `Decide`, `TimeoutPrecommit` |
| `BlockExec` | ApplyBlock, the handshake, `replay_stubs.go`, the consensus connection of `app_conn.go`, and the e2e app's handlers as the app sees them | node: state height and app hash, store height, saved responses; app: height, phase, InitChain and Commit counters | one action per ApplyBlock step, `Handshake`, `HandshakeInitChain`, `SaveGenesisState`, `ReplayBlocks` (mock app for the last block), `NodeCrash`, `AppCrash`, `Restart` |
| `E2EApp` (+`MCE2EApp`) | e2e `Application` with a state-sync node driving it, and a serving peer running the same app | height, values, snapshots, restore snapshot and chunks, retain height, lastQuery; the peer's height, values and snapshot store; node phase and listed snapshots | `PeerBlock` (the peer's DeliverTx and Commit), `DiscoverSnapshots` (ListSnapshotsSync), `OfferSnapshot`, `ApplySnapshotChunk` (loading the chunk from the peer with `LoadSnapshotChunk`), `ApplySnapshotChunk` (Import), `AbortRestore`, `VerifyRestore`, `DeliverTx`, `Commit`, `MSMQuery` (the RPC over `Application.Query`), `Panic`; `AppInfo` in `VerifyRestore` |
| `ValUpdates` (+`MCValUpdates`) | `validatorUpdates`, `InitChain`, `EndBlock` of the e2e app, `PB2TM.ValidatorUpdates`, the validator set's `advance` (from spec 4.2) | configuration, height, validator set, status | `InitChain`, `EndBlock`, each over every iteration order of the map |
| `Results` | `results.go` and the merkle tree and proofs | two replicas' responses and results | `DeliverTx`, `EndBlock`, `NextBlock` |
| `MockClient` (+`MCMockClient`) | `MSMApp`, `MSMRecorder`, the e2e app's CheckTx/DeliverTx/parseTx | app height and values, accepted broadcasts, pending goroutines, delivery order, call log | `BroadcastTxCommit`, `BroadcastTxAsync`, `BroadcastTxSync`, `RunDeliverTx`, `AppCommit`, `MSMQuery`, `MSMInfo` |

How the models abstract the code:

- Data is reduced to what the properties tell apart. Keys and values are model values.
- A hash is an injective term, and a protobuf encoding is the sorted list of its non-zero fields.
- Go's `uint64`→`int64` conversion keeps a width: `Width` bits in `E2EApp`, using `% 2^Width` and a signed reinterpretation.

## Runs

| Run | Result | What it shows |
|---|---|---|
| `AppConns.cfg` | pass | With any client creator and an app server that may fail to listen or may stop: the assigned client fields are exactly those `OnStart` has reached (`TypeOK`); a failed `OnStart` leaves no client running; a client error after start kills the node unless the node is being stopped; the watcher returns quietly only during shutdown; `OnStart` ends unless the app's server fails or stops. |
| `AppConnsStart.cfg` | violation | A client that dies while `OnStart` is still dialling the others with `mustConnect = false` is never acted on. If the app's server has stopped, the node neither dies nor starts (finding). |
| `MCConsensus.cfg` | pass | Agreement, and polka safety: once +2/3 precommit a block in a round, no later round gathers a polka for another block (`PolkaSafety`), so honest locks survive round changes and a byzantine round-0 proposer. |
| `BlockExec.cfg` | pass | Node and app crashes can hit any step. Even so, the app commits each height once, the State agrees with the app, the handshake never hits missing responses, and recovery completes. |
| `BlockExecRemoteOrder.cfg` | violation | A remote app that survives a node crash gets `InitChain` again, or `BeginBlock` inside an open block (finding). |
| `MCE2EApp.cfg` | pass | The app holds restore chunks only while a restore is in progress, and never a complete set (`TypeOK`). Restore and execution keep the app's values equal to the chain's at its height. Every snapshot matches the chain. The wrapped retain height never prunes the last RetainBlocks blocks. The snapshots come from the peer's store through `ListSnapshots` and `LoadSnapshotChunk`. State sync always ends with the node executing blocks at the snapshot's height, unless the app crashes (`StateSyncEnds`). |
| `MCE2EAppPanic.cfg` | violation | Offer, abort, offer again: the second `OfferSnapshot` panics (finding). |
| `MCE2EAppQuery.cfg` | violation | `Query` returns an uncommitted value labelled with the committed height (finding). |
| `MCValUpdates.cfg` | pass | For every iteration order of the configured map, the validator set after `InitChain` and each `EndBlock` equals an order-free reading of the configuration. The node stops exactly when that reading says the configuration is erroneous: a key that is not base64, a key of the wrong length, two strings naming one key, or a total power of 0. |
| `Results.cfg` | pass | The hashes of two replicas agree exactly when the deterministic fields agree. Each proof verifies its own result and no other. |
| `MCMockClient.cfg` | pass | Only transactions accepted by CheckTx are delivered, each once, and every accepted one is eventually delivered. |
| `MCMockClientOrder.cfg` | violation | An async broadcast's goroutine delivers after a later `BroadcastTxCommit` (finding). |

Every property of a passing run has a mutant in `PROJECT.json`. A mutant is a plausible bug in a mapped definition, such as a dropped case, an off-by-one or a missing reset, and TLC finds the property violated under it.

## Bounds

- **AppConns:**
  - all four creator kinds, so every client can fail or crash;
  - a gRPC and an unknown server transport, so the server may never exist, may fail to listen, or may stop at any point of `OnStart`.
- **Consensus:**
  - four validators of equal power with one faulty: the smallest set where f = 1 and 2f+1 quorums overlap;
  - rounds 0 and 1, so a lock from round 0 meets a round-1 polka;
  - two blocks, interchangeable, so symmetry over them is sound;
  - a Byzantine proposer in round 0 that proposes both blocks, and an honest proposer in round 1, so a lock taken in round 0 meets a proposal for the other block.
- **BlockExec:**
  - three heights, so the app can be ahead of the State, and the mock replay and the real replay both happen after blocks have already been executed normally;
  - two transactions per block, so a crash can fall between two `DeliverTx` calls, leaving a remote app inside a block;
  - three crashes, so a crash can hit the recovery from an earlier crash, and that recovery can be interrupted again;
  - local and remote apps;
  - an app that persists its state on every `Commit`. The e2e app's `PersistInterval` (`app.go:32`) would let a restarted app fall several blocks behind the store; that replay of more than one block is not modelled.
- **E2EApp:**
  - four heights and a snapshot every two heights in two chunks, so restores from heights 2 and 4 are reachable, each in more than one chunk;
  - one serving peer that runs ahead of or alongside the node, so the node can list snapshots before the peer has taken any, or before the peer has taken all of them;
  - RetainBlocks = 3, so the first commits compute a negative retain height;
  - 5-bit integers, so the wrap of `uint64(h) - uint64(RetainBlocks) + 1` is represented.
- **ValUpdates:**
  - two heights after `InitChain`, and up to two updates per height;
  - powers 0 and 1, so an update can remove a validator and the set can become empty;
  - five key strings: two valid keys, one key of the wrong length, one string that is not base64, and a second spelling of a valid key (`DecodeString` skips `\r` and `\n`). Every error path is therefore reachable, and so are two orders of the same map.
- **Results:** up to three transactions, an odd count that gives an unbalanced tree; two codes, two gas values and two logs.
- **MockClient:** three caller calls over four transactions. These include a valid tx, a second value for the same key, an empty key and a tx without `=`.

## Fairness

- `AppConns`:
  - weak fairness of `KillTMOnClientError`, a goroutine blocked on channels that the Go scheduler runs once a channel is closed;
  - weak fairness of `OpenClient` and `OpenClientFails`, because `OnStart` runs straight through. A retried dial disables `OpenClient` rather than taking a step.
  - weak fairness of `ServerOnStart`: the app's main starts the server it built.
  - Crashes and server stops are not fair.
- `BlockExec` and `E2EApp`: weak fairness of the node's steps. A running node keeps executing; crashes and aborts are not fair.
- `E2EApp` also assumes:
  - weak fairness of the serving peer's blocks;
  - strong fairness of offering a listed snapshot. The syncer offers a snapshot it has discovered, even if it keeps refreshing its list in between.
- `MockClient`: weak fairness of each DeliverTx goroutine.
- `Consensus` is checked for safety only.

## Not modelled

These parts are listed in `PROJECT.json` under components:

- protobuf conversions other than `PB2TM.ValidatorUpdates`;
- the socket server (its source is not in `src/`; it is taken to behave like the gRPC server);
- `MSMInfo` of the RPC core, a pass-through;
- the null indexer;
- the CLI (`main.go`, `commands/root.go`): configuration and logger set-up at start;
- the RPC core evidence, dev and health endpoints: they hand work to components outside the sources or return fixed results;
- the event names and payload types of `types/events.go`: the model does not publish events;
- the counter test driver;
- the fuzz target;
- the P2P mock reactor.

They are I/O, wiring or stateless code. `MSMMock` returns canned responses and has no state.

## Plan for later work

1. Several serving peers, and parallel chunk fetching with the chunk queue's reordering and retries.
2. A validator-set module covering proposer-priority rotation across rounds, to drop the fixed proposer of `MCConsensus`.
3. Liveness of consensus after GST, which needs timeout fairness.
4. A multi-height composition of `Consensus` with `BlockExec`.
5. The local client's mutex shared by four connections, and the query connection racing the consensus connection (the `Query` finding at node level).
6. Chunk reordering and duplication in state sync, against `ApplySnapshotChunk`, which ignores the chunk index.
