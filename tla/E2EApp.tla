------------------------------ MODULE E2EApp ---------------------------------
(***************************************************************************)
(* The end-to-end test application of src/test/e2e/app/app.go: a key/value *)
(* store that executes one block after another, takes a state-sync         *)
(* snapshot every SnapshotInterval heights, returns a retain height on      *)
(* Commit, answers queries, and restores itself from a snapshot offered by *)
(* state sync (OfferSnapshot, then ApplySnapshotChunk once per chunk).     *)
(*                                                                         *)
(* The caller is the node (spec section 4.3, "Snapshot connection"; the    *)
(* statesync package is not among the source files): a fresh node either  *)
(* executes blocks from genesis or first restores a snapshot, applying its *)
(* chunks in index order; it may abandon a snapshot whose chunks it cannot *)
(* fetch and offer another one.  Queries arrive on the Query connection at *)
(* any time, concurrently with block execution.                            *)
(*                                                                         *)
(* The snapshots come from a serving peer running the same application on *)
(* the same chain: its Commit stores them, its ListSnapshots lists them,   *)
(* its LoadSnapshotChunk returns their chunks.                             *)
(*                                                                         *)
(* A chunk carries its snapshot's height, its index and the snapshot's    *)
(* values; State.Import decodes the concatenation of the chunks of one     *)
(* snapshot, in order, and fails on anything else.                         *)
(***************************************************************************)
EXTENDS Integers, Sequences, SequencesExt

CONSTANTS
  Keys, Vals,        \* keys and values of the store
  NoVal,             \* the value of a key never set
  Txs,               \* Txs[h]: the <<key, value>> transaction of block h
  MaxHeight,         \* blocks in the chain
  SnapshotInterval,  \* cfg.SnapshotInterval
  RetainBlocks,      \* cfg.RetainBlocks
  NChunks,           \* chunks of a snapshot (SnapshotStore.Create)
  Width,             \* bits of the uint64 / int64 arithmetic in Commit
  AllowAbort         \* the node may abandon a snapshot being restored

ASSUME /\ MaxHeight \in Nat \ {0} /\ SnapshotInterval \in Nat
       /\ RetainBlocks \in Nat /\ NChunks \in Nat \ {0}
       /\ Width \in Nat \ {0} /\ 2 * (MaxHeight + RetainBlocks) < 2^(Width - 1)
       /\ Txs \in [1..MaxHeight -> Keys \X Vals] /\ AllowAbort \in BOOLEAN

Heights == 0..MaxHeight
NoSnapshot == [height |-> -1, chunks |-> 0]

(***************************************************************************)
(* Fixed-width integers: uint64(x) and int64(u) with Width bits.           *)
(***************************************************************************)
Uint(x) == x % 2^Width
ToSigned(u) == IF u >= 2^(Width - 1) THEN u - 2^Width ELSE u
SignedRange == -(2^(Width - 1))..(2^(Width - 1) - 1)

\* The store after the blocks 1..h: what every correct replica holds.
RECURSIVE ChainValues(_)
ChainValues(h) ==
  IF h = 0 THEN [k \in Keys |-> NoVal]
  ELSE [ChainValues(h - 1) EXCEPT ![Txs[h][1]] = Txs[h][2]]

Stores == [Keys -> Vals \cup {NoVal}]
StoredSnapshots == [height : Heights, values : Stores]
Chunks == [height : Heights, index : 1..NChunks, values : Stores]

\* SnapshotStore.Create: a stored snapshot is cut into NChunks chunks.
ChunksOf(snap) ==
  [i \in 1..NChunks |-> [height |-> snap.height, index |-> i, values |-> snap.values]]

VARIABLES
  \* application (Application and its State)
  height,           \* state.Height: last committed height
  values,           \* state.Values
  snapshots,        \* SnapshotStore: set of [height, values]
  restoreSnapshot,  \* app.restoreSnapshot (NoSnapshot for nil)
  restoreChunks,    \* app.restoreChunks
  retainHeight,     \* RetainHeight of the last ResponseCommit
  panicked,         \* a handler panicked
  lastQuery,        \* the last ResponseQuery: [height, key, value]
  \* the serving peer's application
  peerHeight,       \* its state.Height
  peerValues,       \* its state.Values
  peerSnapshots,    \* its SnapshotStore
  \* node
  listed,           \* the snapshots the last ListSnapshots returned
  phase,            \* "offer", "restore", "verify", "blocks", "commit", "failed"
  offered,          \* the snapshot the node is restoring
  nextChunk         \* index of the next chunk the node applies

vars == << height, values, snapshots, restoreSnapshot, restoreChunks,
           retainHeight, panicked, lastQuery, peerHeight, peerValues,
           peerSnapshots, listed, phase, offered, nextChunk >>
peer == << peerHeight, peerValues, peerSnapshots >>
app == << height, values, snapshots, restoreSnapshot, restoreChunks,
          retainHeight, panicked, lastQuery >>

\* msm.Snapshot as the node and the app see it: height and chunk count.
Snapshots == [height : Heights, chunks : {NChunks}] \cup {NoSnapshot}

TypeOK ==
  /\ height \in Heights /\ values \in Stores /\ snapshots \subseteq StoredSnapshots
  /\ peerHeight \in Heights /\ peerValues \in Stores
  /\ peerSnapshots \subseteq StoredSnapshots /\ listed \subseteq Snapshots
  /\ restoreSnapshot \in Snapshots
  /\ restoreChunks \in Seq(Chunks)
  \* chunks are held only while a restore is in progress, and never all of
  \* them: the one that completes the snapshot imports and clears them.
  /\ restoreSnapshot = NoSnapshot => restoreChunks = << >>
  /\ Len(restoreChunks) < NChunks
  /\ retainHeight \in SignedRange /\ panicked \in BOOLEAN
  /\ lastQuery \in [height : Heights \cup {-1}, key : Keys, value : Vals \cup {NoVal}]
  /\ phase \in {"offer", "restore", "verify", "blocks", "commit", "failed"}
  /\ offered \in Snapshots /\ nextChunk \in 1..NChunks + 1

(***************************************************************************)
(* NewApplication with an empty state directory; the node either state     *)
(* syncs first or executes blocks from genesis (InitChain with no app      *)
(* state bytes imports nothing).                                           *)
(***************************************************************************)
Init ==
  /\ height = 0 /\ values = [k \in Keys |-> NoVal] /\ snapshots = {}
  /\ restoreSnapshot = NoSnapshot /\ restoreChunks = << >>
  /\ retainHeight = 0 /\ panicked = FALSE
  /\ lastQuery = [height |-> -1, key |-> CHOOSE k \in Keys : TRUE, value |-> NoVal]
  /\ peerHeight = 0 /\ peerValues = [k \in Keys |-> NoVal] /\ peerSnapshots = {}
  /\ listed = {}
  /\ phase \in {"offer", "blocks"} /\ offered = NoSnapshot /\ nextChunk = 1

\* A handler panics: the app process is gone, nothing else changes.
Panic ==
  /\ panicked' = TRUE
  /\ UNCHANGED << height, values, snapshots, restoreSnapshot, restoreChunks,
                  retainHeight, lastQuery >>

(***************************************************************************)
(* State sync.                                                             *)
(***************************************************************************)
\* Application.ListSnapshots of the peer: snapshots.List(), each with its
\* height and chunk count.
AppListSnapshots == {[height |-> x.height, chunks |-> NChunks] : x \in peerSnapshots}

\* The node asks the peer for its snapshots (ListSnapshotsSync on the
\* peer's Snapshot connection), as often as it likes while choosing one.
DiscoverSnapshots ==
  /\ phase = "offer"
  /\ listed' = AppListSnapshots
  /\ UNCHANGED << phase, offered, nextChunk >> /\ UNCHANGED app /\ UNCHANGED peer

\* OfferSnapshot: panics while another restore is in progress, otherwise
\* accepts the snapshot and starts with no chunks.
OfferSnapshot(s) ==
  /\ ~panicked /\ phase = "offer"
  /\ IF restoreSnapshot # NoSnapshot
       THEN Panic
       ELSE /\ restoreSnapshot' = s /\ restoreChunks' = << >>
            /\ UNCHANGED << height, values, snapshots, retainHeight, panicked, lastQuery >>
  /\ phase' = "restore" /\ offered' = s /\ nextChunk' = 1
  /\ UNCHANGED << listed >> /\ UNCHANGED peer

\* State.Import(h, bz) decodes the concatenated chunks without error only
\* when they are those of one snapshot in order.
ImportDecodes(chunks) == chunks = ChunksOf(chunks[1])

\* State.Import(h, bz): the height is h, the values are the decoded ones.
Import(h, chunks) ==
  /\ height' = h /\ values' = chunks[1].values
  /\ UNCHANGED << snapshots, retainHeight, panicked, lastQuery >>

\* Mutant: the snapshot is imported as if it were the genesis state.
ImportedHeightGenesis(s) == 0

ImportedHeight(s) == s.height

\* Mutant: the chunks are imported only once one more than Chunks arrived.
ChunksCompleteOneLate(chunks, s) == Len(chunks) = s.chunks + 1

ChunksComplete(chunks, s) == Len(chunks) = s.chunks

(***************************************************************************)
(* ApplySnapshotChunk: the chunk's index is ignored; it is appended, and   *)
(* once there are Chunks of them the state is imported and the restore     *)
(* ends.  The node applies its chunks in order and, after the last one,    *)
(* checks the app's height with Info.                                      *)
(***************************************************************************)
\* Application.LoadSnapshotChunk of the peer: snapshots.LoadChunk, which
\* the peer can always serve (its store never drops a snapshot).
AppLoadSnapshotChunk(h, i) ==
  ChunksOf(CHOOSE x \in peerSnapshots : x.height = h)[i]

\* Mutant: after the import, restoreSnapshot is cleared but restoreChunks
\* is not.
ApplySnapshotChunkKeepingChunks ==
  LET chunks == Append(restoreChunks, AppLoadSnapshotChunk(offered.height, nextChunk)) IN
  /\ ~panicked /\ phase = "restore" /\ nextChunk <= offered.chunks
  /\ IF restoreSnapshot = NoSnapshot
       THEN Panic
       ELSE IF ~ChunksComplete(chunks, restoreSnapshot)
         THEN /\ restoreChunks' = chunks
              /\ UNCHANGED << height, values, snapshots, restoreSnapshot,
                              retainHeight, panicked, lastQuery >>
         ELSE IF ImportDecodes(chunks)
           THEN /\ Import(ImportedHeight(restoreSnapshot), chunks)
                /\ restoreSnapshot' = NoSnapshot /\ restoreChunks' = chunks
           ELSE Panic
  /\ nextChunk' = nextChunk + 1
  /\ phase' = IF nextChunk = offered.chunks THEN "verify" ELSE "restore"
  /\ UNCHANGED << offered, listed >> /\ UNCHANGED peer

ApplySnapshotChunk ==
  LET chunks == Append(restoreChunks, AppLoadSnapshotChunk(offered.height, nextChunk)) IN
  /\ ~panicked /\ phase = "restore" /\ nextChunk <= offered.chunks
  /\ IF restoreSnapshot = NoSnapshot
       THEN Panic
       ELSE IF ~ChunksComplete(chunks, restoreSnapshot)
         THEN /\ restoreChunks' = chunks
              /\ UNCHANGED << height, values, snapshots, restoreSnapshot,
                              retainHeight, panicked, lastQuery >>
         ELSE IF ImportDecodes(chunks)
           THEN /\ Import(ImportedHeight(restoreSnapshot), chunks)
                /\ restoreSnapshot' = NoSnapshot /\ restoreChunks' = << >>
           ELSE Panic
  /\ nextChunk' = nextChunk + 1
  /\ phase' = IF nextChunk = offered.chunks THEN "verify" ELSE "restore"
  /\ UNCHANGED << offered, listed >> /\ UNCHANGED peer

\* The node abandons the snapshot (its chunks could not be fetched).
AbortRestore ==
  /\ AllowAbort /\ ~panicked /\ phase = "restore"
  /\ phase' = "offer"
  /\ UNCHANGED << offered, nextChunk, listed >> /\ UNCHANGED app /\ UNCHANGED peer

\* Application.Info: LastBlockHeight is int64(state.Height).
AppInfo == [lastBlockHeight |-> height]

\* After the last chunk the node compares Info's height with the snapshot's.
VerifyRestore ==
  /\ ~panicked /\ phase = "verify"
  /\ phase' = IF AppInfo.lastBlockHeight = offered.height THEN "blocks" ELSE "failed"
  /\ UNCHANGED << offered, nextChunk, listed >> /\ UNCHANGED app /\ UNCHANGED peer

(***************************************************************************)
(* Block execution.                                                        *)
(***************************************************************************)
\* DeliverTx of the block's transaction: state.Set(key, value).
DeliverTx ==
  LET tx == Txs[height + 1] IN
  /\ ~panicked /\ phase = "blocks" /\ height < MaxHeight
  /\ values' = [values EXCEPT ![tx[1]] = tx[2]]
  /\ phase' = "commit"
  /\ UNCHANGED << height, snapshots, restoreSnapshot, restoreChunks,
                  retainHeight, panicked, lastQuery, offered, nextChunk, listed >>
  /\ UNCHANGED peer

\* Mutant: the retain height keeps one block fewer than RetainBlocks.
CommitRetainHeightOffByOne(h) ==
  IF RetainBlocks > 0 THEN ToSigned(Uint(h - RetainBlocks)) ELSE 0

\* retainHeight = int64(height - RetainBlocks + 1), computed on uint64.
CommitRetainHeight(h) ==
  IF RetainBlocks > 0 THEN ToSigned(Uint(h - RetainBlocks + 1)) ELSE 0

\* At a multiple of SnapshotInterval, snapshots.Create(state) stores the
\* committed state under the new height.
CreateSnapshot(store, h, vals) ==
  IF SnapshotInterval > 0 /\ h % SnapshotInterval = 0
    THEN store \cup {[height |-> h, values |-> vals]}
    ELSE store

(***************************************************************************)
(* Commit: state.Commit advances the height and persists; at a multiple    *)
(* of SnapshotInterval a snapshot of the new state is stored; the retain   *)
(* height is returned with the hash.                                       *)
(***************************************************************************)
Commit ==
  /\ ~panicked /\ phase = "commit"
  /\ height' = height + 1
  /\ snapshots' = CreateSnapshot(snapshots, height + 1, values)
  /\ retainHeight' = CommitRetainHeight(height + 1)
  /\ phase' = "blocks"
  /\ UNCHANGED << values, restoreSnapshot, restoreChunks, panicked, lastQuery,
                  offered, nextChunk, listed >>
  /\ UNCHANGED peer

(***************************************************************************)
(* The serving peer executes the next block: DeliverTx and Commit of the   *)
(* same application, its snapshot store growing as the node's does.  Only  *)
(* the snapshot store is read by the node, and it changes at Commit, so    *)
(* the peer's block is one step.                                           *)
(***************************************************************************)
PeerBlock ==
  LET tx == Txs[peerHeight + 1]
      vals == [peerValues EXCEPT ![tx[1]] = tx[2]]
  IN /\ peerHeight < MaxHeight
     /\ peerValues' = vals /\ peerHeight' = peerHeight + 1
     /\ peerSnapshots' = CreateSnapshot(peerSnapshots, peerHeight + 1, vals)
     /\ UNCHANGED << listed, phase, offered, nextChunk >> /\ UNCHANGED app

\* Application.Query: the key's current value and state.Height.
AppQuery(k) == [height |-> height, key |-> k, value |-> values[k]]

\* The msm_query RPC (rpc/core MSMQuery): QuerySync on the Query
\* connection, whose response becomes the result; a dead app makes
\* QuerySync fail and the RPC return only the error.
MSMQuery(k) ==
  /\ ~panicked
  /\ lastQuery' = AppQuery(k)
  /\ UNCHANGED << height, values, snapshots, restoreSnapshot, restoreChunks,
                  retainHeight, panicked, phase, offered, nextChunk, listed >>
  /\ UNCHANGED peer

NodeSteps ==
  \/ DiscoverSnapshots
  \/ \E s \in listed : OfferSnapshot(s)
  \/ ApplySnapshotChunk \/ VerifyRestore \/ DeliverTx \/ Commit

Next == NodeSteps \/ PeerBlock \/ AbortRestore \/ \E k \in Keys : MSMQuery(k)

\* The node's state-sync and block-execution routines keep running, and
\* so does the serving peer's; the node offers a snapshot it has listed.
Spec == Init /\ [][Next]_vars /\ WF_vars(NodeSteps) /\ WF_vars(PeerBlock)
          /\ SF_vars(\E s \in listed : OfferSnapshot(s))

-----------------------------------------------------------------------------
(***************************************************************************)
(* Properties.                                                             *)
(***************************************************************************)

(* Between blocks, and as soon as a restore has imported its last chunk,  *)
(* the app holds exactly the chain's store at the height Info reports,     *)
(* whether it executed every block or restored a snapshot first, and      *)
(* every snapshot it stored on Commit is the chain's store at the          *)
(* snapshot's height (ApplySnapshotChunk, State.Import, Commit).          *)
ChainConsistent ==
  /\ phase \in {"verify", "blocks"} /\ ~panicked => values = ChainValues(height)
  /\ \A s \in snapshots \cup peerSnapshots : s.values = ChainValues(s.height)

(* The retain height returned by Commit, computed in unsigned arithmetic  *)
(* and converted to int64, never asks the node to prune a block the app    *)
(* wants kept: when positive it leaves exactly RetainBlocks blocks.        *)
RetainHeightKeepsRetainBlocks ==
  retainHeight > 0 => height - retainHeight + 1 = RetainBlocks

(* State sync never hangs: a node that starts by state syncing gets a      *)
(* snapshot from the serving peer (ListSnapshots, LoadSnapshotChunk),      *)
(* restores it, finds the app at the snapshot's height through Info and   *)
(* goes on executing blocks, unless the app crashes (ApplySnapshotChunk    *)
(* imports on the last chunk; OfferSnapshot panics after an abandoned      *)
(* restore).                                                               *)
StateSyncEnds ==
  (phase \in {"offer", "restore", "verify"}) ~> (phase = "blocks" \/ panicked)

(* The app never panics: in particular OfferSnapshot is never called       *)
(* while an earlier restore is still in progress.                          *)
NoPanic == ~panicked

(* A query's value is the value of the key at the height the response     *)
(* reports (msm_query returns what Application.Query reads: state.Values and state.Height).                    *)
QueryConsistent ==
  lastQuery.height >= 0 =>
    lastQuery.value = ChainValues(lastQuery.height)[lastQuery.key]
=============================================================================
