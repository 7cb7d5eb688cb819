------------------------------ MODULE BlockExec ------------------------------
(***************************************************************************)
(* Block execution against the application across node crashes.           *)
(*                                                                         *)
(* Node side (spec section 4.4; the state package is not among the source  *)
(* files): consensus saves the committed block, then ApplyBlock drives the *)
(* consensus connection of src/proxy/app_conn.go through BeginBlockSync,   *)
(* one DeliverTxAsync per transaction, EndBlockSync, saves the responses,  *)
(* calls CommitSync and saves the new State.  On restart the handshake     *)
(* asks the app for its height (Info), calls InitChainSync if the app is   *)
(* at height 0, and then either does nothing, applies the stored block, or *)
(* - when the app has committed a block the State has not recorded -       *)
(* replays it through mockProxyApp (src/consensus/replay_stubs.go), which  *)
(* answers from the saved responses so that the real app does not commit  *)
(* the block twice.                                                        *)
(*                                                                         *)
(* App side: the e2e application (src/test/e2e/app/app.go), a key/value    *)
(* store that persists its state on Commit.  An app running in the node's  *)
(* process ("local") restarts with the node; a "remote" app keeps running  *)
(* when the node crashes, and its own crash kills the node (AppConns).     *)
(*                                                                         *)
(* Heights are numbers; the app hash after committing height h is h (the   *)
(* app is deterministic), so a hash compares as its height.                *)
(***************************************************************************)
EXTENDS Naturals, Sequences

CONSTANTS
  AppModes,     \* subset of {"local", "remote"}
  MaxHeight,    \* blocks committed in a behaviour
  NTxs,         \* transactions per block
  MaxCrashes    \* node or app crashes in a behaviour

ASSUME AppModes \subseteq {"local", "remote"} /\ AppModes # {}
ASSUME MaxHeight \in Nat \ {0} /\ NTxs \in Nat /\ MaxCrashes \in Nat

Heights == 1..MaxHeight

VARIABLES
  appMode,       \* where the app runs
  \* node, persistent
  stateHeight,   \* State.LastBlockHeight of the saved State
  stateAppHash,  \* State.AppHash of the saved State
  storeHeight,   \* height of the block store
  savedResps,    \* heights whose MSMResponses have been saved
  genesisSaved,  \* the handshake has saved the State after InitChain
  \* node, volatile
  pc,            \* what the node does next
  txIdx,         \* DeliverTx calls made for the current block
  crashes,       \* crashes so far
  \* application
  appHeight,     \* committed height (persisted by Commit)
  appPhase,      \* "new" (no InitChain yet), "idle" or "inBlock"
  appInits,      \* InitChain calls this app process has received
  appCommits,    \* appCommits[h]: Commit calls the app received for h
  orderOk        \* every call this app process received came in order

vars == << appMode, stateHeight, stateAppHash, storeHeight, savedResps,
           genesisSaved, pc, txIdx, crashes, appHeight, appPhase, appInits,
           appCommits, orderOk >>

\* Mutant: the responses are saved after the app has committed.
ApplyBlockStepsCommitFirst == << "begin", "deliver", "commit", "saveResp", "saveState" >>

(***************************************************************************)
(* The steps of ApplyBlock after the block is stored, in code order.       *)
(***************************************************************************)
ApplyBlockSteps == << "begin", "deliver", "saveResp", "commit", "saveState" >>

\* The step after s in ApplyBlockSteps; after the last one the node is idle.
StepAfter(s) ==
  LET i == CHOOSE j \in DOMAIN ApplyBlockSteps : ApplyBlockSteps[j] = s
  IN IF i = Len(ApplyBlockSteps) THEN "idle" ELSE ApplyBlockSteps[i + 1]

PCs == {"down", "handshake", "init", "saveGenesis", "replay", "idle", "failed"}
         \cup {ApplyBlockSteps[i] : i \in DOMAIN ApplyBlockSteps}

TypeOK ==
  /\ appMode \in AppModes
  /\ stateHeight \in 0..MaxHeight /\ stateAppHash \in 0..MaxHeight
  /\ storeHeight \in 0..MaxHeight /\ savedResps \subseteq Heights
  /\ genesisSaved \in BOOLEAN
  /\ pc \in PCs /\ txIdx \in 0..NTxs /\ crashes \in 0..MaxCrashes
  /\ appHeight \in 0..MaxHeight /\ appPhase \in {"new", "idle", "inBlock"}
  /\ appInits \in 0..MaxCrashes + 1
  /\ appCommits \in [Heights -> 0..MaxCrashes + 1] /\ orderOk \in BOOLEAN

\* A fresh node: nothing stored, the handshake runs first.
Init ==
  /\ appMode \in AppModes
  /\ stateHeight = 0 /\ stateAppHash = 0 /\ storeHeight = 0
  /\ savedResps = {} /\ genesisSaved = FALSE
  /\ pc = "handshake" /\ txIdx = 0 /\ crashes = 0
  /\ appHeight = 0 /\ appPhase = "new" /\ appInits = 0
  /\ appCommits = [h \in Heights |-> 0] /\ orderOk = TRUE

node == << stateHeight, stateAppHash, storeHeight, savedResps, genesisSaved >>
app == << appHeight, appPhase, appInits, appCommits, orderOk >>

(***************************************************************************)
(* Application handlers (e2e Application), as seen by the app process.     *)
(***************************************************************************)
\* InitChain: allowed once, on a new app.
AppInitChain ==
  /\ appInits' = appInits + 1
  /\ orderOk' = (orderOk /\ appPhase = "new")
  /\ appPhase' = "idle"
  /\ UNCHANGED << appHeight, appCommits >>

\* BeginBlock opens a block on an app that is between blocks.
AppBeginBlock ==
  /\ orderOk' = (orderOk /\ appPhase = "idle")
  /\ appPhase' = "inBlock"
  /\ UNCHANGED << appHeight, appInits, appCommits >>

\* DeliverTx / EndBlock: inside an open block (state.Set, validatorUpdates).
AppInBlockCall ==
  /\ orderOk' = (orderOk /\ appPhase = "inBlock")
  /\ UNCHANGED << appHeight, appPhase, appInits, appCommits >>

\* Commit of block h: state.Commit persists the block, the app's height
\* goes up by one and the new hash is returned.
AppCommit(h) ==
  /\ orderOk' = (orderOk /\ appPhase = "inBlock")
  /\ appHeight' = appHeight + 1
  /\ appCommits' = [appCommits EXCEPT ![h] = @ + 1]
  /\ appPhase' = "idle"
  /\ UNCHANGED appInits

(***************************************************************************)
(* Node steps.                                                             *)
(***************************************************************************)
\* Consensus commits the next block: SaveBlock, then ApplyBlock starts.
CommitNextBlock ==
  /\ pc = "idle"
  /\ storeHeight < MaxHeight
  /\ storeHeight' = storeHeight + 1
  /\ pc' = ApplyBlockSteps[1]
  /\ UNCHANGED << appMode, stateHeight, stateAppHash, savedResps, genesisSaved,
                  txIdx, crashes >> /\ UNCHANGED app

\* BeginBlockSync.
BeginBlock ==
  /\ pc = "begin"
  /\ AppBeginBlock
  /\ txIdx' = 0
  /\ pc' = StepAfter("begin")
  /\ UNCHANGED << appMode, crashes >> /\ UNCHANGED node

\* Mutant: the loop over the block's transactions runs once too often.
DeliverTxPastEnd ==
  /\ pc = "deliver"
  /\ txIdx <= NTxs
  /\ AppInBlockCall
  /\ txIdx' = txIdx + 1
  /\ UNCHANGED << appMode, pc, crashes >> /\ UNCHANGED node

\* DeliverTxAsync for the next transaction of the block.
DeliverTx ==
  /\ pc = "deliver"
  /\ txIdx < NTxs
  /\ AppInBlockCall
  /\ txIdx' = txIdx + 1
  /\ UNCHANGED << appMode, pc, crashes >> /\ UNCHANGED node

\* EndBlockSync, once every transaction is delivered.
EndBlock ==
  /\ pc = "deliver"
  /\ txIdx = NTxs
  /\ AppInBlockCall
  /\ pc' = StepAfter("deliver")
  /\ UNCHANGED << appMode, txIdx, crashes >> /\ UNCHANGED node

\* SaveMSMResponses for the block being applied.
SaveResponses ==
  /\ pc = "saveResp"
  /\ savedResps' = savedResps \cup {storeHeight}
  /\ pc' = StepAfter("saveResp")
  /\ UNCHANGED << appMode, stateHeight, stateAppHash, storeHeight, genesisSaved,
                  txIdx, crashes >> /\ UNCHANGED app

\* CommitSync.
CommitBlock ==
  /\ pc = "commit"
  /\ AppCommit(storeHeight)
  /\ pc' = StepAfter("commit")
  /\ UNCHANGED << appMode, txIdx, crashes >> /\ UNCHANGED node

\* The updated State, with the hash Commit returned, is saved.
SaveState ==
  /\ pc = "saveState"
  /\ stateHeight' = storeHeight
  /\ stateAppHash' = appHeight
  /\ pc' = StepAfter("saveState")
  /\ UNCHANGED << appMode, storeHeight, savedResps, genesisSaved, txIdx, crashes >>
  /\ UNCHANGED app

(***************************************************************************)
(* Handshake after (re)start: Info gives the app height; a new chain gets  *)
(* InitChain, then the State is saved.                                     *)
(***************************************************************************)
Handshake ==
  /\ pc = "handshake"
  /\ pc' = IF appHeight = 0 THEN "init" ELSE "replay"
  /\ UNCHANGED << appMode, txIdx, crashes >> /\ UNCHANGED node /\ UNCHANGED app

HandshakeInitChain ==
  /\ pc = "init"
  /\ AppInitChain
  /\ pc' = IF stateHeight = 0 THEN "saveGenesis" ELSE "replay"
  /\ UNCHANGED << appMode, txIdx, crashes >> /\ UNCHANGED node

SaveGenesisState ==
  /\ pc = "saveGenesis"
  /\ genesisSaved' = TRUE
  /\ pc' = "replay"
  /\ UNCHANGED << appMode, stateHeight, stateAppHash, storeHeight, savedResps,
                  txIdx, crashes >> /\ UNCHANGED app

(***************************************************************************)
(* mockProxyApp replay: BeginBlock is the BaseApplication no-op, DeliverTx *)
(* returns the saved DeliverTxs[txCount] and counts, EndBlock resets the   *)
(* count and returns the saved EndBlock, Commit returns the app hash the   *)
(* handshake got from Info.  The State is updated from the saved           *)
(* responses and saved; the real app is not called.  Without saved         *)
(* responses LoadMSMResponses fails and the node panics.                   *)
(***************************************************************************)
\* Mutant: the mock is built with the hash of the saved State.
MockReplayAppHashStale == stateAppHash

MockReplayAppHash == appHeight

ReplayWithMockApp ==
  /\ IF storeHeight \in savedResps
       THEN /\ stateHeight' = storeHeight
            /\ stateAppHash' = MockReplayAppHash
            /\ pc' = "idle"
       ELSE /\ pc' = "failed"
            /\ UNCHANGED << stateHeight, stateAppHash >>
  /\ UNCHANGED << storeHeight, savedResps, genesisSaved >>

\* Mutant: a block the app already has is applied to the real app again.
ReplayBlocksNoMock ==
  /\ pc = "replay"
  /\ \/ /\ storeHeight = stateHeight /\ appHeight = stateHeight
        /\ pc' = "idle" /\ UNCHANGED node
     \/ /\ storeHeight = stateHeight + 1 /\ appHeight \in {stateHeight, storeHeight}
        /\ pc' = ApplyBlockSteps[1] /\ UNCHANGED node
  /\ UNCHANGED << appMode, txIdx, crashes >> /\ UNCHANGED app

\* Mutant: no case for a node that is already in sync.
ReplayBlocksNoSyncedCase ==
  /\ pc = "replay"
  /\ \/ /\ storeHeight = stateHeight + 1 /\ appHeight = stateHeight
        /\ pc' = ApplyBlockSteps[1] /\ UNCHANGED node
     \/ /\ storeHeight = stateHeight + 1 /\ appHeight = storeHeight
        /\ ReplayWithMockApp
  /\ UNCHANGED << appMode, txIdx, crashes >> /\ UNCHANGED app

(***************************************************************************)
(* ReplayBlocks, for an app that persists every commit: the app is at the *)
(* State's height or one block ahead, the store at most one block ahead.  *)
(***************************************************************************)
ReplayBlocks ==
  /\ pc = "replay"
  /\ \/ /\ storeHeight = stateHeight /\ appHeight = stateHeight
        /\ pc' = "idle" /\ UNCHANGED node
     \/ /\ storeHeight = stateHeight + 1 /\ appHeight = stateHeight
        /\ pc' = ApplyBlockSteps[1] /\ UNCHANGED node
     \/ /\ storeHeight = stateHeight + 1 /\ appHeight = storeHeight
        /\ ReplayWithMockApp
  /\ UNCHANGED << appMode, txIdx, crashes >> /\ UNCHANGED app

(***************************************************************************)
(* Crashes.  The node process dies at any point: volatile state is lost.  *)
(* A local app dies with it (its uncommitted block is lost, its committed *)
(* height persists); a remote app keeps running.  A remote app can also   *)
(* crash, which kills the node through the multiplexer.                    *)
(***************************************************************************)
AppRestarted ==
  /\ appPhase' = IF appHeight = 0 THEN "new" ELSE "idle"
  /\ appInits' = 0 /\ orderOk' = TRUE
  /\ UNCHANGED << appHeight, appCommits >>

NodeCrash ==
  /\ pc \notin {"down", "failed"}
  /\ crashes < MaxCrashes
  /\ crashes' = crashes + 1
  /\ pc' = "down"
  /\ IF appMode = "local" THEN AppRestarted ELSE UNCHANGED app
  /\ UNCHANGED << appMode, txIdx >> /\ UNCHANGED node

AppCrash ==
  /\ appMode = "remote"
  /\ pc \notin {"down", "failed"}
  /\ crashes < MaxCrashes
  /\ crashes' = crashes + 1
  /\ pc' = "down"
  /\ AppRestarted
  /\ UNCHANGED << appMode, txIdx >> /\ UNCHANGED node

\* The operator restarts the node.
Restart ==
  /\ pc = "down"
  /\ pc' = "handshake"
  /\ UNCHANGED << appMode, txIdx, crashes >> /\ UNCHANGED node /\ UNCHANGED app

NodeSteps ==
  \/ CommitNextBlock \/ BeginBlock \/ DeliverTx \/ EndBlock \/ SaveResponses
  \/ CommitBlock \/ SaveState \/ Handshake \/ HandshakeInitChain
  \/ SaveGenesisState \/ ReplayBlocks

Next == NodeSteps \/ NodeCrash \/ AppCrash \/ Restart

\* The node's own goroutine keeps running while it is up; crashes and
\* restarts are not forced.
Spec == Init /\ [][Next]_vars /\ WF_vars(NodeSteps)

-----------------------------------------------------------------------------
(***************************************************************************)
(* Properties.                                                             *)
(***************************************************************************)

(* The real app commits every height at most once, across every crash     *)
(* point and restart (mockProxyApp replays what the app already has).     *)
AppCommitsEachHeightOnce == \A h \in Heights : appCommits[h] <= 1

(* Whenever the node is ready for the next block, its saved State and the *)
(* app agree on the height and on the app hash.                            *)
StateAgreesWithApp ==
  pc = "idle" => stateHeight = appHeight /\ stateAppHash = appHeight

(* The handshake never finds the app ahead of the State without the       *)
(* responses it needs to replay (the responses are saved before Commit).  *)
HandshakeNeverPanics == pc # "failed"

(* A restarted node finishes its handshake and recovery: it gets back to  *)
(* being ready for the next block unless it crashes again.                 *)
RecoveryCompletes == (pc = "handshake") ~> (pc \in {"idle", "down"})

(* The app process receives InitChain at most once and the block calls in *)
(* the order BeginBlock, DeliverTx*, EndBlock, Commit (spec section 4.3).  *)
AppCallOrder == orderOk /\ appInits <= 1
=============================================================================
