------------------------------ MODULE AppConns ------------------------------
(***************************************************************************)
(* The multiplexed application connection of src/proxy/multi_app_conn.go  *)
(* and the client creators of src/proxy/client.go.                         *)
(*                                                                         *)
(* multiAppConn.OnStart opens four msm clients one after the other (query, *)
(* snapshot, mempool, consensus).  A failure to create or start one stops  *)
(* every client already assigned and makes OnStart return the error.  When *)
(* all four are up, the goroutine killTMOnClientError waits on the Quit    *)
(* channels of the four clients and kills the node if the first client to  *)
(* quit reports an error.  OnStop stops every assigned client.             *)
(*                                                                         *)
(* A client is abstracted to its life-cycle: not assigned to its field     *)
(* ("none"), running, quit after Stop() with Error() = nil ("quitOk"), or  *)
(* quit after a transport failure with Error() # nil ("quitErr").          *)
(*                                                                         *)
(* A remote creator dials the app's MSM server (src/msm/server): built by  *)
(* NewServer, listening after OnStart, closing every connection on OnStop. *)
(* A client connects only to a listening server.                           *)
(***************************************************************************)
EXTENDS Naturals, Sequences, FiniteSets

CONSTANTS
  Creators,         \* the client creators DefaultClientCreator can return
  ServerTransports  \* transports the app's NewServer may be given

\* The four logical connections, in the order OnStart opens them.
connQuery == "query"
connSnapshot == "snapshot"
connMempool == "mempool"
connConsensus == "consensus"
StartOrder == << connQuery, connSnapshot, connMempool, connConsensus >>
Conns == {connQuery, connSnapshot, connMempool, connConsensus}

(***************************************************************************)
(* The kinds of ClientCreator.  "local": NewLocalClientCreator, an         *)
(* in-process app behind one mutex; its clients never fail.  A remote      *)
(* creator wraps msmcli.NewClient: "remote_retry" has mustConnect = FALSE  *)
(* (DefaultClientCreator), so Start keeps dialling until it connects;      *)
(* "remote_must" has mustConnect = TRUE, so Start fails when the dial      *)
(* fails; "remote_bad" names an unknown transport, so NewClient fails.     *)
(***************************************************************************)
\* NewLocalClientCreator: NewMSMClient wraps the app in a local client and
\* never returns an error.
LocalCreators == {"local"}
\* NewRemoteClientCreator: NewMSMClient calls msmcli.NewClient with the
\* creator's transport and mustConnect, and returns its error.
RemoteCreators == {"remote_retry", "remote_must", "remote_bad"}
AllCreators == LocalCreators \cup RemoteCreators
ASSUME Creators \subseteq AllCreators /\ Creators # {}

(***************************************************************************)
(* NewServer: a socket or gRPC server, not yet listening; any other        *)
(* transport is an error, and the app process exits without a server.      *)
(***************************************************************************)
NewServer(transport) ==
  IF transport \in {"socket", "grpc"} THEN "new" ELSE "failed"

VARIABLES
  creator,   \* the ClientCreator the multiAppConn was built with
  svc,       \* BaseService state: "new", "starting", "started", "failed", "stopped"
  next,      \* index in StartOrder of the next client OnStart opens
  client,    \* client[c]: "none", "running", "quitOk" or "quitErr"
  watcher,   \* killTMOnClientError goroutine: "off", "waiting", "done"
  killed,    \* tmos.Kill() has been called
  server     \* the app's server: "none" (local app), "new", "listening",
             \* "failed" (NewServer or Listen failed) or "stopped"

vars == << creator, svc, next, client, watcher, killed, server >>

ClientStates == {"none", "running", "quitOk", "quitErr"}

TypeOK ==
  /\ creator \in Creators
  /\ svc \in {"new", "starting", "started", "failed", "stopped"}
  /\ next \in 1..Len(StartOrder) + 1
  /\ client \in [Conns -> ClientStates]
  \* OnStart assigns the client fields in StartOrder: exactly the clients
  \* before the next one to open have been assigned.
  /\ \A i \in 1..Len(StartOrder) : (client[StartOrder[i]] # "none") = (i < next)
  /\ watcher \in {"off", "waiting", "done"}
  /\ killed \in BOOLEAN
  /\ server \in {"none", "new", "listening", "failed", "stopped"}

\* Quit() of a client is closed once it has stopped, whatever the reason.
Quit(c) == client[c] \in {"quitOk", "quitErr"}

(***************************************************************************)
(* NewMultiAppConn: the service is built with a creator and no clients.    *)
(***************************************************************************)
Init ==
  /\ creator \in Creators
  /\ svc = "new"
  /\ next = 1
  /\ client = [c \in Conns |-> "none"]
  /\ watcher = "off"
  /\ killed = FALSE
  /\ server \in IF creator \in LocalCreators THEN {"none"}
                ELSE {NewServer(t) : t \in ServerTransports}

\* msmClientFor succeeds: NewMSMClient returned a client and Start returned
\* nil.  NewClient fails for an unknown transport; every other creator
\* yields a client whose Start either connects or, with mustConnect =
\* FALSE, keeps retrying (a stutter) until it does.  A remote client
\* connects only while the app's server listens.
\* Mutant: a retrying dial loop that never returns, even once it connects.
ClientForCanSucceedNoRetryExit ==
  /\ creator \notin {"remote_bad", "remote_retry"}
  /\ creator \in LocalCreators \/ server = "listening"

ClientForCanSucceed ==
  /\ creator # "remote_bad"
  /\ creator \in LocalCreators \/ server = "listening"

\* msmClientFor fails: NewMSMClient returns an error, or Start does (a
\* remote client with mustConnect that cannot dial).
ClientForCanFail == creator \in {"remote_bad", "remote_must"}

\* Mutant: stopAllClients forgets the snapshot client.
StopAllClientsButSnapshot(cl) ==
  [c \in Conns |-> IF cl[c] = "running" /\ c # connSnapshot THEN "quitOk" ELSE cl[c]]

(***************************************************************************)
(* stopAllClients: Stop() on every client field that is not nil.  Stop on  *)
(* a client that has already quit returns an error that is only logged.    *)
(***************************************************************************)
StopAllClients(cl) ==
  [c \in Conns |-> IF cl[c] = "running" THEN "quitOk" ELSE cl[c]]

Start == svc = "new" /\ svc' = "starting" /\ UNCHANGED << creator, next, client, watcher, killed, server >>

(***************************************************************************)
(* One step of OnStart: msmClientFor(c) succeeds and the client is         *)
(* assigned to its field; after the consensus client, OnStart launches     *)
(* killTMOnClientError and returns nil.                                    *)
(***************************************************************************)
\* Mutant: the snapshot block of OnStart sets snapshotConn but forgets
\* app.snapshotConnClient = c, so the running client is never tracked.
OpenClientNotAssigningSnapshot ==
  LET c == StartOrder[next] IN
  /\ svc = "starting"
  /\ ClientForCanSucceed
  /\ client' = IF c = connSnapshot THEN client ELSE [client EXCEPT ![c] = "running"]
  /\ next' = next + 1
  /\ IF next = Len(StartOrder)
       THEN svc' = "started" /\ watcher' = "waiting"
       ELSE UNCHANGED << svc, watcher >>
  /\ UNCHANGED << creator, killed, server >>

OpenClient ==
  LET c == StartOrder[next] IN
  /\ svc = "starting"
  /\ ClientForCanSucceed
  /\ client' = [client EXCEPT ![c] = "running"]
  /\ next' = next + 1
  /\ IF next = Len(StartOrder)
       THEN svc' = "started" /\ watcher' = "waiting"
       ELSE UNCHANGED << svc, watcher >>
  /\ UNCHANGED << creator, killed, server >>

(***************************************************************************)
(* One step of OnStart: msmClientFor(c) fails.  For the query client,      *)
(* the first one, OnStart returns the error at once; for every later one   *)
(* it calls stopAllClients first.  The client that failed is never         *)
(* assigned, so it is not among those stopped.                             *)
(***************************************************************************)
OpenClientFails ==
  /\ svc = "starting"
  /\ ClientForCanFail
  /\ client' = IF StartOrder[next] = connQuery THEN client ELSE StopAllClients(client)
  /\ svc' = "failed"
  /\ UNCHANGED << creator, next, watcher, killed, server >>

(***************************************************************************)
(* The transport of a running remote client fails: the socket client       *)
(* records the error and then stops, closing Quit().  A local client's     *)
(* Error() is always nil and it never stops on its own.                    *)
(***************************************************************************)
ClientCrash(c) ==
  /\ creator \in RemoteCreators
  /\ client[c] = "running"
  /\ client' = [client EXCEPT ![c] = "quitErr"]
  /\ UNCHANGED << creator, svc, next, watcher, killed, server >>

\* Mutant: the select has no case for the snapshot client.
KillTMOnClientErrorNoSnapshotCase ==
  /\ watcher = "waiting"
  /\ \E c \in Conns \ {connSnapshot} :
       /\ Quit(c)
       /\ killed' = (killed \/ client[c] = "quitErr")
  /\ watcher' = "done"
  /\ UNCHANGED << creator, svc, next, client, server >>

\* Mutant: every case reads the consensus client's Error().
KillTMOnClientErrorConsensusErrOnly ==
  /\ watcher = "waiting"
  /\ \E c \in Conns :
       /\ Quit(c)
       /\ killed' = (killed \/ client[connConsensus] = "quitErr")
  /\ watcher' = "done"
  /\ UNCHANGED << creator, svc, next, client, server >>

(***************************************************************************)
(* killTMOnClientError: the select takes one of the Quit channels that are *)
(* closed (Go picks among ready cases at random) and kills the process if  *)
(* that client's Error() is not nil.  Either way the goroutine returns.    *)
(***************************************************************************)
KillTMOnClientError ==
  /\ watcher = "waiting"
  /\ \E c \in Conns :
       /\ Quit(c)
       /\ killed' = (killed \/ client[c] = "quitErr")
  /\ watcher' = "done"
  /\ UNCHANGED << creator, svc, next, client, server >>

(***************************************************************************)
(* OnStop (from Stop() on a started service, which is also what the node   *)
(* does on the SIGTERM that tmos.Kill sends): stopAllClients.              *)
(***************************************************************************)
OnStop ==
  /\ svc = "started"
  /\ svc' = "stopped"
  /\ client' = StopAllClients(client)
  /\ UNCHANGED << creator, next, watcher, killed, server >>

(***************************************************************************)
(* GRPCServer.OnStart (the socket server's is alike): Listen, then serve   *)
(* in a goroutine; a Listen error is returned and the app exits.           *)
(***************************************************************************)
ServerOnStart ==
  /\ server = "new"
  /\ server' \in {"listening", "failed"}
  /\ UNCHANGED << creator, svc, next, client, watcher, killed >>

(***************************************************************************)
(* GRPCServer.OnStop: server.Stop() closes the listener and every open     *)
(* connection, so each running client sees a transport error and quits.   *)
(***************************************************************************)
ServerOnStop ==
  /\ server = "listening"
  /\ server' = "stopped"
  /\ client' = [c \in Conns |-> IF client[c] = "running" THEN "quitErr" ELSE client[c]]
  /\ UNCHANGED << creator, svc, next, watcher, killed >>

Next ==
  \/ Start
  \/ OpenClient
  \/ OpenClientFails
  \/ \E c \in Conns : ClientCrash(c)
  \/ KillTMOnClientError
  \/ OnStop
  \/ ServerOnStart
  \/ ServerOnStop

(***************************************************************************)
(* The watcher goroutine is scheduled whenever one of its channels is      *)
(* ready; OnStart, once called, runs on (a retrying dial is a stutter, not *)
(* a step); the app process starts the server it has built.                *)
(***************************************************************************)
Fairness ==
  /\ WF_vars(KillTMOnClientError)
  /\ WF_vars(OpenClient) /\ WF_vars(OpenClientFails)
  /\ WF_vars(ServerOnStart)

Spec == Init /\ [][Next]_vars /\ Fairness

-----------------------------------------------------------------------------
(***************************************************************************)
(* Properties.                                                             *)
(***************************************************************************)

(* A failed OnStart leaves no client running: every client opened before   *)
(* the one that failed has been stopped by stopAllClients, whichever of    *)
(* the four failed and whatever crashed meanwhile.                         *)
NoClientLeftRunningAfterFailedStart ==
  svc = "failed" => \A c \in Conns : client[c] # "running"

(* Fail-fast: once the service has started, a transport failure of any of *)
(* the four clients leads to the process being killed, unless the node is *)
(* being stopped anyway (killTMOnClientError).                             *)
ClientErrorKillsNode ==
  \A c \in Conns :
    (svc = "started" /\ client[c] = "quitErr") ~> (killed \/ svc = "stopped")

(* The watcher never gives up without killing the node while the service  *)
(* is still up: it returns quietly only on a client that quit through      *)
(* Stop(), which only OnStop or a failed OnStart calls.                    *)
WatcherQuietOnlyOnShutdown ==
  (watcher = "done" /\ ~killed) => svc = "stopped"

(* OnStart with a retrying creator does not hang while the app is there:   *)
(* the node finishes starting (or fails to) unless the app's server never  *)
(* comes up or goes away (client.go: mustConnect = false loops dialling).  *)
StartEndsWhileAppServes ==
  svc = "starting" ~> (svc \in {"started", "failed"} \/ server \in {"failed", "stopped"})

(* Fail-fast during start as well: a client that dies with an error while  *)
(* OnStart is still opening the others (spec 4.3: a fatal transport error *)
(* of any connection terminates the node) leads to the process being      *)
(* killed or OnStart failing, even if the app never comes back.            *)
ClientErrorDuringStartKillsNode ==
  \A c \in Conns :
    client[c] = "quitErr" ~> (killed \/ svc \in {"stopped", "failed"})
=============================================================================
