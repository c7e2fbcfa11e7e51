---------------------------- MODULE MariaDBProxy ----------------------------
(***************************************************************************)
(* One instance of the MariaDB audit proxy of src/server/proxy: the accept *)
(* loop, one goroutine per client connection, the fields of the proxy that *)
(* the goroutines share (connections, dataSource, sshConfig, connManager), *)
(* the session records and the SQL log they write, Stop, the operations of *)
(* the session API on those records, and a crash of the server process     *)
(* followed by the repair of the records at the next start.                *)
(*                                                                         *)
(* A connection and its session record have one identifier: the program    *)
(* draws a fresh UUID for each.                                            *)
(***************************************************************************)
EXTENDS Naturals, FiniteSets

CONSTANTS Conns,        \* client connections (and their session records)
          Assets,       \* database assets
          NoAsset,      \* the zero CoreDataSource, or "no asset recorded"
          Gateways,     \* SSH gateways
          NoGateway,    \* the zero SSHConfig
          GatewayOf,    \* GatewayOf[a]: the access gateway of asset a
          MaxLive,      \* connections the licence allows (3 in the code)
          MaxCmds,      \* bound on the statements a client sends
          Faults        \* database statements that may fail

ASSUME ConstantsOK ==
  /\ IsFiniteSet(Conns)
  /\ NoAsset \notin Assets
  /\ NoGateway \notin Gateways
  /\ GatewayOf \in [Assets -> Gateways \cup {NoGateway}]
  /\ MaxLive \in Nat
  /\ MaxCmds \in Nat
  /\ Faults \subseteq {"create", "update", "log"}

VARIABLES
  up,           \* the server process runs
  listener,     \* mp.listener # nil and open
  loop,         \* the accept loop: "off", "running" or "dead"
  stop,         \* Stop(): "none", "closing", "waiting" or "stopped"
  wg,           \* counter of mp.connManager
  connections,  \* keys of mp.connections
  dataSource,   \* mp.dataSource, written by every handler
  sshConfig,    \* mp.sshConfig, written by every handler
  pc,           \* where the goroutine of each connection is
  sock,         \* the client's socket: "none", "open" or "closed"
  want,         \* handler local: the asset the client logged in for
  asset,        \* session.AssetId of the in-memory session
  target,       \* handler local: what createMariaDBClient* connects to
  row,          \* status of the session record in the database
  rowAsset,     \* asset of the session record in the database
  ran,          \* statements executed on the backend, by kind
  logged        \* statements recorded in sql_logs

proxyVars   == <<up, listener, loop, stop, wg, connections>>
sharedVars  == <<dataSource, sshConfig>>
localVars   == <<want, asset, target>>
recordVars  == <<row, rowAsset>>
sqlVars     == <<ran, logged>>
vars == <<proxyVars, sharedVars, pc, sock, localVars, recordVars, sqlVars>>

-----------------------------------------------------------------------------
Kinds == {"sql", "ai"}
Present == {"connecting", "connected", "disconnected"}

NoTarget == [ds |-> NoAsset, ssh |-> NoGateway]
Targets  == [ds : Assets \cup {NoAsset}, ssh : Gateways \cup {NoGateway}]

\* The accept loop holds the connection.
InLoop == {"admitting", "creating", "registering"}
\* The handler runs the body of handleConnection.
Serving == {"serve", "ai", "log"}
InBody == {"handshake", "ssh", "source", "record", "choose", "direct",
           "tunnel", "connect", "dial", "license"} \cup Serving
\* Between AddConnection and the deferred delete.
Mapped == InBody \cup {"failing"}
\* Added to connManager and not taken off it yet, or ever.
Counted == {"creating", "registering", "stuck"} \cup Mapped
\* The handler is past the deferred connManager.Done.
Ending == {"detached", "failed"}
\* The goroutine is over, was never started, or died with the process.
Over == {"none", "refused", "done", "gone"}
Places == InLoop \cup Counted \cup Ending \cup Over

Go(c, p) == pc' = [pc EXCEPT ![c] = p]

\* Altered: an upsert, which brings a deleted record back.
UpsertRow(c, status, a) ==
  /\ row' = [row EXCEPT ![c] = status]
  /\ rowAsset' = [rowAsset EXCEPT ![c] = IF a = NoAsset THEN @ ELSE a]

\* SessionRepository.UpdateById: gorm's Updates writes the fields that are
\* not zero, and touches nothing when the record has been deleted.
UpdateRow(c, status, a) ==
  IF row[c] \in Present
    THEN /\ row' = [row EXCEPT ![c] = status]
         /\ rowAsset' = [rowAsset EXCEPT ![c] = IF a = NoAsset THEN @ ELSE a]
    ELSE UNCHANGED recordVars

\* The statement either runs or, when the database may fail it, does not.
UpdateOrFail(c, status, a) ==
  \/ UpdateRow(c, status, a)
  \/ "update" \in Faults /\ UNCHANGED recordVars

Init ==
  /\ up = TRUE /\ listener = FALSE /\ loop = "off" /\ stop = "none"
  /\ wg = 0 /\ connections = {}
  /\ dataSource = NoAsset /\ sshConfig = NoGateway
  /\ pc = [c \in Conns |-> "none"] /\ sock = [c \in Conns |-> "none"]
  /\ want = [c \in Conns |-> NoAsset] /\ asset = [c \in Conns |-> NoAsset]
  /\ target = [c \in Conns |-> NoTarget]
  /\ row = [c \in Conns |-> "none"]
  /\ rowAsset = [c \in Conns |-> NoAsset]
  /\ ran = [c \in Conns |-> [k \in Kinds |-> 0]]
  /\ logged = [c \in Conns |-> 0]

-----------------------------------------------------------------------------
(* The accept loop.                                                        *)

\* Start: listen, make the map of connections, spawn the accept loop.
Start ==
  /\ up /\ stop = "none" /\ loop = "off"
  /\ listener' = TRUE /\ loop' = "running" /\ connections' = {}
  /\ UNCHANGED <<up, stop, wg, sharedVars, pc, sock, localVars, recordVars, sqlVars>>

LoopFree == loop = "running" /\ \A c \in Conns : pc[c] \notin InLoop

\* Accept returns a connection; allowIP lets it in or it is closed at once.
Accept(c) ==
  /\ LoopFree /\ listener /\ pc[c] = "none"
  /\ \/ Go(c, "admitting") /\ sock' = [sock EXCEPT ![c] = "open"]
     \/ Go(c, "refused") /\ sock' = [sock EXCEPT ![c] = "closed"]
  /\ UNCHANGED <<proxyVars, sharedVars, localVars, recordVars, sqlVars>>

\* Altered: the connection is never added to the wait group.
AdmitUncounted(c) ==
  /\ pc[c] = "admitting" /\ Go(c, "creating")
  /\ UNCHANGED <<proxyVars, sharedVars, sock, localVars, recordVars, sqlVars>>

\* connManager.Add(1): nothing tests that Stop has not been called meanwhile.
Admit(c) ==
  /\ pc[c] = "admitting"
  /\ wg' = wg + 1 /\ Go(c, "creating")
  /\ UNCHANGED <<up, listener, loop, stop, connections, sharedVars, sock,
                 localVars, recordVars, sqlVars>>

\* SessionRepository.Create; on an error the accept loop itself returns.
CreateRow(c) ==
  /\ pc[c] = "creating"
  /\ \/ /\ Go(c, "registering")
        /\ row' = [row EXCEPT ![c] = "connecting"]
        /\ UNCHANGED loop
     \/ /\ "create" \in Faults
        /\ Go(c, "stuck") /\ loop' = "dead"
        /\ UNCHANGED row
  /\ UNCHANGED <<up, listener, stop, wg, connections, sharedVars, sock,
                 localVars, rowAsset, sqlVars>>

\* AddConnection, and the goroutine of the handler is spawned.
Register(c) ==
  /\ pc[c] = "registering"
  /\ connections' = connections \cup {c} /\ Go(c, "handshake")
  /\ UNCHANGED <<up, listener, loop, stop, wg, sharedVars, sock, localVars,
                 recordVars, sqlVars>>

\* Accept fails on the closed listener: the context is cancelled, or
\* mp.listener is nil and the recovered panic ends the loop.
LoopEnd ==
  /\ LoopFree /\ ~listener /\ stop # "none"
  /\ loop' = "dead"
  /\ UNCHANGED <<up, listener, stop, wg, connections, sharedVars, pc, sock,
                 localVars, recordVars, sqlVars>>

-----------------------------------------------------------------------------
(* The handler of one connection.                                          *)

BodyUnchanged == UNCHANGED <<proxyVars, sharedVars, sock, recordVars, sqlVars>>

\* MySQL handshake and login; then the login policy of the user.  A refused
\* user has his asset noted in the session before the error is returned.
Handshake(c) ==
  /\ pc[c] = "handshake"
  /\ \/ Go(c, "failing") /\ UNCHANGED <<want, asset>>
     \/ /\ sock[c] = "open"
        /\ \E a \in Assets :
             /\ want' = [want EXCEPT ![c] = a]
             /\ \/ Go(c, "ssh") /\ UNCHANGED asset
                \/ Go(c, "failing") /\ asset' = [asset EXCEPT ![c] = a]
  /\ UNCHANGED target /\ BodyUnchanged

\* The gateway of the asset goes to the field all handlers share.
WriteSshConfig(c) ==
  /\ pc[c] = "ssh"
  /\ \/ Go(c, "source") /\ sshConfig' = GatewayOf[want[c]]
     \/ GatewayOf[want[c]] # NoGateway /\ Go(c, "failing") /\ UNCHANGED sshConfig
  /\ UNCHANGED <<proxyVars, dataSource, sock, localVars, recordVars, sqlVars>>

\* So do the address and the credentials of the asset.
WriteDataSource(c) ==
  /\ pc[c] = "source"
  /\ dataSource' = want[c] /\ Go(c, "record")
  /\ UNCHANGED <<proxyVars, sshConfig, sock, localVars, recordVars, sqlVars>>

\* The session record becomes Connected and names the asset.
Record(c) ==
  /\ pc[c] = "record"
  /\ asset' = [asset EXCEPT ![c] = want[c]]
  /\ \/ UpdateRow(c, "connected", want[c]) /\ Go(c, "choose")
     \/ "update" \in Faults /\ UNCHANGED recordVars /\ Go(c, "failing")
  /\ UNCHANGED <<proxyVars, sharedVars, sock, want, target, sqlVars>>

\* mp.sshConfig is read again to choose between the tunnel and the network.
ChooseRoute(c) ==
  /\ pc[c] = "choose"
  /\ Go(c, IF sshConfig # NoGateway THEN "tunnel" ELSE "direct")
  /\ UNCHANGED localVars /\ BodyUnchanged

\* createMariaDBClient reads mp.dataSource, createMariaDBClientUseSocks also
\* mp.sshConfig, which may have become zero: then ssh.Dial has no host.
ReadTarget(c) ==
  /\ \/ /\ pc[c] = "direct" /\ Go(c, "connect")
        /\ target' = [target EXCEPT ![c] = [ds |-> dataSource, ssh |-> NoGateway]]
     \/ /\ pc[c] = "tunnel" /\ Go(c, "dial")
        /\ target' = [target EXCEPT ![c] = [ds |-> dataSource, ssh |-> sshConfig]]
  /\ UNCHANGED <<want, asset>> /\ BodyUnchanged

\* The direct client is retried for ever; a failed tunnel ends the handler.
Connected(c) ==
  /\ \/ pc[c] = "connect"
     \/ pc[c] = "dial" /\ target[c].ssh # NoGateway
  /\ Go(c, "license")
  /\ UNCHANGED localVars /\ BodyUnchanged

DialFails(c) ==
  /\ pc[c] = "dial" /\ Go(c, "failing")
  /\ UNCHANGED localVars /\ BodyUnchanged

\* Altered: one connection too many.
CheckLicenseOffByOne(c) ==
  /\ pc[c] = "license"
  /\ Go(c, IF Cardinality(connections) > MaxLive + 1 THEN "failing" ELSE "serve")
  /\ UNCHANGED localVars /\ BodyUnchanged

\* CheckLicense counts the map, in which this connection already is.
CheckLicense(c) ==
  /\ pc[c] = "license"
  /\ Go(c, IF Cardinality(connections) > MaxLive THEN "failing" ELSE "serve")
  /\ UNCHANGED localVars /\ BodyUnchanged

\* processCommand: the statement runs on the backend before it is logged.
\* A statement marked "-- ai#" runs the model's answer instead and has no log.
Execute(c, k) ==
  /\ pc[c] = "serve" /\ sock[c] = "open"
  /\ ran[c]["sql"] + ran[c]["ai"] < MaxCmds
  /\ ran' = [ran EXCEPT ![c][k] = @ + 1]
  /\ Go(c, IF k = "sql" THEN "log" ELSE "ai")
  /\ UNCHANGED <<proxyVars, sharedVars, sock, localVars, recordVars, logged>>

\* The backend's error on an AI statement ends the handler; an answer that
\* cannot be written to the client does not, its error is shadowed.
AnswerAi(c) ==
  /\ pc[c] = "ai" /\ (Go(c, "serve") \/ Go(c, "failing"))
  /\ UNCHANGED localVars /\ BodyUnchanged

\* Altered: a failed log entry is only reported, the handler serves on.
LogSqlIgnoringError(c) ==
  /\ pc[c] = "log" /\ Go(c, "serve")
  /\ \/ logged' = [logged EXCEPT ![c] = @ + 1]
     \/ "log" \in Faults /\ UNCHANGED logged
  /\ UNCHANGED <<proxyVars, sharedVars, sock, localVars, recordVars, ran>>

\* SqlLogRepository.Create: its error replaces that of the client's answer
\* and ends the handler.
LogSql(c) ==
  /\ pc[c] = "log"
  /\ \/ Go(c, "serve") /\ logged' = [logged EXCEPT ![c] = @ + 1]
     \/ "log" \in Faults /\ Go(c, "failing") /\ UNCHANGED logged
  /\ UNCHANGED <<proxyVars, sharedVars, sock, localVars, recordVars, ran>>

\* ReadPacket fails once the client is gone; Ping, once the backend is.
ReadFails(c) ==
  /\ pc[c] = "serve" /\ Go(c, "failing")
  /\ UNCHANGED localVars /\ BodyUnchanged

\* The locals of handleConnection die with it.
DropLocals(c) == /\ want' = [want EXCEPT ![c] = NoAsset]
                 /\ target' = [target EXCEPT ![c] = NoTarget]

\* Altered: Done is forgotten.
DetachNoDone(c) ==
  /\ pc[c] = "failing"
  /\ connections' = connections \ {c}
  /\ sock' = [sock EXCEPT ![c] = "closed"] /\ Go(c, "detached")
  /\ DropLocals(c)
  /\ UNCHANGED <<up, listener, loop, stop, wg, sharedVars, asset, recordVars, sqlVars>>

\* Altered: the deferred function does not get to the record.
DetachOnly(c) ==
  /\ pc[c] = "failing"
  /\ connections' = connections \ {c} /\ wg' = wg - 1
  /\ sock' = [sock EXCEPT ![c] = "closed"] /\ Go(c, "done")
  /\ DropLocals(c)
  /\ UNCHANGED <<up, listener, loop, stop, sharedVars, asset, recordVars, sqlVars>>

\* The deferred function: off the map, off the wait group, socket closed ...
Detach(c) ==
  /\ pc[c] = "failing"
  /\ connections' = connections \ {c} /\ wg' = wg - 1
  /\ sock' = [sock EXCEPT ![c] = "closed"] /\ Go(c, "detached")
  /\ DropLocals(c)
  /\ UNCHANGED <<up, listener, loop, stop, sharedVars, asset, recordVars, sqlVars>>

\* ... and only then the record becomes Disconnected.
EndRow(c) ==
  /\ pc[c] = "detached"
  /\ UpdateOrFail(c, "disconnected", asset[c]) /\ Go(c, "failed")
  /\ UNCHANGED <<proxyVars, sharedVars, sock, localVars, sqlVars>>

\* Altered: the error branch takes the connection off the wait group again.
ReportErrorDone(c) ==
  /\ pc[c] = "failed"
  /\ UpdateOrFail(c, "disconnected", asset[c]) /\ Go(c, "done")
  /\ asset' = [asset EXCEPT ![c] = NoAsset]
  /\ connections' = connections \ {c} /\ wg' = wg - 1
  /\ UNCHANGED <<up, listener, loop, stop, sharedVars, sock, want, target,
                 sqlVars>>

\* The caller writes the record again with the error (and a failure entry
\* in sql_logs), then removes the connection from the map once more.
ReportError(c) ==
  /\ pc[c] = "failed"
  /\ UpdateOrFail(c, "disconnected", asset[c]) /\ Go(c, "done")
  /\ asset' = [asset EXCEPT ![c] = NoAsset]
  /\ connections' = connections \ {c}
  /\ UNCHANGED <<up, listener, loop, stop, wg, sharedVars, sock, want, target,
                 sqlVars>>

-----------------------------------------------------------------------------
(* Stop, the client, the session API, and the death of the process.        *)

StopClose ==
  /\ up /\ stop = "none" /\ listener
  /\ listener' = FALSE /\ stop' = "closing"
  /\ UNCHANGED <<up, loop, wg, connections, sharedVars, pc, sock, localVars,
                 recordVars, sqlVars>>

StopCancel ==
  /\ stop = "closing" /\ stop' = "waiting"
  /\ UNCHANGED <<up, listener, loop, wg, connections, sharedVars, pc, sock,
                 localVars, recordVars, sqlVars>>

\* Altered: Stop does not wait for the handlers.
StopReturnAtOnce ==
  /\ stop = "waiting" /\ stop' = "stopped"
  /\ UNCHANGED <<up, listener, loop, wg, connections, sharedVars, pc, sock,
                 localVars, recordVars, sqlVars>>

\* connManager.Wait() returns.
StopReturn ==
  /\ stop = "waiting" /\ wg = 0 /\ stop' = "stopped"
  /\ UNCHANGED <<up, listener, loop, wg, connections, sharedVars, pc, sock,
                 localVars, recordVars, sqlVars>>

\* The server sees it at its next read; what the client sent before counts as
\* read before.
ClientCloses(c) ==
  /\ sock[c] = "open" /\ sock' = [sock EXCEPT ![c] = "closed"]
  /\ UNCHANGED <<proxyVars, sharedVars, pc, localVars, recordVars, sqlVars>>

\* SessionDisconnectEndpoint: the session is not in GlobalSessionManager, so
\* CloseSessionById comes down to the transaction of DisDBSess.
ForceDisconnect(c) ==
  /\ up /\ row[c] \in {"connecting", "connected"}
  /\ row' = [row EXCEPT ![c] = IF @ = "connecting" THEN "deleted" ELSE "disconnected"]
  /\ UNCHANGED <<proxyVars, sharedVars, pc, sock, localVars, rowAsset, sqlVars>>

\* DeleteByIds, for the delete and clear endpoints and the ticker.
DeleteRow(c) ==
  /\ up /\ row[c] \in Present
  /\ row' = [row EXCEPT ![c] = "deleted"]
  /\ UNCHANGED <<proxyVars, sharedVars, pc, sock, localVars, rowAsset, sqlVars>>

\* The process dies, for instance of a concurrent write to the map that
\* handlers change without the mutex.
Crash ==
  /\ up /\ up' = FALSE
  /\ listener' = FALSE /\ loop' = "off" /\ stop' = "none"
  /\ wg' = 0 /\ connections' = {}
  /\ dataSource' = NoAsset /\ sshConfig' = NoGateway
  /\ pc' = [c \in Conns |-> IF pc[c] = "none" THEN "none" ELSE "gone"]
  /\ sock' = [c \in Conns |-> IF sock[c] = "none" THEN "none" ELSE "closed"]
  /\ want' = [c \in Conns |-> NoAsset] /\ asset' = [c \in Conns |-> NoAsset]
  /\ target' = [c \in Conns |-> NoTarget]
  /\ UNCHANGED <<recordVars, sqlVars>>

\* Altered: the records are not repaired.
RestartUnrepaired ==
  /\ ~up /\ up' = TRUE
  /\ UNCHANGED <<listener, loop, stop, wg, connections, sharedVars, pc, sock,
                 localVars, recordVars, sqlVars>>

\* FixSessionState, before the proxy can be started.
Restart ==
  /\ ~up /\ up' = TRUE
  /\ row' = [c \in Conns |-> IF row[c] = "connected" THEN "disconnected" ELSE row[c]]
  /\ UNCHANGED <<listener, loop, stop, wg, connections, sharedVars, pc, sock,
                 localVars, rowAsset, sqlVars>>

-----------------------------------------------------------------------------
Loop(c) == Accept(c) \/ Admit(c) \/ CreateRow(c) \/ Register(c)

Handle(c) ==
  \/ Handshake(c) \/ WriteSshConfig(c) \/ WriteDataSource(c) \/ Record(c)
  \/ ChooseRoute(c) \/ ReadTarget(c) \/ DialFails(c) \/ CheckLicense(c)
  \/ AnswerAi(c) \/ LogSql(c) \/ Detach(c) \/ EndRow(c) \/ ReportError(c)

Steps ==
  \/ Start \/ LoopEnd \/ StopClose \/ StopCancel \/ StopReturn
  \/ \E c \in Conns :
       \/ Loop(c) \/ Handle(c) \/ Connected(c) \/ ReadFails(c)
       \/ \E k \in Kinds : Execute(c, k)
       \/ ClientCloses(c) \/ ForceDisconnect(c) \/ DeleteRow(c)

Next == Steps \/ Crash \/ Restart

Spec == Init /\ [][Next]_vars

(***************************************************************************)
(* Goroutines that are not blocked run on; the backend answers a client    *)
(* that is retried for ever sooner or later; and every client leaves.      *)
(***************************************************************************)
GoroutinesRun ==
  /\ WF_vars(LoopEnd) /\ WF_vars(StopCancel) /\ WF_vars(StopReturn)
  /\ \A c \in Conns : /\ WF_vars(Admit(c) \/ CreateRow(c) \/ Register(c))
                       /\ WF_vars(Handle(c))
                       /\ WF_vars(sock[c] = "closed" /\ ReadFails(c))
BackendAnswers == \A c \in Conns : WF_vars(Connected(c))
ClientsLeave   == \A c \in Conns : WF_vars(ClientCloses(c))

\* The process is not killed, the backend comes back.
LiveSpec == Init /\ [][Steps]_vars /\ GoroutinesRun /\ ClientsLeave /\ BackendAnswers

-----------------------------------------------------------------------------
(* Properties.                                                             *)

\* Every variable has its type: in particular the counter of connManager
\* never falls below zero, which makes Go's WaitGroup panic (the one Done of
\* a connection is in handleConnection, its error branch has none).
TypeOK ==
  /\ up \in BOOLEAN /\ listener \in BOOLEAN
  /\ loop \in {"off", "running", "dead"}
  /\ stop \in {"none", "closing", "waiting", "stopped"}
  /\ wg \in Nat /\ connections \subseteq Conns
  /\ dataSource \in Assets \cup {NoAsset}
  /\ sshConfig \in Gateways \cup {NoGateway}
  /\ pc \in [Conns -> Places]
  /\ sock \in [Conns -> {"none", "open", "closed"}]
  /\ want \in [Conns -> Assets \cup {NoAsset}]
  /\ asset \in [Conns -> Assets \cup {NoAsset}]
  /\ target \in [Conns -> Targets]
  /\ row \in [Conns -> Present \cup {"none", "deleted"}]
  /\ rowAsset \in [Conns -> Assets \cup {NoAsset}]
  /\ ran \in [Conns -> [Kinds -> Nat]]
  /\ logged \in [Conns -> Nat]

\* Stop waits for connManager: its counter is the number of connections
\* admitted and not detached, plus those a failed insert left behind
\* (Add in acceptConnections, Done in the deferred function).
WaitGroupExact == wg = Cardinality({c \in Conns : pc[c] \in Counted})

\* However many clients log in at once, CheckLicense never lets more than
\* the licensed number execute statements at a time.
LicenceCap == Cardinality({c \in Conns : pc[c] \in Serving}) <= MaxLive

\* The session list tells the truth while the database works: a record is
\* Connected only while its handler is running, across kills and restarts
\* (handleConnection's deferred update, FixSessionState).
ConnectedIsLive ==
  up /\ "update" \notin Faults =>
    \A c \in Conns : row[c] = "connected" =>
      pc[c] \in (InBody \cup {"failing", "detached"})
                  \ {"handshake", "ssh", "source", "record"}

\* At most one executed SQL statement of a connection is missing from
\* sql_logs, and after a missing one the connection executes nothing more
\* (processCommand returns the error of SqlLogRepository.Create).
AuditKeepsUp ==
  \A c \in Conns :
    /\ ran[c]["sql"] - logged[c] \in {0, 1}
    /\ pc[c] \in {"serve", "ai"} => ran[c]["sql"] = logged[c]

\* When Stop returns, no handler is inside handleConnection.
StopDrains ==
  [][stop = "waiting" /\ stop' = "stopped" =>
       \A c \in Conns : pc'[c] \notin Mapped]_vars

\* The records of the proxy, whatever the administrator deletes or closes
\* meanwhile and wherever the process dies, keep the promise of AuditedSession.
Abs == INSTANCE AuditedSession WITH Sessions <- Conns
KeepsPromise == Abs!Spec

\* A client that has left does not stay listed as connecting or connected.
SessionEnds ==
  \A c \in Conns : sock[c] = "closed" ~> row[c] \notin {"connecting", "connected"}

\* Stop returns once it has been called.
StopReturns == stop = "closing" ~> stop = "stopped"

-----------------------------------------------------------------------------
(* What the documentation and the comments say, and the code does not do.  *)

\* README.md:57, "Audit database connection logs and user-asset
\* interactions": statements run on the asset the session record names.
RunsOnRecordedAsset ==
  \A c \in Conns : pc[c] \in Serving => target[c].ds = asset[c]

\* api/session.go:145, the administrator has closed the session by force:
\* a session listed as disconnected executes nothing.
DisconnectedIsQuiet ==
  \A c \in Conns : row[c] = "disconnected" => pc[c] \notin Serving
=============================================================================
